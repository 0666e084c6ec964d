--------------------------- MODULE BuddyRefinement ---------------------------
(***************************************************************************)
(* Proof that the buddy system implements the page allocator of module     *)
(* PageAllocator, for every number of threads, every aligned range and     *)
(* every largest order.                                                    *)
(*                                                                         *)
(* The hard step is the refusal: alloc_pages gives up when the lists from  *)
(* the wanted order upwards are empty, the abstract allocator only when no *)
(* aligned block of that order exists.  The two agree because merging is   *)
(* eager: whenever all frames of an aligned block are free, the block is   *)
(* inside one listed block.  That is inductive for any set of listed       *)
(* blocks, whatever the thread that holds buddy.lock has in its hands, and *)
(* is proved first about sets of blocks alone.                             *)
(***************************************************************************)
EXTENDS BuddyProofs, WellFoundedInduction

-----------------------------------------------------------------------------
(* Arithmetic of sizes.                                                    *)

\* The principle the proofs by induction rest on, stated for sets so that no
\* operator has to be instantiated.
LEMMA LeastMember ==
  ASSUME NEW T \in SUBSET Nat, T # {}
  PROVE  \E m \in T : \A k \in T : m <= k
<1> DEFINE R == OpToRel(<, Nat)
<1>1. \A x, y \in Nat : <<y, x>> \in R <=> y < x
  BY DEF OpToRel
<1>2. IsWellFoundedOn(R, Nat)
  BY NatLessThanWellFounded
<1> HIDE DEF R
<1>3. PICK m \in T : \A k \in T : ~ (<<k, m>> \in R)
  BY <1>2, WFMin
<1>4. ASSUME NEW k \in T PROVE m <= k
  <2>1. ~ (<<k, m>> \in R)
    BY <1>3
  <2>2. k \in Nat /\ m \in Nat
    OBVIOUS
  <2>3. ~ (k < m)
    BY <2>1, <2>2, <1>1
  <2> QED BY <2>2, <2>3
<1> QED BY <1>4

\* Quotient and remainder.
LEMMA Division ==
  ASSUME NEW x \in Nat, NEW y \in Nat \ {0}
  PROVE  /\ x \div y \in Nat /\ x % y \in Nat
         /\ x % y = x - y * (x \div y)
<1>1. x \div y \in Nat
  OBVIOUS
<1>2. x % y \in Nat
  OBVIOUS
<1>3. x % y = x - y * (x \div y)
  OBVIOUS
<1> QED BY <1>1, <1>2, <1>3

\* Products with a positive size are ordered as their factors.
LEMMA Scale ==
  ASSUME NEW s \in Nat \ {0}, NEW x \in Int, NEW y \in Int
  PROVE  /\ x * s \in Int /\ y * s \in Int
         /\ x * s < y * s <=> x < y
         /\ x * s <= y * s <=> x <= y
<1>1. x * s \in Int /\ y * s \in Int
  OBVIOUS
<1>2. x < y => x * s < y * s
  <2>1. x < y => (y - x) * s > 0
    OBVIOUS
  <2>2. (y - x) * s = y * s - x * s
    OBVIOUS
  <2> QED BY <2>1, <2>2, <1>1
<1>3. y < x => y * s < x * s
  <2>1. y < x => (x - y) * s > 0
    OBVIOUS
  <2>2. (x - y) * s = x * s - y * s
    OBVIOUS
  <2> QED BY <2>1, <2>2, <1>1
<1>4. x = y => x * s = y * s
  OBVIOUS
<1> QED BY <1>1, <1>2, <1>3, <1>4

\* A size divides every larger one.
LEMMA Divides ==
  ASSUME NEW a \in Orders, NEW b \in Orders, a <= b
  PROVE  \E k \in Nat \ {0} : 2^b = k * 2^a
<1> DEFINE Bad == {n \in Orders : a <= n /\ ~ \E k \in Nat \ {0} : 2^n = k * 2^a}
<1>1. Bad \in SUBSET Nat
  BY RangeAssumption DEF Orders
<1>2. SUFFICES ASSUME Bad # {} PROVE FALSE
  OBVIOUS
<1>3. PICK m \in Bad : \A n \in Bad : m <= n
  <2> HIDE DEF Bad
  <2> QED BY <1>1, <1>2, LeastMember
<1>4. m \in Orders /\ m \in Nat /\ a \in Nat /\ a <= m
  BY RangeAssumption DEF Orders
<1>5. 2^a \in Nat \ {0}
  BY ShiftAssumption
<1>6. m # a
  <2>1. 2^a = 1 * 2^a
    BY <1>5
  <2>2. \E k \in Nat \ {0} : 2^a = k * 2^a
    BY <2>1
  <2> QED BY <2>2
<1>7. m - 1 \in Orders /\ a <= m - 1 /\ m - 1 \notin Bad
  <2>1. m - 1 \in Orders /\ a <= m - 1
    BY <1>4, <1>6, RangeAssumption DEF Orders
  <2>2. m - 1 \notin Bad
    BY <1>3, <1>4
  <2> QED BY <2>1, <2>2
<1>8. PICK k \in Nat \ {0} : 2^(m - 1) = k * 2^a
  BY <1>7
<1>9. 2^m = 2^(m - 1) + 2^(m - 1)
  BY <1>4, <1>6, Size
<1>10. 2^m = (2 * k) * 2^a /\ 2 * k \in Nat \ {0}
  BY <1>5, <1>8, <1>9
<1> QED BY <1>10

\* A larger order is a larger size.
LEMMA Grows ==
  ASSUME NEW a \in Orders, NEW b \in Orders
  PROVE  /\ a < b <=> 2^a < 2^b
         /\ a <= b <=> 2^a <= 2^b
         /\ a = b <=> 2^a = 2^b
<1>1. \A x, y \in Orders : x < y => 2^x < 2^y
  <2> SUFFICES ASSUME NEW x \in Orders, NEW y \in Orders, x < y PROVE 2^x < 2^y
    OBVIOUS
  <2>1. x \in Int /\ y \in Int /\ x + 1 \in Orders /\ x + 1 <= y
    BY RangeAssumption DEF Orders
  <2>2. PICK k \in Nat \ {0} : 2^y = k * 2^(x + 1)
    BY <2>1, Divides
  <2>3. 2^x \in Nat \ {0} /\ 2^(x + 1) = 2^x + 2^x
    BY <2>1, Size, ShiftAssumption
  <2>4. k * 2^(x + 1) >= 2^(x + 1)
    <3>1. 1 * 2^(x + 1) <= k * 2^(x + 1)
      BY <2>3, Scale
    <3> QED BY <3>1, <2>3
  <2> QED BY <2>2, <2>3, <2>4
<1>2. a \in Int /\ b \in Int /\ 2^a \in Int /\ 2^b \in Int
  BY Size
<1>3. (a < b => 2^a < 2^b) /\ (b < a => 2^b < 2^a)
  BY <1>1
<1> QED BY <1>2, <1>3

-----------------------------------------------------------------------------
(* Natural blocks are nested or apart.                                     *)

Within(b, c) == c.page <= b.page /\ b.page + 2^b.order <= c.page + 2^c.order

\* What a natural block is, in one line of arithmetic.
LEMMA Extent ==
  ASSUME NEW b \in Block
  PROVE  /\ b.page \in Nat /\ b.page < NPages /\ b.order \in Orders /\ b.order \in Nat
         /\ 2^b.order \in Nat \ {0} /\ NPages \in Nat
         /\ Natural(b) => /\ b.page + 2^b.order <= NPages
                          /\ \E k \in Nat : b.page = k * 2^b.order
         /\ b = [page |-> b.page, order |-> b.order]
<1>1. b.page \in Nat /\ b.page < NPages /\ b.order \in Orders /\ b.order \in Nat
  BY Size, RangeAssumption DEF Orders
<1>2. 2^b.order \in Nat \ {0}
  BY <1>1, ShiftAssumption
<1>3. Natural(b) => /\ b.page + 2^b.order <= NPages
                    /\ \E k \in Nat : b.page = k * 2^b.order
  BY <1>1 DEF Natural
<1> QED BY <1>1, <1>2, <1>3, RangeAssumption DEF Block

\* Of two natural blocks that share a frame the smaller is inside the larger.
LEMMA Nested ==
  ASSUME NEW b \in Block, NEW c \in Block, Natural(b), Natural(c),
         b.order <= c.order, ~ Disjoint(b, c)
  PROVE  Within(b, c)
<1> DEFINE s == 2^b.order
           t == 2^c.order
<1>1. /\ b.page \in Nat /\ c.page \in Nat /\ s \in Nat \ {0} /\ t \in Nat \ {0}
      /\ b.order \in Orders /\ c.order \in Orders
  BY Extent
<1>2. PICK i \in Nat : b.page = i * s
  BY Extent
<1>3. PICK j \in Nat : c.page = j * t
  BY Extent
<1>4. PICK k \in Nat \ {0} : t = k * s
  BY <1>1, Divides
<1>5. b.page < c.page + t /\ c.page < b.page + s
  BY <1>1 DEF Disjoint
<1> HIDE DEF s, t
<1> DEFINE l == j * k
<1>6. l \in Nat /\ c.page = l * s /\ c.page + t = (l + k) * s /\ b.page + s = (i + 1) * s
  BY <1>1, <1>2, <1>3, <1>4
<1> HIDE DEF l
<1>7. i < l + k
  BY <1>1, <1>2, <1>5, <1>6, Scale
<1>8. l < i + 1
  BY <1>1, <1>5, <1>6, Scale
<1>9. l <= i /\ i + 1 <= l + k
  BY <1>6, <1>7, <1>8
<1>10. l * s <= i * s /\ (i + 1) * s <= (l + k) * s
  BY <1>1, <1>6, <1>9, Scale
<1>11. c.page <= b.page /\ b.page + s <= c.page + t
  BY <1>2, <1>6, <1>10
<1> QED BY <1>11 DEF Within, s, t

\* Blocks of one order that share a frame are the same.
LEMMA SameBlock ==
  ASSUME NEW b \in Block, NEW c \in Block, Natural(b), Natural(c),
         b.order = c.order, ~ Disjoint(b, c)
  PROVE  b = c
<1>1. Within(b, c) /\ Within(c, b)
  BY Nested, Extent DEF Disjoint
<1>2. b.page = c.page
  BY <1>1, Extent DEF Within
<1> QED BY <1>2, Extent

\* A block inside another has no larger an order, shares a frame with it, and
\* has all its frames in it.
LEMMA WithinOrder ==
  ASSUME NEW b \in Block, NEW c \in Block, Within(b, c)
  PROVE  /\ b.order <= c.order /\ ~ Disjoint(b, c)
         /\ \A i \in Frames : Covers(b, i) => Covers(c, i)
         /\ \A d \in Block : ~ Disjoint(b, d) => ~ Disjoint(c, d)
<1>1. 2^b.order <= 2^c.order
  BY Extent DEF Within
<1>2. b.order <= c.order
  BY <1>1, Grows, Extent
<1>3. ~ Disjoint(b, c)
  BY Extent DEF Within, Disjoint
<1>4. \A i \in Frames : Covers(b, i) => Covers(c, i)
  BY Extent, RangeAssumption DEF Within, Covers, Frames
<1>5. ASSUME NEW d \in Block, ~ Disjoint(b, d) PROVE ~ Disjoint(c, d)
  BY <1>5, Extent DEF Within, Disjoint
<1> QED BY <1>2, <1>3, <1>4, <1>5

\* A block covers its first frame, and a frame of two blocks is shared.
LEMMA Shared ==
  ASSUME NEW b \in Block
  PROVE  /\ b.page \in Frames /\ Covers(b, b.page)
         /\ \A c \in Block : \A i \in Frames : Covers(b, i) /\ Covers(c, i) => ~ Disjoint(b, c)
<1>1. b.page \in Frames /\ Covers(b, b.page)
  BY Extent DEF Covers, Block
<1>2. ASSUME NEW c \in Block, NEW i \in Frames, Covers(b, i), Covers(c, i)
      PROVE  ~ Disjoint(b, c)
  BY <1>2, Extent, RangeAssumption DEF Covers, Disjoint, Frames
<1> QED BY <1>1, <1>2

-----------------------------------------------------------------------------
(* Sets of free blocks in which nothing is left to merge.                  *)

\* The frame is in one of the blocks.
InSome(S, i) == \E f \in S : Covers(f, i)

\* Where a whole natural block is free, it is inside one free block: freeing
\* has merged all that can be merged.
EagerOn(S) ==
  \A b \in Block :
    Natural(b) /\ (\A i \in Frames : Covers(b, i) => InSome(S, i)) => \E f \in S : Within(b, f)

\* Natural blocks that do not overlap.
Apart(S) == /\ S \in SUBSET Block
            /\ \A b \in S : Natural(b)
            /\ \A b, c \in S : b # c => Disjoint(b, c)

\* Taking a free block leaves nothing to merge.
LEMMA TakeEager ==
  ASSUME NEW S, Apart(S), EagerOn(S), NEW d \in S
  PROVE  EagerOn(S \ {d})
<1> DEFINE R == S \ {d}
<1> SUFFICES ASSUME NEW b \in Block, Natural(b),
                    \A i \in Frames : Covers(b, i) => InSome(R, i)
             PROVE  \E f \in R : Within(b, f)
  BY DEF EagerOn
<1>1. \A i \in Frames : Covers(b, i) => InSome(S, i)
  BY DEF InSome
<1>2. PICK f \in S : Within(b, f)
  BY <1>1 DEF EagerOn
<1>3. PICK g \in R : Covers(g, b.page)
  BY Shared DEF InSome
<1>4. f \in Block /\ g \in Block /\ g \in S /\ b.page \in Frames
  BY Shared DEF Apart
<1>5. Covers(f, b.page)
  BY <1>2, <1>4, WithinOrder, Shared
<1>6. ~ Disjoint(f, g)
  BY <1>3, <1>4, <1>5, Shared
<1>7. f = g
  BY <1>4, <1>6 DEF Apart
<1> QED BY <1>2, <1>7

\* Listing a block whose buddy is not free leaves nothing to merge either: the
\* buddy would be inside a free block, which is the buddy itself or holds both.
LEMMA PutEager ==
  ASSUME NEW S, Apart(S), EagerOn(S), NEW c \in Block, Natural(c),
         \A f \in S : Disjoint(c, f),
         c.order < MAX_BUDDY_ORDER =>
           [page |-> BuddyIdx(c.page, c.order), order |-> c.order] \notin S
  PROVE  EagerOn(S \cup {c})
<1> DEFINE R == S \cup {c}
<1> SUFFICES ASSUME NEW b \in Block, Natural(b),
                    \A i \in Frames : Covers(b, i) => InSome(R, i)
             PROVE  \E f \in R : Within(b, f)
  BY DEF EagerOn
<1>1. CASE Disjoint(b, c)
  <2>1. \A i \in Frames : Covers(b, i) => InSome(S, i)
    BY <1>1, Shared DEF InSome
  <2> QED BY <2>1 DEF EagerOn
<1>2. CASE ~ Disjoint(b, c) /\ b.order <= c.order
  BY <1>2, Nested
<1>3. CASE ~ Disjoint(b, c) /\ ~ (b.order <= c.order)
  <2> DEFINE d == [page |-> BuddyIdx(c.page, c.order), order |-> c.order]
             m == [page |-> CombinedIdx(c.page, c.order), order |-> c.order + 1]
  <2>1. c.order < MAX_BUDDY_ORDER /\ m.order <= b.order
    BY <1>3, Extent, RangeAssumption DEF Orders
  <2>2. /\ d \in Block /\ m \in Block /\ Natural(m)
        /\ 2^m.order = 2^c.order + 2^c.order
        /\ \/ m.page = c.page /\ d.page = c.page + 2^c.order
           \/ m.page = d.page /\ d.page = c.page - 2^c.order
    BY <2>1, Buddies
  <2>3. d.order = c.order /\ m.order = c.order + 1 /\ d \notin S
    BY <2>1
  <2> HIDE DEF d, m
  <2>4. Natural(d)
    <3>1. PICK k \in Nat : c.page = k * 2^c.order
      BY Extent
    <3>2. \/ d.page = (k + 1) * 2^c.order
          \/ d.page = (k - 1) * 2^c.order
      <4>1. \A s \in Int : (k + 1) * s = k * s + s /\ (k - 1) * s = k * s - s
        OBVIOUS
      <4>2. 2^c.order \in Int
        BY Extent
      <4> QED BY <2>2, <3>1, <4>1, <4>2
    <3>3. PICK j \in Int : d.page = j * 2^c.order
      BY <3>1, <3>2
    <3>4. 0 <= j /\ j <= d.page
      <4>1. 0 * 2^c.order <= j * 2^c.order
        BY <2>2, <3>3, Extent
      <4>2. 0 <= j
        BY <4>1, Extent, Scale
      <4>3. j * 1 <= j * 2^c.order
        BY <4>2, Extent
      <4> QED BY <4>2, <4>3, <3>3, Extent
    <3>5. d.page + 2^d.order <= NPages
      BY <2>2, <2>3, Extent
    <3> QED BY <3>3, <3>4, <3>5, <2>2, <2>3, Extent DEF Natural
  <2>5. Within(c, m) /\ Within(d, m) /\ Disjoint(c, d)
    BY <2>2, <2>3, Extent DEF Within, Disjoint
  <2>6. Within(m, b)
    <3>1. ~ Disjoint(m, b)
      BY <1>3, <2>2, <2>5, WithinOrder, Extent DEF Disjoint
    <3> QED BY <3>1, <2>1, <2>2, Nested
  <2>7. \A i \in Frames : Covers(d, i) => InSome(S, i)
    <3> SUFFICES ASSUME NEW i \in Frames, Covers(d, i) PROVE InSome(S, i)
      OBVIOUS
    <3>1. Covers(m, i)
      BY <2>2, <2>5, WithinOrder
    <3>2. Covers(b, i)
      BY <3>1, <2>2, <2>6, WithinOrder
    <3>3. ~ Covers(c, i)
      BY <2>2, <2>5, Shared
    <3> QED BY <3>2, <3>3 DEF InSome
  <2>8. PICK f \in S : Within(d, f)
    BY <2>2, <2>4, <2>7 DEF EagerOn
  <2>9. f \in Block /\ Natural(f) /\ Disjoint(c, f)
    BY DEF Apart
  <2>10. ~ Disjoint(d, f) /\ d.order <= f.order
    BY <2>2, <2>8, <2>9, WithinOrder
  <2>11. CASE f.order = d.order
    <3>1. d = f
      BY <2>2, <2>4, <2>9, <2>10, <2>11, SameBlock
    <3> QED BY <3>1, <2>3
  <2>12. CASE f.order # d.order
    <3>1. m.order <= f.order
      <4>1. f.order \in Nat /\ c.order \in Nat
        BY <2>9, Extent
      <4> QED BY <2>3, <2>10, <2>12, <4>1
    <3>2. ~ Disjoint(m, f)
      BY <2>2, <2>5, <2>9, <2>10, WithinOrder
    <3>3. Within(m, f)
      BY <2>2, <2>9, <3>1, <3>2, Nested
    <3>4. ~ Disjoint(c, f)
      BY <2>2, <2>5, <2>9, <3>3, Extent DEF Within, Disjoint
    <3> QED BY <3>4, <2>9
  <2> QED BY <2>11, <2>12
<1> QED BY <1>1, <1>2, <1>3

\* Listing the upper half of a block whose lower half is in use merges nothing.
LEMMA HalfEager ==
  ASSUME NEW S, Apart(S), EagerOn(S), NEW b \in Block, Natural(b), b.order # 0,
         \A f \in S : Disjoint(b, f)
  PROVE  EagerOn(S \cup {[page |-> b.page + 2^(b.order - 1), order |-> b.order - 1]})
<1> DEFINE u == [page |-> b.page + 2^(b.order - 1), order |-> b.order - 1]
           R == S \cup {u}
<1>1. u \in Block /\ Natural(u) /\ 2^b.order = 2^u.order + 2^u.order
  BY Halves
<1>2. u.page = b.page + 2^u.order /\ u.order = b.order - 1
  OBVIOUS
<1> HIDE DEF u
<1> SUFFICES ASSUME NEW c \in Block, Natural(c),
                    \A i \in Frames : Covers(c, i) => InSome(R, i)
             PROVE  \E f \in R : Within(c, f)
  BY DEF EagerOn, u
<1>3. CASE Disjoint(c, u)
  <2>1. \A i \in Frames : Covers(c, i) => InSome(S, i)
    BY <1>1, <1>3, Shared DEF InSome
  <2> QED BY <2>1 DEF EagerOn
<1>4. CASE ~ Disjoint(c, u) /\ c.order <= u.order
  BY <1>1, <1>4, Nested
<1>5. CASE ~ Disjoint(c, u) /\ ~ (c.order <= u.order)
  <2>1. b.order <= c.order
    BY <1>1, <1>2, <1>5, Extent
  <2>2. ~ Disjoint(b, c)
    BY <1>1, <1>2, <1>5, Extent DEF Disjoint
  <2>3. Within(b, c)
    BY <2>1, <2>2, Nested
  <2>4. b.page \in Frames /\ Covers(b, b.page) /\ Covers(c, b.page)
    BY <2>3, Shared, WithinOrder
  <2>5. PICK f \in R : Covers(f, b.page)
    BY <2>4 DEF InSome
  <2>6. f # u
    BY <1>1, <1>2, <2>5, Extent DEF Covers
  <2>7. f \in S /\ f \in Block
    BY <2>6 DEF Apart
  <2> QED BY <2>4, <2>5, <2>7, Shared
<1> QED BY <1>3, <1>4, <1>5

\* Two buddies are never both in an eager set.
LEMMA EagerApart ==
  ASSUME NEW S, Apart(S), EagerOn(S), NEW c \in S, c.order < MAX_BUDDY_ORDER
  PROVE  [page |-> BuddyIdx(c.page, c.order), order |-> c.order] \notin S
<1> DEFINE d == [page |-> BuddyIdx(c.page, c.order), order |-> c.order]
           m == [page |-> CombinedIdx(c.page, c.order), order |-> c.order + 1]
<1>1. c \in Block /\ Natural(c)
  BY DEF Apart
<1>2. /\ d \in Block /\ m \in Block /\ Natural(m)
      /\ 2^m.order = 2^c.order + 2^c.order
      /\ \/ m.page = c.page /\ d.page = c.page + 2^c.order
         \/ m.page = d.page /\ d.page = c.page - 2^c.order
  BY <1>1, Buddies
<1>3. d.order = c.order /\ m.order = c.order + 1
  OBVIOUS
<1> HIDE DEF d, m
<1> SUFFICES ASSUME d \in S PROVE FALSE
  BY DEF d
<1>4. \A i \in Frames : Covers(m, i) => Covers(c, i) \/ Covers(d, i)
  BY <1>1, <1>2, <1>3, Extent, RangeAssumption DEF Covers, Frames
<1>5. PICK f \in S : Within(m, f)
  BY <1>2, <1>4 DEF EagerOn, InSome
<1>6. f \in Block /\ m.order <= f.order
  BY <1>2, <1>5, WithinOrder DEF Apart
<1>7. f # c
  BY <1>1, <1>3, <1>6, Extent
<1>8. ~ Disjoint(c, f)
  BY <1>1, <1>2, <1>5, <1>6, Extent DEF Within, Disjoint
<1> QED BY <1>7, <1>8 DEF Apart

-----------------------------------------------------------------------------
(* The inductive invariant.                                                *)

\* A search for a free block has found the lists below it empty.
Scanned ==
  \A p \in Procs : pc[p] = "alloc_scan" =>
    \A o \in Orders : arg[p].order <= o /\ o < cur[p].order => Empty(o)

\* A block that waits for the lock is as it was given to free_pages.
Returned == \A p \in Procs : pc[p] = "free_lock" => cur[p] = arg[p]

\* The first pages of the blocks that callers have or alloc_pages is splitting.
InUse == {b.page : b \in held}
         \cup {cur[p].page : p \in {q \in Procs : pc[q] = "alloc_split"}}

\* _PAGE_ALLOCED is exact once init_buddy has returned; until then no page has
\* it and the pages still to be freed are those from index up.
Marked ==
  /\ booted => alloced = InUse
  /\ ~booted => /\ alloced = {}
                /\ held = {[page |-> i, order |-> 0] : i \in index .. NPages - 1}
                /\ \A p \in Procs : pc[p] \in {"idle", "free_lock", "free_loop"}

ExactInv == BuddyInv /\ EagerOn(FreeBlocks) /\ Scanned /\ Returned /\ Marked

-----------------------------------------------------------------------------
(* Every step preserves it.                                                *)

\* The free blocks, and what a thread has in its hands, in the terms above.
LEMMA FreeApart ==
  ASSUME BuddyInv
  PROVE  /\ Apart(FreeBlocks)
         /\ \A b \in held : b \in Block /\ Natural(b) /\ \A f \in FreeBlocks : Disjoint(b, f)
         /\ \A p \in Procs : InHand(p) =>
              /\ cur[p] \in Block /\ Natural(cur[p])
              /\ \A f \in FreeBlocks : Disjoint(cur[p], f)
              /\ \A b \in held : Disjoint(cur[p], b)
         /\ \A b, c \in held : b # c => Disjoint(b, c)
         /\ \A p, q \in Procs : InHand(p) /\ InHand(q) /\ p # q => Disjoint(cur[p], cur[q])
<1>1. Where \in Placing /\ AllDisjoint(Where) /\ AllNatural(Where)
  BY WherePlacing DEF BuddyInv, Good
<1>2. \A p \in Procs : InHand(p) => cur[p] \in Where[Hand(p)] /\ Hand(p) \in Places
  BY WhereIs
<1>3. /\ FreePlace \in Places /\ HeldPlace \in Places /\ FreePlace # HeldPlace
      /\ Where[FreePlace] = FreeBlocks /\ Where[HeldPlace] = held
      /\ \A p \in Procs : Hand(p) # FreePlace /\ Hand(p) # HeldPlace
      /\ \A p, q \in Procs : p # q => Hand(p) # Hand(q)
  BY WhereIs
<1> HIDE DEF Where
<1>4. \A pl \in Places : \A b \in Where[pl] : b \in Block /\ Natural(b)
  BY <1>1 DEF Placing, AllNatural
<1>5. Apart(FreeBlocks)
  BY <1>1, <1>3, <1>4 DEF Apart, AllDisjoint
<1>6. \A b \in held : b \in Block /\ Natural(b) /\ \A f \in FreeBlocks : Disjoint(b, f)
  BY <1>1, <1>3, <1>4 DEF AllDisjoint
<1>7. \A p \in Procs : InHand(p) =>
        /\ cur[p] \in Block /\ Natural(cur[p])
        /\ \A f \in FreeBlocks : Disjoint(cur[p], f)
        /\ \A b \in held : Disjoint(cur[p], b)
  BY <1>1, <1>2, <1>3, <1>4 DEF AllDisjoint
<1>8. \A b, c \in held : b # c => Disjoint(b, c)
  BY <1>1, <1>3 DEF AllDisjoint
<1>9. \A p, q \in Procs : InHand(p) /\ InHand(q) /\ p # q => Disjoint(cur[p], cur[q])
  BY <1>1, <1>2, <1>3 DEF AllDisjoint
<1> QED BY <1>5, <1>6, <1>7, <1>8, <1>9

\* A block is free exactly if its frame is on the list of its order.
LEMMA Listed ==
  /\ \A i, o : o \in Orders =>
       ([page |-> i, order |-> o] \in FreeBlocks <=> i \in Members(freelist[o]))
  /\ \A f \in FreeBlocks : f.order \in Orders /\ f.page \in Members(freelist[f.order])
<1>1. \A b : b \in FreeBlocks <=>
               \E q \in Orders : \E j \in Members(freelist[q]) : b = [page |-> j, order |-> q]
  BY DEF FreeBlocks
<1>2. \A i, o, j, q : [page |-> i, order |-> o] = [page |-> j, order |-> q] => i = j /\ o = q
  <2> SUFFICES ASSUME NEW i, NEW o, NEW j, NEW q,
                      [page |-> i, order |-> o] = [page |-> j, order |-> q]
               PROVE  i = j /\ o = q
    OBVIOUS
  <2>1. [page |-> i, order |-> o].page = [page |-> j, order |-> q].page
    OBVIOUS
  <2>2. [page |-> i, order |-> o].order = [page |-> j, order |-> q].order
    OBVIOUS
  <2> QED BY <2>1, <2>2
<1> QED BY <1>1, <1>2

\* What each action does to the set of free blocks.
LEMMA MergeTakes ==
  ASSUME BuddyInv, NEW p \in Procs, FreeMerge(p)
  PROVE  \E d \in FreeBlocks : FreeBlocks' = FreeBlocks \ {d}
<1> DEFINE o == cur[p].order
           d == [page |-> BuddyIdx(cur[p].page, o), order |-> o]
<1>1. /\ InHand(p) /\ cur[p] \in Block /\ Natural(cur[p])
      /\ o < MAX_BUDDY_ORDER /\ order[d.page] = o
  BY FreeApart DEF InHand, FreeMerge, CanMerge, is_buddy
<1>2. d \in Block /\ o \in Orders
  BY <1>1, Buddies, Extent
<1>3. d.page \in Members(freelist[o])
  BY <1>1, <1>2 DEF BuddyInv, ListsAgree, Block, Members
<1>4. TakeFree(d.page, o)
  BY DEF FreeMerge
<1>5. d = [page |-> d.page, order |-> o]
  OBVIOUS
<1> HIDE DEF d, o
<1> QED BY <1>2, <1>3, <1>4, <1>5, TakeFreeOK DEF BuddyInv

LEMMA FoundTakes ==
  ASSUME BuddyInv, NEW p \in Procs, AllocFound(p)
  PROVE  \E d \in FreeBlocks : /\ FreeBlocks' = FreeBlocks \ {d}
                               /\ cur'[p] = d
                               /\ alloced' = alloced \cup {d.page}
<1> DEFINE o == cur[p].order
           i == freelist[o][1]
           d == [page |-> i, order |-> o]
<1>1. /\ o \in Orders /\ freelist[o] \in Seq(Frames) /\ freelist[o] # <<>>
      /\ cur[p] \in [page : Nat, order : Nat] /\ cur \in [Procs -> [page : Nat, order : Nat]]
  BY RangeAssumption DEF BuddyInv, TypeOK, AllocFound, Empty, Orders
<1>2. i \in Members(freelist[o])
  <2>1. Len(freelist[o]) \in Nat \ {0}
    BY <1>1, EmptySeq
  <2>2. 1 \in 1 .. Len(freelist[o])
    BY <2>1
  <2> QED BY <2>2 DEF Members
<1>3. /\ TakeFree(i, o) /\ alloced' = alloced \cup {i}
      /\ cur' = [cur EXCEPT ![p] = [cur[p] EXCEPT !.page = i]]
  BY DEF AllocFound
<1>4. [cur[p] EXCEPT !.page = i] = d
  BY <1>1
<1>5. d.page = i
  OBVIOUS
<1> HIDE DEF i
<1>6. FreeBlocks' = FreeBlocks \ {d} /\ d \in FreeBlocks
  BY <1>1, <1>2, <1>3, TakeFreeOK DEF BuddyInv
<1> HIDE DEF d
<1>7. cur'[p] = d
  BY <1>1, <1>3, <1>4
<1> QED BY <1>3, <1>5, <1>6, <1>7

LEMMA InsertPuts ==
  ASSUME BuddyInv, NEW p \in Procs, FreeInsert(p)
  PROVE  FreeBlocks' = FreeBlocks \cup {cur[p]}
<1> DEFINE b == cur[p]
<1>1. /\ b \in Block /\ b.page \in Frames /\ b.order \in Orders
      /\ b = [page |-> b.page, order |-> b.order]
      /\ \A f \in FreeBlocks : Disjoint(b, f)
  BY FreeApart, Extent, Shared DEF InHand, FreeInsert
<1>2. \A q \in Orders : b.page \notin Members(freelist[q])
  <2> SUFFICES ASSUME NEW q \in Orders, b.page \in Members(freelist[q]) PROVE FALSE
    OBVIOUS
  <2> DEFINE d == [page |-> b.page, order |-> q]
  <2>1. d \in FreeBlocks /\ d \in Block /\ d.page = b.page
    BY <1>1, Listed DEF Block
  <2> HIDE DEF d
  <2> QED BY <1>1, <2>1, Extent DEF Disjoint
<1>3. PutFree(b.page, b.order)
  BY DEF FreeInsert
<1> HIDE DEF b
<1>4. FreeBlocks' = FreeBlocks \cup {b}
  BY <1>1, <1>2, <1>3, PutFreeOK DEF BuddyInv
<1> QED BY <1>4 DEF b

LEMMA SplitPuts ==
  ASSUME BuddyInv, NEW p \in Procs, AllocSplit(p)
  PROVE  /\ cur[p].order # 0
         /\ FreeBlocks' = FreeBlocks \cup
              {[page |-> cur[p].page + 2^(cur[p].order - 1), order |-> cur[p].order - 1]}
         /\ cur' = [cur EXCEPT ![p].order = cur[p].order - 1]
<1> DEFINE b == cur[p]
           u == [page |-> b.page + 2^(b.order - 1), order |-> b.order - 1]
<1>1. /\ b \in Block /\ Natural(b) /\ b.order # 0
      /\ \A f \in FreeBlocks : Disjoint(b, f)
  BY FreeApart DEF InHand, AllocSplit, BuddyInv, TypeOK
<1>2. /\ u \in Block /\ 2^b.order = 2^u.order + 2^u.order
      /\ u.page = b.page + 2^u.order
  BY <1>1, Halves
<1>3. PutFree(u.page, u.order) /\ cur' = [cur EXCEPT ![p].order = b.order - 1]
  BY DEF AllocSplit
<1> HIDE DEF u
<1>4. u.page \in Frames /\ u.order \in Orders /\ u = [page |-> u.page, order |-> u.order]
  BY <1>2, Extent, Shared
<1>5. \A q \in Orders : u.page \notin Members(freelist[q])
  <2> SUFFICES ASSUME NEW q \in Orders, u.page \in Members(freelist[q]) PROVE FALSE
    OBVIOUS
  <2> DEFINE d == [page |-> u.page, order |-> q]
  <2>1. d \in FreeBlocks /\ d \in Block /\ d.page = u.page
    BY <1>4, Listed DEF Block
  <2> HIDE DEF d
  <2> QED BY <1>1, <1>2, <2>1, Extent DEF Disjoint
<1>6. FreeBlocks' = FreeBlocks \cup {u}
  BY <1>3, <1>4, <1>5, PutFreeOK DEF BuddyInv
<1> QED BY <1>1, <1>3, <1>6 DEF u

\* The free blocks stay merged as far as they can be.
LEMMA EagerStep ==
  ASSUME BuddyInv, EagerOn(FreeBlocks), [Next]_vars
  PROVE  EagerOn(FreeBlocks')
<1>1. Apart(FreeBlocks)
  BY FreeApart
<1>2. ASSUME UNCHANGED freelist PROVE EagerOn(FreeBlocks')
  <2>1. FreeBlocks' = FreeBlocks
    BY <1>2 DEF FreeBlocks, Members
  <2> QED BY <2>1
<1>3. ASSUME NEW p \in Procs, FreeMerge(p) PROVE EagerOn(FreeBlocks')
  <2>1. PICK d \in FreeBlocks : FreeBlocks' = FreeBlocks \ {d}
    BY <1>3, MergeTakes
  <2> QED BY <1>1, <2>1, TakeEager
<1>4. ASSUME NEW p \in Procs, AllocFound(p) PROVE EagerOn(FreeBlocks')
  <2>1. PICK d \in FreeBlocks : FreeBlocks' = FreeBlocks \ {d}
    BY <1>4, FoundTakes
  <2> QED BY <1>1, <2>1, TakeEager
<1>5. ASSUME NEW p \in Procs, FreeInsert(p) PROVE EagerOn(FreeBlocks')
  <2>1. /\ cur[p] \in Block /\ Natural(cur[p])
        /\ \A f \in FreeBlocks : Disjoint(cur[p], f)
    BY <1>5, FreeApart DEF InHand, FreeInsert
  <2>2. ASSUME cur[p].order < MAX_BUDDY_ORDER
        PROVE  [page |-> BuddyIdx(cur[p].page, cur[p].order), order |-> cur[p].order] \notin FreeBlocks
    <3> DEFINE i == BuddyIdx(cur[p].page, cur[p].order)
               o == cur[p].order
    <3>1. ~ (order[i] = o)
      BY <1>5, <2>2 DEF FreeInsert, CanMerge, is_buddy
    <3>2. o \in Orders
      BY <2>1, Extent
    <3>3. [page |-> i, order |-> o] \in Block
      BY <2>1, <2>2, Buddies
    <3>4. i \in Frames
      BY <3>3 DEF Block
    <3> HIDE DEF i, o
    <3>5. i \notin Members(freelist[o])
      BY <3>1, <3>2, <3>4 DEF BuddyInv, ListsAgree, Members
    <3> QED BY <3>2, <3>5, Listed DEF i, o
  <2>3. EagerOn(FreeBlocks \cup {cur[p]})
    BY <1>1, <2>1, <2>2, PutEager
  <2> QED BY <1>5, <2>3, InsertPuts
<1>6. ASSUME NEW p \in Procs, AllocSplit(p) PROVE EagerOn(FreeBlocks')
  <2>1. /\ cur[p] \in Block /\ Natural(cur[p])
        /\ \A f \in FreeBlocks : Disjoint(cur[p], f)
    BY <1>6, FreeApart DEF InHand, AllocSplit
  <2> QED BY <1>1, <1>6, <2>1, SplitPuts, HalfEager
<1> QED BY <1>2, <1>3, <1>4, <1>5, <1>6
        DEF Next, InitStep, InitFree, InitDone, Step, CallFree, CallAlloc, EnterFree, FreeLock,
            AllocLock, AllocScan, AllocFail, AllocReturn, lists, vars

\* The lists a search has left behind stay empty while buddy.lock is held.
LEMMA ScannedStep ==
  ASSUME BuddyInv, Scanned, [Next]_vars
  PROVE  Scanned'
<1> SUFFICES ASSUME NEW p \in Procs, pc'[p] = "alloc_scan", NEW o \in Orders,
                    arg'[p].order <= o, o < cur'[p].order
             PROVE  freelist'[o] = <<>>
  BY DEF Scanned, Empty
<1> USE DEF BuddyInv, TypeOK
<1>1. CASE AllocLock(p)
  BY <1>1, RangeAssumption DEF AllocLock, Orders
<1>2. CASE AllocScan(p)
  <2>1. /\ arg'[p] = arg[p] /\ cur'[p].order = cur[p].order + 1 /\ pc[p] = "alloc_scan"
        /\ freelist' = freelist /\ Empty(cur[p].order) /\ cur[p].order \in Nat
    BY <1>2 DEF AllocScan, lists
  <2>2. o \in Nat /\ (o < cur[p].order \/ o = cur[p].order)
    BY <2>1, RangeAssumption DEF Orders
  <2> QED BY <2>1, <2>2 DEF Scanned, Empty
<1>3. CASE ~ AllocLock(p) /\ ~ AllocScan(p)
  <2> DEFINE Kept == pc[p] = "alloc_scan" /\ arg'[p] = arg[p] /\ cur'[p] = cur[p]
  <2>1. Kept
    <3>1. CASE InitStep
      BY <3>1, ProcsAssumption DEF InitStep, InitFree, InitDone, EnterFree
    <3>2. CASE UNCHANGED vars
      BY <3>2 DEF vars
    <3>3. ASSUME NEW q \in Procs, NEW b \in held, CallFree(q, b) PROVE Kept
      BY <3>3 DEF CallFree, EnterFree
    <3>4. ASSUME NEW q \in Procs, NEW r \in 0 .. MaxRequest, CallAlloc(q, r) PROVE Kept
      BY <3>4 DEF CallAlloc
    <3>5. ASSUME NEW q \in Procs, Step(q) PROVE Kept
      <4>1. CASE FreeLock(q) \/ FreeMerge(q) \/ FreeInsert(q)
        BY <4>1 DEF FreeLock, FreeMerge, FreeInsert
      <4>2. CASE AllocLock(q) \/ AllocScan(q)
        BY <4>2, <1>3 DEF AllocLock, AllocScan
      <4>3. CASE AllocFail(q) \/ AllocReturn(q)
        BY <4>3 DEF AllocFail, AllocReturn
      <4>4. CASE AllocFound(q) \/ AllocSplit(q)
        <5>1. q # p
          BY <4>4 DEF AllocFound, AllocSplit
        <5> QED BY <4>4, <5>1 DEF AllocFound, AllocSplit
      <4> QED BY <3>5, <4>1, <4>2, <4>3, <4>4 DEF Step
    <3> QED BY <3>1, <3>2, <3>3, <3>4, <3>5 DEF Next
  <2>2. lock = p
    BY <2>1 DEF Locking
  <2>3. \A q \in Procs : q # p => pc[q] \notin {"free_loop", "alloc_scan", "alloc_split"}
    BY <2>2 DEF Locking
  <2>4. freelist' = freelist
    BY <1>3, <2>1, <2>3
    DEF Next, InitStep, InitFree, InitDone, Step, CallFree, CallAlloc, EnterFree, FreeLock,
        AllocFail, AllocReturn, AllocFound, AllocSplit, AllocLock, AllocScan, FreeMerge, FreeInsert, lists, vars
  <2> QED BY <2>1, <2>4 DEF Scanned, Empty
<1> QED BY <1>1, <1>2, <1>3

LEMMA ReturnedStep ==
  ASSUME BuddyInv, Returned, [Next]_vars
  PROVE  Returned'
BY DEF BuddyInv, TypeOK, Returned, Next, InitStep, InitFree, InitDone, Step, CallFree, CallAlloc,
       EnterFree, FreeLock, AllocFail, AllocReturn, AllocFound, AllocSplit, AllocLock, AllocScan,
       FreeMerge, FreeInsert, lists, vars

LEMMA InUseIs ==
  /\ \A x : x \in InUse <=> \/ \E b \in held : x = b.page
                            \/ \E p \in Procs : pc[p] = "alloc_split" /\ x = cur[p].page
  /\ \A x : x \in InUse' <=> \/ \E b \in held' : x = b.page
                             \/ \E p \in Procs : pc'[p] = "alloc_split" /\ x = cur'[p].page
BY DEF InUse

\* Nothing in use appears or disappears while no block leaves or enters the
\* hands of a caller or of alloc_pages.
LEMMA InUseKept ==
  ASSUME UNCHANGED held,
         \A p \in Procs : /\ pc'[p] = "alloc_split" <=> pc[p] = "alloc_split"
                          /\ pc[p] = "alloc_split" => cur'[p].page = cur[p].page
  PROVE  InUse' = InUse
<1>1. ASSUME NEW x \in InUse PROVE x \in InUse'
  BY InUseIs
<1>2. ASSUME NEW x \in InUse' PROVE x \in InUse
  BY InUseIs
<1> QED BY <1>1, <1>2

\* _PAGE_ALLOCED after boot.
LEMMA MarkedBooted ==
  ASSUME BuddyInv, Marked, [Next]_vars, booted
  PROVE  booted' /\ alloced' = InUse'
<1>1. alloced = InUse
  BY DEF Marked
<1>2. booted'
  BY DEF Next, InitStep, InitFree, InitDone, Step, CallFree, CallAlloc, FreeLock, AllocLock, AllocScan,
         AllocFail, AllocReturn, AllocFound, AllocSplit, FreeMerge, FreeInsert, vars
<1>3. ASSUME NEW p \in Procs, NEW b \in held, CallFree(p, b) PROVE alloced' = InUse'
  <2>1. /\ held' = held \ {b} /\ alloced' = alloced \ {b.page}
        /\ \A q \in Procs : pc'[q] = "alloc_split" <=> pc[q] = "alloc_split"
        /\ \A q \in Procs : pc[q] = "alloc_split" => cur'[q] = cur[q]
    BY <1>3 DEF CallFree, EnterFree, BuddyInv, TypeOK
  <2>2. \A c \in held : c # b => c.page # b.page
    BY FreeApart, Extent DEF Disjoint
  <2>3. \A q \in Procs : pc[q] = "alloc_split" => cur[q].page # b.page
    <3> SUFFICES ASSUME NEW q \in Procs, pc[q] = "alloc_split" PROVE cur[q].page # b.page
      OBVIOUS
    <3>1. cur[q] \in Block /\ b \in Block /\ Disjoint(cur[q], b)
      BY FreeApart DEF InHand
    <3> QED BY <3>1, Extent DEF Disjoint
  <2>4. \A x : x \in InUse' <=> x \in InUse /\ x # b.page
    BY <2>1, <2>2, <2>3, InUseIs
  <2> QED BY <1>1, <2>1, <2>4
<1>4. ASSUME NEW p \in Procs, NEW o \in 0 .. MaxRequest, CallAlloc(p, o) PROVE alloced' = InUse'
  <2>1. InUse' = InUse
    BY <1>4, InUseKept DEF CallAlloc, BuddyInv, TypeOK
  <2> QED BY <1>1, <1>4, <2>1 DEF CallAlloc
<1>5. ASSUME NEW p \in Procs, Step(p) PROVE alloced' = InUse'
  <2>1. CASE \/ FreeLock(p) \/ FreeMerge(p) \/ FreeInsert(p)
             \/ AllocLock(p) \/ AllocScan(p) \/ AllocFail(p)
    <3>1. /\ UNCHANGED <<held, alloced>>
          /\ \A q \in Procs : pc'[q] = "alloc_split" <=> pc[q] = "alloc_split"
      BY <2>1 DEF BuddyInv, TypeOK, FreeLock, FreeMerge, FreeInsert, AllocLock, AllocScan, AllocFail
    <3>2. pc[p] # "alloc_split" /\ \A q \in Procs : q # p => cur'[q] = cur[q]
      BY <2>1 DEF BuddyInv, TypeOK, FreeLock, FreeMerge, FreeInsert, AllocLock, AllocScan, AllocFail
    <3>3. InUse' = InUse
      BY <3>1, <3>2, InUseKept
    <3> QED BY <1>1, <3>1, <3>3
  <2>2. CASE AllocSplit(p)
    <3>1. /\ UNCHANGED <<held, alloced, pc>>
          /\ cur' = [cur EXCEPT ![p] = [cur[p] EXCEPT !.order = @ - 1]]
      BY <2>2 DEF BuddyInv, TypeOK, AllocSplit
    <3>2. \A q \in Procs : cur'[q].page = cur[q].page
      BY <3>1 DEF BuddyInv, TypeOK
    <3>3. InUse' = InUse
      BY <3>1, <3>2, InUseKept
    <3> QED BY <1>1, <3>1, <3>3
  <2>3. CASE AllocFound(p)
    <3>1. PICK d \in FreeBlocks : cur'[p] = d /\ alloced' = alloced \cup {d.page}
      BY <2>3, FoundTakes
    <3>2. /\ held' = held /\ pc[p] = "alloc_scan" /\ pc'[p] = "alloc_split"
          /\ \A q \in Procs : q # p => cur'[q] = cur[q] /\ pc'[q] = pc[q]
      BY <2>3 DEF BuddyInv, TypeOK, AllocFound
    <3>3. ASSUME NEW x \in InUse' PROVE x \in InUse \/ x = d.page
      BY <3>1, <3>2, InUseIs
    <3>4. ASSUME NEW x \in InUse PROVE x \in InUse'
      BY <3>2, InUseIs
    <3>5. d.page \in InUse'
      BY <3>1, <3>2, InUseIs
    <3> QED BY <1>1, <3>1, <3>3, <3>4, <3>5
  <2>4. CASE AllocReturn(p)
    <3>1. /\ held' = held \cup {cur[p]} /\ alloced' = alloced /\ cur' = cur
          /\ pc[p] = "alloc_split" /\ pc'[p] = "idle"
          /\ \A q \in Procs : q # p => pc'[q] = pc[q]
      BY <2>4 DEF BuddyInv, TypeOK, AllocReturn
    <3>2. ASSUME NEW x \in InUse' PROVE x \in InUse
      BY <3>1, InUseIs
    <3>3. ASSUME NEW x \in InUse PROVE x \in InUse'
      <4>1. CASE \E b \in held : x = b.page
        BY <3>1, <4>1, InUseIs
      <4>2. ASSUME NEW q \in Procs, pc[q] = "alloc_split", x = cur[q].page PROVE x \in InUse'
        <5>1. CASE q = p
          BY <3>1, <4>2, <5>1, InUseIs
        <5>2. CASE q # p
          BY <3>1, <4>2, <5>2, InUseIs
        <5> QED BY <5>1, <5>2
      <4> QED BY <4>1, <4>2, InUseIs
    <3> QED BY <1>1, <3>1, <3>2, <3>3
  <2> QED BY <1>5, <2>1, <2>2, <2>3, <2>4 DEF Step
<1>6. CASE UNCHANGED vars
  <2>1. InUse' = InUse
    BY <1>6, InUseKept DEF vars
  <2> QED BY <1>1, <1>6, <2>1, <1>2 DEF vars
<1>7. ~ InitStep
  BY DEF InitStep, InitFree, InitDone
<1> QED BY <1>2, <1>3, <1>4, <1>5, <1>6, <1>7 DEF Next

\* Until init_buddy returns only it frees pages, one after the other, and
\* nobody allocates.
LEMMA MarkedBoot ==
  ASSUME BuddyInv, Marked, [Next]_vars, ~ booted
  PROVE  Marked'
<1>1. /\ alloced = {} /\ held = {[page |-> i, order |-> 0] : i \in index .. NPages - 1}
      /\ \A p \in Procs : pc[p] \in {"idle", "free_lock", "free_loop"}
      /\ index \in 0 .. NPages /\ NPages \in Nat
  BY RangeAssumption DEF Marked, BuddyInv, TypeOK
<1>2. CASE InitFree
  <2>1. /\ held' = held \ {[page |-> index, order |-> 0]} /\ alloced' = {} /\ index' = index + 1
        /\ ~ booted'
        /\ \A p \in Procs : pc'[p] \in {"idle", "free_lock", "free_loop"}
    BY <1>1, <1>2, ProcsAssumption DEF InitFree, EnterFree, BuddyInv, TypeOK
  <2>2. \A i, j : [page |-> i, order |-> 0] = [page |-> j, order |-> 0] => i = j
    <3> SUFFICES ASSUME NEW i, NEW j, [page |-> i, order |-> 0] = [page |-> j, order |-> 0]
                 PROVE  i = j
      OBVIOUS
    <3>1. [page |-> i, order |-> 0].page = [page |-> j, order |-> 0].page
      OBVIOUS
    <3> QED BY <3>1
  <2>3. \A i : i \in index .. NPages - 1 /\ i # index <=> i \in index + 1 .. NPages - 1
    BY <1>1
  <2>4. held' = {[page |-> i, order |-> 0] : i \in index + 1 .. NPages - 1}
    BY <1>1, <2>1, <2>2, <2>3
  <2> QED BY <2>1, <2>4 DEF Marked
<1>3. CASE InitDone
  <2>1. index = NPages /\ UNCHANGED <<held, alloced, pc, cur>>
    BY <1>3 DEF InitDone
  <2>2. held = {}
    BY <1>1, <2>1
  <2>3. InUse' = {}
    BY <1>1, <2>1, <2>2, InUseIs
  <2> QED BY <1>1, <1>3, <2>1, <2>3 DEF Marked, InitDone
<1>4. ASSUME NEW p \in Procs, Step(p) PROVE Marked'
  <2>1. FreeLock(p) \/ FreeMerge(p) \/ FreeInsert(p)
        \/ (AllocLock(p) \/ AllocScan(p) \/ AllocFail(p) \/ AllocFound(p) \/ AllocSplit(p) \/ AllocReturn(p))
    BY <1>4 DEF Step
  <2>2. ~ (AllocLock(p) \/ AllocScan(p) \/ AllocFail(p) \/ AllocFound(p) \/ AllocSplit(p) \/ AllocReturn(p))
    BY <1>1 DEF AllocLock, AllocScan, AllocFail, AllocFound, AllocSplit, AllocReturn
  <2>3. UNCHANGED <<held, alloced, index, booted>>
        /\ \A q \in Procs : pc'[q] \in {"idle", "free_lock", "free_loop"}
    BY <1>1, <2>1, <2>2 DEF FreeLock, FreeMerge, FreeInsert, BuddyInv, TypeOK
  <2> QED BY <1>1, <2>3 DEF Marked
<1>5. CASE UNCHANGED vars
  BY <1>1, <1>5 DEF vars, Marked
<1> QED BY <1>2, <1>3, <1>4, <1>5 DEF Next, InitStep, CallFree, CallAlloc

-----------------------------------------------------------------------------
LEMMA InitExact == Init => ExactInv
<1> SUFFICES ASSUME Init PROVE ExactInv
  OBVIOUS
<1>1. BuddyInv
  BY InitInv
<1>2. FreeBlocks = {}
  BY DEF Init, FreeBlocks, Members
<1>3. EagerOn(FreeBlocks)
  BY <1>2, Shared DEF EagerOn, InSome
<1>4. Scanned /\ Returned
  BY DEF Init, Scanned, Returned
<1>5. Marked
  BY DEF Init, Marked, Frames
<1> QED BY <1>1, <1>3, <1>4, <1>5 DEF ExactInv

LEMMA StepExact == ExactInv /\ [Next]_vars => ExactInv'
<1> SUFFICES ASSUME ExactInv, [Next]_vars PROVE ExactInv'
  OBVIOUS
<1>1. BuddyInv'
  BY StepInv DEF ExactInv
<1>2. EagerOn(FreeBlocks')
  BY EagerStep DEF ExactInv
<1>3. Scanned' /\ Returned'
  BY ScannedStep, ReturnedStep DEF ExactInv
<1>4. Marked'
  <2>1. CASE booted
    BY <2>1, MarkedBooted DEF ExactInv, Marked
  <2>2. CASE ~ booted
    BY <2>2, MarkedBoot DEF ExactInv
  <2> QED BY <2>1, <2>2
<1> QED BY <1>1, <1>2, <1>3, <1>4 DEF ExactInv

\* The inductive invariant holds throughout.
THEOREM ExactInvariant == Spec => []ExactInv
BY InitExact, StepExact, PTL DEF Spec

\* _PAGE_ALLOCED marks the first page of every block in use and no other page.
THEOREM FlagExact == Spec => []AllocedExact
<1>1. ExactInv => AllocedExact
  BY DEF ExactInv, Marked, InUse, AllocedExact
<1> QED BY <1>1, ExactInvariant, PTL

\* Two buddies are never both free.
THEOREM MergedFully == Spec => []NoFreeBuddies
<1>1. ExactInv => NoFreeBuddies
  <2> SUFFICES ASSUME ExactInv, NEW o \in Orders \ {MAX_BUDDY_ORDER}, NEW i \in Members(freelist[o]),
                      BuddyIdx(i, o) \in Members(freelist[o])
               PROVE  FALSE
    BY DEF NoFreeBuddies
  <2> DEFINE c == [page |-> i, order |-> o]
             d == [page |-> BuddyIdx(i, o), order |-> o]
  <2>1. c \in FreeBlocks /\ d \in FreeBlocks
    BY Listed
  <2>2. Apart(FreeBlocks) /\ EagerOn(FreeBlocks)
    BY FreeApart DEF ExactInv
  <2>3. c.order = o /\ c.page = i /\ o < MAX_BUDDY_ORDER
    BY RangeAssumption DEF Orders
  <2> HIDE DEF c
  <2> QED BY <2>1, <2>2, <2>3, EagerApart
<1> QED BY <1>1, ExactInvariant, PTL

-----------------------------------------------------------------------------
(* The refinement: every step of the buddy system is a step of the page    *)
(* allocator or leaves it alone.                                           *)

Calls == [p \in Procs |-> CallOf(p)]

\* What a thread asks of the allocator, by where it is.
LEMMA CallIs ==
  ASSUME BuddyInv, NEW p \in Procs
  PROVE  /\ Calls[p] = CallOf(p)
         /\ pc[p] = "idle" => Calls[p] = Allocator!Idle
         /\ pc[p] \in {"free_lock", "free_loop"} => Calls[p] = Allocator!Returning(arg[p])
         /\ pc[p] \in {"alloc_lock", "alloc_scan", "alloc_split"} => Calls[p] = Allocator!Asking(arg[p].order)
         /\ Calls[p].op = "free" <=> pc[p] \in {"free_lock", "free_loop"}
         /\ Calls[p].op = "alloc" <=> pc[p] \in {"alloc_lock", "alloc_scan", "alloc_split"}
<1>1. pc[p] \in PcValues
  BY DEF BuddyInv, TypeOK
<1>2. Calls[p] = CallOf(p)
  BY DEF Calls
<1>3. pc[p] = "idle" => Calls[p] = Allocator!Idle
  BY <1>2 DEF CallOf, Allocator!Idle
<1>4. pc[p] \in {"free_lock", "free_loop"} => Calls[p] = Allocator!Returning(arg[p])
  BY <1>2 DEF CallOf, Allocator!Returning
<1>5. pc[p] \in {"alloc_lock", "alloc_scan", "alloc_split"} => Calls[p] = Allocator!Asking(arg[p].order)
  BY <1>2 DEF CallOf, Allocator!Asking
<1> QED BY <1>1, <1>2, <1>3, <1>4, <1>5 DEF PcValues, Allocator!Idle, Allocator!Returning, Allocator!Asking

\* A step of one thread changes its own call and no other.
LEMMA CallsUpdate ==
  ASSUME NEW p \in Procs,
         \A q \in Procs : q # p => pc'[q] = pc[q] /\ arg'[q] = arg[q]
  PROVE  Calls' = [Calls EXCEPT ![p] = CallOf(p)']
<1>1. \A q \in Procs : q # p => CallOf(q)' = CallOf(q)
  BY DEF CallOf
<1> QED BY <1>1 DEF Calls

\* A thread that stays inside free_pages or inside alloc_pages goes on with
\* the same call.
LEMMA CallsKept ==
  ASSUME UNCHANGED arg,
         \A q \in Procs :
           \/ pc'[q] = pc[q]
           \/ pc[q] \in {"free_lock", "free_loop"} /\ pc'[q] \in {"free_lock", "free_loop"}
           \/ /\ pc[q] \in {"alloc_lock", "alloc_scan", "alloc_split"}
              /\ pc'[q] \in {"alloc_lock", "alloc_scan", "alloc_split"}
  PROVE  Calls' = Calls
<1>1. \A q \in Procs : CallOf(q)' = CallOf(q)
  BY DEF CallOf
<1> QED BY <1>1 DEF Calls

\* The frames a block covers are the ones it spans.
LEMMA SpanIs ==
  ASSUME NEW b \in Block
  PROVE  \A i \in Frames : i \in Allocator!Span(b) <=> Covers(b, i)
BY Extent, RangeAssumption DEF Allocator!Span, Covers, Frames

LEMMA TakenIs ==
  \A i : i \in Allocator!Taken <=>
           \/ \E b \in held : i \in Allocator!Span(b)
           \/ \E q \in Procs : Calls[q].op = "free" /\ i \in Allocator!Span(Calls[q].block)
BY DEF Allocator!Taken, Calls

\* A frame is taken if it is in a block that is held, or on its way to the
\* lock in free_pages; the holder of the lock is in one of the two routines.
LEMMA TakenBy ==
  ASSUME ExactInv, NEW p \in Procs, pc[p] \in {"alloc_scan", "alloc_split"}
  PROVE  \A i : i \in Allocator!Taken <=>
           \/ \E b \in held : i \in Allocator!Span(b)
           \/ \E q \in Procs : /\ pc[q] = "free_lock" /\ InHand(q) /\ q # p
                               /\ i \in Allocator!Span(cur[q])
<1>1. BuddyInv /\ Returned
  BY DEF ExactInv
<1>2. \A q \in Procs : pc[q] # "free_loop"
  BY <1>1 DEF BuddyInv, Locking
<1>3. ASSUME NEW q \in Procs
      PROVE  /\ Calls[q].op = "free" <=> pc[q] = "free_lock"
             /\ pc[q] = "free_lock" => /\ Calls[q].block = cur[q]
                                       /\ InHand(q) /\ q # p
  <2>1. Calls[q].op = "free" <=> pc[q] = "free_lock"
    BY <1>1, <1>2, CallIs
  <2>2. ASSUME pc[q] = "free_lock"
        PROVE  Calls[q].block = cur[q] /\ InHand(q) /\ q # p
    <3>1. Calls[q] = Allocator!Returning(arg[q])
      BY <1>1, <2>2, CallIs
    <3>2. Calls[q].block = arg[q]
      BY <3>1 DEF Allocator!Returning
    <3> QED BY <1>1, <2>2, <3>2 DEF Returned, InHand
  <2> QED BY <2>1, <2>2
<1>4. ASSUME NEW i, i \in Allocator!Taken
      PROVE  \/ \E b \in held : i \in Allocator!Span(b)
             \/ \E q \in Procs : /\ pc[q] = "free_lock" /\ InHand(q) /\ q # p
                                 /\ i \in Allocator!Span(cur[q])
  BY <1>3, <1>4, TakenIs
<1>5. ASSUME NEW i,
             \/ \E b \in held : i \in Allocator!Span(b)
             \/ \E q \in Procs : /\ pc[q] = "free_lock" /\ InHand(q) /\ q # p
                                 /\ i \in Allocator!Span(cur[q])
      PROVE  i \in Allocator!Taken
  BY <1>3, <1>5, TakenIs
<1> QED BY <1>4, <1>5

\* The block alloc_pages returns was available: aligned, and nobody's.
LEMMA GrantStep ==
  ASSUME ExactInv, NEW p \in Procs, AllocReturn(p)
  PROVE  cur[p] \in Allocator!Available(arg[p].order)
<1> DEFINE b == cur[p]
<1>1. BuddyInv /\ pc[p] = "alloc_split" /\ InHand(p) /\ b.order = arg[p].order
  BY DEF ExactInv, AllocReturn, InHand
<1>2. /\ b \in Block /\ Natural(b) /\ \A c \in held : Disjoint(b, c)
      /\ \A q \in Procs : InHand(q) /\ q # p => cur[q] \in Block /\ Disjoint(b, cur[q])
      /\ \A c \in held : c \in Block
  BY <1>1, FreeApart
<1> HIDE DEF b
<1>3. b \in Allocator!Block
  BY <1>2 DEF Block, Allocator!Block, Allocator!Frames, Frames, Orders
<1>4. b.page % 2^b.order = 0
  <2>1. PICK k \in Nat : b.page = k * 2^b.order
    BY <1>2, Extent
  <2>2. b.page \div 2^b.order = k
    BY <1>2, <2>1, Extent, Quotient
  <2>3. b.page % 2^b.order = b.page - 2^b.order * k
    BY <1>2, <2>2, Extent, Division
  <2>4. 2^b.order * k = k * 2^b.order
    BY <1>2, Extent
  <2> QED BY <1>2, <2>1, <2>3, <2>4, Extent
<1>5. \A i \in Allocator!Span(b) : i \in Frames /\ Covers(b, i)
  BY <1>2, Extent, RangeAssumption DEF Allocator!Span, Frames, Covers
<1>6. ASSUME NEW i \in Allocator!Span(b), i \in Allocator!Taken PROVE FALSE
  <2>1. i \in Frames /\ Covers(b, i)
    BY <1>5
  <2>2. ASSUME NEW c \in held, i \in Allocator!Span(c) PROVE FALSE
    BY <1>2, <2>1, <2>2, SpanIs, Shared
  <2>3. ASSUME NEW q \in Procs, InHand(q), q # p, i \in Allocator!Span(cur[q]) PROVE FALSE
    BY <1>2, <2>1, <2>3, SpanIs, Shared
  <2>4. pc[p] \in {"alloc_scan", "alloc_split"}
    BY <1>1
  <2> QED BY <1>6, <2>2, <2>3, <2>4, TakenBy
<1>7. Allocator!Span(b) \subseteq Allocator!Frames \ Allocator!Taken
  BY <1>5, <1>6 DEF Frames, Allocator!Frames
<1> QED BY <1>1, <1>3, <1>4, <1>7 DEF Allocator!Available, b

\* alloc_pages gives up only if no aligned block of the order is left.
LEMMA RefuseStep ==
  ASSUME ExactInv, NEW p \in Procs, AllocFail(p)
  PROVE  Allocator!Available(arg[p].order) = {}
<1> SUFFICES ASSUME NEW b \in Allocator!Available(arg[p].order) PROVE FALSE
  OBVIOUS
<1>1. /\ BuddyInv /\ pc[p] = "alloc_scan" /\ cur[p].order > MAX_BUDDY_ORDER
      /\ \A o \in Orders : arg[p].order <= o /\ o < cur[p].order => freelist[o] = <<>>
      /\ EagerOn(FreeBlocks) /\ cur[p].order \in Nat
  BY DEF ExactInv, Scanned, AllocFail, Empty, BuddyInv, TypeOK
<1>2. /\ b \in Block /\ b.order = arg[p].order /\ b.page % 2^b.order = 0
      /\ Allocator!Span(b) \subseteq Frames \ Allocator!Taken
  BY DEF Allocator!Available, Allocator!Block, Allocator!Frames, Block, Frames, Orders
<1>3. Natural(b)
  <2> DEFINE s == 2^b.order
             k == b.page \div s
  <2>1. b.page \in Nat /\ s \in Nat \ {0} /\ NPages \in Nat
    BY <1>2, Extent
  <2>2. b.page % s = b.page - s * k
    BY <2>1, Division
  <2>3. k \in Nat
    BY <2>1, Division
  <2>4. b.page = k * s
    <3>1. s * k = k * s /\ s * k \in Int
      BY <2>1, <2>3
    <3>2. b.page % s = 0
      BY <1>2
    <3> HIDE DEF s, k
    <3> QED BY <2>1, <2>2, <3>1, <3>2
  <2>5. b.page + s - 1 \in Allocator!Span(b)
    BY <2>1 DEF Allocator!Span
  <2>6. b.page + s <= NPages
    BY <1>2, <2>1, <2>5 DEF Frames
  <2>7. k <= b.page
    <3> HIDE DEF s, k
    <3>1. k * 1 <= k * s
      BY <2>1, <2>3
    <3> QED BY <2>3, <2>4, <3>1
  <2> QED BY <2>3, <2>4, <2>6, <2>7, <2>1 DEF Natural
<1>4. ASSUME NEW i \in Frames, Covers(b, i) PROVE InSome(FreeBlocks, i)
  <2>1. i \notin Allocator!Taken
    BY <1>2, <1>4, SpanIs
  <2>2. pc[p] \in {"alloc_scan", "alloc_split"}
    BY <1>1
  <2>3. PICK pl \in Places : \E c \in Where[pl] : Covers(c, i)
    BY <1>1 DEF BuddyInv, Good, AllCovered
  <2>4. PICK c \in Where[pl] : Covers(c, i)
    BY <2>3
  <2>5. CASE pl = HeldPlace
    <3>1. c \in held /\ c \in Block
      BY <1>1, <2>5, FreeApart, WhereIs
    <3>2. i \in Allocator!Span(c)
      BY <2>4, <3>1, SpanIs
    <3> QED BY <2>1, <2>2, <3>1, <3>2, TakenBy
  <2>6. ASSUME NEW q \in Procs, pl = Hand(q) PROVE FALSE
    <3>1. InHand(q) /\ c = cur[q]
      BY <2>6, WhereIs
    <3>2. c \in Block
      BY <1>1, <3>1, FreeApart
    <3>3. i \in Allocator!Span(cur[q])
      BY <2>4, <3>1, <3>2, SpanIs
    <3>4. lock = p
      BY <1>1 DEF BuddyInv, Locking
    <3>5. pc[q] = "free_lock" /\ q # p
      BY <1>1, <3>1, <3>4 DEF BuddyInv, Locking, InHand
    <3> QED BY <2>1, <2>2, <3>1, <3>3, <3>5, TakenBy
  <2>7. CASE pl = FreePlace
    BY <2>4, <2>7, WhereIs DEF InSome
  <2> QED BY <2>5, <2>6, <2>7, WhereIs
<1>5. PICK f \in FreeBlocks : Within(b, f)
  BY <1>1, <1>2, <1>3, <1>4 DEF EagerOn
<1>6. f \in Block /\ b.order <= f.order
  BY <1>1, <1>2, <1>5, FreeApart, WithinOrder DEF Apart
<1>7. freelist[f.order] = <<>>
  <2>1. f.order \in Orders /\ f.order \in Nat
    BY <1>6, Extent
  <2>2. f.order < cur[p].order
    BY <1>1, <2>1, RangeAssumption DEF Orders
  <2> QED BY <1>1, <1>2, <1>6, <2>1, <2>2
<1>8. f.page \in Members(freelist[f.order])
  BY Listed
<1> QED BY <1>7, <1>8 DEF Members

\* The steps of the page allocator and its state function, with the calls named.
LEMMA AllocatorIs ==
  /\ Allocator!vars = <<held, Calls>> /\ Allocator!vars' = <<held', Calls'>>
  /\ Allocator!Next <=> \E p \in Procs :
       \/ \E o \in 0 .. MaxRequest : Allocator!Ask(p, o)
       \/ Allocator!Grant(p)
       \/ Allocator!Refuse(p)
       \/ \E b \in held : Allocator!GiveBack(p, b)
       \/ Allocator!Absorb(p)
BY DEF Allocator!vars, Allocator!Next, Calls

LEMMA InitRefines == Init => Allocator!Init
<1> SUFFICES ASSUME Init PROVE Allocator!Init
  OBVIOUS
<1>1. held = {[page |-> i, order |-> 0] : i \in Allocator!Frames}
  BY DEF Init, Frames, Allocator!Frames
<1>2. [p \in Procs |-> CallOf(p)] = [p \in Procs |-> Allocator!Idle]
  BY DEF Init, CallOf, Allocator!Idle
<1> QED BY <1>1, <1>2 DEF Allocator!Init

LEMMA StepRefines == ExactInv /\ [Next]_vars => [Allocator!Next]_Allocator!vars
<1> SUFFICES ASSUME ExactInv, [Next]_vars
             PROVE  Allocator!Next \/ UNCHANGED <<held, Calls>>
  BY AllocatorIs
<1>1. BuddyInv /\ TypeOK
  BY DEF ExactInv, BuddyInv
<1>2. ASSUME NEW p \in Procs, NEW b \in held, EnterFree(p, b) PROVE Allocator!Next
  <2>1. /\ pc[p] = "idle" /\ pc'[p] = "free_lock" /\ arg'[p] = b /\ held' = held \ {b}
        /\ \A q \in Procs : q # p => pc'[q] = pc[q] /\ arg'[q] = arg[q]
    BY <1>1, <1>2 DEF EnterFree, TypeOK
  <2>2. CallOf(p)' = Allocator!Returning(b)
    BY <2>1 DEF CallOf, Allocator!Returning
  <2>3. Calls[p] = Allocator!Idle
    BY <1>1, <2>1, CallIs
  <2>4. Calls' = [Calls EXCEPT ![p] = Allocator!Returning(b)]
    BY <2>1, <2>2, CallsUpdate
  <2>5. Allocator!GiveBack(p, b)
    BY <2>1, <2>3, <2>4 DEF Allocator!GiveBack, Calls
  <2> QED BY <2>5, AllocatorIs
<1>3. CASE InitStep
  <2>1. CASE InitFree
    <3>1. EnterFree(Boot, [page |-> index, order |-> 0]) /\ [page |-> index, order |-> 0] \in held
      BY <2>1 DEF InitFree, EnterFree
    <3> QED BY <3>1, <1>2, ProcsAssumption
  <2>2. CASE InitDone
    BY <2>2, CallsKept DEF InitDone
  <2> QED BY <1>3, <2>1, <2>2 DEF InitStep
<1>4. ASSUME NEW p \in Procs, NEW b \in held, CallFree(p, b) PROVE Allocator!Next
  BY <1>2, <1>4 DEF CallFree
<1>5. ASSUME NEW p \in Procs, NEW o \in 0 .. MaxRequest, CallAlloc(p, o) PROVE Allocator!Next
  <2>1. /\ pc[p] = "idle" /\ pc'[p] = "alloc_lock" /\ arg'[p].order = o /\ held' = held
        /\ \A q \in Procs : q # p => pc'[q] = pc[q] /\ arg'[q] = arg[q]
    BY <1>1, <1>5 DEF CallAlloc, TypeOK
  <2>2. CallOf(p)' = Allocator!Asking(o)
    BY <2>1 DEF CallOf, Allocator!Asking
  <2>3. Calls[p] = Allocator!Idle
    BY <1>1, <2>1, CallIs
  <2>4. Calls' = [Calls EXCEPT ![p] = Allocator!Asking(o)]
    BY <2>1, <2>2, CallsUpdate
  <2>5. Allocator!Ask(p, o)
    BY <2>1, <2>3, <2>4 DEF Allocator!Ask, Calls
  <2> QED BY <2>5, AllocatorIs
<1>6. ASSUME NEW p \in Procs, Step(p) PROVE Allocator!Next \/ UNCHANGED <<held, Calls>>
  <2>1. ASSUME FreeLock(p) \/ FreeMerge(p) \/ AllocLock(p) \/ AllocScan(p) \/ AllocFound(p) \/ AllocSplit(p)
        PROVE  UNCHANGED <<held, Calls>>
    <3>1. UNCHANGED <<held, arg>>
      BY <2>1 DEF FreeLock, FreeMerge, AllocLock, AllocScan, AllocFound, AllocSplit
    <3>2. \A q \in Procs :
            \/ pc'[q] = pc[q]
            \/ pc[q] \in {"free_lock", "free_loop"} /\ pc'[q] \in {"free_lock", "free_loop"}
            \/ /\ pc[q] \in {"alloc_lock", "alloc_scan", "alloc_split"}
               /\ pc'[q] \in {"alloc_lock", "alloc_scan", "alloc_split"}
      BY <1>1, <2>1 DEF TypeOK, FreeLock, FreeMerge, AllocLock, AllocScan, AllocFound, AllocSplit
    <3> QED BY <3>1, <3>2, CallsKept
  <2>2. ASSUME FreeInsert(p) \/ AllocFail(p) \/ AllocReturn(p)
        PROVE  Calls' = [Calls EXCEPT ![p] = Allocator!Idle]
    <3>1. /\ pc'[p] = "idle"
          /\ \A q \in Procs : q # p => pc'[q] = pc[q] /\ arg'[q] = arg[q]
      BY <1>1, <2>2 DEF TypeOK, FreeInsert, AllocFail, AllocReturn
    <3>2. CallOf(p)' = Allocator!Idle
      BY <3>1 DEF CallOf, Allocator!Idle
    <3> QED BY <3>1, <3>2, CallsUpdate
  <2>3. CASE FreeInsert(p)
    <3>1. Calls[p].op = "free" /\ held' = held
      BY <1>1, <2>3, CallIs DEF FreeInsert
    <3>2. Allocator!Absorb(p)
      BY <2>2, <2>3, <3>1 DEF Allocator!Absorb, Calls
    <3> QED BY <3>2, AllocatorIs
  <2>4. CASE AllocFail(p)
    <3>1. /\ Calls[p] = Allocator!Asking(arg[p].order) /\ held' = held
          /\ Calls[p].op = "alloc"
      BY <1>1, <2>4, CallIs DEF AllocFail
    <3>2. Allocator!Available(Calls[p].order) = {}
      BY <2>4, <3>1, RefuseStep DEF Allocator!Asking
    <3>3. Allocator!Refuse(p)
      BY <2>2, <2>4, <3>1, <3>2 DEF Allocator!Refuse, Calls
    <3> QED BY <3>3, AllocatorIs
  <2>5. CASE AllocReturn(p)
    <3>1. /\ Calls[p] = Allocator!Asking(arg[p].order) /\ held' = held \cup {cur[p]}
          /\ Calls[p].op = "alloc"
      BY <1>1, <2>5, CallIs DEF AllocReturn
    <3>2. cur[p] \in Allocator!Available(Calls[p].order)
      BY <2>5, <3>1, GrantStep DEF Allocator!Asking
    <3>3. Allocator!Grant(p)
      BY <2>2, <2>5, <3>1, <3>2 DEF Allocator!Grant, Calls
    <3> QED BY <3>3, AllocatorIs
  <2> QED BY <1>6, <2>1, <2>3, <2>4, <2>5 DEF Step
<1>7. CASE UNCHANGED vars
  BY <1>7, CallsKept DEF vars
<1> QED BY <1>3, <1>4, <1>5, <1>6, <1>7 DEF Next

\* The buddy system implements the page allocator: alloc_pages hands out only
\* what nobody has, and fails only if no aligned block of that order is left
\* (buddy.c:49-115).
THEOREM Refinement == Spec => ImplementsAllocator
<1>1. Init => Allocator!Init
  BY InitRefines
<1>2. ExactInv /\ [Next]_vars => [Allocator!Next]_Allocator!vars
  BY StepRefines
<1> QED BY <1>1, <1>2, ExactInvariant, PTL DEF Spec, ImplementsAllocator, Allocator!Spec
=============================================================================
