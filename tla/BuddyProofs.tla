---------------------------- MODULE BuddyProofs ----------------------------
(***************************************************************************)
(* Proofs about module Buddy, for every number of threads, every aligned   *)
(* range and every largest order.                                          *)
(*                                                                         *)
(* The inductive invariant says that the lists, the orders kept in the     *)
(* pages and nr_free agree, that buddy.lock is held by whoever works on    *)
(* them, that every block is aligned to its size, and that no two blocks   *)
(* overlap.  The last two are proved about a function from places to sets  *)
(* of blocks: each action moves a block from one place to another, splits  *)
(* one or merges two.                                                      *)
(***************************************************************************)
EXTENDS Buddy, SequenceTheorems, TLAPS

-----------------------------------------------------------------------------
(* Lists without repetition.                                               *)

NoDup(l) == \A j, k \in 1 .. Len(l) : l[j] = l[k] => j = k

\* list_add puts one more member at the front.
LEMMA ListAdd ==
  ASSUME NEW S, NEW l \in Seq(S), NEW x \in S
  PROVE  /\ list_add(l, x) \in Seq(S)
         /\ Len(list_add(l, x)) = Len(l) + 1
         /\ Members(list_add(l, x)) = Members(l) \cup {x}
         /\ NoDup(l) /\ x \notin Members(l) => NoDup(list_add(l, x))
<1> DEFINE m == list_add(l, x)
<1>1. <<x>> \in Seq(S) /\ Len(<<x>>) = 1 /\ <<x>>[1] = x
  OBVIOUS
<1>2. /\ m \in Seq(S)
      /\ Len(m) = 1 + Len(l)
      /\ \A i \in 1 .. 1 + Len(l) : m[i] = IF i <= 1 THEN x ELSE l[i - 1]
  BY <1>1, ConcatProperties DEF list_add
<1>3. Len(l) \in Nat
  BY LenProperties
<1>4. Members(m) = Members(l) \cup {x}
  <2>1. ASSUME NEW y \in Members(m) PROVE y \in Members(l) \cup {x}
    BY <1>2, <1>3, <2>1 DEF Members
  <2>2. x \in Members(m)
    BY <1>2, <1>3 DEF Members
  <2>3. ASSUME NEW y \in Members(l) PROVE y \in Members(m)
    <3>1. PICK k \in 1 .. Len(l) : y = l[k]
      BY DEF Members
    <3>2. k + 1 \in 1 .. Len(m) /\ m[k + 1] = y
      BY <3>1, <1>2, <1>3
    <3> QED BY <3>2 DEF Members
  <2> QED BY <2>1, <2>2, <2>3
<1>5. ASSUME NoDup(l), x \notin Members(l) PROVE NoDup(m)
  <2>1. \A k \in 1 .. Len(l) : l[k] # x
    BY <1>5 DEF Members
  <2> SUFFICES ASSUME NEW j \in 1 .. Len(m), NEW k \in 1 .. Len(m), m[j] = m[k]
               PROVE  j = k
    BY DEF NoDup
  <2>2. CASE j = 1 \/ k = 1
    BY <2>1, <2>2, <1>2, <1>3
  <2>3. CASE j # 1 /\ k # 1
    <3>1. j - 1 \in 1 .. Len(l) /\ k - 1 \in 1 .. Len(l) /\ l[j - 1] = l[k - 1]
      BY <2>3, <1>2, <1>3
    <3> QED BY <3>1, <1>5, <1>2, <1>3 DEF NoDup
  <2> QED BY <2>2, <2>3
<1> QED BY <1>2, <1>3, <1>4, <1>5

\* list_del removes the member it is given and no other.
LEMMA ListDel ==
  ASSUME NEW S, NEW l \in Seq(S), NEW x \in Members(l), NoDup(l)
  PROVE  /\ list_del(l, x) \in Seq(S)
         /\ Len(list_del(l, x)) = Len(l) - 1
         /\ Members(list_del(l, x)) = Members(l) \ {x}
         /\ NoDup(list_del(l, x))
<1> DEFINE k == CHOOSE k \in 1 .. Len(l) : l[k] = x
           a == SubSeq(l, 1, k - 1)
           c == SubSeq(l, k + 1, Len(l))
           m == list_del(l, x)
<1>1. k \in 1 .. Len(l) /\ l[k] = x
  BY DEF Members
<1>2. Len(l) \in Nat /\ \A i \in 1 .. Len(l) : l[i] \in S
  BY LenProperties, ElementOfSeq
<1>3. m = a \o c
  BY DEF list_del
<1> HIDE DEF k, m
<1>4. /\ a \in Seq(S) /\ Len(a) = k - 1
      /\ \A i \in 1 .. k - 1 : a[i] = l[i]
  <2>1. 1 \in Int /\ k - 1 \in Int /\ \A i \in 1 .. k - 1 : l[i] \in S
    BY <1>1, <1>2
  <2>2. /\ SubSeq(l, 1, k - 1) \in Seq(S)
        /\ Len(SubSeq(l, 1, k - 1)) = IF 1 <= k - 1 THEN k - 1 - 1 + 1 ELSE 0
        /\ \A i \in 1 .. k - 1 - 1 + 1 : SubSeq(l, 1, k - 1)[i] = l[1 + i - 1]
    BY <2>1, SubSeqProperties
  <2> QED BY <2>2, <1>1, <1>2
<1>5. /\ c \in Seq(S) /\ Len(c) = Len(l) - k
      /\ \A i \in 1 .. Len(l) - k : c[i] = l[k + i]
  <2>1. k + 1 \in Int /\ Len(l) \in Int /\ \A i \in k + 1 .. Len(l) : l[i] \in S
    BY <1>1, <1>2
  <2>2. /\ SubSeq(l, k + 1, Len(l)) \in Seq(S)
        /\ Len(SubSeq(l, k + 1, Len(l))) = IF k + 1 <= Len(l) THEN Len(l) - (k + 1) + 1 ELSE 0
        /\ \A i \in 1 .. Len(l) - (k + 1) + 1 : SubSeq(l, k + 1, Len(l))[i] = l[k + 1 + i - 1]
    BY <2>1, SubSeqProperties
  <2> QED BY <2>2, <1>1, <1>2
<1> HIDE DEF a, c
<1>6. /\ m \in Seq(S) /\ Len(m) = Len(l) - 1
      /\ \A i \in 1 .. Len(l) - 1 : m[i] = IF i < k THEN l[i] ELSE l[i + 1]
  <2>1. /\ a \o c \in Seq(S)
        /\ Len(a \o c) = Len(a) + Len(c)
        /\ \A i \in 1 .. Len(a) + Len(c) : (a \o c)[i] = IF i <= Len(a) THEN a[i] ELSE c[i - Len(a)]
    BY <1>4, <1>5, ConcatProperties
  <2>2. m \in Seq(S) /\ Len(m) = Len(l) - 1
    <3>1. Len(a) + Len(c) = Len(l) - 1
      BY <1>1, <1>2, <1>4, <1>5
    <3> QED BY <2>1, <1>3, <3>1
  <2>3. ASSUME NEW i \in 1 .. Len(l) - 1
        PROVE  m[i] = IF i < k THEN l[i] ELSE l[i + 1]
    <3>1. CASE i < k
      BY <3>1, <2>1, <1>1, <1>2, <1>3, <1>4, <1>5
    <3>2. CASE ~(i < k)
      <4>1. i \in 1 .. Len(a) + Len(c) /\ ~(i <= Len(a)) /\ i - Len(a) \in 1 .. Len(l) - k
        BY <3>2, <1>1, <1>2, <1>4, <1>5
      <4>2. m[i] = c[i - Len(a)]
        BY <4>1, <2>1, <1>3
      <4>3. c[i - Len(a)] = l[k + (i - Len(a))]
        BY <4>1, <1>5
      <4>4. k + (i - Len(a)) = i + 1
        BY <1>1, <1>2, <1>4
      <4> QED BY <4>2, <4>3, <4>4, <3>2
    <3> QED BY <3>1, <3>2
  <2> QED BY <2>2, <2>3
<1>7. Members(m) = Members(l) \ {x}
  <2>1. ASSUME NEW y \in Members(m) PROVE y \in Members(l) \ {x}
    <3>1. PICK i \in 1 .. Len(l) - 1 : y = m[i]
      BY <1>6 DEF Members
    <3>2. PICK j \in 1 .. Len(l) : j # k /\ y = l[j]
      BY <3>1, <1>1, <1>2, <1>6
    <3> QED BY <3>2, <1>1 DEF Members, NoDup
  <2>2. ASSUME NEW y \in Members(l) \ {x} PROVE y \in Members(m)
    <3>1. PICK j \in 1 .. Len(l) : j # k /\ y = l[j]
      BY <1>1 DEF Members
    <3>2. CASE j < k
      BY <3>1, <3>2, <1>1, <1>2, <1>6 DEF Members
    <3>3. CASE j > k
      <4>1. j - 1 \in 1 .. Len(m) /\ m[j - 1] = y
        BY <3>1, <3>3, <1>1, <1>2, <1>6
      <4> QED BY <4>1 DEF Members
    <3> QED BY <3>1, <3>2, <3>3, <1>1, <1>2
  <2> QED BY <2>1, <2>2
<1>8. NoDup(m)
  <2> SUFFICES ASSUME NEW i \in 1 .. Len(m), NEW j \in 1 .. Len(m), m[i] = m[j]
               PROVE  i = j
    BY DEF NoDup
  <2> DEFINE up(n) == IF n < k THEN n ELSE n + 1
  <2>1. up(i) \in 1 .. Len(l) /\ up(j) \in 1 .. Len(l) /\ l[up(i)] = l[up(j)]
    BY <1>1, <1>2, <1>6
  <2>2. up(i) = up(j)
    BY <2>1 DEF NoDup
  <2> QED BY <2>2, <1>1, <1>2, <1>6
<1> QED BY <1>6, <1>7, <1>8 DEF m

-----------------------------------------------------------------------------
(* Index arithmetic.                                                       *)

\* The half of an even or odd multiple of a size is the parity of its quotient.
LEMMA Quotient ==
  ASSUME NEW s \in Nat \ {0}, NEW k \in Nat
  PROVE  (k * s) \div s = k
<1> DEFINE q == (k * s) \div s
<1>1. k * s \in Nat
  OBVIOUS
<1>2. q \in Int /\ s * q <= k * s /\ k * s < s * q + s
  BY <1>1
<1> HIDE DEF q
<1>3. s * (k - q) >= 0 /\ s * (k - q) < s
  BY <1>2
<1>4. k - q \in Int /\ k - q >= 0
  BY <1>2, <1>3
<1>5. ~(k - q >= 1)
  BY <1>2, <1>3
<1>6. k = q
  BY <1>4, <1>5, <1>2
<1> QED BY <1>6 DEF q

\* The sizes of the orders.
LEMMA Size ==
  /\ \A o \in Orders : o \in Int /\ 2^o \in Int /\ 2^o >= 1
  /\ \A o \in Orders : o + 1 \in Orders => 2^(o + 1) = 2^o + 2^o
  /\ \A o \in Orders : o # 0 => o - 1 \in Orders /\ 2^o = 2^(o - 1) + 2^(o - 1)
  /\ \A b \in Block : b.page \in Nat /\ b.order \in Orders /\ b.page < NPages
<1>1. \A o \in Orders : o \in Int /\ 2^o \in Int /\ 2^o >= 1 /\ 2^(o + 1) = 2^o + 2^o
  BY ShiftAssumption DEF Orders
<1>2. \A o \in Orders : o # 0 => o - 1 \in Orders /\ 2^o = 2^(o - 1) + 2^(o - 1)
  <2> SUFFICES ASSUME NEW o \in Orders, o # 0
               PROVE  o - 1 \in Orders /\ 2^o = 2^(o - 1) + 2^(o - 1)
    OBVIOUS
  <2>1. o - 1 \in Orders /\ (o - 1) + 1 = o
    BY RangeAssumption DEF Orders
  <2>2. 2^((o - 1) + 1) = 2^(o - 1) + 2^(o - 1)
    BY <1>1, <2>1
  <2> QED BY <2>1, <2>2
<1>3. \A b \in Block : b.page \in Nat /\ b.order \in Orders /\ b.page < NPages
  BY RangeAssumption DEF Block, Frames
<1> QED BY <1>1, <1>2, <1>3

\* A block a merge may start from has its buddy inside the range, on one side
\* of it, and the two make up a natural block of the next order.
LEMMA Buddies ==
  ASSUME NEW b \in Block, Natural(b), b.order < MAX_BUDDY_ORDER
  PROVE  LET d == [page |-> BuddyIdx(b.page, b.order), order |-> b.order]
             m == [page |-> CombinedIdx(b.page, b.order), order |-> b.order + 1]
         IN  /\ d \in Block /\ m \in Block /\ Natural(m)
             /\ 2^m.order = 2^b.order + 2^b.order
             /\ \/ m.page = b.page /\ d.page = b.page + 2^b.order
                \/ m.page = d.page /\ d.page = b.page - 2^b.order
<1> DEFINE o == b.order
           i == b.page
           s == 2^o
           t == 2^(o + 1)
<1>1. /\ o \in Orders /\ o + 1 \in Orders /\ i \in Nat /\ i < NPages
      /\ s \in Nat /\ s >= 1 /\ t = s + s /\ NPages \in Nat /\ i + s <= NPages
  <2>1. o \in Orders /\ i \in Nat /\ i < NPages
    BY Size
  <2>2. o + 1 \in Orders /\ NPages \in Nat
    BY <2>1, RangeAssumption DEF Orders
  <2>3. s \in Nat /\ s >= 1 /\ t = s + s
    BY <2>1, <2>2, Size
  <2>4. i + s <= NPages
    BY DEF Natural
  <2> QED BY <2>1, <2>2, <2>3, <2>4
<1>2. PICK k \in 0 .. i : i = k * s
  BY DEF Natural
<1>3. PICK n \in 0 .. NPages : NPages = n * t
  BY <1>1, RangeAssumption
<1> HIDE DEF o, i, s, t
<1>4. i \div s = k
  BY <1>1, <1>2, Quotient
<1>5. k \in Nat /\ n \in Nat
  BY <1>1
<1>6. CASE k % 2 = 0
  <2>1. PICK h \in Nat : k = 2 * h
    BY <1>5, <1>6
  <2>2. i = h * t
    BY <2>1, <1>1, <1>2
  <2>3. h * t + s <= n * t
    BY <2>2, <1>1, <1>3
  <2>4. h < n
    BY <2>3, <1>1, <1>5
  <2>5. (h + 1) * t <= n * t
    BY <2>4, <1>1, <1>5
  <2>6. i + t <= NPages
    BY <2>5, <2>2, <1>1, <1>3
  <2>7. h <= i
    BY <2>2, <1>1
  <2>8. BuddyIdx(i, o) = i + s /\ CombinedIdx(i, o) = i
    BY <1>4, <1>6 DEF BuddyIdx, CombinedIdx, s
  <2> QED
    BY <2>2, <2>6, <2>7, <2>8, <1>1 DEF Natural, Block, Frames, o, i, s, t
<1>7. CASE k % 2 # 0
  <2>1. PICK h \in Nat : k = 2 * h + 1
    BY <1>5, <1>7
  <2>2. i - s = h * t
    BY <2>1, <1>1, <1>2
  <2>3. h <= i - s
    BY <2>2, <1>1
  <2>4. BuddyIdx(i, o) = i - s /\ CombinedIdx(i, o) = i - s
    BY <1>4, <1>7 DEF BuddyIdx, CombinedIdx, s
  <2>5. i - s \in Nat
    BY <2>3, <1>1
  <2> QED
    BY <2>2, <2>3, <2>4, <2>5, <1>1 DEF Natural, Block, Frames, o, i, s, t
<1> QED BY <1>6, <1>7

\* Both halves of a natural block are natural blocks.
LEMMA Halves ==
  ASSUME NEW b \in Block, Natural(b), b.order # 0
  PROVE  LET l == [page |-> b.page, order |-> b.order - 1]
             u == [page |-> b.page + 2^(b.order - 1), order |-> b.order - 1]
         IN  /\ l \in Block /\ u \in Block /\ Natural(l) /\ Natural(u)
             /\ 2^b.order = 2^l.order + 2^l.order
<1> DEFINE o == b.order
           i == b.page
           s == 2^(o - 1)
           t == 2^o
<1>1. /\ o \in Orders /\ o - 1 \in Orders /\ i \in Nat /\ i < NPages
      /\ s \in Nat /\ s >= 1 /\ t = s + s /\ NPages \in Nat /\ i + t <= NPages
  BY Size, RangeAssumption DEF Orders, Natural
<1>2. PICK k \in 0 .. i : i = k * t
  BY DEF Natural
<1> HIDE DEF o, i, s, t
<1>3. i = (2 * k) * s /\ 2 * k \in Nat /\ i + s = (2 * k + 1) * s
  BY <1>1, <1>2
<1>4. 2 * k <= i /\ 2 * k + 1 <= i + s
  BY <1>1, <1>3
<1> QED BY <1>1, <1>3, <1>4 DEF Natural, Block, Frames, o, i, s, t

-----------------------------------------------------------------------------
(* Assignments of blocks to places.                                        *)

Placing == [Places -> SUBSET Block]

AllDisjoint(F) ==
  \A pl, ql \in Places : \A b \in F[pl], c \in F[ql] :
    pl # ql \/ b # c => Disjoint(b, c)

AllNatural(F) == \A pl \in Places : \A b \in F[pl] : Natural(b)

AllCovered(F) == \A i \in Frames : \E pl \in Places : \E b \in F[pl] : Covers(b, i)

Good(F) == AllDisjoint(F) /\ AllNatural(F) /\ AllCovered(F)

\* A block that moves from one place to another stays apart from the others.
LEMMA MoveGood ==
  ASSUME NEW F \in Placing, NEW x \in Places, NEW y \in Places, x # y,
         NEW b \in F[x], Good(F),
         NEW G \in Placing,
         G[x] = F[x] \ {b}, G[y] = F[y] \cup {b},
         \A pl \in Places \ {x, y} : G[pl] = F[pl]
  PROVE  Good(G)
<1>1. \A pl \in Places : \A c \in G[pl] : c \in F[pl] \/ (pl = y /\ c = b)
  BY DEF Placing
<1>2. b \notin G[x] /\ b \in G[y] /\ b \in Block
  BY DEF Placing
<1>3. \A pl \in Places : \A c \in F[pl] : c \in G[pl] \/ (pl = x /\ c = b)
  BY DEF Placing
<1>4. AllDisjoint(G)
  <2> SUFFICES ASSUME NEW pl \in Places, NEW ql \in Places, NEW c \in G[pl], NEW d \in G[ql],
                      pl # ql \/ c # d
               PROVE  Disjoint(c, d)
    BY DEF AllDisjoint
  <2>1. CASE c \in F[pl] /\ d \in F[ql]
    BY <2>1 DEF Good, AllDisjoint
  <2>2. CASE pl = y /\ c = b /\ d \in F[ql]
    BY <2>2, <1>2 DEF Good, AllDisjoint
  <2>3. CASE ql = y /\ d = b /\ c \in F[pl]
    BY <2>3, <1>2 DEF Good, AllDisjoint
  <2>4. ~(pl = y /\ c = b /\ ql = y /\ d = b)
    OBVIOUS
  <2> QED BY <2>1, <2>2, <2>3, <2>4, <1>1
<1>5. AllNatural(G)
  BY <1>1 DEF Good, AllNatural
<1>6. AllCovered(G)
  BY <1>2, <1>3 DEF Good, AllCovered
<1> QED BY <1>4, <1>5, <1>6 DEF Good

\* Two blocks that make up a third give way to it.
LEMMA MergeGood ==
  ASSUME NEW F \in Placing, NEW x \in Places, NEW y \in Places, x # y,
         NEW b \in Block, F[y] = {b}, NEW d \in F[x], Good(F),
         NEW m \in Block, Natural(m),
         \A e \in Block : Disjoint(b, e) /\ Disjoint(d, e) => Disjoint(m, e),
         \A i \in Frames : Covers(b, i) \/ Covers(d, i) => Covers(m, i),
         NEW G \in Placing,
         G[x] = F[x] \ {d}, G[y] = {m},
         \A pl \in Places \ {x, y} : G[pl] = F[pl]
  PROVE  Good(G)
<1>1. \A pl \in Places : \A c \in G[pl] :
        \/ c \in F[pl] /\ pl # y /\ (pl # x \/ c # d)
        \/ pl = y /\ c = m
  BY DEF Placing
<1>2. /\ m \in G[y]
      /\ \A pl \in Places : \A c \in F[pl] : c \in G[pl] \/ (pl = x /\ c = d) \/ (pl = y /\ c = b)
  BY DEF Placing
<1>3. \A e, f \in Block : Disjoint(e, f) <=> Disjoint(f, e)
  BY DEF Disjoint
<1>4. \A pl \in Places : \A c \in F[pl] : pl # y /\ (pl # x \/ c # d) => Disjoint(m, c)
  BY DEF Good, AllDisjoint, Placing
<1>5. AllDisjoint(G)
  <2> SUFFICES ASSUME NEW pl \in Places, NEW ql \in Places, NEW c \in G[pl], NEW e \in G[ql],
                      pl # ql \/ c # e
               PROVE  Disjoint(c, e)
    BY DEF AllDisjoint
  <2>1. c \in Block /\ e \in Block
    BY DEF Placing
  <2>2. CASE c \in F[pl] /\ e \in F[ql]
    BY <2>2 DEF Good, AllDisjoint
  <2>3. CASE pl = y /\ c = m
    BY <2>3, <1>1, <1>4
  <2>4. CASE ql = y /\ e = m
    BY <2>4, <1>1, <1>3, <1>4, <2>1
  <2> QED BY <2>2, <2>3, <2>4, <1>1
<1>6. AllNatural(G)
  BY <1>1 DEF Good, AllNatural
<1>7. AllCovered(G)
  BY <1>2 DEF Good, AllCovered
<1> QED BY <1>5, <1>6, <1>7 DEF Good

\* A block gives way to two that make it up.
LEMMA SplitGood ==
  ASSUME NEW F \in Placing, NEW x \in Places, NEW y \in Places, x # y,
         NEW b \in Block, F[y] = {b}, Good(F),
         NEW l \in Block, NEW u \in Block, Natural(l), Natural(u), Disjoint(l, u),
         \A e \in Block : Disjoint(b, e) => Disjoint(l, e) /\ Disjoint(u, e),
         \A i \in Frames : Covers(b, i) => Covers(l, i) \/ Covers(u, i),
         NEW G \in Placing,
         G[x] = F[x] \cup {u}, G[y] = {l},
         \A pl \in Places \ {x, y} : G[pl] = F[pl]
  PROVE  Good(G)
<1>1. \A pl \in Places : \A c \in G[pl] :
        \/ c \in F[pl] /\ pl # y
        \/ pl = y /\ c = l
        \/ pl = x /\ c = u
  BY DEF Placing
<1>2. /\ l \in G[y] /\ u \in G[x]
      /\ \A pl \in Places : \A c \in F[pl] : c \in G[pl] \/ (pl = y /\ c = b)
  BY DEF Placing
<1>3. \A e, f \in Block : Disjoint(e, f) <=> Disjoint(f, e)
  BY DEF Disjoint
<1>4. \A pl \in Places : \A c \in F[pl] : pl # y => Disjoint(l, c) /\ Disjoint(u, c)
  BY DEF Good, AllDisjoint, Placing
<1>5. AllDisjoint(G)
  <2> SUFFICES ASSUME NEW pl \in Places, NEW ql \in Places, NEW c \in G[pl], NEW e \in G[ql],
                      pl # ql \/ c # e
               PROVE  Disjoint(c, e)
    BY DEF AllDisjoint
  <2>1. c \in Block /\ e \in Block
    BY DEF Placing
  <2>2. CASE c \in F[pl] /\ e \in F[ql]
    BY <2>2 DEF Good, AllDisjoint
  <2>3. CASE c \in F[pl] /\ pl # y /\ ((ql = y /\ e = l) \/ (ql = x /\ e = u))
    BY <2>3, <1>3, <1>4, <2>1
  <2>4. CASE e \in F[ql] /\ ql # y /\ ((pl = y /\ c = l) \/ (pl = x /\ c = u))
    BY <2>4, <1>4
  <2>5. CASE ((pl = y /\ c = l) \/ (pl = x /\ c = u)) /\ ((ql = y /\ e = l) \/ (ql = x /\ e = u))
    BY <2>5, <1>3, <2>1
  <2> QED BY <2>2, <2>3, <2>4, <2>5, <1>1
<1>6. AllNatural(G)
  BY <1>1 DEF Good, AllNatural
<1>7. AllCovered(G)
  BY <1>2 DEF Good, AllCovered
<1> QED BY <1>5, <1>6, <1>7 DEF Good

-----------------------------------------------------------------------------
(* The inductive invariant.                                                *)

Where == [pl \in Places |-> At(pl)]

\* Whoever is past lockup, and nobody else, is named in lock.
Locking == \A p \in Procs : pc[p] \in {"free_loop", "alloc_scan", "alloc_split"} <=> lock = p

\* What a thread works on is a block, and alloc_pages never goes below the
\* order it was called with.
HandsOK == \A p \in Procs :
  /\ InHand(p) => cur[p] \in Block
  /\ pc[p] \in {"alloc_scan", "alloc_split"} => arg[p].order <= cur[p].order

BuddyInv == TypeOK /\ ListsAgree /\ Locking /\ HandsOK /\ Good(Where)

LEMMA WhereIs ==
  /\ FreePlace \in Places /\ HeldPlace \in Places /\ \A p \in Procs : Hand(p) \in Places
  /\ FreePlace # HeldPlace
  /\ \A p \in Procs : Hand(p) # FreePlace /\ Hand(p) # HeldPlace
  /\ \A p, q \in Procs : p # q => Hand(p) # Hand(q)
  /\ \A pl \in Places : pl \in {FreePlace, HeldPlace} \/ \E p \in Procs : pl = Hand(p)
  /\ Where[FreePlace] = FreeBlocks /\ Where[HeldPlace] = held
  /\ \A p \in Procs : Where[Hand(p)] = IF InHand(p) THEN {cur[p]} ELSE {}
  /\ Where'[FreePlace] = FreeBlocks' /\ Where'[HeldPlace] = held'
  /\ \A p \in Procs : Where'[Hand(p)] = IF InHand(p)' THEN {cur'[p]} ELSE {}
<1>1. /\ FreePlace \in Places /\ HeldPlace \in Places /\ \A p \in Procs : Hand(p) \in Places
      /\ \A pl \in Places : pl \in {FreePlace, HeldPlace} \/ \E p \in Procs : pl = Hand(p)
  BY DEF Places
<1>2. /\ FreePlace.kind = "free" /\ HeldPlace.kind = "held"
      /\ \A p \in Procs : Hand(p).kind = "hand" /\ Hand(p).by = p
  BY DEF FreePlace, HeldPlace, Hand
<1>3. /\ FreePlace # HeldPlace
      /\ \A p \in Procs : Hand(p) # FreePlace /\ Hand(p) # HeldPlace
      /\ \A p, q \in Procs : p # q => Hand(p) # Hand(q)
  BY <1>2
<1>4. /\ Where[FreePlace] = FreeBlocks /\ Where[HeldPlace] = held
      /\ \A p \in Procs : Where[Hand(p)] = IF InHand(p) THEN {cur[p]} ELSE {}
  BY <1>1, <1>2 DEF Where, At
<1>5. /\ Where'[FreePlace] = FreeBlocks' /\ Where'[HeldPlace] = held'
      /\ \A p \in Procs : Where'[Hand(p)] = IF InHand(p)' THEN {cur'[p]} ELSE {}
  BY <1>1, <1>2 DEF Where, At
<1> QED BY <1>1, <1>3, <1>4, <1>5

\* The good placings are those of the three invariants.
LEMMA GoodIs == Good(Where) <=> BlocksDisjoint /\ BlocksNatural /\ NoFrameLost
BY DEF Good, Where, AllDisjoint, AllNatural, AllCovered, BlocksDisjoint, BlocksNatural, NoFrameLost

\* All of it is about blocks.
LEMMA WherePlacing ==
  /\ TypeOK /\ HandsOK => Where \in Placing
  /\ TypeOK' /\ HandsOK' => Where' \in Placing
<1>1. TypeOK => FreeBlocks \in SUBSET Block
  BY ElementOfSeq DEF TypeOK, FreeBlocks, Members, Block
<1>2. TypeOK' => FreeBlocks' \in SUBSET Block
  BY ElementOfSeq DEF TypeOK, FreeBlocks, Members, Block
<1>3. ASSUME TypeOK, HandsOK PROVE Where \in Placing
  <2>1. Where[FreePlace] \in SUBSET Block /\ Where[HeldPlace] \in SUBSET Block
    BY <1>1, <1>3, WhereIs DEF TypeOK
  <2>2. ASSUME NEW p \in Procs PROVE Where[Hand(p)] \in SUBSET Block
    <3>1. InHand(p) => cur[p] \in Block
      BY <1>3 DEF HandsOK
    <3>2. Where[Hand(p)] = IF InHand(p) THEN {cur[p]} ELSE {}
      BY WhereIs
    <3> QED BY <3>1, <3>2
  <2>3. \A pl \in Places : Where[pl] \in SUBSET Block
    BY <2>1, <2>2, WhereIs
  <2> QED BY <2>3 DEF Where, Placing
<1>4. ASSUME TypeOK', HandsOK' PROVE Where' \in Placing
  <2>1. Where'[FreePlace] \in SUBSET Block /\ Where'[HeldPlace] \in SUBSET Block
    BY <1>2, <1>4, WhereIs DEF TypeOK
  <2>2. ASSUME NEW p \in Procs PROVE Where'[Hand(p)] \in SUBSET Block
    <3>1. InHand(p)' => cur'[p] \in Block
      BY <1>4 DEF HandsOK
    <3>2. Where'[Hand(p)] = IF InHand(p)' THEN {cur'[p]} ELSE {}
      BY WhereIs
    <3> QED BY <3>1, <3>2
  <2>3. \A pl \in Places : Where'[pl] \in SUBSET Block
    BY <2>1, <2>2, WhereIs
  <2> QED BY <2>3 DEF Where, Placing
<1> QED BY <1>3, <1>4

\* set_order, list_add and ++nr_free for a page that is on no list.
LEMMA PutFreeOK ==
  ASSUME TypeOK, ListsAgree, NEW i \in Frames, NEW o \in Orders,
         \A q \in Orders : i \notin Members(freelist[q]),
         PutFree(i, o)
  PROVE  /\ freelist' \in [Orders -> Seq(Frames)] /\ nr_free' \in [Orders -> Nat]
         /\ order' \in [Frames -> Orders \cup {NoOrder}]
         /\ ListsAgree'
         /\ FreeBlocks' = FreeBlocks \cup {[page |-> i, order |-> o]}
<1> DEFINE l == freelist[o]
<1>1. l \in Seq(Frames) /\ NoDup(l) /\ i \notin Members(l) /\ Len(l) \in Nat
  BY LenProperties DEF TypeOK, ListsAgree, NoDup
<1>2. /\ list_add(l, i) \in Seq(Frames) /\ Len(list_add(l, i)) = Len(l) + 1
      /\ Members(list_add(l, i)) = Members(l) \cup {i} /\ NoDup(list_add(l, i))
  BY <1>1, ListAdd
<1>3. /\ freelist' = [freelist EXCEPT ![o] = list_add(l, i)]
      /\ nr_free' = [nr_free EXCEPT ![o] = nr_free[o] + 1]
      /\ order' = [order EXCEPT ![i] = o]
  BY DEF PutFree
<1> HIDE DEF l
<1>4. /\ freelist' \in [Orders -> Seq(Frames)] /\ nr_free' \in [Orders -> Nat]
      /\ order' \in [Frames -> Orders \cup {NoOrder}]
  BY <1>2, <1>3 DEF TypeOK
<1>5. \A q \in Orders : Members(freelist'[q]) =
                        IF q = o THEN Members(freelist[q]) \cup {i} ELSE Members(freelist[q])
  BY <1>2, <1>3 DEF TypeOK, l
<1>6. ListsAgree'
  <2>1. \A q \in Orders : \A j \in Frames : order'[j] = q <=> j \in Members(freelist'[q])
    <3> SUFFICES ASSUME NEW q \in Orders, NEW j \in Frames
                 PROVE  order'[j] = q <=> j \in Members(freelist'[q])
      OBVIOUS
    <3>1. order[j] = q <=> j \in Members(freelist[q])
      BY DEF ListsAgree, Members
    <3>2. order'[j] = IF j = i THEN o ELSE order[j]
      BY <1>3 DEF TypeOK
    <3> QED BY <3>1, <3>2, <1>5
  <2>2. \A q \in Orders : NoDup(freelist'[q])
    BY <1>2, <1>3 DEF TypeOK, ListsAgree, NoDup
  <2>3. \A q \in Orders : nr_free'[q] = Len(freelist'[q])
    BY <1>1, <1>2, <1>3 DEF TypeOK, ListsAgree, l
  <2> QED BY <2>1, <2>2, <2>3 DEF ListsAgree, NoDup, Members
<1>7. \A b : b \in FreeBlocks <=> \E q \in Orders : \E j \in Members(freelist[q]) : b = [page |-> j, order |-> q]
  BY DEF FreeBlocks
<1>8. \A b : b \in FreeBlocks' <=> \E q \in Orders : \E j \in Members(freelist'[q]) : b = [page |-> j, order |-> q]
  BY DEF FreeBlocks, Members
<1>9. FreeBlocks' = FreeBlocks \cup {[page |-> i, order |-> o]}
  BY <1>5, <1>7, <1>8
<1> QED BY <1>4, <1>6, <1>9

\* list_del_init, --nr_free and clear_order for a page that is on that list.
LEMMA TakeFreeOK ==
  ASSUME TypeOK, ListsAgree, NEW o \in Orders, NEW i \in Members(freelist[o]),
         TakeFree(i, o)
  PROVE  /\ freelist' \in [Orders -> Seq(Frames)] /\ nr_free' \in [Orders -> Nat]
         /\ order' \in [Frames -> Orders \cup {NoOrder}]
         /\ ListsAgree'
         /\ FreeBlocks' = FreeBlocks \ {[page |-> i, order |-> o]}
         /\ [page |-> i, order |-> o] \in FreeBlocks
<1> DEFINE l == freelist[o]
<1>1. /\ l \in Seq(Frames) /\ NoDup(l) /\ i \in Members(l) /\ i \in Frames
      /\ Len(l) \in Nat /\ Len(l) # 0 /\ order[i] = o
  <2>1. l \in Seq(Frames) /\ NoDup(l)
    BY DEF TypeOK, ListsAgree, NoDup
  <2>2. PICK k \in 1 .. Len(l) : i = l[k]
    BY DEF Members
  <2>3. Len(l) \in Nat
    BY <2>1, LenProperties
  <2>4. i \in Frames
    BY <2>1, <2>2, <2>3, ElementOfSeq
  <2>5. order[i] = o
    BY <2>4 DEF ListsAgree
  <2> QED BY <2>1, <2>2, <2>3, <2>4, <2>5
<1>2. /\ list_del(l, i) \in Seq(Frames) /\ Len(list_del(l, i)) = Len(l) - 1
      /\ Members(list_del(l, i)) = Members(l) \ {i} /\ NoDup(list_del(l, i))
  BY <1>1, ListDel
<1>3. /\ freelist' = [freelist EXCEPT ![o] = list_del(l, i)]
      /\ nr_free' = [nr_free EXCEPT ![o] = nr_free[o] - 1]
      /\ order' = [order EXCEPT ![i] = NoOrder]
      /\ nr_free[o] = Len(l)
  BY DEF TakeFree, ListsAgree
<1> HIDE DEF l
<1>4. /\ freelist' \in [Orders -> Seq(Frames)] /\ nr_free' \in [Orders -> Nat]
      /\ order' \in [Frames -> Orders \cup {NoOrder}]
  BY <1>1, <1>2, <1>3 DEF TypeOK
<1>5. \A q \in Orders : Members(freelist'[q]) =
                        IF q = o THEN Members(freelist[q]) \ {i} ELSE Members(freelist[q])
  BY <1>2, <1>3 DEF TypeOK, l
<1>6. NoOrder \notin Orders
  BY DEF NoOrder, Orders
<1>7. ListsAgree'
  <2>1. \A q \in Orders : \A j \in Frames : order'[j] = q <=> j \in Members(freelist'[q])
    <3> SUFFICES ASSUME NEW q \in Orders, NEW j \in Frames
                 PROVE  order'[j] = q <=> j \in Members(freelist'[q])
      OBVIOUS
    <3>1. order[j] = q <=> j \in Members(freelist[q])
      BY DEF ListsAgree, Members
    <3>2. order'[j] = IF j = i THEN NoOrder ELSE order[j]
      BY <1>3 DEF TypeOK
    <3> QED BY <3>1, <3>2, <1>1, <1>5, <1>6
  <2>2. \A q \in Orders : NoDup(freelist'[q])
    BY <1>2, <1>3 DEF TypeOK, ListsAgree, NoDup
  <2>3. \A q \in Orders : nr_free'[q] = Len(freelist'[q])
    BY <1>1, <1>2, <1>3 DEF TypeOK, ListsAgree, l
  <2> QED BY <2>1, <2>2, <2>3 DEF ListsAgree, NoDup, Members
<1>8. \A b : b \in FreeBlocks <=> \E q \in Orders : \E j \in Members(freelist[q]) : b = [page |-> j, order |-> q]
  BY DEF FreeBlocks
<1>9. \A b : b \in FreeBlocks' <=> \E q \in Orders : \E j \in Members(freelist'[q]) : b = [page |-> j, order |-> q]
  BY DEF FreeBlocks, Members
<1>10. FreeBlocks' = FreeBlocks \ {[page |-> i, order |-> o]}
  BY <1>5, <1>8, <1>9
<1>11. [page |-> i, order |-> o] \in FreeBlocks
  BY <1>8
<1> QED BY <1>4, <1>7, <1>10, <1>11

-----------------------------------------------------------------------------
(* Every step preserves it.  First the steps that leave every block where  *)
(* it is.                                                                  *)

LEMMA StillGood ==
  ASSUME BuddyInv, UNCHANGED <<freelist, held>>,
         \A p \in Procs : /\ InHand(p)' <=> InHand(p)
                          /\ InHand(p) => cur'[p] = cur[p]
  PROVE  Good(Where)'
<1>1. FreeBlocks' = FreeBlocks
  BY DEF FreeBlocks, Members
<1>2. \A p \in Procs : Where'[Hand(p)] = Where[Hand(p)]
  BY WhereIs
<1>3. \A pl \in Places : Where'[pl] = Where[pl]
  BY <1>1, <1>2, WhereIs
<1>4. Good(Where)
  BY DEF BuddyInv
<1> QED BY <1>3, <1>4 DEF Good, AllDisjoint, AllNatural, AllCovered

\* FreeLock, AllocLock, CallAlloc, AllocScan and AllocFail, and the end of boot.
LEMMA QuietStep ==
  ASSUME BuddyInv, NEW p \in Procs,
         \/ FreeLock(p) \/ AllocLock(p) \/ AllocScan(p) \/ AllocFail(p)
         \/ (\E o \in 0 .. MaxRequest : CallAlloc(p, o)) \/ InitDone
  PROVE  BuddyInv'
<1>1. TypeOK'
  <2> USE DEF BuddyInv, TypeOK, PcValues, lists
  <2>1. CASE FreeLock(p)
    BY <2>1 DEF FreeLock
  <2>2. CASE AllocLock(p)
    BY <2>2 DEF AllocLock
  <2>3. CASE AllocScan(p)
    <3>1. cur[p].page \in Nat /\ cur[p].order + 1 \in Nat
      OBVIOUS
    <3>2. cur' \in [Procs -> [page : Nat, order : Nat]]
      BY <2>3, <3>1 DEF AllocScan
    <3> QED BY <2>3, <3>2 DEF AllocScan
  <2>4. CASE AllocFail(p)
    BY <2>4 DEF AllocFail
  <2>5. CASE \E o \in 0 .. MaxRequest : CallAlloc(p, o)
    BY <2>5, RangeAssumption DEF CallAlloc
  <2>6. CASE InitDone
    BY <2>6 DEF InitDone
  <2> QED BY <2>1, <2>2, <2>3, <2>4, <2>5, <2>6
<1>2. ListsAgree'
  BY DEF BuddyInv, ListsAgree, Members, lists,
         FreeLock, AllocLock, AllocScan, AllocFail, CallAlloc, InitDone
<1>3. Locking'
  BY ProcsAssumption
  DEF BuddyInv, TypeOK, Locking, FreeLock, AllocLock, AllocScan, AllocFail, CallAlloc, InitDone
<1>4. HandsOK'
  BY RangeAssumption
  DEF BuddyInv, TypeOK, HandsOK, InHand, FreeLock, AllocLock, AllocScan, AllocFail, CallAlloc, InitDone
<1>5. Good(Where)'
  <2>1. UNCHANGED <<freelist, held>>
    BY DEF lists, FreeLock, AllocLock, AllocScan, AllocFail, CallAlloc, InitDone
  <2>2. \A q \in Procs : /\ InHand(q)' <=> InHand(q)
                         /\ InHand(q) => cur'[q] = cur[q]
    BY DEF BuddyInv, TypeOK, InHand, FreeLock, AllocLock, AllocScan, AllocFail, CallAlloc, InitDone
  <2> QED BY <2>1, <2>2, StillGood
<1> QED BY <1>1, <1>2, <1>3, <1>4, <1>5 DEF BuddyInv

-----------------------------------------------------------------------------
(* The steps that move one block.                                          *)

LEMMA EnterFreeStep ==
  ASSUME BuddyInv, NEW p \in Procs, NEW b \in held, EnterFree(p, b),
         index' \in 0 .. NPages, booted' \in BOOLEAN
  PROVE  BuddyInv'
<1>1. b \in Block /\ b.page \in Nat /\ b.order \in Nat
  BY RangeAssumption, Size DEF BuddyInv, TypeOK, Orders
<1>2. TypeOK'
  <2>1. b \in [page : Nat, order : Nat]
    BY <1>1 DEF Block
  <2> QED BY <2>1 DEF BuddyInv, TypeOK, PcValues, lists, EnterFree
<1>3. ListsAgree'
  BY DEF BuddyInv, ListsAgree, Members, lists, EnterFree
<1>4. Locking'
  BY DEF BuddyInv, TypeOK, Locking, EnterFree
<1>5. HandsOK'
  BY <1>1 DEF BuddyInv, TypeOK, HandsOK, InHand, EnterFree
<1>6. Good(Where)'
  <2>1. FreeBlocks' = FreeBlocks /\ held' = held \ {b}
    BY DEF FreeBlocks, Members, EnterFree, lists
  <2>2. \A q \in Procs : /\ InHand(q)' <=> InHand(q) \/ q = p
                         /\ cur'[q] = IF q = p THEN b ELSE cur[q]
    BY DEF BuddyInv, TypeOK, InHand, EnterFree
  <2>3. ~InHand(p)
    BY DEF InHand, EnterFree
  <2>4. /\ Where'[HeldPlace] = Where[HeldPlace] \ {b}
        /\ Where'[Hand(p)] = Where[Hand(p)] \cup {b}
        /\ b \in Where[HeldPlace]
    BY <2>1, <2>2, <2>3, WhereIs
  <2>5. \A q \in Procs : q # p => Where'[Hand(q)] = Where[Hand(q)]
    BY <2>2, WhereIs
  <2>6. \A pl \in Places \ {HeldPlace, Hand(p)} : Where'[pl] = Where[pl]
    BY <2>1, <2>5, WhereIs
  <2>7. Where \in Placing /\ Where' \in Placing /\ Good(Where)
    BY <1>2, <1>5, WherePlacing DEF BuddyInv
  <2>8. HeldPlace \in Places /\ Hand(p) \in Places /\ HeldPlace # Hand(p)
    BY WhereIs
  <2> HIDE DEF Where
  <2> QED BY <2>4, <2>6, <2>7, <2>8, MoveGood
<1> QED BY <1>2, <1>3, <1>4, <1>5, <1>6 DEF BuddyInv

LEMMA FreeInsertStep ==
  ASSUME BuddyInv, NEW p \in Procs, FreeInsert(p)
  PROVE  BuddyInv'
<1> DEFINE b == cur[p]
<1>1. /\ InHand(p) /\ b \in Block /\ b.page \in Frames /\ b.order \in Orders
      /\ b = [page |-> b.page, order |-> b.order]
  BY DEF BuddyInv, HandsOK, InHand, FreeInsert, Block
<1>2. \A q \in Orders : b.page \notin Members(freelist[q])
  <2> SUFFICES ASSUME NEW q \in Orders, b.page \in Members(freelist[q]) PROVE FALSE
    OBVIOUS
  <2> DEFINE d == [page |-> b.page, order |-> q]
  <2>1. d \in FreeBlocks
    BY DEF FreeBlocks
  <2>2. /\ FreePlace \in Places /\ Hand(p) \in Places /\ Hand(p) # FreePlace
        /\ Where[FreePlace] = FreeBlocks /\ Where[Hand(p)] = {b}
    BY <1>1, WhereIs
  <2>3. AllDisjoint(Where)
    BY DEF BuddyInv, Good
  <2>4. b \in Where[Hand(p)] /\ d \in Where[FreePlace]
    BY <2>1, <2>2
  <2> HIDE DEF b, d
  <2>5. Disjoint(b, d)
    BY <2>2, <2>3, <2>4 DEF AllDisjoint
  <2>6. d.page = b.page /\ d.order = q
    BY DEF d
  <2> QED BY <1>1, <2>5, <2>6, Size DEF Disjoint
<1>3. /\ freelist' \in [Orders -> Seq(Frames)] /\ nr_free' \in [Orders -> Nat]
      /\ order' \in [Frames -> Orders \cup {NoOrder}]
      /\ ListsAgree'
      /\ FreeBlocks' = FreeBlocks \cup {b}
  BY <1>1, <1>2, PutFreeOK DEF BuddyInv, FreeInsert
<1>4. TypeOK'
  BY <1>3 DEF BuddyInv, TypeOK, PcValues, FreeInsert
<1>5. Locking'
  BY ProcsAssumption DEF BuddyInv, TypeOK, Locking, FreeInsert
<1>6. HandsOK'
  BY DEF BuddyInv, TypeOK, HandsOK, InHand, FreeInsert
<1>7. Good(Where)'
  <2>1. held' = held
    BY DEF FreeInsert
  <2>2. \A q \in Procs : /\ InHand(q)' <=> InHand(q) /\ q # p
                         /\ cur'[q] = cur[q]
    BY DEF BuddyInv, TypeOK, InHand, FreeInsert
  <2>3. Where[Hand(p)] = {b} /\ Where'[Hand(p)] = {}
    BY <1>1, <2>2, WhereIs
  <2>4. /\ Where'[FreePlace] = Where[FreePlace] \cup {b}
        /\ Where'[Hand(p)] = Where[Hand(p)] \ {b}
        /\ b \in Where[Hand(p)]
    BY <1>3, <2>3, WhereIs
  <2>5. \A q \in Procs : q # p => Where'[Hand(q)] = Where[Hand(q)]
    BY <2>2, WhereIs
  <2>6. \A pl \in Places \ {Hand(p), FreePlace} : Where'[pl] = Where[pl]
    BY <2>1, <2>5, WhereIs
  <2>7. Where \in Placing /\ Where' \in Placing /\ Good(Where)
    BY <1>4, <1>6, WherePlacing DEF BuddyInv
  <2>8. FreePlace \in Places /\ Hand(p) \in Places /\ FreePlace # Hand(p)
    BY WhereIs
  <2> HIDE DEF Where, b
  <2> QED BY <2>4, <2>6, <2>7, <2>8, MoveGood
<1> QED BY <1>3, <1>4, <1>5, <1>6, <1>7 DEF BuddyInv

LEMMA AllocFoundStep ==
  ASSUME BuddyInv, NEW p \in Procs, AllocFound(p)
  PROVE  BuddyInv'
<1> DEFINE o == cur[p].order
           i == freelist[o][1]
           b == [page |-> i, order |-> o]
<1>1. /\ o \in Orders /\ pc[p] = "alloc_scan" /\ freelist[o] \in Seq(Frames)
      /\ freelist[o] # <<>> /\ cur[p] \in [page : Nat, order : Nat]
  BY RangeAssumption DEF BuddyInv, TypeOK, AllocFound, Empty, Orders
<1>2. i \in Members(freelist[o]) /\ i \in Frames
  <2>1. Len(freelist[o]) \in Nat \ {0}
    BY <1>1, EmptySeq
  <2>2. 1 \in 1 .. Len(freelist[o])
    BY <2>1
  <2> QED BY <1>1, <2>2, ElementOfSeq DEF Members
<1>3. /\ TakeFree(i, o) /\ alloced' = alloced \cup {i}
      /\ cur' = [cur EXCEPT ![p].page = i] /\ pc' = [pc EXCEPT ![p] = "alloc_split"]
      /\ UNCHANGED <<lock, arg, held, index, booted>>
  BY DEF AllocFound
<1> HIDE DEF i
<1>4. /\ freelist' \in [Orders -> Seq(Frames)] /\ nr_free' \in [Orders -> Nat]
      /\ order' \in [Frames -> Orders \cup {NoOrder}]
      /\ ListsAgree'
      /\ FreeBlocks' = FreeBlocks \ {b} /\ b \in FreeBlocks
  BY <1>1, <1>2, <1>3, TakeFreeOK DEF BuddyInv
<1>5. cur'[p] = b /\ cur' \in [Procs -> [page : Nat, order : Nat]]
      /\ \A q \in Procs : q # p => cur'[q] = cur[q]
  <2>1. i \in Nat
    BY <1>2, RangeAssumption DEF Frames
  <2>2. cur' = [cur EXCEPT ![p] = [cur[p] EXCEPT !.page = i]]
    BY <1>3
  <2>3. [cur[p] EXCEPT !.page = i] = b
    BY <1>1
  <2>4. b \in [page : Nat, order : Nat]
    BY <1>1, <2>1
  <2> HIDE DEF b
  <2> QED BY <2>2, <2>3, <2>4 DEF BuddyInv, TypeOK
<1>6. TypeOK'
  BY <1>2, <1>3, <1>4, <1>5 DEF BuddyInv, TypeOK, PcValues
<1>7. Locking'
  BY <1>1, <1>3 DEF BuddyInv, TypeOK, Locking
<1>8. HandsOK'
  <2>1. b \in Block
    BY <1>1, <1>2 DEF Block
  <2>2. ASSUME NEW q \in Procs, q # p
        PROVE  /\ InHand(q)' => cur'[q] \in Block
               /\ pc'[q] \in {"alloc_scan", "alloc_split"} => arg'[q].order <= cur'[q].order
    BY <2>2, <1>3, <1>5 DEF BuddyInv, TypeOK, HandsOK, InHand
  <2>3. arg'[p].order <= cur'[p].order
    BY <1>1, <1>3, <1>5 DEF BuddyInv, HandsOK
  <2> QED BY <2>1, <2>2, <2>3, <1>5 DEF HandsOK
<1>9. Good(Where)'
  <2>1. \A q \in Procs : InHand(q)' <=> InHand(q) \/ q = p
    BY <1>1, <1>3 DEF BuddyInv, TypeOK, InHand
  <2>2. ~InHand(p)
    BY <1>1 DEF InHand
  <2>3. Where[Hand(p)] = {} /\ Where'[Hand(p)] = {b}
    BY <1>5, <2>1, <2>2, WhereIs
  <2>4. /\ Where'[FreePlace] = Where[FreePlace] \ {b}
        /\ Where'[Hand(p)] = Where[Hand(p)] \cup {b}
        /\ b \in Where[FreePlace]
    BY <1>4, <2>3, WhereIs
  <2>5. \A q \in Procs : q # p => Where'[Hand(q)] = Where[Hand(q)]
    BY <1>5, <2>1, WhereIs
  <2>6. \A pl \in Places \ {FreePlace, Hand(p)} : Where'[pl] = Where[pl]
    BY <1>3, <2>5, WhereIs
  <2>7. Where \in Placing /\ Where' \in Placing /\ Good(Where)
    BY <1>6, <1>8, WherePlacing DEF BuddyInv
  <2>8. FreePlace \in Places /\ Hand(p) \in Places /\ FreePlace # Hand(p)
    BY WhereIs
  <2> HIDE DEF Where, b
  <2> QED BY <2>4, <2>6, <2>7, <2>8, MoveGood
<1> QED BY <1>4, <1>6, <1>7, <1>8, <1>9 DEF BuddyInv

LEMMA AllocReturnStep ==
  ASSUME BuddyInv, NEW p \in Procs, AllocReturn(p)
  PROVE  BuddyInv'
<1> DEFINE b == cur[p]
<1>1. InHand(p) /\ b \in Block
  BY DEF BuddyInv, HandsOK, InHand, AllocReturn
<1>2. TypeOK'
  BY <1>1 DEF BuddyInv, TypeOK, PcValues, lists, AllocReturn
<1>3. ListsAgree'
  BY DEF BuddyInv, ListsAgree, Members, lists, AllocReturn
<1>4. Locking'
  BY ProcsAssumption DEF BuddyInv, TypeOK, Locking, AllocReturn
<1>5. HandsOK'
  BY DEF BuddyInv, TypeOK, HandsOK, InHand, AllocReturn
<1>6. Good(Where)'
  <2>1. FreeBlocks' = FreeBlocks /\ held' = held \cup {b}
    BY DEF FreeBlocks, Members, AllocReturn, lists
  <2>2. \A q \in Procs : /\ InHand(q)' <=> InHand(q) /\ q # p
                         /\ cur'[q] = cur[q]
    BY DEF BuddyInv, TypeOK, InHand, AllocReturn
  <2>3. Where[Hand(p)] = {b} /\ Where'[Hand(p)] = {}
    BY <1>1, <2>2, WhereIs
  <2>4. /\ Where'[HeldPlace] = Where[HeldPlace] \cup {b}
        /\ Where'[Hand(p)] = Where[Hand(p)] \ {b}
        /\ b \in Where[Hand(p)]
    BY <2>1, <2>3, WhereIs
  <2>5. \A q \in Procs : q # p => Where'[Hand(q)] = Where[Hand(q)]
    BY <2>2, WhereIs
  <2>6. \A pl \in Places \ {Hand(p), HeldPlace} : Where'[pl] = Where[pl]
    BY <2>1, <2>5, WhereIs
  <2>7. Where \in Placing /\ Where' \in Placing /\ Good(Where)
    BY <1>2, <1>5, WherePlacing DEF BuddyInv
  <2>8. HeldPlace \in Places /\ Hand(p) \in Places /\ HeldPlace # Hand(p)
    BY WhereIs
  <2> HIDE DEF Where, b
  <2> QED BY <2>4, <2>6, <2>7, <2>8, MoveGood
<1> QED BY <1>2, <1>3, <1>4, <1>5, <1>6 DEF BuddyInv

-----------------------------------------------------------------------------
(* The steps that merge two blocks and split one.                          *)

LEMMA FreeMergeStep ==
  ASSUME BuddyInv, NEW p \in Procs, FreeMerge(p)
  PROVE  BuddyInv'
<1> DEFINE b == cur[p]
           o == b.order
           d == [page |-> BuddyIdx(b.page, o), order |-> o]
           m == [page |-> CombinedIdx(b.page, o), order |-> o + 1]
<1>1. /\ pc[p] = "free_loop" /\ InHand(p) /\ b \in Block /\ o \in Orders
      /\ o < MAX_BUDDY_ORDER /\ order[d.page] = o
  BY DEF BuddyInv, HandsOK, InHand, FreeMerge, CanMerge, is_buddy, Block
<1>2. Natural(b)
  <2>1. b \in Where[Hand(p)] /\ Hand(p) \in Places
    BY <1>1, WhereIs
  <2> QED BY <2>1 DEF BuddyInv, Good, AllNatural
<1>3. /\ d \in Block /\ m \in Block /\ Natural(m)
      /\ 2^m.order = 2^b.order + 2^b.order
      /\ \/ m.page = b.page /\ d.page = b.page + 2^b.order
         \/ m.page = d.page /\ d.page = b.page - 2^b.order
  BY <1>1, <1>2, Buddies
<1>4. d.page \in Members(freelist[o]) /\ d.page \in Frames
  BY <1>1, <1>3 DEF BuddyInv, ListsAgree, Block, Members
<1>5. /\ TakeFree(d.page, o) /\ cur' = [cur EXCEPT ![p] = m]
      /\ UNCHANGED <<alloced, lock, pc, arg, held, index, booted>>
  BY DEF FreeMerge
<1>6. /\ b.order = o /\ d.order = o /\ m.order = o + 1
      /\ d = [page |-> d.page, order |-> o]
  OBVIOUS
<1> HIDE DEF b, d, m, o
<1>7. /\ freelist' \in [Orders -> Seq(Frames)] /\ nr_free' \in [Orders -> Nat]
      /\ order' \in [Frames -> Orders \cup {NoOrder}]
      /\ ListsAgree'
      /\ FreeBlocks' = FreeBlocks \ {d} /\ d \in FreeBlocks
  BY <1>1, <1>4, <1>5, <1>6, TakeFreeOK DEF BuddyInv
<1>8. m \in [page : Nat, order : Nat]
  BY <1>3, Size, RangeAssumption DEF Block, Frames, Orders
<1>9. TypeOK'
  BY <1>5, <1>7, <1>8 DEF BuddyInv, TypeOK
<1>10. Locking'
  BY <1>5 DEF BuddyInv, Locking
<1>11. HandsOK'
  BY <1>1, <1>3, <1>5 DEF BuddyInv, TypeOK, HandsOK, InHand
<1>12. Good(Where)'
  <2>1. \A q \in Procs : /\ InHand(q)' <=> InHand(q)
                         /\ cur'[q] = IF q = p THEN m ELSE cur[q]
    BY <1>5 DEF BuddyInv, TypeOK, InHand
  <2>2. Where[Hand(p)] = {b} /\ Where'[Hand(p)] = {m}
    BY <1>1, <2>1, WhereIs DEF b
  <2>3. Where'[FreePlace] = Where[FreePlace] \ {d} /\ d \in Where[FreePlace]
    BY <1>7, WhereIs
  <2>4. \A q \in Procs : q # p => Where'[Hand(q)] = Where[Hand(q)]
    BY <2>1, WhereIs
  <2>5. \A pl \in Places \ {FreePlace, Hand(p)} : Where'[pl] = Where[pl]
    BY <1>5, <2>4, WhereIs
  <2>6. Where \in Placing /\ Where' \in Placing /\ Good(Where)
    BY <1>9, <1>11, WherePlacing DEF BuddyInv
  <2>7. FreePlace \in Places /\ Hand(p) \in Places /\ FreePlace # Hand(p)
    BY WhereIs
  <2>8. /\ b.page \in Nat /\ d.page \in Nat /\ m.page \in Nat
        /\ 2^b.order \in Int /\ 2^b.order >= 1 /\ 2^d.order = 2^b.order
    BY <1>1, <1>3, <1>6, Size
  <2>9. \A e \in Block : Disjoint(b, e) /\ Disjoint(d, e) => Disjoint(m, e)
    <3> SUFFICES ASSUME NEW e \in Block, Disjoint(b, e), Disjoint(d, e)
                 PROVE  Disjoint(m, e)
      OBVIOUS
    <3>1. e.page \in Nat /\ 2^e.order \in Int /\ 2^e.order >= 1
      BY Size
    <3> QED BY <1>3, <2>8, <3>1 DEF Disjoint
  <2>10. \A i \in Frames : Covers(b, i) \/ Covers(d, i) => Covers(m, i)
    BY <1>3, <2>8, RangeAssumption DEF Covers, Frames
  <2> HIDE DEF Where
  <2> QED BY <1>1, <1>3, <2>2, <2>3, <2>5, <2>6, <2>7, <2>9, <2>10, MergeGood
<1> QED BY <1>7, <1>9, <1>10, <1>11, <1>12 DEF BuddyInv

LEMMA AllocSplitStep ==
  ASSUME BuddyInv, NEW p \in Procs, AllocSplit(p)
  PROVE  BuddyInv'
<1> DEFINE b == cur[p]
           o == b.order - 1
           l == [page |-> b.page, order |-> o]
           u == [page |-> b.page + 2^o, order |-> o]
<1>1. /\ pc[p] = "alloc_split" /\ InHand(p) /\ b \in Block /\ b.order # 0
      /\ arg[p].order \in Nat /\ arg[p].order < b.order /\ b.order \in Nat
  BY DEF BuddyInv, TypeOK, HandsOK, InHand, AllocSplit
<1>2. b \in Where[Hand(p)] /\ Hand(p) \in Places /\ FreePlace \in Places /\ FreePlace # Hand(p)
  BY <1>1, WhereIs
<1>3. Natural(b)
  BY <1>2 DEF BuddyInv, Good, AllNatural
<1>4. /\ l \in Block /\ u \in Block /\ Natural(l) /\ Natural(u)
      /\ 2^b.order = 2^l.order + 2^l.order
  BY <1>1, <1>3, Halves
<1>5. /\ o \in Orders /\ b.page \in Nat /\ 2^o \in Int /\ 2^o >= 1
      /\ 2^b.order = 2^o + 2^o /\ arg[p].order <= o
  BY <1>1, <1>4, Size DEF Block
<1>6. /\ PutFree(u.page, o) /\ cur' = [cur EXCEPT ![p].order = o]
      /\ UNCHANGED <<alloced, lock, pc, arg, held, index, booted>>
  BY DEF AllocSplit
<1>7. l.order = o /\ u.order = o /\ l.page = b.page /\ u.page = b.page + 2^o
      /\ u = [page |-> u.page, order |-> o] /\ u.page \in Frames
  BY <1>4 DEF Block
<1>8. /\ cur'[p] = l /\ cur' \in [Procs -> [page : Nat, order : Nat]]
      /\ \A q \in Procs : q # p => cur'[q] = cur[q]
  <2>1. cur' = [cur EXCEPT ![p] = [cur[p] EXCEPT !.order = o]]
    BY <1>6
  <2>2. [cur[p] EXCEPT !.order = o] = l
    BY DEF BuddyInv, TypeOK
  <2>3. l \in [page : Nat, order : Nat]
    BY <1>5 DEF Orders
  <2> HIDE DEF l
  <2> QED BY <2>1, <2>2, <2>3 DEF BuddyInv, TypeOK
<1> HIDE DEF b, l, u, o
<1>9. \A q \in Orders : u.page \notin Members(freelist[q])
  <2> SUFFICES ASSUME NEW q \in Orders, u.page \in Members(freelist[q]) PROVE FALSE
    OBVIOUS
  <2> DEFINE d == [page |-> u.page, order |-> q]
  <2>1. d \in FreeBlocks
    BY DEF FreeBlocks
  <2>2. Disjoint(b, d)
    BY <1>2, <2>1, WhereIs DEF BuddyInv, Good, AllDisjoint
  <2>3. 2^q \in Int /\ 2^q >= 1
    BY Size
  <2> QED BY <1>5, <1>7, <2>2, <2>3 DEF Disjoint
<1>10. /\ freelist' \in [Orders -> Seq(Frames)] /\ nr_free' \in [Orders -> Nat]
       /\ order' \in [Frames -> Orders \cup {NoOrder}]
       /\ ListsAgree'
       /\ FreeBlocks' = FreeBlocks \cup {u}
  BY <1>5, <1>6, <1>7, <1>9, PutFreeOK DEF BuddyInv
<1>11. TypeOK'
  BY <1>6, <1>8, <1>10 DEF BuddyInv, TypeOK
<1>12. Locking'
  BY <1>6 DEF BuddyInv, Locking
<1>13. HandsOK'
  <2>1. arg[p].order <= cur'[p].order /\ cur'[p] \in Block
    BY <1>4, <1>5, <1>7, <1>8
  <2> QED BY <1>6, <1>8, <2>1 DEF BuddyInv, HandsOK, InHand
<1>14. Good(Where)'
  <2>1. \A q \in Procs : InHand(q)' <=> InHand(q)
    BY <1>6 DEF InHand
  <2>2. Where[Hand(p)] = {b} /\ Where'[Hand(p)] = {l}
    BY <1>1, <1>8, <2>1, WhereIs DEF b
  <2>3. Where'[FreePlace] = Where[FreePlace] \cup {u}
    BY <1>10, WhereIs
  <2>4. \A q \in Procs : q # p => Where'[Hand(q)] = Where[Hand(q)]
    BY <1>8, <2>1, WhereIs
  <2>5. \A pl \in Places \ {FreePlace, Hand(p)} : Where'[pl] = Where[pl]
    BY <1>6, <2>4, WhereIs
  <2>6. Where \in Placing /\ Where' \in Placing /\ Good(Where)
    BY <1>11, <1>13, WherePlacing DEF BuddyInv
  <2>7. \A e \in Block : Disjoint(b, e) => Disjoint(l, e) /\ Disjoint(u, e)
    <3> SUFFICES ASSUME NEW e \in Block, Disjoint(b, e)
                 PROVE  Disjoint(l, e) /\ Disjoint(u, e)
      OBVIOUS
    <3>1. e.page \in Nat /\ 2^e.order \in Int /\ 2^e.order >= 1
      BY Size
    <3> QED BY <1>5, <1>7, <3>1 DEF Disjoint
  <2>8. \A i \in Frames : Covers(b, i) => Covers(l, i) \/ Covers(u, i)
    BY <1>5, <1>7, RangeAssumption DEF Covers, Frames
  <2>9. Disjoint(l, u)
    BY <1>5, <1>7 DEF Disjoint
  <2> HIDE DEF Where
  <2> QED BY <1>1, <1>2, <1>4, <2>2, <2>3, <2>5, <2>6, <2>7, <2>8, <2>9, SplitGood
<1> QED BY <1>10, <1>11, <1>12, <1>13, <1>14 DEF BuddyInv

-----------------------------------------------------------------------------
LEMMA InitInv == Init => BuddyInv
<1> SUFFICES ASSUME Init PROVE BuddyInv
  OBVIOUS
<1>1. 0 \in Orders /\ 2^0 = 1 /\ \A i \in Frames : i \in Nat /\ i < NPages
  BY RangeAssumption, ShiftAssumption DEF Orders, Frames
<1>2. TypeOK
  <2>1. held \in SUBSET Block
    BY <1>1 DEF Init, Block
  <2>2. freelist \in [Orders -> Seq(Frames)] /\ nr_free \in [Orders -> Nat]
    BY DEF Init
  <2>3. arg \in [Procs -> [page : Nat, order : Nat]] /\ cur \in [Procs -> [page : Nat, order : Nat]]
    BY DEF Init
  <2>4. order \in [Frames -> Orders \cup {NoOrder}] /\ pc \in [Procs -> PcValues]
    BY DEF Init, PcValues
  <2>5. 0 \in 0 .. NPages
    BY RangeAssumption
  <2>6. alloced \in SUBSET Frames /\ lock \in Procs \cup {NoProc} /\ booted \in BOOLEAN /\ index = 0
    BY DEF Init
  <2> QED BY <2>1, <2>2, <2>3, <2>4, <2>5, <2>6 DEF TypeOK
<1>3. \A o \in Orders : Members(freelist[o]) = {} /\ Len(freelist[o]) = 0
  BY DEF Init, Members
<1>4. ListsAgree
  BY <1>3 DEF Init, ListsAgree, Members, NoOrder, Orders
<1>5. Locking
  BY ProcsAssumption DEF Init, Locking
<1>6. HandsOK
  BY DEF Init, HandsOK, InHand
<1>7. Good(Where)
  <2>1. /\ Where[FreePlace] = {} /\ Where[HeldPlace] = held
        /\ \A p \in Procs : Where[Hand(p)] = {}
    BY <1>3, WhereIs DEF Init, InHand, FreeBlocks
  <2>2. \A pl \in Places : \A b \in Where[pl] :
          pl = HeldPlace /\ \E i \in Frames : b = [page |-> i, order |-> 0]
    BY <2>1, WhereIs DEF Init
  <2>3. AllDisjoint(Where)
    <3> SUFFICES ASSUME NEW pl \in Places, NEW ql \in Places,
                        NEW b \in Where[pl], NEW c \in Where[ql], pl # ql \/ b # c
                 PROVE  Disjoint(b, c)
      BY DEF AllDisjoint
    <3>1. PICK i \in Frames : b = [page |-> i, order |-> 0]
      BY <2>2
    <3>2. PICK j \in Frames : c = [page |-> j, order |-> 0]
      BY <2>2
    <3>3. i # j
      BY <2>2, <3>1, <3>2
    <3> QED BY <3>1, <3>2, <3>3, <1>1 DEF Disjoint
  <2>4. AllNatural(Where)
    <3> SUFFICES ASSUME NEW pl \in Places, NEW b \in Where[pl] PROVE Natural(b)
      BY DEF AllNatural
    <3>1. PICK i \in Frames : b = [page |-> i, order |-> 0]
      BY <2>2
    <3>2. i \in 0 .. i /\ i = i * 2^0 /\ i + 2^0 <= NPages
      BY <1>1, RangeAssumption
    <3> QED BY <3>1, <3>2 DEF Natural
  <2>5. AllCovered(Where)
    <3> SUFFICES ASSUME NEW i \in Frames
                 PROVE  \E pl \in Places : \E b \in Where[pl] : Covers(b, i)
      BY DEF AllCovered
    <3>1. [page |-> i, order |-> 0] \in Where[HeldPlace]
      BY <2>1 DEF Init
    <3>2. Covers([page |-> i, order |-> 0], i)
      BY <1>1 DEF Covers
    <3> QED BY <3>1, <3>2, WhereIs
  <2> QED BY <2>3, <2>4, <2>5 DEF Good
<1> QED BY <1>2, <1>4, <1>5, <1>6, <1>7 DEF BuddyInv

LEMMA StepInv == BuddyInv /\ [Next]_vars => BuddyInv'
<1> SUFFICES ASSUME BuddyInv, [Next]_vars PROVE BuddyInv'
  OBVIOUS
<1>1. CASE InitFree
  <2>1. [page |-> index, order |-> 0] \in held
    BY <1>1 DEF InitFree, EnterFree
  <2>2. index' \in 0 .. NPages /\ booted' \in BOOLEAN
    BY <1>1, RangeAssumption DEF InitFree, BuddyInv, TypeOK
  <2> QED BY <1>1, <2>1, <2>2, ProcsAssumption, EnterFreeStep DEF InitFree
<1>2. CASE InitDone
  BY <1>2, ProcsAssumption, QuietStep
<1>3. ASSUME NEW p \in Procs, Step(p) PROVE BuddyInv'
  BY <1>3, QuietStep, FreeMergeStep, FreeInsertStep, AllocFoundStep, AllocSplitStep, AllocReturnStep DEF Step
<1>4. ASSUME NEW p \in Procs, NEW b \in held, CallFree(p, b) PROVE BuddyInv'
  <2>1. index' \in 0 .. NPages /\ booted' \in BOOLEAN
    BY <1>4 DEF CallFree, BuddyInv, TypeOK
  <2> QED BY <1>4, <2>1, EnterFreeStep DEF CallFree
<1>5. ASSUME NEW p \in Procs, NEW o \in 0 .. MaxRequest, CallAlloc(p, o) PROVE BuddyInv'
  BY <1>5, QuietStep
<1>6. CASE UNCHANGED vars
  <2>1. TypeOK' /\ Locking' /\ HandsOK'
    BY <1>6 DEF vars, BuddyInv, TypeOK, Locking, HandsOK, InHand
  <2>2. ListsAgree'
    BY <1>6 DEF vars, BuddyInv, ListsAgree, Members
  <2>3. Good(Where)'
    BY <1>6, StillGood DEF vars, InHand
  <2> QED BY <2>1, <2>2, <2>3 DEF BuddyInv
<1> QED BY <1>1, <1>2, <1>3, <1>4, <1>5, <1>6 DEF Next, InitStep

\* The inductive invariant holds throughout.
THEOREM Invariant == Spec => []BuddyInv
BY InitInv, StepInv, PTL DEF Spec

\* The variables keep their types: no index leaves its list, no order exceeds
\* MAX_BUDDY_ORDER and nr_free never drops below zero (buddy.c, all of it).
THEOREM TypeCorrect == Spec => []TypeOK
<1>1. BuddyInv => TypeOK
  BY DEF BuddyInv
<1> QED BY <1>1, Invariant, PTL

\* alloc_pages and free_pages never let two blocks overlap, free or in use
\* (buddy.c:60-70 and 96-109).
THEOREM NoOverlap == Spec => []BlocksDisjoint
<1>1. BuddyInv => BlocksDisjoint
  BY GoodIs DEF BuddyInv
<1> QED BY <1>1, Invariant, PTL

\* Every block starts at a multiple of its size and ends inside the range, so
\* the XOR of free_pages always names the other half (buddy.c:56-65).
THEOREM Aligned == Spec => []BlocksNatural
<1>1. BuddyInv => BlocksNatural
  BY GoodIs DEF BuddyInv
<1> QED BY <1>1, Invariant, PTL

\* No frame gets lost while blocks are split, merged and handed around.
THEOREM NothingLost == Spec => []NoFrameLost
<1>1. BuddyInv => NoFrameLost
  BY GoodIs DEF BuddyInv
<1> QED BY <1>1, Invariant, PTL

\* What is_buddy reads from a page is what the free lists say (buddy.c:58-62).
THEOREM ListsCorrect == Spec => []ListsAgree
<1>1. BuddyInv => ListsAgree
  BY DEF BuddyInv
<1> QED BY <1>1, Invariant, PTL
=============================================================================
