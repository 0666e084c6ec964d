----------------------------- MODULE VmaProofs -----------------------------
(***************************************************************************)
(* Theorems about Vma, for every size of pages and addresses, every layout *)
(* of the address space and any number of objects.                         *)
(*                                                                         *)
(* The walk of add_vmas is a recursive function along the list.  What it   *)
(* leaves behind is proved by induction on the objects it has passed, with *)
(* the least counterexample.  Addresses are turned into numbers of pages   *)
(* first: the code compares starts with inclusive ends.                    *)
(***************************************************************************)
EXTENDS Vma, TLAPS, WellFoundedInduction, SequenceTheorems

-----------------------------------------------------------------------------
(* Numbers.                                                                *)

\* The principle the proofs by induction rest on, stated for sets so that no
\* operator has to be instantiated.
LEMMA LeastMember ==
  ASSUME NEW T \in SUBSET Nat, T # {}
  PROVE  \E m \in T : \A k \in T : m <= k
<1> DEFINE R == OpToRel(<, Nat)
<1>1. \A x, y \in Nat : <<y, x>> \in R <=> y < x
  BY DEF OpToRel
<1>2. IsWellFoundedOn(R, Nat)
  BY NatLessThanWellFounded
<1> HIDE DEF R
<1>3. PICK m \in T : \A k \in T : ~ (<<k, m>> \in R)
  BY <1>2, WFMin
<1>4. ASSUME NEW k \in T PROVE m <= k
  <2>1. ~ (<<k, m>> \in R)
    BY <1>3
  <2>2. k \in Nat /\ m \in Nat
    OBVIOUS
  <2>3. ~ (k < m)
    BY <2>1, <2>2, <1>1
  <2> QED BY <2>2, <2>3
<1> QED BY <1>4

LEMMA MinIs ==
  ASSUME NEW T \in SUBSET Nat, T # {}
  PROVE  Min(T) \in T /\ \A k \in T : Min(T) <= k
<1> QED BY LeastMember DEF Min

\* Quotient and remainder.
LEMMA Division ==
  ASSUME NEW x \in Nat, NEW y \in Nat \ {0}
  PROVE  /\ x \div y \in Nat /\ x % y \in 0 .. y - 1
         /\ x % y = x - y * (x \div y)
<1>1. x \div y \in Nat
  OBVIOUS
<1>2. x % y \in 0 .. y - 1
  OBVIOUS
<1>3. x % y = x - y * (x \div y)
  OBVIOUS
<1> QED BY <1>1, <1>2, <1>3

\* Products with a positive size are ordered as their factors.
LEMMA Scale ==
  ASSUME NEW s \in Nat \ {0}, NEW x \in Int, NEW y \in Int
  PROVE  /\ x * s \in Int /\ y * s \in Int
         /\ x * s < y * s <=> x < y
         /\ x * s <= y * s <=> x <= y
<1>1. x * s \in Int /\ y * s \in Int
  OBVIOUS
<1>2. x < y => x * s < y * s
  <2>1. x < y => (y - x) * s > 0
    OBVIOUS
  <2>2. (y - x) * s = y * s - x * s
    OBVIOUS
  <2> QED BY <2>1, <2>2, <1>1
<1>3. y < x => y * s < x * s
  <2>1. y < x => (x - y) * s > 0
    OBVIOUS
  <2>2. (x - y) * s = x * s - y * s
    OBVIOUS
  <2> QED BY <2>1, <2>2, <1>1
<1>4. x = y => x * s = y * s
  OBVIOUS
<1> QED BY <1>1, <1>2, <1>3, <1>4

LEMMA NumberIs ==
  ASSUME NEW s \in Nat \ {0}, NEW p \in Nat, NEW k \in Nat
  PROVE  p \div s = k <=> k * s <= p /\ p < (k + 1) * s
<1> DEFINE q == p \div s
<1>1. q \in Nat /\ p - s * q \in 0 .. s - 1
  BY Division
<1> HIDE DEF q
<1>2. q * s <= p /\ p < (q + 1) * s
  <2>1. s * q = q * s /\ (q + 1) * s = q * s + s /\ q * s \in Nat
    BY <1>1
  <2> QED BY <1>1, <2>1
<1>3. ASSUME k * s <= p, p < (k + 1) * s PROVE q = k
  <2>1. k * s \in Int /\ (k + 1) * s \in Int /\ q * s \in Int /\ (q + 1) * s \in Int
    BY <1>1
  <2>2. k * s < (q + 1) * s /\ q * s < (k + 1) * s
    BY <1>2, <1>3, <2>1
  <2>3. k < q + 1 /\ q < k + 1
    BY <1>1, <2>2, Scale
  <2> QED BY <1>1, <2>3
<1>4. q = k => k * s <= p /\ p < (k + 1) * s
  BY <1>2
<1> QED BY <1>3, <1>4 DEF q

-----------------------------------------------------------------------------
(* Pages.                                                                  *)

\* The first and the last address of page k.
StartOf(k) == k * PAGE_SIZE
EndOf(k)   == (k + 1) * PAGE_SIZE - 1

LEMMA SizeFacts == PAGE_SIZE \in Nat \ {0, 1} /\ W \in Nat \ {0} /\ PAGE_SIZE <= W
BY VmaAssumption

LEMMA PageIs ==
  ASSUME NEW k \in Nat
  PROVE  /\ StartOf(k) \in Nat /\ EndOf(k) \in Nat /\ EndOf(k) + 1 = StartOf(k + 1)
         /\ StartOf(k) \div PAGE_SIZE = k /\ EndOf(k) \div PAGE_SIZE = k
<1>1. /\ k * PAGE_SIZE \in Nat /\ (k + 1) * PAGE_SIZE = k * PAGE_SIZE + PAGE_SIZE
      /\ (k + 1) * PAGE_SIZE \in Nat
  BY SizeFacts
<1>2. StartOf(k) \in Nat /\ EndOf(k) \in Nat /\ EndOf(k) + 1 = StartOf(k + 1)
  BY <1>1, SizeFacts DEF StartOf, EndOf
<1>3. StartOf(k) \div PAGE_SIZE = k
  <2>1. k * PAGE_SIZE <= StartOf(k) /\ StartOf(k) < (k + 1) * PAGE_SIZE
    BY <1>1, SizeFacts DEF StartOf
  <2> QED BY <1>2, <2>1, SizeFacts, NumberIs
<1>4. EndOf(k) \div PAGE_SIZE = k
  <2>1. k * PAGE_SIZE <= EndOf(k) /\ EndOf(k) < (k + 1) * PAGE_SIZE
    BY <1>1, SizeFacts DEF EndOf
  <2> QED BY <1>2, <2>1, SizeFacts, NumberIs
<1> QED BY <1>2, <1>3, <1>4

LEMMA Compare ==
  ASSUME NEW j \in Nat, NEW k \in Nat
  PROVE  /\ StartOf(j) < StartOf(k) <=> j < k
         /\ StartOf(j) = StartOf(k) <=> j = k
         /\ StartOf(j) < EndOf(k) <=> j <= k
         /\ EndOf(j) < StartOf(k) <=> j < k
         /\ EndOf(j) + 1 = StartOf(k) <=> j + 1 = k
         /\ EndOf(j) < EndOf(k) <=> j < k
         /\ EndOf(j) = EndOf(k) <=> j = k
<1> DEFINE p == j * PAGE_SIZE
           q == k * PAGE_SIZE
<1>1. /\ (j + 1) * PAGE_SIZE = p + PAGE_SIZE /\ (k + 1) * PAGE_SIZE = q + PAGE_SIZE
      /\ p \in Int /\ q \in Int
  BY SizeFacts
<1>2. /\ p < q <=> j < k
      /\ p <= q <=> j <= k
      /\ q < p <=> k < j
      /\ p + PAGE_SIZE <= q <=> j + 1 <= k
      /\ p + PAGE_SIZE < q <=> j + 1 < k
      /\ q + PAGE_SIZE <= p <=> k + 1 <= j
  <2>1. PAGE_SIZE \in Nat \ {0}
    BY SizeFacts
  <2>2. j + 1 \in Int /\ k + 1 \in Int /\ j \in Int /\ k \in Int
    OBVIOUS
  <2>3. (p < q <=> j < k) /\ (p <= q <=> j <= k) /\ (q < p <=> k < j)
    BY <2>1, <2>2, Scale
  <2>4. ((j + 1) * PAGE_SIZE <= q <=> j + 1 <= k) /\ ((j + 1) * PAGE_SIZE < q <=> j + 1 < k)
    BY <2>1, <2>2, Scale
  <2>5. (k + 1) * PAGE_SIZE <= p <=> k + 1 <= j
    BY <2>1, <2>2, Scale
  <2> QED BY <1>1, <2>3, <2>4, <2>5
<1>3. StartOf(j) = p /\ StartOf(k) = q /\ EndOf(j) = p + PAGE_SIZE - 1 /\ EndOf(k) = q + PAGE_SIZE - 1
  BY <1>1, SizeFacts DEF StartOf, EndOf
<1> HIDE DEF p, q
<1> QED BY <1>1, <1>2, <1>3, SizeFacts

LowPage(h)  == Low[h] \div PAGE_SIZE
HighPage(h) == High[h] \div PAGE_SIZE

\* The parts of the address space begin and end with a page, and are apart.
LEMMA Layout ==
  /\ \A h \in Heads : /\ LowPage(h) \in Nat /\ Low[h] = StartOf(LowPage(h))
                       /\ HighPage(h) \in Nat /\ High[h] = StartOf(HighPage(h))
                       /\ High[h] <= ROM_START
  /\ \A g, h \in Heads : g # h => HighPage(g) <= LowPage(h) \/ HighPage(h) <= LowPage(g)
<1>1. ASSUME NEW x \in Nat, x % PAGE_SIZE = 0
      PROVE  x \div PAGE_SIZE \in Nat /\ x = StartOf(x \div PAGE_SIZE)
  <2>1. x \div PAGE_SIZE \in Nat /\ x % PAGE_SIZE = x - PAGE_SIZE * (x \div PAGE_SIZE)
    BY SizeFacts, Division
  <2>2. PAGE_SIZE * (x \div PAGE_SIZE) = (x \div PAGE_SIZE) * PAGE_SIZE
    BY <2>1, SizeFacts
  <2>3. (x \div PAGE_SIZE) * PAGE_SIZE \in Int
    BY <2>1, SizeFacts
  <2> QED BY <1>1, <2>1, <2>2, <2>3 DEF StartOf
<1>2. /\ Low["stack"] = _KERNEL_VIRT_END /\ High["stack"] = _TASK_CODE_START
      /\ Low["user"] = _TASK_CODE_START /\ High["user"] = _TASK_HEAP_END
      /\ Low["heap"] = _TASK_HEAP_END /\ High["heap"] = ROM_START
  BY DEF Low, High
<1>3. /\ \A h \in Heads : Low[h] \in 0 .. High[h] /\ Low[h] % PAGE_SIZE = 0
      /\ ROM_START % PAGE_SIZE = 0
  BY VmaAssumption
<1>4. /\ _TASK_CODE_START \in 0 .. _TASK_HEAP_END /\ _TASK_HEAP_END \in 0 .. ROM_START
      /\ _KERNEL_VIRT_END \in 0 .. _TASK_CODE_START
  BY <1>2, <1>3 DEF Heads
<1>5. ROM_START \in Nat
  BY VmaAssumption
<1>6. /\ _TASK_CODE_START \in Nat /\ _TASK_HEAP_END \in Nat /\ _KERNEL_VIRT_END \in Nat
      /\ _KERNEL_VIRT_END % PAGE_SIZE = 0 /\ _TASK_CODE_START % PAGE_SIZE = 0
      /\ _TASK_HEAP_END % PAGE_SIZE = 0 /\ ROM_START % PAGE_SIZE = 0
      /\ _TASK_CODE_START <= _TASK_HEAP_END /\ _TASK_HEAP_END <= ROM_START
  BY <1>2, <1>3, <1>4, <1>5 DEF Heads
<1>7. ASSUME NEW h \in Heads
      PROVE  /\ LowPage(h) \in Nat /\ Low[h] = StartOf(LowPage(h))
             /\ HighPage(h) \in Nat /\ High[h] = StartOf(HighPage(h))
             /\ High[h] <= ROM_START
  <2>1. Low[h] \in Nat /\ High[h] \in Nat /\ Low[h] % PAGE_SIZE = 0 /\ High[h] % PAGE_SIZE = 0
        /\ High[h] <= ROM_START
    BY <1>2, <1>5, <1>6 DEF Heads
  <2> QED BY <1>1, <2>1 DEF LowPage, HighPage
<1>8. /\ HighPage("stack") = LowPage("user") /\ HighPage("user") = LowPage("heap")
      /\ LowPage("user") <= HighPage("user")
  <2>1. /\ HighPage("stack") = LowPage("user") /\ HighPage("user") = LowPage("heap")
    BY <1>2 DEF LowPage, HighPage
  <2>2. /\ LowPage("user") \in Nat /\ HighPage("user") \in Nat
        /\ StartOf(LowPage("user")) <= StartOf(HighPage("user"))
        /\ StartOf(LowPage("user")) \in Nat /\ StartOf(HighPage("user")) \in Nat
    BY <1>2, <1>6, <1>7, PageIs DEF Heads
  <2> QED BY <2>1, <2>2, Compare
<1>9. ASSUME NEW g \in Heads, NEW h \in Heads, g # h
      PROVE  HighPage(g) <= LowPage(h) \/ HighPage(h) <= LowPage(g)
  <2>1. \A k \in Heads : LowPage(k) \in Nat /\ HighPage(k) \in Nat
    BY <1>7
  <2>2. "stack" \in Heads /\ "user" \in Heads /\ "heap" \in Heads
    BY DEF Heads
  <2> QED BY <1>8, <1>9, <2>1, <2>2 DEF Heads
<1> QED BY <1>7, <1>9

LEMMA HeadPages ==
  ASSUME NEW h \in Heads
  PROVE  LowPage(h) \in Nat /\ HighPage(h) \in Nat
BY Layout

-----------------------------------------------------------------------------
(* Objects and lists.                                                      *)

FirstPage(o) == o.start \div PAGE_SIZE
LastPage(o)  == o.vend \div PAGE_SIZE

Object == [start : Nat, vend : Nat]

\* An object of list h consists of whole pages in the part of h.
Legal(o, h) ==
  /\ o \in Object /\ FirstPage(o) \in Nat /\ LastPage(o) \in Nat
  /\ o.start = StartOf(FirstPage(o)) /\ o.vend = EndOf(LastPage(o))
  /\ LowPage(h) <= FirstPage(o) /\ FirstPage(o) <= LastPage(o) /\ LastPage(o) < HighPage(h)

\* Between two objects of a list is a page that is in none.
Gapped(l, h) ==
  /\ l \in Seq(Object) /\ \A i \in DOMAIN l : Legal(l[i], h)
  /\ \A i, j \in DOMAIN l : i < j => LastPage(l[i]) + 1 < FirstPage(l[j])

\* The pages of a list, and those of its first n objects.
On(l, p)        == \E i \in DOMAIN l : FirstPage(l[i]) <= p /\ p <= LastPage(l[i])
Passed(l, n, p) == \E i \in 1 .. n : FirstPage(l[i]) <= p /\ p <= LastPage(l[i])

\* All of list r is before page k, and before what of list l comes behind n.
Below(r, k)    == \A i \in DOMAIN r : LastPage(r[i]) + 1 < k
Apart(r, l, n) == \A j \in DOMAIN l : j > n => Below(r, FirstPage(l[j]))

LEMMA MadeLegal ==
  ASSUME NEW h, NEW o \in Object, NEW j \in Nat, NEW k \in Nat,
         o.start = StartOf(j), o.vend = EndOf(k), LowPage(h) <= j, j <= k, k < HighPage(h)
  PROVE  Legal(o, h) /\ FirstPage(o) = j /\ LastPage(o) = k
<1>1. FirstPage(o) = j /\ LastPage(o) = k
  BY PageIs DEF FirstPage, LastPage
<1> QED BY <1>1 DEF Legal

\* What new_vma and Grow make of whole pages.
LEMMA NewIs ==
  ASSUME NEW h, NEW j \in Nat, NEW k \in Nat, LowPage(h) <= j, j <= k, k < HighPage(h)
  PROVE  /\ Legal(new_vma(StartOf(j), EndOf(k)), h)
         /\ FirstPage(new_vma(StartOf(j), EndOf(k))) = j /\ LastPage(new_vma(StartOf(j), EndOf(k))) = k
<1> DEFINE o == new_vma(StartOf(j), EndOf(k))
<1>1. o \in Object /\ o.start = StartOf(j) /\ o.vend = EndOf(k)
  BY PageIs DEF new_vma, Object
<1> HIDE DEF o
<1>2. Legal(o, h) /\ FirstPage(o) = j /\ LastPage(o) = k
  BY <1>1, MadeLegal
<1> QED BY <1>2 DEF o

LEMMA GrowIs ==
  ASSUME NEW h, NEW tmp, Legal(tmp, h), NEW j \in Nat, LowPage(h) <= j, j <= LastPage(tmp)
  PROVE  /\ Legal(Grow(tmp, StartOf(j)), h)
         /\ FirstPage(Grow(tmp, StartOf(j))) = j /\ LastPage(Grow(tmp, StartOf(j))) = LastPage(tmp)
<1>1. Grow(tmp, StartOf(j)) = new_vma(StartOf(j), EndOf(LastPage(tmp)))
  <2>1. tmp \in Object /\ tmp.vend = EndOf(LastPage(tmp))
    BY DEF Legal
  <2>2. Grow(tmp, StartOf(j)) = new_vma(StartOf(j), tmp.vend)
    BY <2>1 DEF Grow, new_vma, Object
  <2> QED BY <2>1, <2>2
<1>2. LastPage(tmp) \in Nat /\ LastPage(tmp) < HighPage(h)
  BY DEF Legal
<1> QED BY <1>1, <1>2, NewIs

\* An object goes to the end of a list.
LEMMA Appended ==
  ASSUME NEW h, NEW r, Gapped(r, h), NEW o, Legal(o, h), Below(r, FirstPage(o))
  PROVE  /\ Gapped(Append(r, o), h)
         /\ \A p : On(Append(r, o), p) <=> On(r, p) \/ (FirstPage(o) <= p /\ p <= LastPage(o))
         /\ \A k : Below(r, k) /\ LastPage(o) + 1 < k => Below(Append(r, o), k)
         /\ \E i \in DOMAIN Append(r, o) : Append(r, o)[i] = o
<1> DEFINE s == Append(r, o)
           n == Len(r)
<1>1. r \in Seq(Object) /\ o \in Object /\ n \in Nat /\ DOMAIN r = 1 .. n
  BY DEF Gapped, Legal
<1>2. /\ s \in Seq(Object) /\ DOMAIN s = 1 .. n + 1 /\ s[n + 1] = o
      /\ \A i \in 1 .. n : s[i] = r[i]
  BY <1>1
<1> HIDE DEF s, n
<1>3. \A i \in DOMAIN s : Legal(s[i], h)
  BY <1>1, <1>2 DEF Gapped
<1>4. ASSUME NEW i \in DOMAIN s, NEW j \in DOMAIN s, i < j
      PROVE  LastPage(s[i]) + 1 < FirstPage(s[j])
  <2>1. i \in 1 .. n
    BY <1>1, <1>2, <1>4
  <2>2. CASE j = n + 1
    BY <1>1, <1>2, <2>1, <2>2 DEF Below
  <2>3. CASE j # n + 1
    <3>1. j \in 1 .. n
      BY <1>1, <1>2, <2>3
    <3> QED BY <1>1, <1>2, <1>4, <2>1, <3>1 DEF Gapped
  <2> QED BY <2>2, <2>3
<1>5. Gapped(s, h)
  BY <1>2, <1>3, <1>4 DEF Gapped
<1>6. ASSUME NEW p PROVE On(s, p) <=> On(r, p) \/ (FirstPage(o) <= p /\ p <= LastPage(o))
  <2>1. \A i \in DOMAIN s : i \in 1 .. n \/ i = n + 1
    BY <1>1, <1>2
  <2>2. n + 1 \in DOMAIN s /\ \A i \in 1 .. n : i \in DOMAIN s
    BY <1>1, <1>2
  <2> QED BY <1>1, <1>2, <2>1, <2>2 DEF On
<1>7. ASSUME NEW k, Below(r, k), LastPage(o) + 1 < k PROVE Below(s, k)
  <2>1. \A i \in DOMAIN s : i \in 1 .. n \/ i = n + 1
    BY <1>1, <1>2
  <2> QED BY <1>1, <1>2, <1>7, <2>1 DEF Below
<1>8. \E i \in DOMAIN s : s[i] = o
  BY <1>1, <1>2
<1> QED BY <1>5, <1>6, <1>7, <1>8 DEF s

LEMMA PassedNext ==
  ASSUME NEW l, NEW n \in Nat, NEW p
  PROVE  Passed(l, n + 1, p) <=> Passed(l, n, p) \/ (FirstPage(l[n + 1]) <= p /\ p <= LastPage(l[n + 1]))
<1>1. \A i : i \in 1 .. n + 1 <=> i \in 1 .. n \/ i = n + 1
  OBVIOUS
<1> QED BY <1>1 DEF Passed

-----------------------------------------------------------------------------
(* The walk of add_vmas over list l for pages a .. b of h, behind its first *)
(* n objects, with the list r so far.                                       *)

Range3(h, a, b) == a \in Nat /\ b \in Nat /\ LowPage(h) <= a /\ a <= b /\ b < HighPage(h)

\* What it has taken in makes the range start at c.
Grown(r, l, n, a, b, c) ==
  \A p \in Nat : On(r, p) \/ (c <= p /\ p <= b) <=> Passed(l, n, p) \/ (a <= p /\ p <= b)

Going(r, va, l, n, a, b, h) ==
  \E c \in Nat : /\ va = StartOf(c) /\ LowPage(h) <= c /\ c <= a
                 /\ Below(r, c) /\ Grown(r, l, n, a, b, c)

\* One object has the whole range, or, without memory for one, what was to be
\* in it is lost.
Filled(r, l, n, a, b) ==
  /\ \A p \in Nat : On(r, p) <=> Passed(l, n, p) \/ (a <= p /\ p <= b)
  /\ \E i \in DOMAIN r : FirstPage(r[i]) <= a /\ b <= LastPage(r[i])

Lost(r, l, n, a, b, h) ==
  \E c \in Nat :
    /\ LowPage(h) <= c /\ c <= a
    /\ \A p \in Nat : c <= p /\ p <= b => Passed(l, n, p) \/ (a <= p /\ p <= b)
    /\ \A p \in Nat : On(r, p) <=> Passed(l, n, p) /\ ~(c <= p /\ p <= b)

Over(r, l, n, a, b, h, ok) ==
  /\ \A j \in DOMAIN l : j > n => b < FirstPage(l[j])
  /\ Filled(r, l, n, a, b) \/ (~ok /\ Lost(r, l, n, a, b, h))

Turn(w, l, n, a, b, h, ok) ==
  /\ w \in [list : Seq(Object), va : Nat, at : {"loop", "ok"}]
  /\ Gapped(w.list, h) /\ Apart(w.list, l, n)
  /\ w.at = "loop" => Going(w.list, w.va, l, n, a, b, h)
  /\ w.at = "ok" => Over(w.list, l, n, a, b, h, ok)

\* Object n + 1, and that it keeps the list apart from what follows.
LEMMA TmpIs ==
  ASSUME NEW h, NEW l, Gapped(l, h), NEW n \in Nat, n < Len(l), NEW tmp, tmp = l[n + 1]
  PROVE  /\ Legal(tmp, h) /\ n + 1 \in DOMAIN l
         /\ \A j \in DOMAIN l : j > n + 1 => /\ LastPage(tmp) + 1 < FirstPage(l[j])
                                            /\ FirstPage(l[j]) \in Nat /\ j > n
BY DEF Gapped, Legal

LEMMA AppendedApart ==
  ASSUME NEW h, NEW l, Gapped(l, h), NEW n \in Nat, n < Len(l), NEW tmp, tmp = l[n + 1],
         NEW r, Gapped(r, h), Apart(r, l, n), NEW o, Legal(o, h), Below(r, FirstPage(o)),
         LastPage(o) = LastPage(tmp)
  PROVE  Apart(Append(r, o), l, n + 1)
BY TmpIs, Appended DEF Apart

LEMMA KeepTurn ==
  ASSUME NEW h, NEW l, Gapped(l, h), NEW n \in Nat, n < Len(l), NEW tmp, tmp = l[n + 1],
         NEW a, NEW b, Range3(h, a, b), NEW ok, NEW w, Turn(w, l, n, a, b, h, ok), w.at = "ok"
  PROVE  Turn(Keep(w, tmp), l, n + 1, a, b, h, ok)
<1> DEFINE r == Append(w.list, tmp)
           s == FirstPage(tmp)
           e == LastPage(tmp)
<1>1. /\ Legal(tmp, h) /\ tmp \in Object /\ s \in Nat /\ e \in Nat /\ n + 1 \in DOMAIN l /\ n + 1 > n
      /\ \A j \in DOMAIN l : j > n + 1 => j > n
  BY TmpIs DEF Legal
<1>2. /\ w \in [list : Seq(Object), va : Nat, at : {"loop", "ok"}]
      /\ Gapped(w.list, h) /\ Apart(w.list, l, n) /\ Over(w.list, l, n, a, b, h, ok)
  BY DEF Turn
<1>3. Below(w.list, s)
  BY <1>1, <1>2 DEF Apart
<1>4. /\ Gapped(r, h) /\ Apart(r, l, n + 1)
      /\ \A p : On(r, p) <=> On(w.list, p) \/ (s <= p /\ p <= e)
      /\ \A i \in DOMAIN w.list : i \in DOMAIN r /\ r[i] = w.list[i]
  <2>1. w.list \in Seq(Object)
    BY <1>2
  <2>2. \A i \in DOMAIN w.list : i \in DOMAIN r /\ r[i] = w.list[i]
    BY <1>1, <2>1
  <2> QED BY <1>1, <1>2, <1>3, <2>2, Appended, AppendedApart
<1>5. \A p : Passed(l, n + 1, p) <=> Passed(l, n, p) \/ (s <= p /\ p <= e)
  BY PassedNext
<1>6. b < s
  BY <1>1, <1>2 DEF Over
<1>7. a \in Nat /\ b \in Nat
  BY DEF Range3
<1>8. Keep(w, tmp) = [w EXCEPT !.list = r]
  BY DEF Keep
<1> HIDE DEF r, s, e
<1>9. Keep(w, tmp) \in [list : Seq(Object), va : Nat, at : {"loop", "ok"}]
      /\ Keep(w, tmp).list = r /\ Keep(w, tmp).at = "ok"
  BY <1>2, <1>4, <1>8 DEF Gapped
<1>10. Filled(w.list, l, n, a, b) => Filled(r, l, n + 1, a, b)
  BY <1>4, <1>5 DEF Filled
<1>11. ASSUME Lost(w.list, l, n, a, b, h) PROVE Lost(r, l, n + 1, a, b, h)
  <2>1. PICK c \in Nat :
          /\ LowPage(h) <= c /\ c <= a
          /\ \A p \in Nat : c <= p /\ p <= b => Passed(l, n, p) \/ (a <= p /\ p <= b)
          /\ \A p \in Nat : On(w.list, p) <=> Passed(l, n, p) /\ ~(c <= p /\ p <= b)
    BY <1>11 DEF Lost
  <2>2. \A p \in Nat : s <= p => ~(c <= p /\ p <= b)
    BY <1>1, <1>6, <1>7
  <2>3. \A p \in Nat : c <= p /\ p <= b => Passed(l, n + 1, p) \/ (a <= p /\ p <= b)
    BY <2>1, <1>5
  <2>4. \A p \in Nat : On(r, p) <=> Passed(l, n + 1, p) /\ ~(c <= p /\ p <= b)
    BY <2>1, <2>2, <1>4, <1>5
  <2> QED BY <2>1, <2>3, <2>4 DEF Lost
<1>12. Over(r, l, n + 1, a, b, h, ok)
  BY <1>1, <1>2, <1>10, <1>11 DEF Over
<1> QED BY <1>4, <1>9, <1>12 DEF Turn

\* The turns that end the walk, and those that go on, for a range grown to c.
LEMMA DoneTurn ==
  ASSUME NEW h, NEW l, Gapped(l, h), NEW n \in Nat, n < Len(l), NEW tmp, tmp = l[n + 1],
         NEW a, NEW b, Range3(h, a, b), NEW ok, NEW w, Turn(w, l, n, a, b, h, ok),
         NEW c \in Nat, c <= a, Grown(w.list, l, n, a, b, c),
         NEW o, Legal(o, h), LastPage(o) = LastPage(tmp), Below(w.list, FirstPage(o)),
         FirstPage(o) <= a, b <= LastPage(tmp),
         \A p \in Nat : FirstPage(o) <= p /\ p <= LastPage(o) <=>
           (c <= p /\ p <= b) \/ (FirstPage(tmp) <= p /\ p <= LastPage(tmp))
  PROVE  Turn(Done(w, o), l, n + 1, a, b, h, ok)
<1> DEFINE r == Append(w.list, o)
<1>1. w \in [list : Seq(Object), va : Nat, at : {"loop", "ok"}] /\ Gapped(w.list, h) /\ Apart(w.list, l, n)
  BY DEF Turn
<1>2. /\ Gapped(r, h) /\ Apart(r, l, n + 1)
      /\ \A p : On(r, p) <=> On(w.list, p) \/ (FirstPage(o) <= p /\ p <= LastPage(o))
      /\ \E i \in DOMAIN r : r[i] = o
  BY <1>1, Appended, AppendedApart
<1> HIDE DEF r
<1>3. \A p : Passed(l, n + 1, p) <=> Passed(l, n, p) \/ (FirstPage(tmp) <= p /\ p <= LastPage(tmp))
  BY PassedNext
<1>4. \A p \in Nat : On(r, p) <=> Passed(l, n + 1, p) \/ (a <= p /\ p <= b)
  BY <1>2, <1>3 DEF Grown
<1>5. Filled(r, l, n + 1, a, b)
  BY <1>2, <1>4 DEF Filled
<1>6. \A j \in DOMAIN l : j > n + 1 => b < FirstPage(l[j])
  BY TmpIs DEF Legal, Range3
<1>7. Done(w, o) = [w EXCEPT !.list = r, !.at = "ok"]
  BY DEF Done, r
<1>8. /\ Done(w, o) \in [list : Seq(Object), va : Nat, at : {"loop", "ok"}]
      /\ Done(w, o).list = r /\ Done(w, o).at = "ok"
  BY <1>1, <1>2, <1>7 DEF Gapped
<1> QED BY <1>2, <1>5, <1>6, <1>8 DEF Turn, Over

LEMMA NewTurn ==
  ASSUME NEW h, NEW l, Gapped(l, h), NEW n \in Nat, n < Len(l), NEW tmp, tmp = l[n + 1],
         NEW a, NEW b, Range3(h, a, b), NEW ok \in BOOLEAN, NEW w, Turn(w, l, n, a, b, h, ok),
         NEW c \in Nat, c <= a, LowPage(h) <= c, w.va = StartOf(c), Below(w.list, c),
         Grown(w.list, l, n, a, b, c), b + 1 < FirstPage(tmp)
  PROVE  Turn(NewHere(w, tmp, IF ok THEN <<new_vma(w.va, EndOf(b))>> ELSE <<>>), l, n + 1, a, b, h, ok)
<1> DEFINE new == new_vma(StartOf(c), EndOf(b))
           q   == IF ok THEN Append(w.list, new) ELSE w.list
           r   == Append(q, tmp)
           s   == FirstPage(tmp)
           e   == LastPage(tmp)
           v   == NewHere(w, tmp, IF ok THEN <<new_vma(w.va, EndOf(b))>> ELSE <<>>)
<1>1. w \in [list : Seq(Object), va : Nat, at : {"loop", "ok"}] /\ Gapped(w.list, h) /\ Apart(w.list, l, n)
  BY DEF Turn
<1>2. /\ Legal(tmp, h) /\ tmp \in Object /\ s \in Nat /\ e \in Nat /\ s <= e
      /\ n + 1 \in DOMAIN l /\ n + 1 > n
      /\ \A j \in DOMAIN l : j > n + 1 => FirstPage(l[j]) \in Nat /\ e + 1 < FirstPage(l[j])
      /\ a \in Nat /\ b \in Nat /\ a <= b /\ b < HighPage(h)
  BY TmpIs DEF Legal, Range3
<1>3. Legal(new, h) /\ FirstPage(new) = c /\ LastPage(new) = b
  BY <1>2, NewIs
<1>4. Below(w.list, s)
  BY <1>1, <1>2 DEF Apart
<1> HIDE DEF new
<1>5. /\ Gapped(q, h) /\ Below(q, s)
      /\ \A p : On(q, p) <=> On(w.list, p) \/ (ok /\ c <= p /\ p <= b)
      /\ ok => \E i \in DOMAIN q : q[i] = new
  <2>1. CASE ok
    <3>1. q = Append(w.list, new) /\ Below(w.list, FirstPage(new)) /\ LastPage(new) + 1 < s
      BY <1>3, <2>1
    <3> HIDE DEF q, s, e
    <3>2. /\ Gapped(q, h) /\ Below(q, s)
          /\ \A p : On(q, p) <=> On(w.list, p) \/ (FirstPage(new) <= p /\ p <= LastPage(new))
          /\ \E i \in DOMAIN q : q[i] = new
      BY <1>1, <1>3, <1>4, <3>1, Appended
    <3> QED BY <1>3, <2>1, <3>2
  <2>2. CASE ~ok
    <3>1. q = w.list
      BY <2>2
    <3> QED BY <1>1, <1>4, <2>2, <3>1
  <2> QED BY <2>1, <2>2
<1> HIDE DEF q
<1>6. \A j \in DOMAIN l : j > n + 1 => Below(q, FirstPage(l[j]))
  <2> SUFFICES ASSUME NEW j \in DOMAIN l, j > n + 1 PROVE Below(q, FirstPage(l[j]))
    OBVIOUS
  <2>1. s < FirstPage(l[j]) /\ FirstPage(l[j]) \in Nat
    BY <1>2
  <2>2. \A i \in DOMAIN q : LastPage(q[i]) \in Nat
    BY <1>5 DEF Gapped, Legal
  <2>3. s \in Nat /\ \A i \in DOMAIN q : LastPage(q[i]) + 1 < s
    BY <1>2, <1>5 DEF Below
  <2> HIDE DEF s, e
  <2> QED BY <2>1, <2>2, <2>3 DEF Below
<1>7. /\ Gapped(r, h)
      /\ \A p : On(r, p) <=> On(q, p) \/ (s <= p /\ p <= e)
      /\ \A k : Below(q, k) /\ e + 1 < k => Below(r, k)
      /\ \A i \in DOMAIN q : i \in DOMAIN r /\ r[i] = q[i]
  <2>1. q \in Seq(Object)
    BY <1>5 DEF Gapped
  <2>2. \A i \in DOMAIN q : i \in DOMAIN r /\ r[i] = q[i]
    BY <1>2, <2>1
  <2> QED BY <1>2, <1>5, <2>2, Appended
<1>8. Apart(r, l, n + 1)
  BY <1>2, <1>6, <1>7 DEF Apart
<1>9. v = [w EXCEPT !.list = r, !.at = "ok"]
  <2>1. CASE ok
    <3>1. (w.list \o <<new>>) \o <<tmp>> = Append(Append(w.list, new), tmp)
      <4>1. w.list \in Seq(Object) /\ new \in Object /\ tmp \in Object
        BY <1>1, <1>2, <1>3 DEF Legal
      <4> QED BY <4>1
    <3> QED BY <2>1, <3>1 DEF NewHere, new, q
  <2>2. CASE ~ok
    <3>1. (w.list \o <<>>) \o <<tmp>> = Append(w.list, tmp)
      <4>1. w.list \in Seq(Object) /\ tmp \in Object
        BY <1>1, <1>2
      <4> QED BY <4>1
    <3> QED BY <2>2, <3>1 DEF NewHere, q
  <2> QED BY <2>1, <2>2
<1> HIDE DEF r, v
<1>10. /\ v \in [list : Seq(Object), va : Nat, at : {"loop", "ok"}] /\ v.list = r /\ v.at = "ok"
  BY <1>1, <1>7, <1>9 DEF Gapped
<1>11. \A p : Passed(l, n + 1, p) <=> Passed(l, n, p) \/ (s <= p /\ p <= e)
  BY PassedNext
<1> HIDE DEF s, e
<1>12. ASSUME ok PROVE Filled(r, l, n + 1, a, b)
  <2>1. \A p \in Nat : On(r, p) <=> Passed(l, n + 1, p) \/ (a <= p /\ p <= b)
    BY <1>5, <1>7, <1>11, <1>12 DEF Grown
  <2>2. \E i \in DOMAIN r : FirstPage(r[i]) <= a /\ b <= LastPage(r[i])
    BY <1>2, <1>3, <1>5, <1>7, <1>12
  <2> QED BY <2>1, <2>2 DEF Filled
<1>13. ASSUME ~ok PROVE Lost(r, l, n + 1, a, b, h)
  <2>1. \A p \in Nat : On(w.list, p) => p < c
    <3> SUFFICES ASSUME NEW p \in Nat, On(w.list, p) PROVE p < c
      OBVIOUS
    <3>1. PICK i \in DOMAIN w.list : p <= LastPage(w.list[i])
      BY DEF On
    <3>2. LastPage(w.list[i]) \in Nat /\ LastPage(w.list[i]) + 1 < c
      BY <1>1 DEF Gapped, Legal, Below
    <3> QED BY <3>1, <3>2
  <2>2. \A p \in Nat : s <= p /\ p <= e => ~(c <= p /\ p <= b)
    BY <1>2 DEF s
  <2>3. \A p \in Nat : On(r, p) <=> Passed(l, n + 1, p) /\ ~(c <= p /\ p <= b)
    <3> SUFFICES ASSUME NEW p \in Nat PROVE On(r, p) <=> Passed(l, n + 1, p) /\ ~(c <= p /\ p <= b)
      OBVIOUS
    <3>1. On(r, p) <=> On(w.list, p) \/ (s <= p /\ p <= e)
      BY <1>5, <1>7, <1>13
    <3>2. On(w.list, p) \/ (c <= p /\ p <= b) <=> Passed(l, n, p) \/ (a <= p /\ p <= b)
      BY DEF Grown
    <3>3. (a <= p /\ p <= b) => (c <= p /\ p <= b)
      BY <1>2
    <3>4. On(w.list, p) => ~(c <= p /\ p <= b)
      BY <2>1
    <3> QED BY <1>11, <2>2, <3>1, <3>2, <3>3, <3>4
  <2>4. \A p \in Nat : c <= p /\ p <= b => Passed(l, n + 1, p) \/ (a <= p /\ p <= b)
    BY <1>11 DEF Grown
  <2> QED BY <2>3, <2>4 DEF Lost
<1>14. Over(r, l, n + 1, a, b, h, ok)
  <2>1. \A j \in DOMAIN l : j > n + 1 => b < FirstPage(l[j])
    BY <1>2 DEF s
  <2>2. ok => Filled(r, l, n + 1, a, b)
    BY <1>12
  <2>3. ~ok => Lost(r, l, n + 1, a, b, h)
    BY <1>13
  <2> QED BY <2>1, <2>2, <2>3 DEF Over
<1> QED BY <1>7, <1>8, <1>10, <1>14 DEF Turn, v

\* The range ends before the object: it is grown down to it, or a new one made.
LEMMA BeforeTurn ==
  ASSUME NEW h, NEW l, Gapped(l, h), NEW n \in Nat, n < Len(l), NEW tmp, tmp = l[n + 1],
         NEW a, NEW b, Range3(h, a, b), NEW ok \in BOOLEAN, NEW w, Turn(w, l, n, a, b, h, ok),
         NEW c \in Nat, c <= a, LowPage(h) <= c, w.va = StartOf(c), Below(w.list, c),
         Grown(w.list, l, n, a, b, c), b < FirstPage(tmp)
  PROVE  Turn(Before(w, tmp, EndOf(b), ok), l, n + 1, a, b, h, ok)
<1>1. /\ Legal(tmp, h) /\ FirstPage(tmp) \in Nat /\ LastPage(tmp) \in Nat
      /\ FirstPage(tmp) <= LastPage(tmp) /\ tmp.start = StartOf(FirstPage(tmp))
      /\ a \in Nat /\ b \in Nat /\ a <= b
  BY TmpIs DEF Legal, Range3
<1>2. EndOf(b) + 1 = tmp.start <=> b + 1 = FirstPage(tmp)
  BY <1>1, Compare
<1>3. CASE b + 1 = FirstPage(tmp)
  <2> DEFINE o == Grow(tmp, StartOf(c))
  <2>1. c <= LastPage(tmp)
    BY <1>1, <1>3
  <2>2. Legal(o, h) /\ FirstPage(o) = c /\ LastPage(o) = LastPage(tmp)
    BY <1>1, <2>1, GrowIs
  <2>3. Before(w, tmp, EndOf(b), ok) = Done(w, o)
    BY <1>2, <1>3 DEF Before
  <2> HIDE DEF o
  <2>4. \A p \in Nat : FirstPage(o) <= p /\ p <= LastPage(o) <=>
          (c <= p /\ p <= b) \/ (FirstPage(tmp) <= p /\ p <= LastPage(tmp))
    BY <1>1, <1>3, <2>2
  <2>5. b <= LastPage(tmp) /\ FirstPage(o) <= a /\ Below(w.list, FirstPage(o))
    BY <1>1, <1>3, <2>2
  <2> QED BY <2>2, <2>3, <2>4, <2>5, DoneTurn
<1>4. CASE b + 1 # FirstPage(tmp)
  <2>1. b + 1 < FirstPage(tmp)
    BY <1>1, <1>4
  <2>2. Before(w, tmp, EndOf(b), ok) = NewHere(w, tmp, IF ok THEN <<new_vma(w.va, EndOf(b))>> ELSE <<>>)
    BY <1>2, <1>4 DEF Before
  <2> QED BY <2>1, <2>2, NewTurn
<1> QED BY <1>3, <1>4

\* A turn that goes on: with what the list and the range have become.
LEMMA GoesOn ==
  ASSUME NEW h, NEW l, NEW n \in Nat, NEW a, NEW b, NEW ok, NEW v,
         v \in [list : Seq(Object), va : Nat, at : {"loop", "ok"}], v.at = "loop",
         Gapped(v.list, h), Apart(v.list, l, n), NEW c \in Nat, v.va = StartOf(c),
         LowPage(h) <= c, c <= a, Below(v.list, c), Grown(v.list, l, n, a, b, c)
  PROVE  Turn(v, l, n, a, b, h, ok)
<1>1. Going(v.list, v.va, l, n, a, b, h)
  BY DEF Going
<1>2. v.at # "ok"
  OBVIOUS
<1> QED BY <1>1, <1>2 DEF Turn

LEMMA VisitTurn ==
  ASSUME NEW h, NEW l, Gapped(l, h), NEW n \in Nat, n < Len(l),
         NEW a, NEW b, Range3(h, a, b), NEW ok \in BOOLEAN, NEW w, Turn(w, l, n, a, b, h, ok)
  PROVE  Turn(Visit(w, l[n + 1], EndOf(b), ok), l, n + 1, a, b, h, ok)
<1> DEFINE tmp == l[n + 1]
           s   == FirstPage(tmp)
           e   == LastPage(tmp)
           v   == Visit(w, tmp, EndOf(b), ok)
<1>1. /\ Legal(tmp, h) /\ tmp \in Object /\ s \in Nat /\ e \in Nat /\ s <= e /\ LowPage(h) <= s
      /\ tmp.start = StartOf(s) /\ tmp.vend = EndOf(e) /\ n + 1 \in DOMAIN l /\ n + 1 > n
      /\ a \in Nat /\ b \in Nat /\ a <= b /\ \A j \in DOMAIN l : j > n + 1 => j > n
  BY TmpIs DEF Legal, Range3
<1>2. /\ w \in [list : Seq(Object), va : Nat, at : {"loop", "ok"}]
      /\ Gapped(w.list, h) /\ Apart(w.list, l, n)
  BY DEF Turn
<1>3. Below(w.list, s) /\ Apart(w.list, l, n + 1)
  BY <1>1, <1>2 DEF Apart
<1>4. CASE w.at = "ok"
  <2>1. v = Keep(w, tmp)
    BY <1>4 DEF Visit
  <2> HIDE DEF tmp
  <2>2. tmp = l[n + 1]
    BY DEF tmp
  <2>3. Turn(Keep(w, tmp), l, n + 1, a, b, h, ok)
    BY <1>4, <2>2, KeepTurn
  <2> QED BY <2>1, <2>3 DEF tmp
<1>5. CASE w.at = "loop"
  <2>1. PICK c \in Nat : /\ w.va = StartOf(c) /\ LowPage(h) <= c /\ c <= a
                         /\ Below(w.list, c) /\ Grown(w.list, l, n, a, b, c)
    BY <1>5 DEF Turn, Going
  <2>2. /\ w.va < tmp.start <=> c < s
        /\ w.va >= tmp.start <=> c >= s
        /\ EndOf(b) < tmp.start <=> b < s
        /\ EndOf(b) >= tmp.vend <=> b >= e
        /\ EndOf(b) <= tmp.vend <=> b <= e
        /\ w.va < tmp.vend <=> c <= e
        /\ w.va - 1 = tmp.vend <=> c = e + 1
    <3>1. /\ StartOf(c) \in Nat /\ StartOf(s) \in Nat /\ EndOf(b) \in Nat /\ EndOf(e) \in Nat
      BY <1>1, PageIs
    <3>2. /\ StartOf(c) < StartOf(s) <=> c < s
          /\ EndOf(b) < StartOf(s) <=> b < s
          /\ EndOf(b) < EndOf(e) <=> b < e
          /\ EndOf(b) = EndOf(e) <=> b = e
          /\ StartOf(c) < EndOf(e) <=> c <= e
          /\ EndOf(e) + 1 = StartOf(c) <=> e + 1 = c
      BY <1>1, Compare
    <3> HIDE DEF s, e, tmp
    <3> QED BY <1>1, <2>1, <3>1, <3>2
  <2>3. \A p : Passed(l, n + 1, p) <=> Passed(l, n, p) \/ (s <= p /\ p <= e)
    BY PassedNext
  <2>4. tmp = l[n + 1] /\ w.at # "ok"
    BY <1>5
  <2>5. CASE c < s /\ b < s
    <3>1. v = Before(w, tmp, EndOf(b), ok)
      <4>1. w.va < tmp.start /\ ~(w.va >= tmp.start) /\ EndOf(b) < tmp.start
        BY <1>1, <2>1, <2>2, <2>5
      <4> HIDE DEF s, e, tmp
      <4> QED BY <2>4, <4>1 DEF Visit, v
    <3> HIDE DEF tmp, v
    <3> QED BY <2>1, <2>4, <2>5, <3>1, BeforeTurn DEF v, tmp, s
  <2>6. CASE c < s /\ b >= s /\ b >= e
    <3>1. v = w
      BY <1>1, <2>2, <2>4, <2>6 DEF Visit
    <3> HIDE DEF tmp, v, s, e
    <3>2. \A p \in Nat : s <= p /\ p <= e => c <= p /\ p <= b
      BY <1>1, <2>1, <2>6
    <3>3. Grown(w.list, l, n + 1, a, b, c)
      BY <2>1, <2>3, <3>2 DEF Grown
    <3>4. Turn(w, l, n + 1, a, b, h, ok)
      BY <1>2, <1>3, <1>5, <2>1, <3>3, GoesOn
    <3> QED BY <3>1, <3>4 DEF v, tmp
  <2>7. CASE c < s /\ b >= s /\ b < e
    <3> DEFINE o == Grow(tmp, StartOf(c))
    <3>1. v = Done(w, o)
      BY <1>1, <2>1, <2>2, <2>4, <2>7 DEF Visit
    <3>2. Legal(o, h) /\ FirstPage(o) = c /\ LastPage(o) = e
      <4>1. c <= e
        BY <1>1, <2>1, <2>7
      <4> QED BY <1>1, <2>1, <4>1, GrowIs
    <3> HIDE DEF tmp, v, o, s, e
    <3>3. \A p \in Nat : FirstPage(o) <= p /\ p <= LastPage(o) <=>
            (c <= p /\ p <= b) \/ (s <= p /\ p <= e)
      BY <1>1, <2>1, <2>7, <3>2
    <3>4. FirstPage(o) <= a /\ b <= e /\ Below(w.list, FirstPage(o))
      BY <1>1, <2>1, <2>7, <3>2
    <3>5. Turn(Done(w, o), l, n + 1, a, b, h, ok)
      BY <2>1, <2>4, <3>2, <3>3, <3>4, DoneTurn DEF s, e
    <3> QED BY <3>1, <3>5 DEF v, tmp
  <2>8. CASE c >= s /\ c <= e /\ b <= e
    <3>1. v = Done(w, tmp)
      BY <1>1, <2>1, <2>2, <2>4, <2>8 DEF Visit
    <3> HIDE DEF tmp, v, s, e
    <3>2. \A p \in Nat : s <= p /\ p <= e <=> (c <= p /\ p <= b) \/ (s <= p /\ p <= e)
      BY <1>1, <2>1, <2>8
    <3>3. s <= a
      BY <1>1, <2>1, <2>8
    <3>4. Turn(Done(w, tmp), l, n + 1, a, b, h, ok)
      BY <1>1, <1>3, <2>1, <2>4, <2>8, <3>2, <3>3, DoneTurn DEF s, e
    <3> QED BY <3>1, <3>4 DEF v, tmp
  <2>9. CASE c >= s /\ ((c <= e /\ b > e) \/ c = e + 1)
    <3>1. v = Absorb(w, tmp)
      <4>1. c >= s /\ ~(c < s)
        BY <1>1, <2>1, <2>9
      <4>2. c <= e /\ b > e => ~(b <= e)
        BY <1>1
      <4>3. c = e + 1 => ~(c <= e)
        BY <1>1
      <4> HIDE DEF s, e, tmp
      <4> QED BY <2>2, <2>4, <2>9, <4>1, <4>2, <4>3 DEF Visit, v
    <3>2. v \in [list : Seq(Object), va : Nat, at : {"loop", "ok"}]
          /\ v.list = w.list /\ v.at = "loop" /\ v.va = StartOf(s)
      BY <1>1, <1>2, <1>5, <3>1 DEF Absorb, Object
    <3> HIDE DEF tmp, v, s, e
    <3>3. \A p \in Nat : (s <= p /\ p <= b) <=> (c <= p /\ p <= b) \/ (s <= p /\ p <= e)
      BY <1>1, <2>1, <2>9
    <3>4. Grown(w.list, l, n + 1, a, b, s)
      BY <2>1, <2>3, <3>3 DEF Grown
    <3>5. s <= a
      BY <1>1, <2>1, <2>9
    <3>6. /\ Gapped(v.list, h) /\ Apart(v.list, l, n + 1) /\ Below(v.list, s)
          /\ Grown(v.list, l, n + 1, a, b, s) /\ LowPage(h) <= s /\ s \in Nat
      BY <1>1, <1>2, <1>3, <3>2, <3>4
    <3>7. Turn(v, l, n + 1, a, b, h, ok)
      BY <3>2, <3>5, <3>6, GoesOn
    <3> QED BY <3>7 DEF v, tmp
  <2>10. CASE c > e + 1
    <3> DEFINE r == Append(w.list, tmp)
    <3>1. v = [w EXCEPT !.list = r]
      <4>1. ~(c < s) /\ ~(c <= e) /\ c # e + 1
        BY <1>1, <2>1, <2>10
      <4> HIDE DEF s, e, tmp
      <4> QED BY <2>2, <2>4, <4>1 DEF Visit, Keep, v
    <3>2. /\ Gapped(r, h) /\ Apart(r, l, n + 1) /\ Below(r, c)
          /\ \A p : On(r, p) <=> On(w.list, p) \/ (s <= p /\ p <= e)
      <4>1. e + 1 < c
        BY <1>1, <2>1, <2>10
      <4> HIDE DEF tmp, s, e
      <4>2. /\ Gapped(r, h) /\ Apart(r, l, n + 1) /\ (Below(w.list, c) /\ e + 1 < c => Below(r, c))
            /\ \A p : On(r, p) <=> On(w.list, p) \/ (s <= p /\ p <= e)
        BY <1>1, <1>2, <1>3, <2>4, Appended, AppendedApart DEF s, e
      <4> QED BY <2>1, <4>1, <4>2
    <3> HIDE DEF tmp, v, s, e, r
    <3>3. v \in [list : Seq(Object), va : Nat, at : {"loop", "ok"}]
          /\ v.list = r /\ v.at = "loop" /\ v.va = w.va
      BY <1>2, <1>5, <3>1, <3>2 DEF Gapped
    <3>4. Grown(r, l, n + 1, a, b, c)
      BY <2>1, <2>3, <3>2 DEF Grown
    <3>5. Turn(v, l, n + 1, a, b, h, ok)
      BY <2>1, <3>2, <3>3, <3>4, GoesOn
    <3> QED BY <3>5 DEF v, tmp
  <2> HIDE DEF s, e, v
  <2>11. \/ c < s /\ b < s
         \/ c < s /\ b >= s /\ b >= e
         \/ c < s /\ b >= s /\ b < e
         \/ c >= s /\ c <= e /\ b <= e
         \/ c >= s /\ ((c <= e /\ b > e) \/ c = e + 1)
         \/ c > e + 1
    <3>1. s \in Nat /\ e \in Nat /\ b \in Nat /\ c \in Nat /\ s <= e
      BY <1>1
    <3> QED BY <3>1
  <2> QED BY <2>5, <2>6, <2>7, <2>8, <2>9, <2>10, <2>11
<1> QED BY <1>2, <1>4, <1>5

\* g is the function of Loop, along the first k objects of l.
Looped(l, va, vend, ok, k, g) ==
  g = [n \in 0 .. k |-> IF n = 0 THEN [list |-> <<>>, va |-> va, at |-> "loop"]
                        ELSE Visit(g[n - 1], l[n], vend, ok)]

LEMMA LoopExists ==
  ASSUME NEW l, NEW va, NEW vend, NEW ok, NEW k \in Nat
  PROVE  \E g : Looped(l, va, vend, ok, k, g)
<1> DEFINE T == {n \in Nat : ~ \E g : Looped(l, va, vend, ok, n, g)}
           w0 == [list |-> <<>>, va |-> va, at |-> "loop"]
<1>1. SUFFICES ASSUME T # {} PROVE FALSE
  OBVIOUS
<1>2. PICK m \in T : \A n \in T : m <= n
  BY <1>1, LeastMember
<1>3. m \in Nat /\ ~ \E g : Looped(l, va, vend, ok, m, g)
  OBVIOUS
<1> HIDE DEF w0
<1>4. m # 0
  <2>1. Looped(l, va, vend, ok, 0, [n \in 0 .. 0 |-> w0])
    BY DEF Looped, w0
  <2> QED BY <1>3, <2>1
<1>5. m - 1 \in Nat /\ m - 1 \notin T
  BY <1>2, <1>3, <1>4
<1>6. PICK g : Looped(l, va, vend, ok, m - 1, g)
  BY <1>5
<1> DEFINE f == [n \in 0 .. m |-> IF n < m THEN g[n] ELSE Visit(g[m - 1], l[m], vend, ok)]
<1>7. ASSUME NEW n \in 0 .. m
      PROVE  f[n] = IF n = 0 THEN w0 ELSE Visit(f[n - 1], l[n], vend, ok)
  <2>1. CASE n = m
    <3>1. f[n] = Visit(g[m - 1], l[m], vend, ok) /\ f[n - 1] = g[m - 1]
      BY <1>3, <1>4, <2>1
    <3> QED BY <1>4, <2>1, <3>1
  <2>2. CASE n < m
    <3>1. n \in 0 .. m - 1 /\ f[n] = g[n] /\ (n # 0 => n - 1 \in 0 .. m /\ n - 1 < m /\ f[n - 1] = g[n - 1])
      BY <1>3, <2>2
    <3>2. g[n] = IF n = 0 THEN w0 ELSE Visit(g[n - 1], l[n], vend, ok)
      BY <1>6, <3>1 DEF Looped, w0
    <3> HIDE DEF f
    <3> QED BY <3>1, <3>2
  <2> QED BY <1>3, <2>1, <2>2
<1>8. Looped(l, va, vend, ok, m, f)
  <2>1. f = [n \in 0 .. m |-> f[n]]
    OBVIOUS
  <2> HIDE DEF f
  <2> QED BY <1>7, <2>1 DEF Looped, w0
<1> QED BY <1>3, <1>8

\* The whole of the loop.
LEMMA LoopIs ==
  ASSUME NEW h, NEW l, Gapped(l, h), NEW a, NEW b, Range3(h, a, b), NEW ok \in BOOLEAN
  PROVE  Turn(Loop(l, StartOf(a), EndOf(b), ok), l, Len(l), a, b, h, ok)
<1> DEFINE k == Len(l)
           w == CHOOSE g : Looped(l, StartOf(a), EndOf(b), ok, k, g)
           w0 == [list |-> <<>>, va |-> StartOf(a), at |-> "loop"]
           T == {n \in 0 .. k : ~Turn(w[n], l, n, a, b, h, ok)}
<1>1. k \in Nat
  BY DEF Gapped
<1>2. Looped(l, StartOf(a), EndOf(b), ok, k, w)
  BY <1>1, LoopExists
<1>3. Loop(l, StartOf(a), EndOf(b), ok) = w[k]
  BY DEF Loop, Looped
<1> HIDE DEF w, w0
<1>4. \A n \in 0 .. k : w[n] = IF n = 0 THEN w0 ELSE Visit(w[n - 1], l[n], EndOf(b), ok)
  BY <1>2 DEF Looped, w0
<1>5. Turn(w0, l, 0, a, b, h, ok)
  <2>1. a \in Nat /\ b \in Nat /\ LowPage(h) <= a
    BY DEF Range3
  <2>2. /\ w0 \in [list : Seq(Object), va : Nat, at : {"loop", "ok"}]
        /\ w0.list = <<>> /\ w0.va = StartOf(a) /\ w0.at = "loop"
    BY <2>1, PageIs DEF w0
  <2>3. Gapped(w0.list, h) /\ Apart(w0.list, l, 0) /\ Below(w0.list, a)
    BY <2>2 DEF Gapped, Apart, Below
  <2>4. Grown(w0.list, l, 0, a, b, a)
    BY <2>2 DEF Grown, On, Passed
  <2>5. a <= a
    BY <2>1
  <2> HIDE DEF k
  <2> QED BY <2>1, <2>2, <2>3, <2>4, <2>5, GoesOn
<1>6. SUFFICES ASSUME T # {} PROVE FALSE
  BY <1>1, <1>3
<1>7. T \in SUBSET Nat
  BY <1>1
<1>8. PICK m \in T : \A n \in T : m <= n
  BY <1>6, <1>7, LeastMember
<1>9. m \in 0 .. k /\ m \in Nat /\ ~Turn(w[m], l, m, a, b, h, ok)
  BY <1>1
<1>10. m # 0
  BY <1>1, <1>4, <1>5, <1>9
<1>11. m - 1 \in 0 .. k /\ m - 1 \in Nat /\ m - 1 < Len(l) /\ (m - 1) + 1 = m /\ m - 1 \notin T
  BY <1>1, <1>8, <1>9, <1>10
<1>12. Turn(w[m - 1], l, m - 1, a, b, h, ok)
  BY <1>11
<1>13. Turn(Visit(w[m - 1], l[(m - 1) + 1], EndOf(b), ok), l, (m - 1) + 1, a, b, h, ok)
  BY <1>11, <1>12, VisitTurn
<1> QED BY <1>4, <1>9, <1>10, <1>11, <1>13

\* What add_vmas makes of a list.
LEMMA WalkIs ==
  ASSUME NEW h, NEW l, Gapped(l, h), NEW a, NEW b, Range3(h, a, b), NEW ok \in BOOLEAN,
         NEW r, r = Walk(l, StartOf(a), EndOf(b), ok)
  PROVE  /\ Gapped(r, h)
         /\ Filled(r, l, Len(l), a, b) \/ (~ok /\ Lost(r, l, Len(l), a, b, h))
<1> DEFINE w == Loop(l, StartOf(a), EndOf(b), ok)
           n == Len(l)
<1>1. Turn(w, l, n, a, b, h, ok)
  BY LoopIs
<1>2. r = IF w.at = "loop" /\ ok THEN Append(w.list, new_vma(w.va, EndOf(b))) ELSE w.list
  BY DEF Walk
<1> HIDE DEF w, n
<1>3. Gapped(w.list, h) /\ (w.at = "loop" \/ w.at = "ok")
  BY <1>1 DEF Turn
<1>4. a \in Nat /\ b \in Nat /\ a <= b /\ b < HighPage(h)
  BY DEF Range3
<1>5. CASE w.at = "ok"
  <2>1. r = w.list /\ Over(w.list, l, n, a, b, h, ok)
    BY <1>1, <1>2, <1>5 DEF Turn
  <2> QED BY <1>3, <2>1 DEF Over, n
<1>6. CASE w.at = "loop"
  <2>1. PICK c \in Nat : /\ w.va = StartOf(c) /\ LowPage(h) <= c /\ c <= a
                         /\ Below(w.list, c) /\ Grown(w.list, l, n, a, b, c)
    BY <1>1, <1>6 DEF Turn, Going
  <2>2. CASE ok
    <3> DEFINE o == new_vma(StartOf(c), EndOf(b))
    <3>1. Legal(o, h) /\ FirstPage(o) = c /\ LastPage(o) = b
      <4>1. c <= b
        BY <1>4, <2>1
      <4> QED BY <1>4, <2>1, <4>1, NewIs
    <3>2. r = Append(w.list, o)
      BY <1>2, <1>6, <2>1, <2>2
    <3> HIDE DEF o
    <3>3. /\ Gapped(r, h)
          /\ \A p : On(r, p) <=> On(w.list, p) \/ (c <= p /\ p <= b)
          /\ \E i \in DOMAIN r : r[i] = o
      BY <1>3, <2>1, <3>1, <3>2, Appended
    <3>4. \E i \in DOMAIN r : FirstPage(r[i]) <= a /\ b <= LastPage(r[i])
      BY <1>4, <2>1, <3>1, <3>3
    <3>5. \A p \in Nat : On(r, p) <=> Passed(l, n, p) \/ (a <= p /\ p <= b)
      BY <2>1, <3>3 DEF Grown
    <3> QED BY <3>3, <3>4, <3>5 DEF Filled, n
  <2>3. CASE ~ok
    <3>1. r = w.list
      BY <1>2, <2>3
    <3>2. ASSUME NEW p \in Nat, On(r, p) PROVE p < c
      <4>1. PICK i \in DOMAIN w.list : p <= LastPage(w.list[i])
        BY <3>1, <3>2 DEF On
      <4>2. LastPage(w.list[i]) \in Nat /\ LastPage(w.list[i]) + 1 < c
        BY <1>3, <2>1 DEF Gapped, Legal, Below
      <4> QED BY <4>1, <4>2
    <3>3. ASSUME NEW p \in Nat PROVE On(r, p) <=> Passed(l, n, p) /\ ~(c <= p /\ p <= b)
      <4>1. On(r, p) \/ (c <= p /\ p <= b) <=> Passed(l, n, p) \/ (a <= p /\ p <= b)
        BY <2>1, <3>1 DEF Grown
      <4>2. (a <= p /\ p <= b) => (c <= p /\ p <= b)
        BY <1>4, <2>1
      <4>3. On(r, p) => ~(c <= p /\ p <= b)
        BY <3>2
      <4> QED BY <4>1, <4>2, <4>3
    <3>4. \A p \in Nat : c <= p /\ p <= b => Passed(l, n, p) \/ (a <= p /\ p <= b)
      BY <2>1 DEF Grown
    <3>5. Lost(r, l, n, a, b, h)
      BY <2>1, <3>3, <3>4 DEF Lost
    <3> QED BY <1>3, <2>3, <3>1, <3>5 DEF n
  <2> QED BY <2>2, <2>3
<1> QED BY <1>3, <1>5, <1>6

LEMMA PassedAll ==
  ASSUME NEW l, l \in Seq(Object), NEW p
  PROVE  Passed(l, Len(l), p) <=> On(l, p)
BY DEF Passed, On

-----------------------------------------------------------------------------
(* What delete_vmas makes of a list.                                       *)

LEMMA RemoveIs ==
  ASSUME NEW S, NEW l \in Seq(S), NEW i \in 1 .. Len(l)
  PROVE  /\ RemoveAt(l, i) \in Seq(S) /\ Len(RemoveAt(l, i)) = Len(l) - 1
         /\ \A j \in 1 .. Len(l) - 1 : RemoveAt(l, i)[j] = IF j < i THEN l[j] ELSE l[j + 1]
<1> DEFINE f == SubSeq(l, 1, i - 1)
           g == SubSeq(l, i + 1, Len(l))
           n == Len(l)
<1>1. n \in Nat /\ i \in Nat /\ 1 <= i /\ i <= n
  OBVIOUS
<1>2. f \in Seq(S) /\ Len(f) = i - 1 /\ \A j \in 1 .. i - 1 : f[j] = l[j]
  OBVIOUS
<1>3. g \in Seq(S) /\ Len(g) = n - i /\ \A j \in 1 .. n - i : g[j] = l[j + i]
  OBVIOUS
<1>4. RemoveAt(l, i) = f \o g
  BY DEF RemoveAt
<1> HIDE DEF f, g, n
<1>5. /\ f \o g \in Seq(S) /\ Len(f \o g) = n - 1
      /\ \A j \in 1 .. n - 1 : (f \o g)[j] = IF j <= i - 1 THEN f[j] ELSE g[j - (i - 1)]
  <2>1. /\ f \o g \in Seq(S) /\ Len(f \o g) = Len(f) + Len(g)
        /\ \A j \in 1 .. Len(f) + Len(g) :
             (f \o g)[j] = IF j <= Len(f) THEN f[j] ELSE g[j - Len(f)]
    BY <1>2, <1>3, ConcatProperties
  <2>2. Len(f) + Len(g) = n - 1 /\ Len(f) = i - 1
    BY <1>1, <1>2, <1>3
  <2> QED BY <2>1, <2>2
<1>6. ASSUME NEW j \in 1 .. n - 1 PROVE (f \o g)[j] = IF j < i THEN l[j] ELSE l[j + 1]
  <2>1. CASE j < i
    BY <1>1, <1>2, <1>5, <2>1
  <2>2. CASE ~(j < i)
    <3>1. j - (i - 1) \in 1 .. n - i /\ ~(j <= i - 1) /\ (j - (i - 1)) + i = j + 1
      BY <1>1, <2>2
    <3> QED BY <1>3, <1>5, <2>2, <3>1
  <2> QED BY <2>1, <2>2
<1> QED BY <1>4, <1>5, <1>6 DEF n

\* The pages of the objects other than the i-th.
Others(l, i, p) == \E j \in DOMAIN l : j # i /\ FirstPage(l[j]) <= p /\ p <= LastPage(l[j])

LEMMA OthersIs ==
  ASSUME NEW h, NEW l, Gapped(l, h), NEW i \in DOMAIN l
  PROVE  \A p \in Nat : /\ On(l, p) <=> Others(l, i, p) \/ (FirstPage(l[i]) <= p /\ p <= LastPage(l[i]))
                        /\ Others(l, i, p) => ~(FirstPage(l[i]) <= p /\ p <= LastPage(l[i] ) + 1)
<1> SUFFICES ASSUME NEW p \in Nat
             PROVE  /\ On(l, p) <=> Others(l, i, p) \/ (FirstPage(l[i]) <= p /\ p <= LastPage(l[i]))
                    /\ Others(l, i, p) => ~(FirstPage(l[i]) <= p /\ p <= LastPage(l[i]) + 1)
  OBVIOUS
<1>1. On(l, p) <=> Others(l, i, p) \/ (FirstPage(l[i]) <= p /\ p <= LastPage(l[i]))
  BY DEF On, Others
<1>2. ASSUME NEW j \in DOMAIN l, j # i, FirstPage(l[j]) <= p, p <= LastPage(l[j])
      PROVE  ~(FirstPage(l[i]) <= p /\ p <= LastPage(l[i]) + 1)
  <2>1. /\ FirstPage(l[i]) \in Nat /\ LastPage(l[i]) \in Nat /\ FirstPage(l[j]) \in Nat /\ LastPage(l[j]) \in Nat
    BY DEF Gapped, Legal
  <2>2. i \in Nat /\ j \in Nat
    BY DEF Gapped
  <2>3. LastPage(l[i]) + 1 < FirstPage(l[j]) \/ LastPage(l[j]) + 1 < FirstPage(l[i])
    BY <1>2, <2>2 DEF Gapped
  <2> QED BY <1>2, <2>1, <2>3
<1> QED BY <1>1, <1>2 DEF Others

\* Part of an object is all that is left of it.
LEMMA EditIs ==
  ASSUME NEW h, NEW l, Gapped(l, h), NEW i \in DOMAIN l, NEW o, Legal(o, h),
         FirstPage(l[i]) <= FirstPage(o), LastPage(o) <= LastPage(l[i]),
         NEW r, r = [l EXCEPT ![i] = o]
  PROVE  /\ Gapped(r, h)
         /\ \A p \in Nat : On(r, p) <=> Others(l, i, p) \/ (FirstPage(o) <= p /\ p <= LastPage(o))
<1>1. l \in Seq(Object) /\ o \in Object /\ i \in 1 .. Len(l)
  BY DEF Gapped, Legal
<1>2. r \in Seq(Object) /\ DOMAIN r = DOMAIN l /\ r[i] = o /\ \A j \in DOMAIN l : j # i => r[j] = l[j]
  BY <1>1
<1>3. \A j \in DOMAIN l : /\ Legal(r[j], h) /\ Legal(l[j], h)
                          /\ FirstPage(l[j]) <= FirstPage(r[j]) /\ LastPage(r[j]) <= LastPage(l[j])
  <2> SUFFICES ASSUME NEW j \in DOMAIN l
               PROVE  /\ Legal(r[j], h) /\ Legal(l[j], h)
                      /\ FirstPage(l[j]) <= FirstPage(r[j]) /\ LastPage(r[j]) <= LastPage(l[j])
    OBVIOUS
  <2>1. Legal(l[j], h) /\ FirstPage(l[j]) \in Nat /\ LastPage(l[j]) \in Nat
    BY DEF Gapped, Legal
  <2>2. CASE j = i
    BY <1>2, <2>1, <2>2
  <2>3. CASE j # i
    BY <1>2, <2>1, <2>3
  <2> QED BY <2>2, <2>3
<1>4. ASSUME NEW j \in DOMAIN l, NEW k \in DOMAIN l, j < k
      PROVE  LastPage(r[j]) + 1 < FirstPage(r[k])
  <2>1. LastPage(l[j]) + 1 < FirstPage(l[k])
    BY <1>4 DEF Gapped
  <2>2. /\ LastPage(l[j]) \in Nat /\ FirstPage(l[k]) \in Nat
        /\ LastPage(r[j]) \in Nat /\ FirstPage(r[k]) \in Nat
    BY <1>3 DEF Legal
  <2>3. LastPage(r[j]) <= LastPage(l[j]) /\ FirstPage(l[k]) <= FirstPage(r[k])
    BY <1>3
  <2> QED BY <2>1, <2>2, <2>3
<1>5. Gapped(r, h)
  BY <1>2, <1>3, <1>4 DEF Gapped
<1>6. \A p \in Nat : On(r, p) <=> Others(l, i, p) \/ (FirstPage(o) <= p /\ p <= LastPage(o))
  BY <1>2 DEF On, Others
<1> QED BY <1>5, <1>6

\* An object goes as a whole.
LEMMA DropIs ==
  ASSUME NEW h, NEW l, Gapped(l, h), NEW i \in DOMAIN l, NEW r, r = RemoveAt(l, i)
  PROVE  Gapped(r, h) /\ \A p \in Nat : On(r, p) <=> Others(l, i, p)
<1> DEFINE n == Len(l)
           At(j) == IF j < i THEN j ELSE j + 1
<1>1. l \in Seq(Object) /\ i \in 1 .. Len(l) /\ n \in Nat /\ DOMAIN l = 1 .. n
  BY DEF Gapped
<1>2. r \in Seq(Object) /\ Len(r) = n - 1 /\ \A j \in 1 .. n - 1 : r[j] = l[At(j)]
  <2>1. /\ r \in Seq(Object) /\ Len(r) = n - 1
        /\ \A j \in 1 .. n - 1 : r[j] = IF j < i THEN l[j] ELSE l[j + 1]
    BY <1>1, RemoveIs
  <2> QED BY <2>1
<1>3. DOMAIN r = 1 .. n - 1
  BY <1>2
<1>4. /\ \A j \in 1 .. n - 1 : At(j) \in DOMAIN l /\ At(j) # i
      /\ \A j, k \in 1 .. n - 1 : j < k => At(j) < At(k)
  BY <1>1
<1>5. \A k \in DOMAIN l : k # i => \E j \in 1 .. n - 1 : At(j) = k
  <2> SUFFICES ASSUME NEW k \in DOMAIN l, k # i PROVE \E j \in 1 .. n - 1 : At(j) = k
    OBVIOUS
  <2>1. CASE k < i
    <3>1. k \in 1 .. n - 1 /\ At(k) = k
      BY <1>1, <2>1
    <3> QED BY <3>1
  <2>2. CASE ~(k < i)
    <3>1. k - 1 \in 1 .. n - 1 /\ At(k - 1) = k
      BY <1>1, <2>2
    <3> QED BY <3>1
  <2> QED BY <2>1, <2>2
<1> HIDE DEF At, n
<1>6. Gapped(r, h)
  <2>1. \A j \in DOMAIN r : Legal(r[j], h)
    BY <1>2, <1>3, <1>4 DEF Gapped
  <2>2. \A j, k \in DOMAIN r : j < k => LastPage(r[j]) + 1 < FirstPage(r[k])
    BY <1>2, <1>3, <1>4 DEF Gapped
  <2> QED BY <1>2, <2>1, <2>2 DEF Gapped
<1>7. \A p \in Nat : On(r, p) <=> Others(l, i, p)
  BY <1>2, <1>3, <1>4, <1>5 DEF On, Others
<1> QED BY <1>6, <1>7

\* Insertions and a removal in short lists.
LEMMA PutFirst ==
  ASSUME NEW S, NEW x \in S, NEW y \in S
  PROVE  InsertAt(<<x>>, 1, y) = <<y, x>>
<1>0. <<x>> \in Seq(S) /\ <<y>> \in Seq(S) /\ <<y, x>> \in Seq(S)
  OBVIOUS
<1>1. SubSeq(<<x>>, 1, 1 - 1) = <<>> /\ Len(<<x>>) = 1
  BY SubSeqEmpty
<1>2. SubSeq(<<x>>, 1, Len(<<x>>)) = <<x>>
  BY <1>0, SubSeqFull
<1>3. <<>> \o <<y>> = <<y>>
  BY <1>0, ConcatEmptySeq
<1>4. <<y>> \o <<x>> = <<y, x>>
  <2> DEFINE s == <<y>>
             t == <<x>>
  <2>1. s \in Seq(S) /\ t \in Seq(S) /\ Len(s) = 1 /\ Len(t) = 1 /\ s[1] = y /\ t[1] = x
    BY <1>0
  <2> HIDE DEF s, t
  <2>2. /\ s \o t \in Seq(S) /\ Len(s \o t) = 2
        /\ \A i \in 1 .. 2 : (s \o t)[i] = IF i <= 1 THEN s[i] ELSE t[i - 1]
    <3>1. /\ s \o t \in Seq(S) /\ Len(s \o t) = Len(s) + Len(t)
          /\ \A i \in 1 .. Len(s) + Len(t) :
               (s \o t)[i] = IF i <= Len(s) THEN s[i] ELSE t[i - Len(s)]
      BY <2>1, ConcatProperties
    <3> QED BY <2>1, <3>1
  <2>3. \A i \in 1 .. 2 : (s \o t)[i] = <<y, x>>[i]
    BY <2>1, <2>2
  <2>4. s \o t = <<y, x>>
    BY <1>0, <2>2, <2>3, SeqEqual
  <2> QED BY <2>4 DEF s, t
<1> QED BY <1>1, <1>2, <1>3, <1>4 DEF InsertAt

LEMMA PutThird ==
  ASSUME NEW S, NEW x \in S, NEW y \in S, NEW z \in S
  PROVE  InsertAt(<<x, y>>, 3, z) = <<x, y, z>>
<1>0. <<x, y>> \in Seq(S) /\ <<z>> \in Seq(S) /\ <<x, y, z>> \in Seq(S)
  OBVIOUS
<1>1. SubSeq(<<x, y>>, 1, Len(<<x, y>>)) = <<x, y>>
  BY <1>0, SubSeqFull
<1>2. Len(<<x, y>>) = 2 /\ 3 - 1 = 2 /\ SubSeq(<<x, y>>, 3, 2) = <<>>
  BY SubSeqEmpty
<1>3. <<x, y>> \o <<z>> = <<x, y, z>>
  <2> DEFINE s == <<x, y>>
             t == <<z>>
  <2>1. /\ s \in Seq(S) /\ t \in Seq(S) /\ Len(s) = 2 /\ Len(t) = 1
        /\ s[1] = x /\ s[2] = y /\ t[1] = z
    BY <1>0
  <2> HIDE DEF s, t
  <2>2. /\ s \o t \in Seq(S) /\ Len(s \o t) = 3
        /\ \A i \in 1 .. 3 : (s \o t)[i] = IF i <= 2 THEN s[i] ELSE t[i - 2]
    <3>1. /\ s \o t \in Seq(S) /\ Len(s \o t) = Len(s) + Len(t)
          /\ \A i \in 1 .. Len(s) + Len(t) :
               (s \o t)[i] = IF i <= Len(s) THEN s[i] ELSE t[i - Len(s)]
      BY <2>1, ConcatProperties
    <3> QED BY <2>1, <3>1
  <2>3. \A i \in 1 .. 3 : (s \o t)[i] = <<x, y, z>>[i]
    BY <2>1, <2>2
  <2>4. s \o t = <<x, y, z>>
    BY <1>0, <2>2, <2>3, SeqEqual
  <2> QED BY <2>4 DEF s, t
<1>4. <<x, y, z>> \o <<>> = <<x, y, z>>
  BY <1>0, ConcatEmptySeq
<1> QED BY <1>1, <1>2, <1>3, <1>4 DEF InsertAt

LEMMA TakeFirst ==
  ASSUME NEW S, NEW x \in S, NEW y \in S, NEW z \in S
  PROVE  RemoveAt(<<x, y, z>>, 1) = <<y, z>>
<1>0. <<x, y, z>> \in Seq(S) /\ <<y, z>> \in Seq(S)
  OBVIOUS
<1>1. SubSeq(<<x, y, z>>, 1, 1 - 1) = <<>> /\ Len(<<x, y, z>>) = 3
  BY SubSeqEmpty
<1>2. SubSeq(<<x, y, z>>, 1 + 1, 3) = <<y, z>>
  <2> DEFINE s == <<x, y, z>>
  <2>1. s[1] = x /\ s[2] = y /\ s[3] = z
    OBVIOUS
  <2> HIDE DEF s
  <2>2. /\ SubSeq(s, 2, 3) \in Seq(S) /\ Len(SubSeq(s, 2, 3)) = 2
        /\ \A i \in 1 .. 2 : SubSeq(s, 2, 3)[i] = s[2 + i - 1]
    <3>1. \A i \in 2 .. 3 : s[i] \in S
      BY <2>1
    <3> QED BY <3>1, SubSeqProperties
  <2>3. \A i \in 1 .. 2 : SubSeq(s, 2, 3)[i] = <<y, z>>[i]
    BY <2>1, <2>2
  <2>4. SubSeq(s, 2, 3) = <<y, z>>
    BY <1>0, <2>2, <2>3, SeqEqual
  <2> QED BY <2>4 DEF s
<1>3. <<>> \o <<y, z>> = <<y, z>>
  BY <1>0, ConcatEmptySeq
<1> QED BY <1>1, <1>2, <1>3 DEF RemoveAt

\* A hole in the only object of a list, with memory for both new objects: the
\* object in front of the hole stays, and one behind it is new.
LEMMA CutIs ==
  ASSUME NEW l \in Seq(Object), Len(l) = 1, NEW va \in Nat, NEW vend \in Nat, va - 1 \in Nat,
         NEW r, r = CutOut(l, 1, va, vend, 2)
  PROVE  r = <<[l[1] EXCEPT !.vend = va - 1], new_vma(vend + 1, l[1].vend)>>
<1> DEFINE front == [l[1] EXCEPT !.vend = va - 1]
           back  == new_vma(va, l[1].vend)
           cut   == [back EXCEPT !.vend = vend]
           rest  == new_vma(vend + 1, l[1].vend)
<1>1. front \in Object /\ back \in Object /\ cut \in Object /\ rest \in Object
  <2>1. l[1] \in Object
    BY ElementOfSeq
  <2>2. l[1].vend \in Nat /\ vend + 1 \in Nat
    BY <2>1 DEF Object
  <2> QED BY <2>1, <2>2 DEF Object, new_vma
<1> DEFINE once == <<back, front>>
           both == <<cut, front, rest>>
<1>2. Seprate(l, 1, va) = once
  <2>1. [l EXCEPT ![1].vend = va - 1] = <<front>>
    OBVIOUS
  <2>2. Seprate(l, 1, va) = InsertAt(<<front>>, 1, back)
    BY <2>1 DEF Seprate, NewPlace
  <2> HIDE DEF front, back
  <2> QED BY <1>1, <2>2, PutFirst
<1>3. Seprate(once, 1, vend + 1) = both
  <2>1. once[1].vend = l[1].vend /\ NewPlace(once, 1) = 3
    BY DEF new_vma, NewPlace
  <2>2. [once EXCEPT ![1].vend = (vend + 1) - 1] = <<cut, front>>
    <3>1. (vend + 1) - 1 = vend
      OBVIOUS
    <3>2. [once EXCEPT ![1].vend = vend] = <<cut, front>>
      <4> HIDE DEF back, front
      <4> QED OBVIOUS
    <3> QED BY <3>1, <3>2
  <2>3. Seprate(once, 1, vend + 1) = InsertAt(<<cut, front>>, 3, rest)
    BY <2>1, <2>2 DEF Seprate
  <2> HIDE DEF front, rest, cut, back
  <2>4. InsertAt(<<cut, front>>, 3, rest) = <<cut, front, rest>>
    BY <1>1, PutThird
  <2> QED BY <2>3, <2>4
<1>4. NewPlace(l, 1) = 1 /\ Len(once) = 2
  BY DEF NewPlace
<1> HIDE DEF front, rest, cut, back, once
<1>5. r = RemoveAt(both, 1)
  <2>1. r = RemoveAt(Seprate(Seprate(l, 1, va), NewPlace(l, 1), vend + 1),
                     IF NewPlace(l, 1) = Len(Seprate(l, 1, va)) THEN NewPlace(l, 1) + 1 ELSE NewPlace(l, 1))
    BY DEF CutOut
  <2>2. (IF NewPlace(l, 1) = Len(Seprate(l, 1, va)) THEN NewPlace(l, 1) + 1 ELSE NewPlace(l, 1)) = 1
    <3>1. NewPlace(l, 1) # Len(Seprate(l, 1, va))
      <4>1. Len(Seprate(l, 1, va)) = 2
        BY <1>2, <1>4, Zenon
      <4>2. NewPlace(l, 1) = 1
        BY <1>4
      <4>3. 1 # 2
        OBVIOUS
      <4> QED BY <4>1, <4>2, <4>3, Zenon
    <3> QED BY <1>4, <3>1
  <2>3. r = RemoveAt(Seprate(Seprate(l, 1, va), NewPlace(l, 1), vend + 1), 1)
    BY <2>1, <2>2
  <2> HIDE DEF both
  <2> QED BY <1>2, <1>3, <1>4, <2>3
<1>6. r = <<front, rest>>
  BY <1>1, <1>5, TakeFirst
<1> QED BY <1>6 DEF front, rest

\* The object the loop stops at is the first that does not end before page a.
LEMMA StopIs ==
  ASSUME NEW h, NEW l, Gapped(l, h), NEW a \in Nat
  PROVE  \/ Stops(l, StartOf(a)) = {} /\ ~On(l, a)
         \/ /\ Stops(l, StartOf(a)) # {} /\ Min(Stops(l, StartOf(a))) \in DOMAIN l
            /\ a <= LastPage(l[Min(Stops(l, StartOf(a)))])
            /\ \A j \in DOMAIN l : j < Min(Stops(l, StartOf(a))) => LastPage(l[j]) < a
<1> DEFINE T == Stops(l, StartOf(a))
<1>1. DOMAIN l \subseteq Nat /\ T \subseteq DOMAIN l
  BY DEF Gapped, Stops
<1>2. ASSUME NEW j \in DOMAIN l PROVE j \in T <=> a <= LastPage(l[j])
  <2>1. l[j].vend = EndOf(LastPage(l[j])) /\ LastPage(l[j]) \in Nat
    BY DEF Gapped, Legal
  <2>2. StartOf(a) < l[j].vend <=> a <= LastPage(l[j])
    BY <2>1, Compare
  <2> QED BY <2>2 DEF Stops
<1> HIDE DEF T
<1>3. \A j \in DOMAIN l : LastPage(l[j]) \in Nat
  BY DEF Gapped, Legal
<1>4. CASE T = {}
  BY <1>2, <1>4 DEF On, T
<1>5. CASE T # {}
  <2>1. T \in SUBSET Nat
    BY <1>1
  <2>2. Min(T) \in T /\ \A k \in T : Min(T) <= k
    BY <1>5, <2>1, MinIs
  <2>3. Min(T) \in DOMAIN l /\ Min(T) \in Nat /\ a <= LastPage(l[Min(T)])
    BY <1>1, <1>2, <2>2
  <2>4. ASSUME NEW j \in DOMAIN l, j < Min(T) PROVE LastPage(l[j]) < a
    <3>1. j \notin T
      BY <1>1, <2>2, <2>3, <2>4
    <3> QED BY <1>2, <1>3, <3>1
  <2> QED BY <1>5, <2>3, <2>4 DEF T
<1> QED BY <1>4, <1>5

\* All pages of the range are in the list, or there is no taking it out.
Whole(l, a, b) == \A p \in Nat : a <= p /\ p <= b => On(l, p)

Gone(l, r, a, b) == Whole(l, a, b) /\ \A p \in Nat : On(r, p) <=> On(l, p) /\ ~(a <= p /\ p <= b)

Stays(l, a, b) == ~Whole(l, a, b) \/ (a # 0 /\ On(l, a - 1) /\ On(l, b + 1))

\* What is left of object i after pages a .. b, and all the pages of the list.
Within(h, l, i, a, b) ==
  /\ h \in Heads /\ Gapped(l, h) /\ i \in DOMAIN l /\ a \in Nat /\ b \in Nat /\ a <= b
  /\ FirstPage(l[i]) <= a /\ b <= LastPage(l[i])

LEMMA WithinFacts ==
  ASSUME NEW h, NEW l, NEW i, NEW a, NEW b, Within(h, l, i, a, b)
  PROVE  /\ Legal(l[i], h) /\ l[i] \in Object /\ l \in Seq(Object) /\ i \in 1 .. Len(l)
         /\ FirstPage(l[i]) \in Nat /\ LastPage(l[i]) \in Nat
         /\ l[i].start = StartOf(FirstPage(l[i])) /\ l[i].vend = EndOf(LastPage(l[i]))
         /\ LowPage(h) \in Nat /\ HighPage(h) \in Nat
         /\ LowPage(h) <= FirstPage(l[i]) /\ LastPage(l[i]) < HighPage(h)
         /\ a \in Nat /\ b \in Nat /\ a <= b /\ FirstPage(l[i]) <= a /\ b <= LastPage(l[i])
         /\ Whole(l, a, b)
<1>1. /\ Legal(l[i], h) /\ l[i] \in Object /\ l \in Seq(Object) /\ i \in 1 .. Len(l)
      /\ FirstPage(l[i]) \in Nat /\ LastPage(l[i]) \in Nat
      /\ l[i].start = StartOf(FirstPage(l[i])) /\ l[i].vend = EndOf(LastPage(l[i]))
      /\ LowPage(h) <= FirstPage(l[i]) /\ LastPage(l[i]) < HighPage(h)
      /\ a \in Nat /\ b \in Nat /\ a <= b /\ FirstPage(l[i]) <= a /\ b <= LastPage(l[i])
  BY DEF Within, Gapped, Legal
<1>2. LowPage(h) \in Nat /\ HighPage(h) \in Nat
  BY HeadPages DEF Within
<1>3. ASSUME NEW p \in Nat, a <= p, p <= b PROVE On(l, p)
  <2>1. FirstPage(l[i]) <= p /\ p <= LastPage(l[i])
    BY <1>1, <1>3
  <2> QED BY <2>1 DEF On, Within
<1> QED BY <1>1, <1>2, <1>3 DEF Whole

\* Of s .. e without a .. b, j .. k is left.
Remain(s, e, a, b, j, k) ==
  /\ s <= j /\ j <= k /\ k <= e
  /\ \A p \in Nat : j <= p /\ p <= k <=> (s <= p /\ p <= e) /\ ~(a <= p /\ p <= b)

\* An object of a list is left with its pages j .. k only.
LEMMA LeftWith ==
  ASSUME NEW h, NEW l, NEW i, NEW a, NEW b, Within(h, l, i, a, b),
         NEW j \in Nat, NEW k \in Nat, NEW o \in Object, o.start = StartOf(j), o.vend = EndOf(k),
         Remain(FirstPage(l[i]), LastPage(l[i]), a, b, j, k),
         NEW r, r = [l EXCEPT ![i] = o]
  PROVE  Gapped(r, h) /\ Gone(l, r, a, b)
<1> DEFINE s == FirstPage(l[i])
           e == LastPage(l[i])
<1>1. /\ s \in Nat /\ e \in Nat /\ LowPage(h) \in Nat /\ HighPage(h) \in Nat
      /\ LowPage(h) <= s /\ e < HighPage(h) /\ s <= a /\ b <= e /\ Whole(l, a, b)
      /\ a \in Nat /\ b \in Nat
  BY WithinFacts
<1>2. s <= j /\ j <= k /\ k <= e
  BY DEF Remain
<1>3. Gapped(l, h) /\ i \in DOMAIN l
  BY DEF Within
<1> HIDE DEF s, e
<1>4. Legal(o, h) /\ FirstPage(o) = j /\ LastPage(o) = k
  <2>1. LowPage(h) <= j /\ k < HighPage(h)
    BY <1>1, <1>2
  <2> QED BY <1>2, <2>1, MadeLegal
<1>5. Gapped(r, h) /\ \A p \in Nat : On(r, p) <=> Others(l, i, p) \/ (j <= p /\ p <= k)
  BY <1>2, <1>3, <1>4, EditIs DEF s, e
<1>6. \A p \in Nat : On(r, p) <=> On(l, p) /\ ~(a <= p /\ p <= b)
  <2>1. \A p \in Nat : /\ On(l, p) <=> Others(l, i, p) \/ (s <= p /\ p <= e)
                       /\ Others(l, i, p) => ~(s <= p /\ p <= e + 1)
    BY <1>3, OthersIs DEF s, e
  <2>2. \A p \in Nat : Others(l, i, p) => ~(s <= p /\ p <= e)
    BY <1>1, <2>1
  <2>3. \A p \in Nat : (s <= p /\ p <= e) \/ ~(a <= p /\ p <= b)
    BY <1>1
  <2>4. \A p \in Nat : j <= p /\ p <= k <=> (s <= p /\ p <= e) /\ ~(a <= p /\ p <= b)
    BY DEF Remain, s, e
  <2> QED BY <1>5, <2>1, <2>2, <2>3, <2>4
<1> QED BY <1>1, <1>5, <1>6 DEF Gone

LEMMA FrontGone ==
  ASSUME NEW h, NEW l, NEW i, NEW a, NEW b, Within(h, l, i, a, b),
         FirstPage(l[i]) = a, b < LastPage(l[i]), NEW r, r = FrontOff(l, i, EndOf(b))
  PROVE  Gapped(r, h) /\ Gone(l, r, a, b)
<1> DEFINE o == [l[i] EXCEPT !.start = EndOf(b) + 1]
           e == LastPage(l[i])
<1>1. /\ l[i] \in Object /\ l[i].vend = EndOf(e) /\ e \in Nat /\ a \in Nat /\ b \in Nat /\ a <= b
      /\ l \in Seq(Object) /\ i \in 1 .. Len(l)
  BY WithinFacts
<1>2. EndOf(b) + 1 = StartOf(b + 1) /\ StartOf(b + 1) \in Nat
  <2>1. b + 1 \in Nat
    BY <1>1
  <2> QED BY <1>1, <2>1, PageIs
<1>3. o \in Object /\ o.start = StartOf(b + 1) /\ o.vend = EndOf(e)
  BY <1>1, <1>2 DEF Object
<1>4. r = [l EXCEPT ![i] = o]
  BY <1>1 DEF FrontOff
<1> HIDE DEF o
<1>5. b + 1 \in Nat /\ Remain(FirstPage(l[i]), e, a, b, b + 1, e)
  <2> HIDE DEF e
  <2> QED BY <1>1 DEF Remain, e
<1> QED BY <1>1, <1>3, <1>4, <1>5, LeftWith

LEMMA EndBefore ==
  ASSUME NEW a \in Nat, a # 0
  PROVE  a - 1 \in Nat /\ StartOf(a) - 1 = EndOf(a - 1) /\ EndOf(a - 1) \in Nat
<1>1. a - 1 \in Nat /\ (a - 1) + 1 = a
  OBVIOUS
<1>2. EndOf(a - 1) + 1 = StartOf((a - 1) + 1) /\ EndOf(a - 1) \in Nat
  BY <1>1, PageIs
<1> QED BY <1>1, <1>2

LEMMA BackGone ==
  ASSUME NEW h, NEW l, NEW i, NEW a, NEW b, Within(h, l, i, a, b),
         FirstPage(l[i]) < a, b = LastPage(l[i]), NEW r, r = BackOff(l, i, StartOf(a))
  PROVE  Gapped(r, h) /\ Gone(l, r, a, b)
<1> DEFINE o == [l[i] EXCEPT !.vend = StartOf(a) - 1]
           s == FirstPage(l[i])
<1>1. /\ l[i] \in Object /\ l[i].start = StartOf(s) /\ s \in Nat /\ a \in Nat /\ b \in Nat /\ a <= b
      /\ l \in Seq(Object) /\ i \in 1 .. Len(l)
  BY WithinFacts
<1>2. a # 0 /\ a - 1 \in Nat /\ StartOf(a) - 1 = EndOf(a - 1) /\ EndOf(a - 1) \in Nat
  BY <1>1, EndBefore
<1>3. o \in Object /\ o.start = StartOf(s) /\ o.vend = EndOf(a - 1)
  BY <1>1, <1>2 DEF Object
<1>4. r = [l EXCEPT ![i] = o]
  BY <1>1 DEF BackOff
<1> HIDE DEF o
<1>5. Remain(s, LastPage(l[i]), a, b, s, a - 1)
  BY <1>1 DEF Remain
<1>6. FirstPage(l[i]) \in Nat /\ Remain(FirstPage(l[i]), LastPage(l[i]), a, b, FirstPage(l[i]), a - 1)
  BY <1>1, <1>5
<1>7. o.start = StartOf(FirstPage(l[i]))
  BY <1>3
<1> QED BY <1>2, <1>3, <1>4, <1>6, <1>7, LeftWith

LEMMA HoleCut ==
  ASSUME NEW h, NEW l, NEW i, NEW a, NEW b, Within(h, l, i, a, b),
         FirstPage(l[i]) < a, b < LastPage(l[i]), Len(l) = 1,
         NEW r, r = CutOut(l, i, StartOf(a), EndOf(b), 2)
  PROVE  Gapped(r, h) /\ Gone(l, r, a, b)
<1> DEFINE s == FirstPage(l[1])
           e == LastPage(l[1])
           front == [l[1] EXCEPT !.vend = StartOf(a) - 1]
           rest  == new_vma(EndOf(b) + 1, l[1].vend)
<1>1. /\ i \in 1 .. Len(l) /\ l \in Seq(Object) /\ DOMAIN l = 1 .. Len(l)
  BY WithinFacts
<1>2. i = 1
  BY <1>1
<1>3. /\ l[1] \in Object /\ s \in Nat /\ e \in Nat /\ l[1].start = StartOf(s) /\ l[1].vend = EndOf(e)
      /\ LowPage(h) \in Nat /\ HighPage(h) \in Nat /\ LowPage(h) <= s /\ e < HighPage(h)
      /\ a \in Nat /\ b \in Nat /\ a <= b /\ Whole(l, a, b) /\ s < a /\ b < e
  BY <1>2, WithinFacts
<1>4. a # 0 /\ a - 1 \in Nat /\ StartOf(a) - 1 = EndOf(a - 1) /\ EndOf(a - 1) \in Nat
  BY <1>3, EndBefore
<1>5. b + 1 \in Nat /\ EndOf(b) + 1 = StartOf(b + 1) /\ EndOf(b) \in Nat /\ StartOf(a) \in Nat
  BY <1>3, PageIs
<1>6. r = <<front, rest>>
  BY <1>1, <1>2, <1>4, <1>5, CutIs
<1>7. front \in Object /\ front.start = StartOf(s) /\ front.vend = EndOf(a - 1)
  BY <1>3, <1>4 DEF Object
<1>8. rest = new_vma(StartOf(b + 1), EndOf(e))
  BY <1>3, <1>5
<1> HIDE DEF front, rest, s, e
<1>9. Legal(front, h) /\ FirstPage(front) = s /\ LastPage(front) = a - 1
  <2>1. s <= a - 1 /\ a - 1 < HighPage(h)
    BY <1>3, <1>4
  <2> QED BY <1>3, <1>4, <1>7, <2>1, MadeLegal
<1>10. Legal(rest, h) /\ FirstPage(rest) = b + 1 /\ LastPage(rest) = e
  <2>1. LowPage(h) <= b + 1 /\ b + 1 <= e
    BY <1>3
  <2> QED BY <1>3, <1>5, <1>8, <2>1, NewIs
<1>11. r \in Seq(Object) /\ DOMAIN r = {1, 2} /\ r[1] = front /\ r[2] = rest
  <2>1. front \in Object /\ rest \in Object
    BY <1>9, <1>10 DEF Legal
  <2>2. <<front, rest>> \in Seq(Object) /\ DOMAIN <<front, rest>> = 1 .. 2
    BY <2>1
  <2>3. 1 .. 2 = {1, 2} /\ <<front, rest>>[1] = front /\ <<front, rest>>[2] = rest
    OBVIOUS
  <2> DEFINE t == <<front, rest>>
  <2>4. t \in Seq(Object) /\ DOMAIN t = {1, 2} /\ t[1] = front /\ t[2] = rest /\ r = t
    BY <1>6, <2>2, <2>3
  <2> HIDE DEF t
  <2> QED BY <2>4
<1>12. \A p : On(r, p) <=> (s <= p /\ p <= a - 1) \/ (b + 1 <= p /\ p <= e)
  BY <1>9, <1>10, <1>11 DEF On
<1>13. Gapped(r, h)
  <2>1. \A j \in DOMAIN r : Legal(r[j], h)
    BY <1>9, <1>10, <1>11
  <2>2. ASSUME NEW j \in DOMAIN r, NEW k \in DOMAIN r, j < k
        PROVE  LastPage(r[j]) + 1 < FirstPage(r[k])
    <3>1. j = 1 /\ k = 2
      BY <1>11, <2>2
    <3>2. (a - 1) + 1 < b + 1
      BY <1>3, <1>4
    <3> QED BY <1>9, <1>10, <1>11, <3>1, <3>2
  <2> QED BY <1>11, <2>1, <2>2 DEF Gapped
<1>14. \A p \in Nat : On(l, p) <=> s <= p /\ p <= e
  <2>1. DOMAIN l = {1}
    BY <1>1
  <2> QED BY <2>1 DEF On, s, e
<1>15. \A p \in Nat : (s <= p /\ p <= a - 1) \/ (b + 1 <= p /\ p <= e) <=>
                        (s <= p /\ p <= e) /\ ~(a <= p /\ p <= b)
  BY <1>3, <1>4
<1>16. \A p \in Nat : On(r, p) <=> On(l, p) /\ ~(a <= p /\ p <= b)
  BY <1>12, <1>14, <1>15
<1> QED BY <1>3, <1>13, <1>16 DEF Gone

-----------------------------------------------------------------------------
(* Lists in any order: the objects keep their type, and a hole that is cut *)
(* beside another object still takes out its pages and no others.          *)

Inserted(S, l, k, x, u) ==
  /\ u \in Seq(S) /\ Len(u) = Len(l) + 1
  /\ \A j \in 1 .. Len(l) + 1 : u[j] = IF j < k THEN l[j] ELSE IF j = k THEN x ELSE l[j - 1]

LEMMA InsertIs ==
  ASSUME NEW S, NEW l \in Seq(S), NEW k \in 1 .. Len(l) + 1, NEW x \in S
  PROVE  Inserted(S, l, k, x, InsertAt(l, k, x))
<1> DEFINE f == SubSeq(l, 1, k - 1)
           e == <<x>>
           g == SubSeq(l, k, Len(l))
           n == Len(l)
<1>1. n \in Nat /\ k \in Nat /\ 1 <= k /\ k <= n + 1
  OBVIOUS
<1>2. f \in Seq(S) /\ Len(f) = k - 1 /\ \A j \in 1 .. k - 1 : f[j] = l[j]
  OBVIOUS
<1>3. g \in Seq(S) /\ Len(g) = n - k + 1 /\ \A j \in 1 .. n - k + 1 : g[j] = l[j + k - 1]
  OBVIOUS
<1>4. e \in Seq(S) /\ Len(e) = 1 /\ e[1] = x
  OBVIOUS
<1>5. InsertAt(l, k, x) = (f \o e) \o g
  BY DEF InsertAt
<1> HIDE DEF f, g, e, n
<1> DEFINE u == f \o e
<1>6. u \in Seq(S) /\ Len(u) = k /\ \A j \in 1 .. k : u[j] = IF j < k THEN l[j] ELSE x
  <2>1. /\ u \in Seq(S) /\ Len(u) = Len(f) + Len(e)
        /\ \A j \in 1 .. Len(f) + Len(e) : u[j] = IF j <= Len(f) THEN f[j] ELSE e[j - Len(f)]
    BY <1>2, <1>4, ConcatProperties
  <2>2. Len(f) + Len(e) = k /\ Len(f) = k - 1
    BY <1>1, <1>2, <1>4
  <2>3. ASSUME NEW j \in 1 .. k PROVE u[j] = IF j < k THEN l[j] ELSE x
    <3>1. u[j] = IF j <= k - 1 THEN f[j] ELSE e[j - (k - 1)]
      BY <2>1, <2>2
    <3>2. CASE j < k
      BY <1>1, <1>2, <3>1, <3>2
    <3>3. CASE ~(j < k)
      <4>1. j - (k - 1) = 1 /\ ~(j <= k - 1)
        BY <1>1, <3>3
      <4> QED BY <1>4, <3>1, <3>3, <4>1
    <3> QED BY <3>2, <3>3
  <2> QED BY <2>1, <2>2, <2>3
<1> DEFINE r == InsertAt(l, k, x)
<1>7. r = u \o g
  BY <1>5
<1> HIDE DEF u, r
<1>8. /\ r \in Seq(S) /\ Len(r) = n + 1
      /\ \A j \in 1 .. n + 1 : r[j] = IF j <= k THEN u[j] ELSE g[j - k]
  <2>1. /\ r \in Seq(S) /\ Len(r) = Len(u) + Len(g)
        /\ \A j \in 1 .. Len(u) + Len(g) : r[j] = IF j <= Len(u) THEN u[j] ELSE g[j - Len(u)]
    BY <1>3, <1>6, <1>7, ConcatProperties
  <2>2. Len(u) + Len(g) = n + 1 /\ Len(u) = k
    BY <1>1, <1>3, <1>6
  <2> QED BY <2>1, <2>2
<1>9. ASSUME NEW j \in 1 .. n + 1
      PROVE  r[j] = IF j < k THEN l[j] ELSE IF j = k THEN x ELSE l[j - 1]
  <2>1. r[j] = IF j <= k THEN u[j] ELSE g[j - k]
    BY <1>8
  <2>2. CASE j <= k
    <3>1. j \in 1 .. k
      BY <1>1, <2>2
    <3>2. u[j] = IF j < k THEN l[j] ELSE x
      BY <1>6, <3>1
    <3> QED BY <1>1, <2>1, <2>2, <3>2
  <2>3. CASE ~(j <= k)
    <3>1. j - k \in 1 .. n - k + 1 /\ (j - k) + k - 1 = j - 1
      BY <1>1, <2>3
    <3>2. g[j - k] = l[j - 1]
      BY <1>3, <3>1
    <3>3. ~(j < k) /\ j # k
      BY <1>1, <2>3
    <3> QED BY <2>1, <2>3, <3>2, <3>3
  <2> QED BY <2>2, <2>3
<1> QED BY <1>8, <1>9 DEF n, r, Inserted

\* The address p is on a page of object o.
Has(o, p) == FirstPage(o) <= p /\ p <= LastPage(o)

LEMMA DropAny ==
  ASSUME NEW l \in Seq(Object), NEW i \in DOMAIN l, NEW r, r = RemoveAt(l, i)
  PROVE  r \in Seq(Object) /\ Len(r) = Len(l) - 1 /\ \A p : On(r, p) <=> Others(l, i, p)
<1> DEFINE n == Len(l)
           At(j) == IF j < i THEN j ELSE j + 1
<1>1. i \in 1 .. Len(l) /\ n \in Nat /\ DOMAIN l = 1 .. n
  OBVIOUS
<1>2. r \in Seq(Object) /\ Len(r) = n - 1 /\ \A j \in 1 .. n - 1 : r[j] = l[At(j)]
  <2>1. /\ r \in Seq(Object) /\ Len(r) = n - 1
        /\ \A j \in 1 .. n - 1 : r[j] = IF j < i THEN l[j] ELSE l[j + 1]
    BY <1>1, RemoveIs
  <2> QED BY <2>1
<1>3. DOMAIN r = 1 .. n - 1
  BY <1>2
<1>4. \A j \in 1 .. n - 1 : At(j) \in DOMAIN l /\ At(j) # i
  BY <1>1
<1>5. \A k \in DOMAIN l : k # i => \E j \in 1 .. n - 1 : At(j) = k
  <2> SUFFICES ASSUME NEW k \in DOMAIN l, k # i PROVE \E j \in 1 .. n - 1 : At(j) = k
    OBVIOUS
  <2>1. CASE k < i
    <3>1. k \in 1 .. n - 1 /\ At(k) = k
      BY <1>1, <2>1
    <3> QED BY <3>1
  <2>2. CASE ~(k < i)
    <3>1. k - 1 \in 1 .. n - 1 /\ At(k - 1) = k
      BY <1>1, <2>2
    <3> QED BY <3>1
  <2> QED BY <2>1, <2>2
<1> HIDE DEF At, n
<1>6. \A p : On(r, p) <=> Others(l, i, p)
  BY <1>2, <1>3, <1>4, <1>5 DEF On, Others
<1> QED BY <1>2, <1>6 DEF n

\* One object more, at place k; the i-th object is now at place m.
Placed(l, i, k) == IF i < k THEN i ELSE i + 1

Seprated(l, r, i, k, m, front, new) ==
  /\ r \in Seq(Object) /\ Len(r) = Len(l) + 1
  /\ k \in DOMAIN r /\ m \in DOMAIN r /\ r[k] = new /\ r[m] = front
  /\ \A p : Others(r, k, p) <=> Others(l, i, p) \/ Has(front, p)
  /\ \A p : Others(r, m, p) <=> Others(l, i, p) \/ Has(new, p)

LEMMA SeprateIs ==
  ASSUME NEW l \in Seq(Object), NEW i \in DOMAIN l, NEW va \in Nat, va - 1 \in Nat,
         NEW k, k = NewPlace(l, i), NEW m, m = Placed(l, i, k),
         NEW r, r = Seprate(l, i, va),
         NEW front, front = [l[i] EXCEPT !.vend = va - 1],
         NEW new, new = new_vma(va, l[i].vend)
  PROVE  Seprated(l, r, i, k, m, front, new)
<1> DEFINE n == Len(l)
           c == [l EXCEPT ![i].vend = va - 1]
           At(j) == IF j < k THEN j ELSE j + 1
<1>1. n \in Nat /\ DOMAIN l = 1 .. n /\ i \in 1 .. n /\ l[i] \in Object
  OBVIOUS
<1>2. front \in Object /\ new \in Object
  BY <1>1 DEF Object, new_vma
<1>3. /\ c \in Seq(Object) /\ Len(c) = n /\ c[i] = front
      /\ \A j \in 1 .. n : j # i => c[j] = l[j]
  <2>1. c = [l EXCEPT ![i] = front]
    OBVIOUS
  <2> HIDE DEF c
  <2> QED BY <1>1, <1>2, <2>1
<1>4. k \in 1 .. n + 1 /\ k \in Nat /\ m \in 1 .. n + 1 /\ m # k /\ m = At(i)
  <2>1. k = IF i = n THEN 1 ELSE i + 2
    BY DEF NewPlace
  <2>2. k \in 1 .. n + 1
    BY <1>1, <2>1
  <2>3. m = IF i < k THEN i ELSE i + 1
    BY DEF Placed
  <2> HIDE DEF n
  <2>4. m \in 1 .. n + 1 /\ m # k
    <3>1. CASE i < k
      BY <1>1, <2>2, <2>3, <3>1
    <3>2. CASE ~(i < k)
      BY <1>1, <2>2, <2>3, <3>2
    <3> QED BY <3>1, <3>2
  <2> QED BY <1>1, <2>2, <2>3, <2>4
<1>5. r = InsertAt(c, k, new)
  BY DEF Seprate
<1> HIDE DEF c, n
<1>6. /\ r \in Seq(Object) /\ Len(r) = n + 1 /\ DOMAIN r = 1 .. n + 1
      /\ \A j \in 1 .. n + 1 : r[j] = IF j < k THEN c[j] ELSE IF j = k THEN new ELSE c[j - 1]
  <2>1. /\ r \in Seq(Object) /\ Len(r) = n + 1
        /\ \A j \in 1 .. n + 1 : r[j] = IF j < k THEN c[j] ELSE IF j = k THEN new ELSE c[j - 1]
    <3> DEFINE d == n + 1
    <3>1. c \in Seq(Object) /\ k \in 1 .. Len(c) + 1 /\ Len(c) + 1 = d
      BY <1>3, <1>4
    <3> HIDE DEF d
    <3>2. Inserted(Object, c, k, new, r)
      <4>1. Inserted(Object, c, k, new, InsertAt(c, k, new))
        BY <1>2, <3>1, InsertIs
      <4> QED BY <1>5, <4>1
    <3> QED BY <3>1, <3>2 DEF d, Inserted
  <2> QED BY <2>1
<1>7. \A j \in 1 .. n : At(j) \in 1 .. n + 1 /\ At(j) # k /\ r[At(j)] = c[j]
  <2> SUFFICES ASSUME NEW j \in 1 .. n PROVE At(j) \in 1 .. n + 1 /\ At(j) # k /\ r[At(j)] = c[j]
    OBVIOUS
  <2>1. CASE j < k
    <3>1. At(j) = j /\ j \in 1 .. n + 1 /\ j # k
      BY <1>1, <1>4, <2>1
    <3> QED BY <1>6, <2>1, <3>1
  <2>2. CASE ~(j < k)
    <3>1. At(j) = j + 1 /\ j + 1 \in 1 .. n + 1 /\ j + 1 # k /\ ~(j + 1 < k) /\ (j + 1) - 1 = j
      BY <1>1, <1>4, <2>2
    <3> HIDE DEF At
    <3> QED BY <1>6, <3>1
  <2> QED BY <2>1, <2>2
<1>8. \A q \in 1 .. n + 1 : q # k => \E j \in 1 .. n : At(j) = q
  <2> SUFFICES ASSUME NEW q \in 1 .. n + 1, q # k PROVE \E j \in 1 .. n : At(j) = q
    OBVIOUS
  <2>1. CASE q < k
    <3>1. q \in 1 .. n /\ At(q) = q
      BY <1>1, <1>4, <2>1
    <3> QED BY <3>1
  <2>2. CASE ~(q < k)
    <3>1. q - 1 \in 1 .. n /\ ~(q - 1 < k) /\ (q - 1) + 1 = q
      BY <1>1, <1>4, <2>2
    <3>2. At(q - 1) = q
      BY <3>1
    <3> QED BY <3>1, <3>2
  <2> QED BY <2>1, <2>2
<1>9. \A j, q \in 1 .. n : At(j) = At(q) => j = q
  BY <1>1, <1>4
<1>10. r[k] = new /\ r[m] = front /\ k \in DOMAIN r /\ m \in DOMAIN r
  <2>1. ~(k < k)
    BY <1>4
  <2>2. r[At(i)] = c[i]
    BY <1>1, <1>7
  <2> HIDE DEF At
  <2> QED BY <1>3, <1>4, <1>6, <2>1, <2>2
<1> HIDE DEF At
<1>11. ASSUME NEW p PROVE Others(r, k, p) <=> Others(l, i, p) \/ Has(front, p)
  <2>1. Others(r, k, p) <=> \E j \in 1 .. n : Has(c[j], p)
    BY <1>6, <1>7, <1>8 DEF Others, Has
  <2>2. (\E j \in 1 .. n : Has(c[j], p)) <=> (\E j \in 1 .. n : j # i /\ Has(l[j], p)) \/ Has(front, p)
    BY <1>1, <1>3
  <2> QED BY <1>1, <2>1, <2>2 DEF Others, Has
<1>12. ASSUME NEW p PROVE Others(r, m, p) <=> Others(l, i, p) \/ Has(new, p)
  <2>1. Others(r, m, p) <=> (\E j \in 1 .. n : j # i /\ Has(c[j], p)) \/ Has(r[k], p)
    <3>1. \A j \in 1 .. n : j # i => At(j) # m
      BY <1>1, <1>4, <1>9
    <3>2. \A j \in 1 .. n : j # i => At(j) \in DOMAIN r /\ At(j) # m /\ r[At(j)] = c[j]
      BY <1>6, <1>7, <3>1
    <3>3. \A q \in DOMAIN r : q # m => q = k \/ \E j \in 1 .. n : j # i /\ At(j) = q
      BY <1>4, <1>6, <1>8
    <3>4. k \in DOMAIN r /\ k # m
      BY <1>4, <1>6
    <3>5. Others(r, m, p) <=> \E q \in DOMAIN r : q # m /\ Has(r[q], p)
      BY DEF Others, Has
    <3> QED BY <3>2, <3>3, <3>4, <3>5
  <2>2. (\E j \in 1 .. n : j # i /\ Has(c[j], p)) <=> (\E j \in 1 .. n : j # i /\ Has(l[j], p))
    BY <1>3
  <2> QED BY <1>1, <1>10, <2>1, <2>2 DEF Others, Has
<1> QED BY <1>6, <1>10, <1>11, <1>12 DEF n, Seprated

CutMade(l, i, va, vend, made, r) ==
  /\ r \in Seq(Object)
  /\ made = 0 => r = l
  /\ made = 1 => /\ Len(r) = Len(l) + 1
                 /\ \A p : On(r, p) <=> \/ Others(l, i, p)
                                        \/ Has([l[i] EXCEPT !.vend = va - 1], p)
                                        \/ Has(new_vma(va, l[i].vend), p)
  /\ made = 2 => \A p : On(r, p) <=> \/ Others(l, i, p)
                                     \/ Has([l[i] EXCEPT !.vend = va - 1], p)
                                     \/ Has(new_vma(vend + 1, l[i].vend), p)

\* Of a hole in object i, with memory for one new object, or for both: the pages
\* of all other objects stay, and those of object i outside the hole.
LEMMA CutAny ==
  ASSUME NEW l \in Seq(Object), NEW i \in DOMAIN l, NEW va \in Nat, va - 1 \in Nat, NEW vend \in Nat,
         NEW made \in 0 .. 2, NEW r, r = CutOut(l, i, va, vend, made)
  PROVE  CutMade(l, i, va, vend, made, r)
<1> DEFINE once  == Seprate(l, i, va)
           k     == NewPlace(l, i)
           m     == Placed(l, i, k)
           front == [l[i] EXCEPT !.vend = va - 1]
           new   == new_vma(va, l[i].vend)
<1>0. l[i] \in Object /\ l[i].vend \in Nat
  <2>1. i \in 1 .. Len(l)
    OBVIOUS
  <2>2. l[i] \in Object
    BY <2>1, ElementOfSeq
  <2> QED BY <2>2 DEF Object
<1>1. Seprated(l, once, i, k, m, front, new)
  <2> HIDE DEF once, k, m, front, new
  <2> QED BY SeprateIs DEF once, k, m, front, new
<1>2. new.vend = l[i].vend
  BY DEF new_vma
<1> DEFINE both == Seprate(once, k, vend + 1)
           k2   == NewPlace(once, k)
           m2   == Placed(once, k, k2)
           cut  == [once[k] EXCEPT !.vend = (vend + 1) - 1]
           rest == new_vma(vend + 1, once[k].vend)
<1>3. r = CASE made = 0 -> l [] made = 1 -> once
            [] made = 2 -> RemoveAt(both, IF k = Len(once) THEN k + 1 ELSE k)
  BY DEF CutOut
<1> HIDE DEF once, k, m, front, new
<1>4. Seprated(once, both, k, k2, m2, cut, rest)
  <2>1. vend + 1 \in Nat /\ (vend + 1) - 1 \in Nat
    OBVIOUS
  <2>2. once \in Seq(Object) /\ k \in DOMAIN once
    BY <1>1 DEF Seprated
  <2> HIDE DEF both, k2, m2, cut, rest
  <2> QED BY <2>1, <2>2, SeprateIs DEF both, k2, m2, cut, rest
<1>5. m2 = IF k = Len(once) THEN k + 1 ELSE k
  <2>1. k \in 1 .. Len(once) /\ Len(once) \in Nat
    BY <1>1 DEF Seprated
  <2> QED BY <2>1 DEF Placed, NewPlace
<1>6. rest = new_vma(vend + 1, l[i].vend)
  <2>1. once[k] = new
    BY <1>1 DEF Seprated
  <2> QED BY <1>2, <2>1
<1> HIDE DEF both, k2, m2, cut, rest
<1>7. CASE made = 0
  BY <1>3, <1>7 DEF CutMade
<1>8. CASE made = 1
  <2>1. r = once
    BY <1>3, <1>8
  <2>2. \A p : On(r, p) <=> Others(once, k, p) \/ Has(new, p)
    BY <1>1, <2>1 DEF Seprated, On, Others, Has
  <2>3. Len(r) = Len(l) + 1 /\ r \in Seq(Object)
    BY <1>1, <2>1 DEF Seprated
  <2>4. \A p : Others(once, k, p) <=> Others(l, i, p) \/ Has(front, p)
    BY <1>1 DEF Seprated
  <2> QED BY <1>8, <2>2, <2>3, <2>4 DEF front, new, CutMade
<1>9. CASE made = 2
  <2>1. r = RemoveAt(both, m2)
    BY <1>3, <1>5, <1>9
  <2>2. r \in Seq(Object) /\ \A p : On(r, p) <=> Others(both, m2, p)
    <3>1. both \in Seq(Object) /\ m2 \in DOMAIN both
      BY <1>4 DEF Seprated
    <3> QED BY <2>1, <3>1, DropAny
  <2>3. \A p : Others(both, m2, p) <=> Others(once, k, p) \/ Has(rest, p)
    BY <1>4 DEF Seprated
  <2>4. \A p : Others(once, k, p) <=> Others(l, i, p) \/ Has(front, p)
    BY <1>1 DEF Seprated
  <2> QED BY <1>6, <1>9, <2>2, <2>3, <2>4 DEF front, CutMade
<1> QED BY <1>7, <1>8, <1>9
-----------------------------------------------------------------------------
(* What delete_vmas makes of a list in order, a hole in one of several     *)
(* objects or with memory for one new object only set apart.               *)

BesideCut(l, r, a, b) ==
  /\ \E i \in DOMAIN l : Inside(l[i], StartOf(a), EndOf(b))
  /\ a # 0 /\ Whole(l, a, b) /\ On(l, a - 1) /\ On(l, b + 1) /\ r \in Seq(Object)
  /\ \/ Len(r) = Len(l) + 1 /\ \A p \in Nat : On(r, p) <=> On(l, p)
     \/ Len(l) > 1 /\ \A p \in Nat : On(r, p) <=> On(l, p) /\ ~(a <= p /\ p <= b)

LEMMA HoleAny ==
  ASSUME NEW h, NEW l, NEW i, NEW a, NEW b, Within(h, l, i, a, b),
         FirstPage(l[i]) < a, b < LastPage(l[i]), NEW made \in 1 .. 2, made = 2 => Len(l) # 1,
         NEW r, r = CutOut(l, i, StartOf(a), EndOf(b), made)
  PROVE  BesideCut(l, r, a, b)
<1> DEFINE s == FirstPage(l[i])
           e == LastPage(l[i])
           front == [l[i] EXCEPT !.vend = StartOf(a) - 1]
           mid   == new_vma(StartOf(a), l[i].vend)
           rest  == new_vma(EndOf(b) + 1, l[i].vend)
<1>1. /\ i \in 1 .. Len(l) /\ l \in Seq(Object) /\ DOMAIN l = 1 .. Len(l) /\ Len(l) \in Nat
      /\ l[i] \in Object /\ s \in Nat /\ e \in Nat /\ l[i].start = StartOf(s) /\ l[i].vend = EndOf(e)
      /\ a \in Nat /\ b \in Nat /\ a <= b /\ Whole(l, a, b) /\ s < a /\ b < e
  BY WithinFacts
<1>2. a # 0 /\ a - 1 \in Nat /\ StartOf(a) - 1 = EndOf(a - 1) /\ EndOf(a - 1) \in Nat
  BY <1>1, EndBefore
<1>3. b + 1 \in Nat /\ EndOf(b) + 1 = StartOf(b + 1) /\ EndOf(b) \in Nat /\ StartOf(a) \in Nat
  BY <1>1, PageIs
<1>4. /\ FirstPage(front) = s /\ LastPage(front) = a - 1
      /\ FirstPage(mid) = a /\ LastPage(mid) = e
      /\ FirstPage(rest) = b + 1 /\ LastPage(rest) = e
  <2>1. /\ front.start = StartOf(s) /\ front.vend = EndOf(a - 1)
        /\ mid.start = StartOf(a) /\ mid.vend = EndOf(e)
        /\ rest.start = StartOf(b + 1) /\ rest.vend = EndOf(e)
    BY <1>1, <1>2, <1>3 DEF Object, new_vma
  <2> HIDE DEF front, mid, rest, s, e
  <2> QED BY <1>1, <1>2, <1>3, <2>1, PageIs DEF FirstPage, LastPage
<1>5. /\ r \in Seq(Object)
      /\ made = 1 => /\ Len(r) = Len(l) + 1
                     /\ \A p : On(r, p) <=> Others(l, i, p) \/ Has(front, p) \/ Has(mid, p)
      /\ made = 2 => \A p : On(r, p) <=> Others(l, i, p) \/ Has(front, p) \/ Has(rest, p)
  <2>1. i \in DOMAIN l /\ made \in 0 .. 2 /\ StartOf(a) - 1 \in Nat
    BY <1>1, <1>2
  <2>2. l \in Seq(Object) /\ StartOf(a) \in Nat /\ EndOf(b) \in Nat
    BY <1>1, <1>3
  <2>3. CutMade(l, i, StartOf(a), EndOf(b), made, r)
    BY <2>1, <2>2, CutAny
  <2> QED BY <2>3 DEF CutMade
<1>6. \A p \in Nat : /\ On(l, p) <=> Others(l, i, p) \/ (s <= p /\ p <= e)
                     /\ Others(l, i, p) => ~(s <= p /\ p <= e + 1)
  <2>1. Gapped(l, h) /\ i \in DOMAIN l
    BY DEF Within
  <2> QED BY <2>1, OthersIs
<1>7. Inside(l[i], StartOf(a), EndOf(b))
  <2>1. StartOf(s) < StartOf(a) /\ EndOf(b) < EndOf(e)
    BY <1>1, Compare
  <2> QED BY <1>1, <2>1 DEF Inside
<1> HIDE DEF front, mid, rest, s, e
<1>8. On(l, a - 1) /\ On(l, b + 1)
  <2>1. s <= a - 1 /\ a - 1 <= e /\ s <= b + 1 /\ b + 1 <= e
    BY <1>1
  <2> QED BY <1>2, <1>3, <1>6, <2>1
<1>9. CASE made = 1
  <2>1. \A p \in Nat : Has(front, p) \/ Has(mid, p) <=> s <= p /\ p <= e
    BY <1>1, <1>4 DEF Has
  <2>2. \A p \in Nat : On(r, p) <=> On(l, p)
    BY <1>5, <1>6, <1>9, <2>1
  <2> QED BY <1>1, <1>2, <1>5, <1>7, <1>8, <1>9, <2>2 DEF BesideCut
<1>10. CASE made = 2
  <2>1. \A p \in Nat : Has(front, p) \/ Has(rest, p) <=> (s <= p /\ p <= e) /\ ~(a <= p /\ p <= b)
    BY <1>1, <1>4 DEF Has
  <2>2. \A p \in Nat : a <= p /\ p <= b => s <= p /\ p <= e + 1
    BY <1>1
  <2>3. \A p \in Nat : On(r, p) <=> On(l, p) /\ ~(a <= p /\ p <= b)
    BY <1>5, <1>6, <1>10, <2>1, <2>2
  <2>4. Len(l) > 1
    BY <1>1, <1>10
  <2> QED BY <1>1, <1>2, <1>5, <1>7, <1>8, <2>3, <2>4 DEF BesideCut
<1> QED BY <1>9, <1>10

LEMMA RemovedIs ==
  ASSUME NEW h \in Heads, NEW l, Gapped(l, h), NEW a, NEW b, Range3(h, a, b), NEW made \in 0 .. 2,
         NEW r, r = Removed(l, StartOf(a), EndOf(b), made)
  PROVE  \/ Gapped(r, h) /\ (Gone(l, r, a, b) \/ (r = l /\ Stays(l, a, b)))
         \/ BesideCut(l, r, a, b)
<1> DEFINE i == Min(Stops(l, StartOf(a)))
           s == FirstPage(l[i])
           e == LastPage(l[i])
<1>1. a \in Nat /\ b \in Nat /\ a <= b
  BY DEF Range3
<1>2. CASE Stops(l, StartOf(a)) = {}
  <2>1. r = l
    BY <1>2 DEF Removed
  <2>2. ~On(l, a)
    BY <1>1, <1>2, StopIs
  <2> QED BY <1>1, <2>1, <2>2 DEF Stays, Whole
<1>3. CASE Stops(l, StartOf(a)) # {}
  <2>1. i \in DOMAIN l /\ a <= e /\ \A j \in DOMAIN l : j < i => LastPage(l[j]) < a
    BY <1>1, <1>3, StopIs
  <2>2. r = IF StartOf(a) < l[i].start \/ EndOf(b) > l[i].vend THEN l
            ELSE CASE StartOf(a) = l[i].start /\ EndOf(b) = l[i].vend -> RemoveAt(l, i)
                   [] StartOf(a) = l[i].start /\ EndOf(b) < l[i].vend -> FrontOff(l, i, EndOf(b))
                   [] StartOf(a) > l[i].start /\ EndOf(b) = l[i].vend -> BackOff(l, i, StartOf(a))
                   [] OTHER -> CutOut(l, i, StartOf(a), EndOf(b), made)
    BY <1>3 DEF Removed
  <2> HIDE DEF i
  <2>3. /\ s \in Nat /\ e \in Nat /\ s <= e /\ i \in Nat
        /\ l[i].start = StartOf(s) /\ l[i].vend = EndOf(e)
    BY <2>1 DEF Gapped, Legal
  <2>4. /\ StartOf(a) = l[i].start <=> a = s
        /\ StartOf(a) < l[i].start <=> a < s
        /\ StartOf(a) > l[i].start <=> s < a
        /\ l[i].start < StartOf(a) <=> s < a
        /\ EndOf(b) = l[i].vend <=> b = e
        /\ EndOf(b) > l[i].vend <=> e < b
        /\ EndOf(b) < l[i].vend <=> b < e
    <3>1. StartOf(a) \in Nat /\ StartOf(s) \in Nat /\ EndOf(b) \in Nat /\ EndOf(e) \in Nat
      BY <1>1, <2>3, PageIs
    <3> HIDE DEF s, e
    <3>2. /\ StartOf(a) < StartOf(s) <=> a < s
          /\ StartOf(s) < StartOf(a) <=> s < a
          /\ StartOf(a) = StartOf(s) <=> a = s
          /\ EndOf(e) < EndOf(b) <=> e < b
          /\ EndOf(b) < EndOf(e) <=> b < e
          /\ EndOf(b) = EndOf(e) <=> b = e
      BY <1>1, <2>3, Compare
    <3> QED BY <2>3, <3>1, <3>2
  <2>5. \A p \in Nat : /\ On(l, p) <=> Others(l, i, p) \/ (s <= p /\ p <= e)
                       /\ Others(l, i, p) => ~(s <= p /\ p <= e + 1)
    BY <2>1, OthersIs
  <2>6. CASE a < s
    <3>1. r = l
      BY <2>2, <2>4, <2>6
    <3>2. ASSUME NEW j \in DOMAIN l PROVE ~(FirstPage(l[j]) <= a /\ a <= LastPage(l[j]))
      <4>1. j \in Nat /\ FirstPage(l[j]) \in Nat /\ LastPage(l[j]) \in Nat
        BY DEF Gapped, Legal
      <4>2. CASE j < i
        BY <1>1, <2>1, <4>1, <4>2
      <4>3. CASE j = i
        BY <1>1, <2>3, <2>6, <4>3
      <4>4. CASE i < j
        <5>1. e + 1 < FirstPage(l[j])
          BY <2>1, <4>4 DEF Gapped
        <5> HIDE DEF s, e
        <5> QED BY <1>1, <2>3, <2>6, <4>1, <5>1
      <4> QED BY <2>3, <4>1, <4>2, <4>3, <4>4
    <3>3. ~Whole(l, a, b)
      BY <1>1, <3>2 DEF Whole, On
    <3> QED BY <3>1, <3>3 DEF Stays
  <2>7. CASE s <= a /\ e < b
    <3>1. r = l
      BY <2>2, <2>4, <2>7
    <3> HIDE DEF s, e
    <3>2. e + 1 \in Nat /\ a <= e + 1 /\ e + 1 <= b /\ s <= e + 1 /\ ~(e + 1 <= e)
      BY <1>1, <2>1, <2>3, <2>7
    <3>3. ~On(l, e + 1)
      BY <2>5, <3>2
    <3> QED BY <3>1, <3>2, <3>3 DEF Stays, Whole
  <2>8. CASE s <= a /\ b <= e
    <3>1. Within(h, l, i, a, b)
      BY <1>1, <2>1, <2>8 DEF Within
    <3>2. ~(a < s) /\ ~(e < b)
      BY <1>1, <2>3, <2>8
    <3>3. CASE a = s /\ b = e
      <4>1. r = RemoveAt(l, i)
        BY <2>2, <2>4, <3>2, <3>3
      <4>2. Gapped(r, h) /\ \A p \in Nat : On(r, p) <=> Others(l, i, p)
        BY <2>1, <4>1, DropIs
      <4>3. Whole(l, a, b)
        BY <3>1, WithinFacts
      <4>4. \A p \in Nat : On(r, p) <=> On(l, p) /\ ~(a <= p /\ p <= b)
        <5>1. \A p \in Nat : s <= p /\ p <= e => s <= p /\ p <= e + 1
          BY <2>3
        <5> HIDE DEF s, e
        <5> QED BY <2>5, <3>3, <4>2, <5>1
      <4> QED BY <4>2, <4>3, <4>4 DEF Gone
    <3>4. CASE a = s /\ b < e
      <4>1. r = FrontOff(l, i, EndOf(b))
        <5>1. b # e
          BY <1>1, <2>3, <3>4
        <5> QED BY <2>2, <2>4, <3>2, <3>4, <5>1
      <4> QED BY <3>1, <3>4, <4>1, FrontGone
    <3>5. CASE s < a /\ b = e
      <4>1. r = BackOff(l, i, StartOf(a))
        <5>1. a # s
          BY <1>1, <2>3, <3>5
        <5> QED BY <2>2, <2>4, <3>2, <3>5, <5>1
      <4> QED BY <3>1, <3>5, <4>1, BackGone
    <3>6. CASE s < a /\ b < e
      <4>1. r = CutOut(l, i, StartOf(a), EndOf(b), made)
        <5>1. a # s /\ b # e
          BY <1>1, <2>3, <3>6
        <5> QED BY <2>2, <2>4, <3>2, <3>6, <5>1
      <4>2. CASE made \in 1 .. 2 /\ (made = 2 => Len(l) # 1)
        <5>1. made \in 1 .. 2 /\ (made = 2 => Len(l) # 1)
          BY <4>2
        <5> HIDE DEF s, e
        <5> QED BY <3>1, <3>6, <4>1, <5>1, HoleAny DEF s, e
      <4>3. CASE made = 2 /\ Len(l) = 1
        BY <3>1, <3>6, <4>1, <4>3, HoleCut
      <4>4. CASE made = 0
        <5>1. r = l
          BY <4>1, <4>4 DEF CutOut
        <5>2. a # 0 /\ a - 1 \in Nat /\ b + 1 \in Nat /\ s <= a - 1 /\ a - 1 <= e /\ s <= b + 1 /\ b + 1 <= e
          <6> HIDE DEF s, e
          <6> QED BY <1>1, <2>3, <3>6
        <5>3. On(l, a - 1) /\ On(l, b + 1)
          <6> HIDE DEF s, e
          <6> QED BY <2>5, <5>2
        <5> QED BY <5>1, <5>2, <5>3 DEF Stays
      <4> QED BY <4>2, <4>3, <4>4
    <3>7. (a = s \/ s < a) /\ (b = e \/ b < e)
      <4> HIDE DEF s, e
      <4> QED BY <1>1, <2>3, <2>8
    <3> QED BY <3>3, <3>4, <3>5, <3>6, <3>7
  <2>9. a < s \/ (s <= a /\ e < b) \/ (s <= a /\ b <= e)
    <3> HIDE DEF s, e
    <3> QED BY <1>1, <2>3
  <2> QED BY <2>6, <2>7, <2>8, <2>9
<1> QED BY <1>2, <1>3

-----------------------------------------------------------------------------
(* The objects of a list stay objects, whatever the order of the list.     *)

LEMMA RemovedType ==
  ASSUME NEW l \in Seq(Object), NEW va \in Nat, NEW vend \in Nat, NEW made \in 0 .. 2
  PROVE  Removed(l, va, vend, made) \in Seq(Object)
<1> DEFINE i == Min(Stops(l, va))
           r == Removed(l, va, vend, made)
<1>1. CASE Stops(l, va) = {} \/ va < l[i].start \/ vend > l[i].vend
  BY <1>1 DEF Removed
<1>2. CASE ~(Stops(l, va) = {} \/ va < l[i].start \/ vend > l[i].vend)
  <2>1. i \in DOMAIN l
    <3>1. Stops(l, va) \in SUBSET Nat /\ Stops(l, va) # {} /\ Stops(l, va) \subseteq DOMAIN l
      BY <1>2 DEF Stops
    <3> QED BY <3>1, MinIs
  <2>2. r = CASE va = l[i].start /\ vend = l[i].vend -> RemoveAt(l, i)
              [] va = l[i].start /\ vend < l[i].vend -> FrontOff(l, i, vend)
              [] va > l[i].start /\ vend = l[i].vend -> BackOff(l, i, va)
              [] OTHER -> CutOut(l, i, va, vend, made)
    BY <1>2 DEF Removed
  <2> HIDE DEF i, r
  <2>3. i \in 1 .. Len(l) /\ l[i] \in Object
    BY <2>1, ElementOfSeq
  <2>4. l[i].start \in Nat /\ l[i].vend \in Nat
    BY <2>3 DEF Object
  <2>5. CASE va = l[i].start /\ vend = l[i].vend
    <3>1. r = RemoveAt(l, i)
      BY <2>2, <2>5
    <3> QED BY <2>1, <3>1, DropAny DEF r
  <2>6. CASE va = l[i].start /\ vend < l[i].vend
    <3>1. r = FrontOff(l, i, vend)
      BY <2>2, <2>4, <2>6
    <3>2. [l[i] EXCEPT !.start = vend + 1] \in Object
      <4>1. vend + 1 \in Nat
        OBVIOUS
      <4> QED BY <2>3, <4>1 DEF Object
    <3>3. r = [l EXCEPT ![i] = [l[i] EXCEPT !.start = vend + 1]]
      BY <3>1 DEF FrontOff
    <3> QED BY <2>3, <3>2, <3>3 DEF r
  <2>7. CASE va > l[i].start /\ vend = l[i].vend
    <3>1. r = BackOff(l, i, va)
      BY <2>2, <2>4, <2>7
    <3>2. va - 1 \in Nat
      BY <2>4, <2>7
    <3>3. [l[i] EXCEPT !.vend = va - 1] \in Object
      BY <2>3, <3>2 DEF Object
    <3>4. r = [l EXCEPT ![i] = [l[i] EXCEPT !.vend = va - 1]]
      BY <3>1 DEF BackOff
    <3> QED BY <2>3, <3>3, <3>4 DEF r
  <2>8. CASE va > l[i].start /\ vend < l[i].vend
    <3>1. r = CutOut(l, i, va, vend, made)
      BY <2>2, <2>4, <2>8
    <3>2. va - 1 \in Nat
      BY <2>4, <2>8
    <3> QED BY <2>1, <3>1, <3>2, CutAny DEF r, CutMade
  <2> QED BY <1>2, <2>4, <2>5, <2>6, <2>7, <2>8 DEF i
<1> QED BY <1>1, <1>2

Walking == [list : Seq(Object), va : Nat, at : {"loop", "ok"}]

LEMMA VisitType ==
  ASSUME NEW w \in Walking, NEW tmp \in Object, NEW vend \in Nat, NEW ok \in BOOLEAN
  PROVE  Visit(w, tmp, vend, ok) \in Walking
<1> DEFINE new == new_vma(w.va, vend)
           big == Grow(tmp, w.va)
<1>1. w.list \in Seq(Object) /\ w.va \in Nat /\ tmp.start \in Nat /\ new \in Object /\ big \in Object
  BY DEF Walking, Object, new_vma, Grow
<1>2. Keep(w, tmp) \in Walking /\ Done(w, tmp) \in Walking /\ Done(w, big) \in Walking
  <2>1. Append(w.list, tmp) \in Seq(Object) /\ Append(w.list, big) \in Seq(Object)
    BY <1>1
  <2> HIDE DEF big
  <2> QED BY <2>1 DEF Keep, Done, Walking
<1>3. Absorb(w, tmp) \in Walking
  BY <1>1 DEF Absorb, Walking
<1>4. NewHere(w, tmp, <<new>>) \in Walking /\ NewHere(w, tmp, <<>>) \in Walking
  <2>1. \A s \in Seq(Object) : w.list \o s \o <<tmp>> \in Seq(Object)
    BY <1>1
  <2>2. <<new>> \in Seq(Object) /\ <<>> \in Seq(Object)
    BY <1>1
  <2>3. \A s \in Seq(Object) : NewHere(w, tmp, s) \in Walking
    BY <2>1 DEF NewHere, Walking
  <2> QED BY <2>2, <2>3
<1>5. Before(w, tmp, vend, ok) \in Walking
  BY <1>2, <1>4 DEF Before
<1> QED BY <1>2, <1>3, <1>5 DEF Visit

LEMMA WalkType ==
  ASSUME NEW l \in Seq(Object), NEW va \in Nat, NEW vend \in Nat, NEW ok \in BOOLEAN
  PROVE  Walk(l, va, vend, ok) \in Seq(Object)
<1> DEFINE k == Len(l)
           w == CHOOSE g : Looped(l, va, vend, ok, k, g)
           w0 == [list |-> <<>>, va |-> va, at |-> "loop"]
           T == {n \in 0 .. k : w[n] \notin Walking}
<1>1. k \in Nat
  OBVIOUS
<1>2. Looped(l, va, vend, ok, k, w)
  BY <1>1, LoopExists
<1>3. Loop(l, va, vend, ok) = w[k]
  BY DEF Loop, Looped
<1> HIDE DEF w, w0
<1>4. \A n \in 0 .. k : w[n] = IF n = 0 THEN w0 ELSE Visit(w[n - 1], l[n], vend, ok)
  BY <1>2 DEF Looped, w0
<1>5. w[k] \in Walking
  <2>1. SUFFICES ASSUME T # {} PROVE FALSE
    BY <1>1
  <2>2. T \in SUBSET Nat
    BY <1>1
  <2>3. PICK m \in T : \A n \in T : m <= n
    BY <2>1, <2>2, LeastMember
  <2>4. m \in 0 .. k /\ m \in Nat /\ w[m] \notin Walking
    BY <1>1
  <2>5. m # 0
    <3>1. <<>> \in Seq(Object) /\ w0 \in Walking
      BY DEF w0, Walking
    <3>2. w[0] = w0
      BY <1>1, <1>4
    <3> QED BY <2>4, <3>1, <3>2
  <2>6. m - 1 \in 0 .. k /\ m - 1 \notin T /\ m \in 1 .. Len(l)
    BY <1>1, <2>3, <2>4, <2>5
  <2>7. w[m - 1] \in Walking /\ l[m] \in Object
    BY <2>6, ElementOfSeq
  <2>8. Visit(w[m - 1], l[m], vend, ok) \in Walking
    BY <2>7, VisitType
  <2> QED BY <1>4, <2>4, <2>5, <2>8
<1>6. w[k].list \in Seq(Object) /\ w[k].va \in Nat
  BY <1>5 DEF Walking
<1>7. new_vma(w[k].va, vend) \in Object
  BY <1>6 DEF new_vma, Object
<1> QED BY <1>3, <1>6, <1>7 DEF Walk
-----------------------------------------------------------------------------
(* The range of a call.                                                    *)

LEMMA ModIs ==
  ASSUME NEW x \in Int, NEW s \in Nat \ {0}, NEW k \in Int, k * s <= x, x < (k + 1) * s
  PROVE  x % s = x - k * s
<1> DEFINE q == x \div s
<1>1. q \in Int /\ x % s \in 0 .. s - 1 /\ x % s = x - s * q
  OBVIOUS
<1> HIDE DEF q
<1>2. /\ s * q = q * s /\ (q + 1) * s = q * s + s /\ q * s \in Int
      /\ k * s \in Int /\ (k + 1) * s \in Int
  BY <1>1
<1>3. k * s < (q + 1) * s /\ q * s < (k + 1) * s
  BY <1>1, <1>2
<1>4. k < q + 1 /\ q < k + 1
  BY <1>1, <1>3, Scale
<1>5. q = k
  BY <1>1, <1>4
<1> QED BY <1>1, <1>2, <1>5

\* Addresses below 2^AddressWidth are what they are; one too many wraps.
LEMMA Wrapped ==
  ASSUME NEW x \in Int
  PROVE  /\ x \in 0 .. W - 1 => x % W = x
         /\ x \in W .. W + W - 1 => x % W = x - W
         /\ (-1) % W = W - 1
<1>1. W \in Nat \ {0} /\ 0 * W = 0 /\ (0 + 1) * W = W /\ 1 * W = W /\ (1 + 1) * W = W + W
      /\ (-1) * W = -W /\ ((-1) + 1) * W = 0
  BY SizeFacts
<1> HIDE DEF W
<1>2. x \in 0 .. W - 1 => x % W = x
  <2> SUFFICES ASSUME x \in 0 .. W - 1 PROVE x % W = x
    OBVIOUS
  <2>1. 0 * W <= x /\ x < (0 + 1) * W
    BY <1>1
  <2>2. x % W = x - 0 * W
    BY <1>1, <2>1, ModIs
  <2> QED BY <1>1, <2>2
<1>3. x \in W .. W + W - 1 => x % W = x - W
  <2> SUFFICES ASSUME x \in W .. W + W - 1 PROVE x % W = x - W
    OBVIOUS
  <2>1. 1 * W <= x /\ x < (1 + 1) * W
    BY <1>1
  <2>2. x % W = x - 1 * W
    BY <1>1, <2>1, ModIs
  <2> QED BY <1>1, <2>2
<1>4. (-1) % W = W - 1
  <2>1. (-1) * W <= -1 /\ -1 < ((-1) + 1) * W /\ -1 \in Int
    BY <1>1
  <2>2. (-1) % W = (-1) - (-1) * W
    BY <1>1, <2>1, ModIs
  <2> QED BY <1>1, <2>2
<1> QED BY <1>2, <1>3, <1>4

LEMMA PageStartIs ==
  ASSUME NEW x \in Nat
  PROVE  x \div PAGE_SIZE \in Nat /\ PageStart(x) = StartOf(x \div PAGE_SIZE)
         /\ StartOf(x \div PAGE_SIZE) <= x /\ x < StartOf(x \div PAGE_SIZE + 1)
<1> DEFINE k == x \div PAGE_SIZE
<1>1. /\ k \in Nat /\ x % PAGE_SIZE \in 0 .. PAGE_SIZE - 1
      /\ x % PAGE_SIZE = x - PAGE_SIZE * k /\ PAGE_SIZE \in Nat
  BY SizeFacts, Division
<1>2. PageStart(x) = x - (x % PAGE_SIZE)
  BY DEF PageStart
<1> HIDE DEF k
<1>3. /\ PAGE_SIZE * k = k * PAGE_SIZE /\ k * PAGE_SIZE \in Int
      /\ (k + 1) * PAGE_SIZE = k * PAGE_SIZE + PAGE_SIZE
  BY <1>1
<1>4. PageStart(x) = StartOf(k) /\ StartOf(k) <= x /\ x < StartOf(k + 1)
  BY <1>1, <1>2, <1>3 DEF StartOf
<1> QED BY <1>1, <1>4 DEF k

\* A range that is accepted consists of whole pages of one part.
LEMMA AlignedIs ==
  ASSUME NEW h \in Heads, NEW start \in 0 .. W - 1, NEW end \in start + 1 .. W - 1,
         Accepts(h, PageStart(start), PageEnd(end))
  PROVE  \E a, b \in Nat : /\ Range3(h, a, b)
                           /\ PageStart(start) = StartOf(a) /\ PageEnd(end) = EndOf(b)
<1> DEFINE x == (end + PAGE_SIZE - 1) % W
           a == start \div PAGE_SIZE
           k == x \div PAGE_SIZE
<1>1. /\ PAGE_SIZE \in Nat \ {0, 1} /\ W \in Nat \ {0} /\ PAGE_SIZE <= W /\ ROM_START \in 0 .. W - 1
      /\ start \in Nat /\ end \in Nat /\ start + 1 <= end /\ end <= W - 1
  BY SizeFacts, VmaAssumption
<1>2. a \in Nat /\ PageStart(start) = StartOf(a) /\ StartOf(a) <= start /\ start < StartOf(a + 1)
  BY <1>1, PageStartIs
<1> HIDE DEF W, a
<1>3. x \in Nat
  BY <1>1
<1>4. /\ end + PAGE_SIZE - 1 <= W - 1 => x = end + PAGE_SIZE - 1
      /\ end + PAGE_SIZE - 1 >= W => x = end + PAGE_SIZE - 1 - W
  <2> DEFINE y == end + PAGE_SIZE - 1
  <2>1. y \in Int /\ (y <= W - 1 => y \in 0 .. W - 1) /\ (y >= W => y \in W .. W + W - 1)
    BY <1>1
  <2>2. x = y % W
    OBVIOUS
  <2> HIDE DEF x, y
  <2>3. (y \in 0 .. W - 1 => y % W = y) /\ (y \in W .. W + W - 1 => y % W = y - W)
    BY <2>1, Wrapped
  <2>4. (y <= W - 1 => x = y) /\ (y >= W => x = y - W)
    BY <2>1, <2>2, <2>3
  <2>5. y = end + PAGE_SIZE - 1
    BY DEF y
  <2> QED BY <1>1, <2>1, <2>4, <2>5
<1> HIDE DEF x
<1>5. k \in Nat /\ PageStart(x) = StartOf(k) /\ StartOf(k) <= x /\ x < StartOf(k + 1)
  BY <1>3, PageStartIs
<1>6. PageEnd(end) = (StartOf(k) - 1) % W
  BY <1>5 DEF PageEnd, x
<1> HIDE DEF k
<1>7. /\ Low[h] = StartOf(LowPage(h)) /\ High[h] = StartOf(HighPage(h)) /\ High[h] <= ROM_START
      /\ LowPage(h) \in Nat /\ HighPage(h) \in Nat
      /\ Low[h] <= StartOf(a) /\ PageEnd(end) < High[h]
  BY <1>2, Layout DEF Accepts
<1>8. StartOf(HighPage(h)) \in Nat /\ StartOf(LowPage(h)) \in Nat /\ StartOf(k) \in Nat
      /\ StartOf(a) \in Nat /\ StartOf(a + 1) \in Nat
  <2>1. a + 1 \in Nat
    BY <1>2
  <2> QED BY <1>2, <1>5, <1>7, <2>1, PageIs
<1>9. k # 0
  <2> SUFFICES ASSUME k = 0 PROVE FALSE
    OBVIOUS
  <2>1. StartOf(0) = 0
    BY <1>1 DEF StartOf
  <2>2. PageEnd(end) = W - 1
    <3>1. StartOf(k) - 1 = -1
      BY <2>1
    <3> QED BY <1>6, <3>1, Wrapped
  <2> QED BY <1>1, <1>7, <1>8, <2>2
<1> DEFINE b == k - 1
<1>10. b \in Nat /\ b + 1 = k /\ StartOf(k) - 1 = EndOf(b) /\ EndOf(b) \in Nat
  <2>1. b \in Nat /\ b + 1 = k
    BY <1>5, <1>9
  <2> HIDE DEF b
  <2>2. EndOf(b) \in Nat /\ EndOf(b) + 1 = StartOf(b + 1)
    BY <2>1, PageIs
  <2> QED BY <1>8, <2>1, <2>2
<1>11. PageEnd(end) = EndOf(b)
  <2>1. x < W
    BY <1>1, <1>3, <1>4
  <2>2. EndOf(b) \in 0 .. W - 1
    BY <1>1, <1>3, <1>5, <1>8, <1>10, <2>1
  <2> QED BY <1>6, <1>10, <2>2, Wrapped
<1> HIDE DEF b
<1>12. b < HighPage(h)
  BY <1>7, <1>10, <1>11, Compare
<1>13. LowPage(h) <= a
  <2>1. ~(StartOf(a) < StartOf(LowPage(h)))
    BY <1>7, <1>8
  <2>2. ~(a < LowPage(h))
    BY <1>2, <1>7, <2>1, Compare
  <2> QED BY <1>2, <1>7, <2>2
<1>14. a <= b
  <2>1. x = end + PAGE_SIZE - 1
    <3> SUFFICES ASSUME end + PAGE_SIZE - 1 >= W PROVE FALSE
      BY <1>1, <1>4
    <3>1. x < PAGE_SIZE
      BY <1>1, <1>4
    <3>2. x < StartOf(1) /\ StartOf(1) \in Nat
      BY <1>1, <3>1 DEF StartOf
    <3>3. StartOf(k) < StartOf(1)
      BY <1>3, <1>5, <1>8, <3>2
    <3>4. k < 1
      BY <1>5, <3>3, Compare
    <3> QED BY <1>5, <1>9, <3>4
  <2>2. start + PAGE_SIZE <= x
    BY <1>1, <2>1
  <2>3. StartOf(a + 1) = StartOf(a) + PAGE_SIZE
    BY <1>1, <1>2 DEF StartOf
  <2>4. StartOf(a + 1) < StartOf(k + 1)
    <3>1. StartOf(k + 1) \in Nat
      <4>1. k + 1 \in Nat
        BY <1>5
      <4> QED BY <4>1, PageIs
    <3>2. StartOf(a) + PAGE_SIZE <= x
      BY <1>1, <1>2, <1>3, <1>8, <2>2
    <3> QED BY <1>1, <1>3, <1>5, <1>8, <2>3, <3>1, <3>2
  <2>5. a + 1 < k + 1
    <3>1. a + 1 \in Nat /\ k + 1 \in Nat
      BY <1>2, <1>5
    <3> QED BY <2>4, <3>1, Compare
  <2> QED BY <1>2, <1>5, <1>10, <2>5
<1>15. Range3(h, a, b)
  BY <1>2, <1>10, <1>12, <1>13, <1>14 DEF Range3
<1> QED BY <1>2, <1>10, <1>11, <1>15

\* What add_vmas is called with does not wrap before it is rejected.
LEMMA AddedIs ==
  ASSUME NEW h \in Heads, NEW va \in 0 .. W - 1, NEW size \in Sizes,
         Accepts(h, PageStart(va), PageEnd((va + size) % W))
  PROVE  \E a, b \in Nat : /\ Range3(h, a, b) /\ PageStart(va) = StartOf(a)
                           /\ PageEnd((va + size) % W) = EndOf(b)
<1>1. /\ PAGE_SIZE \in Nat \ {0, 1} /\ W \in Nat \ {0} /\ ROM_START \in 0 .. W - 1
      /\ size \in 1 .. W - ROM_START - PAGE_SIZE /\ va \in Nat
  BY SizeFacts, VmaAssumption
<1>2. va < ROM_START
  <2> DEFINE a == va \div PAGE_SIZE
  <2>1. a \in Nat /\ PageStart(va) = StartOf(a) /\ va < StartOf(a + 1)
    BY <1>1, PageStartIs
  <2>2. HighPage(h) \in Nat /\ High[h] = StartOf(HighPage(h)) /\ High[h] <= ROM_START
    BY Layout
  <2> HIDE DEF a
  <2>3. StartOf(a) < StartOf(HighPage(h))
    BY <2>1, <2>2 DEF Accepts
  <2>4. a < HighPage(h)
    BY <2>1, <2>2, <2>3, Compare
  <2>5. a + 1 \in Nat /\ (a + 1 < HighPage(h) \/ a + 1 = HighPage(h))
    BY <2>1, <2>2, <2>4
  <2>6. StartOf(a + 1) < StartOf(HighPage(h)) \/ StartOf(a + 1) = StartOf(HighPage(h))
    BY <2>2, <2>5, Compare
  <2>7. StartOf(a + 1) \in Nat /\ StartOf(HighPage(h)) \in Nat
    BY <2>2, <2>5, PageIs
  <2> QED BY <1>1, <2>1, <2>2, <2>6, <2>7
<1> HIDE DEF W
<1>3. va + size \in va + 1 .. W - 1 /\ va + size \in 0 .. W - 1
  BY <1>1, <1>2
<1>4. (va + size) % W = va + size
  BY <1>1, <1>3, Wrapped
<1> QED BY <1>3, <1>4, AlignedIs


-----------------------------------------------------------------------------
(* The pages of a list.                                                    *)

LEMMA PagesAre ==
  ASSUME NEW l \in Seq(Object)
  PROVE  \A p : p \in PagesIn(l) <=> p \in Nat /\ On(l, p)
<1>1. \A i \in DOMAIN l : /\ FirstPage(l[i]) \in Nat /\ LastPage(l[i]) \in Nat
                          /\ PagesOf(l[i]) = FirstPage(l[i]) .. LastPage(l[i])
  <2> SUFFICES ASSUME NEW i \in DOMAIN l
               PROVE  /\ FirstPage(l[i]) \in Nat /\ LastPage(l[i]) \in Nat
                      /\ PagesOf(l[i]) = FirstPage(l[i]) .. LastPage(l[i])
    OBVIOUS
  <2>1. i \in 1 .. Len(l)
    OBVIOUS
  <2>2. l[i] \in Object
    BY <2>1, ElementOfSeq
  <2>3. l[i].start \in Nat /\ l[i].vend \in Nat
    BY <2>2 DEF Object
  <2>4. FirstPage(l[i]) \in Nat /\ LastPage(l[i]) \in Nat
    BY <2>3, SizeFacts, Division DEF FirstPage, LastPage
  <2> QED BY <2>4 DEF PagesOf, FirstPage, LastPage
<1>2. \A p : p \in PagesIn(l) <=> \E i \in DOMAIN l : p \in PagesOf(l[i])
  BY DEF PagesIn, Range
<1>3. ASSUME NEW p PROVE p \in PagesIn(l) <=> p \in Nat /\ On(l, p)
  <2>1. \A i \in DOMAIN l : p \in PagesOf(l[i]) <=> p \in Nat /\ FirstPage(l[i]) <= p /\ p <= LastPage(l[i])
    BY <1>1
  <2> QED BY <1>2, <2>1 DEF On
<1> QED BY <1>3

\* A list in order is what the lemmas on lists are about.
LEMMA OrderedIs ==
  ASSUME NEW h \in Heads, NEW l \in Seq(Object)
  PROVE  Ordered(l, h) <=> Gapped(l, h)
<1>1. /\ Low[h] = StartOf(LowPage(h)) /\ High[h] = StartOf(HighPage(h))
      /\ LowPage(h) \in Nat /\ HighPage(h) \in Nat
  BY Layout
<1>2. \A i \in DOMAIN l : l[i] \in Object
  BY ElementOfSeq
<1>3. ASSUME NEW o \in Object PROVE InPart(o, h) <=> Legal(o, h)
  <2> DEFINE s == FirstPage(o)
             e == LastPage(o)
             k == (o.vend + 1) \div PAGE_SIZE
  <2>1. o.start \in Nat /\ o.vend \in Nat /\ o.vend + 1 \in Nat /\ PAGE_SIZE \in Nat \ {0}
    BY SizeFacts DEF Object
  <2>2. s \in Nat /\ e \in Nat /\ k \in Nat
    BY <2>1, Division DEF FirstPage, LastPage
  <2>3. (o.start % PAGE_SIZE = 0) <=> o.start = StartOf(s)
    <3>1. o.start % PAGE_SIZE = o.start - PAGE_SIZE * s
      BY <2>1, Division DEF FirstPage
    <3> HIDE DEF s
    <3>2. PAGE_SIZE * s = StartOf(s) /\ StartOf(s) \in Nat
      <4>1. PAGE_SIZE * s = s * PAGE_SIZE /\ s * PAGE_SIZE \in Nat
        BY <2>1, <2>2
      <4> QED BY <4>1 DEF StartOf
    <3> QED BY <2>1, <3>1, <3>2
  <2>4. (o.vend + 1) % PAGE_SIZE = 0 <=> o.vend + 1 = StartOf(k)
    <3>1. (o.vend + 1) % PAGE_SIZE = (o.vend + 1) - PAGE_SIZE * k
      BY <2>1, Division
    <3> HIDE DEF k
    <3>2. PAGE_SIZE * k = StartOf(k) /\ StartOf(k) \in Nat
      <4>1. PAGE_SIZE * k = k * PAGE_SIZE /\ k * PAGE_SIZE \in Nat
        BY <2>1, <2>2
      <4> QED BY <4>1 DEF StartOf
    <3> QED BY <2>1, <3>1, <3>2
  <2>5. o.vend + 1 = StartOf(k) <=> o.vend = EndOf(e)
    <3>1. ASSUME o.vend + 1 = StartOf(k) PROVE o.vend = EndOf(e)
      <4> HIDE DEF k
      <4>1. k # 0
        <5>1. StartOf(0) = 0
          BY <2>1 DEF StartOf
        <5> QED BY <2>1, <3>1, <5>1
      <4>2. k - 1 \in Nat /\ StartOf(k) - 1 = EndOf(k - 1) /\ EndOf(k - 1) \in Nat
        BY <2>2, <4>1, EndBefore
      <4>3. o.vend = EndOf(k - 1)
        <5>1. StartOf(k) \in Nat
          BY <2>2, PageIs
        <5> QED BY <2>1, <3>1, <4>2, <5>1
      <4>4. e = k - 1
        BY <4>2, <4>3, PageIs DEF LastPage
      <4> QED BY <4>3, <4>4
    <3>2. ASSUME o.vend = EndOf(e) PROVE o.vend + 1 = StartOf(k)
      <4> HIDE DEF e, k
      <4>1. EndOf(e) + 1 = StartOf(e + 1) /\ e + 1 \in Nat
        BY <2>2, PageIs
      <4>2. o.vend + 1 = StartOf(e + 1)
        BY <3>2, <4>1
      <4>3. k = e + 1
        BY <4>1, <4>2, PageIs DEF k
      <4> QED BY <4>2, <4>3
    <3> QED BY <3>1, <3>2
  <2>6. ASSUME o.start = StartOf(s), o.vend = EndOf(e)
        PROVE  (Low[h] <= o.start /\ o.start < o.vend /\ o.vend < High[h])
               <=> (LowPage(h) <= s /\ s <= e /\ e < HighPage(h))
    <3> HIDE DEF s, e
    <3>1. StartOf(s) < EndOf(e) <=> s <= e
      BY <2>2, Compare
    <3>2. EndOf(e) < StartOf(HighPage(h)) <=> e < HighPage(h)
      BY <1>1, <2>2, Compare
    <3>3. StartOf(s) < StartOf(LowPage(h)) <=> s < LowPage(h)
      BY <1>1, <2>2, Compare
    <3>4. StartOf(s) \in Nat /\ StartOf(LowPage(h)) \in Nat
      BY <1>1, <2>2, PageIs
    <3> QED BY <1>1, <2>2, <2>6, <3>1, <3>2, <3>3, <3>4
  <2>7. InPart(o, h) <=> /\ Low[h] <= o.start /\ o.start < o.vend /\ o.vend < High[h]
                         /\ o.start = StartOf(s) /\ o.vend = EndOf(e)
    BY <2>3, <2>4, <2>5 DEF InPart
  <2>8. Legal(o, h) <=> /\ LowPage(h) <= s /\ s <= e /\ e < HighPage(h)
                        /\ o.start = StartOf(s) /\ o.vend = EndOf(e)
    BY <2>2 DEF Legal
  <2> HIDE DEF s, e
  <2> QED BY <2>6, <2>7, <2>8
<1>4. ASSUME \A i \in DOMAIN l : Legal(l[i], h), NEW i \in DOMAIN l, NEW j \in DOMAIN l
      PROVE  l[i].vend + 1 < l[j].start <=> LastPage(l[i]) + 1 < FirstPage(l[j])
  <2> DEFINE e == LastPage(l[i])
             s == FirstPage(l[j])
  <2>1. e \in Nat /\ s \in Nat /\ l[i].vend = EndOf(e) /\ l[j].start = StartOf(s)
    BY <1>4 DEF Legal
  <2> HIDE DEF e, s
  <2>2. EndOf(e) + 1 = StartOf(e + 1) /\ e + 1 \in Nat
    BY <2>1, PageIs
  <2>3. StartOf(e + 1) < StartOf(s) <=> e + 1 < s
    BY <2>1, <2>2, Compare
  <2> QED BY <2>1, <2>2, <2>3 DEF e, s
<1>5. (\A i \in DOMAIN l : InPart(l[i], h)) <=> (\A i \in DOMAIN l : Legal(l[i], h))
  BY <1>2, <1>3
<1>6. ASSUME \A i \in DOMAIN l : Legal(l[i], h)
      PROVE  (\A i, j \in DOMAIN l : i < j => l[i].vend + 1 < l[j].start)
             <=> (\A i, j \in DOMAIN l : i < j => LastPage(l[i]) + 1 < FirstPage(l[j]))
  BY <1>4, <1>6
<1> QED BY <1>5, <1>6 DEF Ordered, Gapped

\* What an add does to the pages: all of the range comes into one object, or
\* pages contiguous with it go.
Joined(l, r, a, b) ==
  /\ PagesIn(r) = PagesIn(l) \cup (a .. b)
  /\ \E o \in Range(r) : a .. b \subseteq PagesOf(o)

Losing(l, r, a, b) ==
  \E c \in Nat : /\ c <= a /\ c .. b \subseteq PagesIn(l) \cup (a .. b)
                 /\ PagesIn(r) = PagesIn(l) \ (c .. b)

LEMMA AddedPages ==
  ASSUME NEW h \in Heads, NEW l, Gapped(l, h), NEW a, NEW b, Range3(h, a, b), NEW ok \in BOOLEAN,
         NEW r, r = Walk(l, StartOf(a), EndOf(b), ok)
  PROVE  Gapped(r, h) /\ (Joined(l, r, a, b) \/ Losing(l, r, a, b))
<1>1. Gapped(r, h) /\ (Filled(r, l, Len(l), a, b) \/ Lost(r, l, Len(l), a, b, h))
  BY WalkIs
<1>2. l \in Seq(Object) /\ r \in Seq(Object)
  BY <1>1 DEF Gapped
<1>3. \A p \in Nat : Passed(l, Len(l), p) <=> On(l, p)
  BY <1>2, PassedAll
<1>4. /\ \A p : p \in PagesIn(r) <=> p \in Nat /\ On(r, p)
      /\ \A p : p \in PagesIn(l) <=> p \in Nat /\ On(l, p)
  BY <1>2, PagesAre
<1>5. a \in Nat /\ b \in Nat /\ a <= b /\ \A p : p \in a .. b <=> p \in Nat /\ a <= p /\ p <= b
  BY DEF Range3
<1>6. CASE Filled(r, l, Len(l), a, b)
  <2>1. \A p \in Nat : On(r, p) <=> On(l, p) \/ (a <= p /\ p <= b)
    BY <1>3, <1>6 DEF Filled
  <2>2. PagesIn(r) = PagesIn(l) \cup (a .. b)
    BY <1>4, <1>5, <2>1
  <2>3. PICK i \in DOMAIN r : FirstPage(r[i]) <= a /\ b <= LastPage(r[i])
    BY <1>6 DEF Filled
  <2>4. /\ FirstPage(r[i]) \in Nat /\ LastPage(r[i]) \in Nat
        /\ PagesOf(r[i]) = FirstPage(r[i]) .. LastPage(r[i]) /\ r[i] \in Range(r)
    BY <1>1 DEF Gapped, Legal, PagesOf, FirstPage, LastPage, Range
  <2>5. a .. b \subseteq PagesOf(r[i])
    BY <1>5, <2>3, <2>4
  <2> QED BY <1>1, <2>2, <2>4, <2>5 DEF Joined
<1>7. CASE Lost(r, l, Len(l), a, b, h)
  <2>1. PICK c \in Nat :
          /\ LowPage(h) <= c /\ c <= a
          /\ \A p \in Nat : c <= p /\ p <= b => Passed(l, Len(l), p) \/ (a <= p /\ p <= b)
          /\ \A p \in Nat : On(r, p) <=> Passed(l, Len(l), p) /\ ~(c <= p /\ p <= b)
    BY <1>7 DEF Lost
  <2>2. \A p : p \in c .. b <=> p \in Nat /\ c <= p /\ p <= b
    BY <1>5
  <2>3. PagesIn(r) = PagesIn(l) \ (c .. b)
    BY <1>3, <1>4, <2>1, <2>2
  <2>4. c .. b \subseteq PagesIn(l) \cup (a .. b)
    BY <1>3, <1>4, <1>5, <2>1, <2>2
  <2> QED BY <1>1, <2>1, <2>3, <2>4 DEF Losing
<1> QED BY <1>1, <1>6, <1>7

\* What a delete does to the pages: all of the range goes, or, without memory or
\* when some of it is not there, nothing.
TakenOut(l, r, a, b) ==
  \/ a .. b \subseteq PagesIn(l) /\ PagesIn(r) = PagesIn(l) \ (a .. b)
  \/ /\ PagesIn(r) = PagesIn(l)
     /\ ~(a .. b \subseteq PagesIn(l)) \/ ({a - 1, b + 1} \subseteq PagesIn(l) /\ a .. b \subseteq PagesIn(l))

\* A hole in an object with others beside it, or one that is half made.
HoleMade(l, r, a, b) ==
  /\ \E o \in Range(l) : Inside(o, StartOf(a), EndOf(b))
  /\ a .. b \subseteq PagesIn(l) /\ {a - 1, b + 1} \subseteq PagesIn(l)
  /\ \/ Len(l) < Len(r) /\ PagesIn(r) = PagesIn(l)
     \/ Len(l) > 1 /\ PagesIn(r) = PagesIn(l) \ (a .. b)

LEMMA RemovedPages ==
  ASSUME NEW h \in Heads, NEW l, Gapped(l, h), NEW a, NEW b, Range3(h, a, b), NEW made \in 0 .. 2,
         NEW r, r = Removed(l, StartOf(a), EndOf(b), made)
  PROVE  (Gapped(r, h) /\ TakenOut(l, r, a, b)) \/ HoleMade(l, r, a, b)
<1>1. \/ Gapped(r, h) /\ (Gone(l, r, a, b) \/ (r = l /\ Stays(l, a, b)))
      \/ BesideCut(l, r, a, b)
  BY RemovedIs
<1>2. l \in Seq(Object) /\ r \in Seq(Object)
  BY <1>1 DEF Gapped, BesideCut
<1>3. /\ \A p : p \in PagesIn(r) <=> p \in Nat /\ On(r, p)
      /\ \A p : p \in PagesIn(l) <=> p \in Nat /\ On(l, p)
  BY <1>2, PagesAre
<1>4. a \in Nat /\ b \in Nat /\ a <= b /\ \A p : p \in a .. b <=> p \in Nat /\ a <= p /\ p <= b
  BY DEF Range3
<1>5. Whole(l, a, b) <=> a .. b \subseteq PagesIn(l)
  BY <1>3, <1>4 DEF Whole
<1>6. a # 0 /\ On(l, a - 1) /\ On(l, b + 1) => {a - 1, b + 1} \subseteq PagesIn(l)
  <2>1. b + 1 \in Nat /\ (a # 0 => a - 1 \in Nat)
    BY <1>4
  <2> QED BY <1>3, <2>1
<1>7. CASE Gapped(r, h) /\ Gone(l, r, a, b)
  <2>1. PagesIn(r) = PagesIn(l) \ (a .. b)
    BY <1>3, <1>4, <1>7 DEF Gone
  <2> QED BY <1>5, <1>7, <2>1 DEF Gone, TakenOut
<1>8. CASE Gapped(r, h) /\ r = l /\ Stays(l, a, b)
  BY <1>5, <1>6, <1>8 DEF Stays, TakenOut
<1>9. CASE BesideCut(l, r, a, b)
  <2>1. \E o \in Range(l) : Inside(o, StartOf(a), EndOf(b))
    BY <1>9 DEF BesideCut, Range
  <2>2. a .. b \subseteq PagesIn(l) /\ {a - 1, b + 1} \subseteq PagesIn(l)
    BY <1>5, <1>6, <1>9 DEF BesideCut
  <2>3. CASE Len(r) = Len(l) + 1 /\ \A p \in Nat : On(r, p) <=> On(l, p)
    <3>1. PagesIn(r) = PagesIn(l)
      BY <1>3, <2>3
    <3>2. Len(l) < Len(r)
      <4>1. Len(l) \in Nat
        BY <1>2
      <4> QED BY <2>3, <4>1
    <3> QED BY <2>1, <2>2, <3>1, <3>2 DEF HoleMade
  <2>4. CASE Len(l) > 1 /\ \A p \in Nat : On(r, p) <=> On(l, p) /\ ~(a <= p /\ p <= b)
    <3>1. PagesIn(r) = PagesIn(l) \ (a .. b)
      BY <1>3, <1>4, <2>4
    <3> QED BY <2>1, <2>2, <2>4, <3>1 DEF HoleMade
  <2> QED BY <1>9, <2>3, <2>4 DEF BesideCut
<1> QED BY <1>1, <1>7, <1>8, <1>9

\* No object follows on from another one of its list.
LEMMA NoNeighbours ==
  ASSUME NEW h, NEW r, Gapped(r, h), NEW o \in Range(r), NEW q \in Range(r)
  PROVE  q.start # o.vend + 1
<1>1. PICK i \in DOMAIN r, j \in DOMAIN r : o = r[i] /\ q = r[j]
  BY DEF Range
<1>2. i \in Nat /\ j \in Nat
  BY DEF Gapped
<1>3. /\ FirstPage(o) \in Nat /\ LastPage(o) \in Nat /\ FirstPage(o) <= LastPage(o)
      /\ FirstPage(q) \in Nat /\ LastPage(q) \in Nat /\ FirstPage(q) <= LastPage(q)
      /\ q.start = StartOf(FirstPage(q)) /\ o.vend = EndOf(LastPage(o))
  BY <1>1 DEF Gapped, Legal
<1>4. q.start = o.vend + 1 <=> LastPage(o) + 1 = FirstPage(q)
  BY <1>3, Compare
<1>5. CASE i = j
  BY <1>1, <1>3, <1>4, <1>5
<1>6. CASE i < j
  <2>1. LastPage(o) + 1 < FirstPage(q)
    BY <1>1, <1>6 DEF Gapped
  <2> QED BY <1>3, <1>4, <2>1
<1>7. CASE j < i
  <2>1. LastPage(q) + 1 < FirstPage(o)
    BY <1>1, <1>7 DEF Gapped
  <2> QED BY <1>3, <1>4, <2>1
<1> QED BY <1>2, <1>5, <1>6, <1>7

-----------------------------------------------------------------------------
(* The invariant: the lists hold objects, in whatever order, and a call    *)
(* under way has a range of whole pages of the part of its list.           *)

From == call.va \div PAGE_SIZE
To   == call.vend \div PAGE_SIZE

CallOK ==
  call = Idle \/
    /\ call \in [op : {"add", "delete"}, head : Heads, va : Nat, vend : Nat]
    /\ Range3(call.head, From, To) /\ call.va = StartOf(From) /\ call.vend = EndOf(To)

VmaInv == vmas \in [Heads -> Seq(Object)] /\ CallOK

LEMMA CallIs ==
  ASSUME NEW h \in Heads, NEW a, NEW b, Range3(h, a, b), NEW op \in {"add", "delete"},
         NEW c, c = [op |-> op, head |-> h, va |-> StartOf(a), vend |-> EndOf(b)]
  PROVE  /\ c # Idle /\ c \in [op : {"add", "delete"}, head : Heads, va : Nat, vend : Nat]
         /\ c.op = op /\ c.head = h /\ c.va = StartOf(a) /\ c.vend = EndOf(b)
         /\ c.va \div PAGE_SIZE = a /\ c.vend \div PAGE_SIZE = b
<1>1. a \in Nat /\ b \in Nat
  BY DEF Range3
<1>2. c.op = op /\ c.head = h /\ c.va = StartOf(a) /\ c.vend = EndOf(b)
  OBVIOUS
<1>3. /\ StartOf(a) \in Nat /\ EndOf(b) \in Nat
      /\ StartOf(a) \div PAGE_SIZE = a /\ EndOf(b) \div PAGE_SIZE = b
  BY <1>1, PageIs
<1>4. c \in [op : {"add", "delete"}, head : Heads, va : Nat, vend : Nat]
  BY <1>3
<1>5. c # Idle
  <2>1. Idle.op = "none" /\ c.op # "none"
    BY <1>2 DEF Idle
  <2> QED BY <2>1
<1> QED BY <1>2, <1>3, <1>4, <1>5

\* A call that comes past verify_vma.
Accepted(op, h, a, b) ==
  /\ h \in Heads /\ Range3(h, a, b) /\ op \in {"add", "delete"}
  /\ call = Idle /\ vmas' = vmas
  /\ call' = [op |-> op, head |-> h, va |-> StartOf(a), vend |-> EndOf(b)]

LEMMA CallAddIs ==
  ASSUME CallAdd
  PROVE  \E h, a, b : Accepted("add", h, a, b)
<1>1. PICK va \in 0 .. W - 1, size \in Sizes : verify_vma("add", va, (va + size) % W)
  BY DEF CallAdd
<1>2. PICK h \in Heads :
        /\ Accepts(h, PageStart(va), PageEnd((va + size) % W))
        /\ call' = [op |-> "add", head |-> h, va |-> PageStart(va), vend |-> PageEnd((va + size) % W)]
  BY <1>1 DEF verify_vma
<1>3. call = Idle /\ vmas' = vmas
  BY <1>1 DEF verify_vma
<1>4. PICK a \in Nat, b \in Nat : /\ Range3(h, a, b) /\ PageStart(va) = StartOf(a)
                                  /\ PageEnd((va + size) % W) = EndOf(b)
  BY <1>2, AddedIs
<1> QED BY <1>2, <1>3, <1>4 DEF Accepted

LEMMA CallDeleteIs ==
  ASSUME CallDelete
  PROVE  \E h, a, b : Accepted("delete", h, a, b)
<1>1. PICK va \in 0 .. W - 1 : \E vend \in va + 1 .. W - 1 : verify_vma("delete", va, vend)
  BY DEF CallDelete
<1>2. PICK vend \in va + 1 .. W - 1 : verify_vma("delete", va, vend)
  BY <1>1
<1>3. PICK h \in Heads :
        /\ Accepts(h, PageStart(va), PageEnd(vend))
        /\ call' = [op |-> "delete", head |-> h, va |-> PageStart(va), vend |-> PageEnd(vend)]
  BY <1>2 DEF verify_vma
<1>4. call = Idle /\ vmas' = vmas
  BY <1>2 DEF verify_vma
<1>5. PICK a \in Nat, b \in Nat : /\ Range3(h, a, b) /\ PageStart(va) = StartOf(a)
                                  /\ PageEnd(vend) = EndOf(b)
  BY <1>3, AlignedIs
<1> QED BY <1>3, <1>4, <1>5 DEF Accepted

\* The steps of a call on list h, as what they do to the lists.
Turns(op, h, a, b) ==
  /\ h \in Heads /\ Range3(h, a, b) /\ call.op = op /\ call.head = h /\ call # Idle
  /\ call.va = StartOf(a) /\ call.vend = EndOf(b) /\ From = a /\ To = b
  /\ call' = Idle /\ vmas' \in [Heads -> Seq(Object)]
  /\ \A g \in Heads : g # h => vmas'[g] = vmas[g]

Adds(h, a, b) ==
  /\ Turns("add", h, a, b)
  /\ Gapped(vmas[h], h) =>
       Gapped(vmas'[h], h) /\ (Joined(vmas[h], vmas'[h], a, b) \/ Losing(vmas[h], vmas'[h], a, b))

Deletes(h, a, b) ==
  /\ Turns("delete", h, a, b)
  /\ Gapped(vmas[h], h) =>
       \/ Gapped(vmas'[h], h) /\ TakenOut(vmas[h], vmas'[h], a, b)
       \/ HoleMade(vmas[h], vmas'[h], a, b)

LEMMA RunningIs ==
  ASSUME CallOK, call.op # "none"
  PROVE  /\ call # Idle /\ call.head \in Heads /\ Range3(call.head, From, To)
         /\ call.va = StartOf(From) /\ call.vend = EndOf(To) /\ call.va \in Nat /\ call.vend \in Nat
<1>1. call # Idle
  BY DEF Idle
<1> QED BY <1>1 DEF CallOK

\* A step that puts list r in the place of the call's.
LEMMA TurnIs ==
  ASSUME VmaInv, NEW op, call.op = op, op # "none", call' = Idle, NEW r \in Seq(Object),
         vmas' = [vmas EXCEPT ![call.head] = r]
  PROVE  Turns(op, call.head, From, To) /\ vmas'[call.head] = r
<1>1. /\ call # Idle /\ call.head \in Heads /\ Range3(call.head, From, To)
      /\ call.va = StartOf(From) /\ call.vend = EndOf(To)
  BY RunningIs DEF VmaInv
<1>2. vmas \in [Heads -> Seq(Object)]
  BY DEF VmaInv
<1>3. vmas' \in [Heads -> Seq(Object)] /\ vmas'[call.head] = r
      /\ \A g \in Heads : g # call.head => vmas'[g] = vmas[g]
  BY <1>1, <1>2
<1> QED BY <1>1, <1>3 DEF Turns

LEMMA AddIs ==
  ASSUME VmaInv, add_vmas
  PROVE  Adds(call.head, From, To)
<1>1. /\ call # Idle /\ call.head \in Heads /\ Range3(call.head, From, To)
      /\ call.va = StartOf(From) /\ call.vend = EndOf(To) /\ call.va \in Nat /\ call.vend \in Nat
  BY RunningIs DEF VmaInv, add_vmas
<1>2. PICK ok \in BOOLEAN : vmas' = [vmas EXCEPT ![call.head] = Walk(@, call.va, call.vend, ok)]
  BY DEF add_vmas
<1> DEFINE l == vmas[call.head]
           r == Walk(l, call.va, call.vend, ok)
<1>3. l \in Seq(Object)
  BY <1>1 DEF VmaInv
<1>4. r \in Seq(Object)
  BY <1>1, <1>3, WalkType
<1>5. vmas' = [vmas EXCEPT ![call.head] = r]
  BY <1>1, <1>2
<1>6. r = Walk(l, StartOf(From), EndOf(To), ok)
  BY <1>1
<1> HIDE DEF l, r
<1>7. Gapped(l, call.head) =>
        Gapped(r, call.head) /\ (Joined(l, r, From, To) \/ Losing(l, r, From, To))
  BY <1>1, <1>6, AddedPages
<1>8. Turns("add", call.head, From, To) /\ vmas'[call.head] = r
  BY <1>4, <1>5, TurnIs DEF add_vmas
<1> QED BY <1>7, <1>8 DEF Adds, l

LEMMA DeleteIs ==
  ASSUME VmaInv, delete_vmas
  PROVE  Deletes(call.head, From, To)
<1>1. /\ call # Idle /\ call.head \in Heads /\ Range3(call.head, From, To)
      /\ call.va = StartOf(From) /\ call.vend = EndOf(To) /\ call.va \in Nat /\ call.vend \in Nat
  BY RunningIs DEF VmaInv, delete_vmas
<1>2. PICK made \in 0 .. 2 : vmas' = [vmas EXCEPT ![call.head] = Removed(@, call.va, call.vend, made)]
  BY DEF delete_vmas
<1> DEFINE l == vmas[call.head]
           r == Removed(l, call.va, call.vend, made)
<1>3. l \in Seq(Object)
  BY <1>1 DEF VmaInv
<1>4. r \in Seq(Object)
  BY <1>1, <1>3, RemovedType
<1>5. vmas' = [vmas EXCEPT ![call.head] = r]
  BY <1>1, <1>2
<1>6. r = Removed(l, StartOf(From), EndOf(To), made)
  BY <1>1
<1> HIDE DEF l, r
<1>7. Gapped(l, call.head) =>
        \/ Gapped(r, call.head) /\ TakenOut(l, r, From, To)
        \/ HoleMade(l, r, From, To)
  BY <1>1, <1>6, RemovedPages
<1>8. Turns("delete", call.head, From, To) /\ vmas'[call.head] = r
  BY <1>4, <1>5, TurnIs DEF delete_vmas
<1> QED BY <1>7, <1>8 DEF Deletes, l

LEMMA NextIs ==
  ASSUME VmaInv, Next
  PROVE  \E h, a, b : \/ Accepted("add", h, a, b) \/ Accepted("delete", h, a, b)
                      \/ Adds(h, a, b) \/ Deletes(h, a, b)
<1>1. CASE CallAdd
  BY <1>1, CallAddIs
<1>2. CASE CallDelete
  BY <1>2, CallDeleteIs
<1>3. CASE add_vmas
  BY <1>3, AddIs
<1>4. CASE delete_vmas
  BY <1>4, DeleteIs
<1> QED BY <1>1, <1>2, <1>3, <1>4 DEF Next

LEMMA VmaInvInit == Init => VmaInv
<1> SUFFICES ASSUME Init PROVE VmaInv
  OBVIOUS
<1>1. <<>> \in Seq(Object)
  OBVIOUS
<1> QED BY <1>1 DEF Init, VmaInv, CallOK

LEMMA VmaInvNext ==
  ASSUME VmaInv, [Next]_vars
  PROVE  VmaInv'
<1>1. CASE UNCHANGED vars
  BY <1>1 DEF vars, VmaInv, CallOK, From, To
<1>2. CASE Next
  <2>1. PICK h, a, b : \/ Accepted("add", h, a, b) \/ Accepted("delete", h, a, b)
                       \/ Adds(h, a, b) \/ Deletes(h, a, b)
    BY <1>2, NextIs
  <2>2. ASSUME NEW op \in {"add", "delete"}, Accepted(op, h, a, b) PROVE VmaInv'
    <3>1. /\ call' \in [op : {"add", "delete"}, head : Heads, va : Nat, vend : Nat]
          /\ call'.op = op /\ call'.head = h /\ call'.va = StartOf(a) /\ call'.vend = EndOf(b)
          /\ call'.va \div PAGE_SIZE = a /\ call'.vend \div PAGE_SIZE = b
      BY <2>2, CallIs DEF Accepted
    <3>2. From' = a /\ To' = b
      BY <3>1 DEF From, To
    <3>3. Range3(h, a, b) /\ vmas' = vmas
      BY <2>2 DEF Accepted
    <3>4. CallOK'
      BY <3>1, <3>2, <3>3 DEF CallOK
    <3> QED BY <3>3, <3>4 DEF VmaInv
  <2>3. CASE Adds(h, a, b) \/ Deletes(h, a, b)
    BY <2>3 DEF Adds, Deletes, Turns, VmaInv, CallOK
  <2> QED BY <2>1, <2>2, <2>3
<1> QED BY <1>1, <1>2

\* The lists hold objects and nothing else, and a call works on a range of whole
\* pages inside the part of the address space its list is for, over all adds and
\* deletes, those that kmalloc fails and those that leave a list out of order
\* included (vma.c:37-192).
THEOREM VmaInvariant == Spec => []VmaInv
<1>1. VmaInv /\ [Next]_vars => VmaInv'
  BY VmaInvNext
<1> QED BY <1>1, VmaInvInit, PTL DEF Spec

-----------------------------------------------------------------------------
(* The theorems.                                                           *)

KeepsOrder == \A h \in Heads : InOrder(h) => InOrder(h)' \/ HoleBeside(h)

LEMMA InOrderIs ==
  ASSUME VmaInv, NEW h \in Heads
  PROVE  InOrder(h) <=> Gapped(vmas[h], h)
BY OrderedIs DEF VmaInv, InOrder

LEMMA InOrderNextIs ==
  ASSUME VmaInv', NEW h \in Heads
  PROVE  InOrder(h)' <=> Gapped(vmas'[h], h)
BY OrderedIs DEF VmaInv, InOrder

LEMMA OrderStep ==
  ASSUME VmaInv, VmaInv', Next
  PROVE  KeepsOrder
<1> SUFFICES ASSUME NEW g \in Heads, InOrder(g), ~InOrder(g)' PROVE HoleBeside(g)
  BY DEF KeepsOrder
<1>1. Gapped(vmas[g], g) /\ ~Gapped(vmas'[g], g)
  BY InOrderIs, InOrderNextIs
<1>2. PICK h, a, b : \/ Accepted("add", h, a, b) \/ Accepted("delete", h, a, b)
                     \/ Adds(h, a, b) \/ Deletes(h, a, b)
  BY NextIs
<1>3. vmas'[g] # vmas[g]
  BY <1>1
<1>4. Deletes(h, a, b) /\ g = h
  BY <1>1, <1>2, <1>3 DEF Accepted, Adds, Deletes, Turns
<1>5. HoleMade(vmas[g], vmas'[g], a, b) /\ call.op = "delete" /\ call.head = g
      /\ call.va = StartOf(a) /\ call.vend = EndOf(b)
  BY <1>1, <1>4 DEF Deletes, Turns
<1> QED BY <1>5 DEF HoleMade, HoleBeside

\* Every call on a list in order leaves it in order: its objects have at least a
\* page, lie in their part of the address space, whole pages, in the order of
\* their addresses with a gap between any two, which both walks rely on when they
\* stop early (vma.c:93, 154).  The exception is a delete that makes a hole in an
\* object with another one beside it, or that has memory for one of the two new
\* objects only: seprate_vma links behind the object that follows (vma.c:30).
THEOREM OrderIsKept == Spec => OrderKept
<1>1. VmaInv /\ VmaInv' /\ [Next]_vars => [KeepsOrder]_vars
  BY OrderStep
<1>2. Spec => [][KeepsOrder]_vars
  BY <1>1, VmaInvariant, PTL DEF Spec
<1> QED BY <1>2 DEF OrderKept, KeepsOrder

New(h) == PagesIn(vmas'[h]) \ PagesIn(vmas[h])

AddsOne ==
  \A h \in Heads : InOrder(h) =>
    \/ New(h) = {}
    \/ \E o \in Range(vmas'[h]) :
         /\ New(h) \subseteq PagesOf(o)
         /\ \A q \in Range(vmas'[h]) : q.start # o.vend + 1 /\ o.start # q.vend + 1

LEMMA AddsOneStep ==
  ASSUME VmaInv, VmaInv', Next
  PROVE  AddsOne
<1> SUFFICES ASSUME NEW g \in Heads, InOrder(g), New(g) # {}
             PROVE  \E o \in Range(vmas'[g]) :
                      /\ New(g) \subseteq PagesOf(o)
                      /\ \A q \in Range(vmas'[g]) : q.start # o.vend + 1 /\ o.start # q.vend + 1
  BY DEF AddsOne
<1>1. Gapped(vmas[g], g)
  BY InOrderIs
<1>2. PICK h, a, b : \/ Accepted("add", h, a, b) \/ Accepted("delete", h, a, b)
                     \/ Adds(h, a, b) \/ Deletes(h, a, b)
  BY NextIs
<1>3. vmas'[g] # vmas[g]
  BY DEF New
<1>4. (Adds(h, a, b) \/ Deletes(h, a, b)) /\ g = h
  BY <1>2, <1>3 DEF Accepted, Adds, Deletes, Turns
<1>5. CASE Adds(h, a, b)
  <2>1. Gapped(vmas'[g], g)
        /\ (Joined(vmas[g], vmas'[g], a, b) \/ Losing(vmas[g], vmas'[g], a, b))
    BY <1>1, <1>4, <1>5 DEF Adds
  <2>2. Joined(vmas[g], vmas'[g], a, b)
    BY <2>1 DEF Losing, New
  <2>3. PICK o \in Range(vmas'[g]) : a .. b \subseteq PagesOf(o)
    BY <2>2 DEF Joined
  <2>4. New(g) \subseteq PagesOf(o)
    BY <2>2, <2>3 DEF Joined, New
  <2>5. \A q \in Range(vmas'[g]) : q.start # o.vend + 1 /\ o.start # q.vend + 1
    BY <2>1, NoNeighbours
  <2> QED BY <2>4, <2>5
<1>6. CASE Deletes(h, a, b)
  BY <1>1, <1>4, <1>6 DEF Deletes, TakenOut, HoleMade, New
<1> QED BY <1>4, <1>5, <1>6

\* Pages become mapped in a list in order in one object, which absorbs whatever
\* was mapped between them and all that follows on from it (vma.c:90-129).
THEOREM OneObjectAdded == Spec => AddsOneObject
<1>1. VmaInv /\ VmaInv' /\ [Next]_vars => [AddsOne]_vars
  BY AddsOneStep
<1>2. Spec => [][AddsOne]_vars
  BY <1>1, VmaInvariant, PTL DEF Spec
<1> QED BY <1>2 DEF AddsOneObject, AddsOne, New

-----------------------------------------------------------------------------
(* The refinement.                                                         *)

Asks == IF call = Idle THEN Idle
        ELSE [op |-> call.op, list |-> call.head, from |-> Page(call.va), to |-> Page(call.vend)]

Maps == [h \in Heads |-> PagesIn(vmas[h])]

Sound == {h \in Heads : InOrder(h)}

LEMMA AsksIs ==
  /\ call = Idle => Asks = Space!Idle
  /\ call # Idle => Asks = [op |-> call.op, list |-> call.head, from |-> From, to |-> To]
BY DEF Asks, Idle, Space!Idle, Page, From, To

\* The pages of a range are pages of the address space.
LEMMA PagesInside ==
  ASSUME NEW h \in Heads, NEW a, NEW b, Range3(h, a, b)
  PROVE  \A p \in 0 .. b : p \in 0 .. Page(W - 1)
<1> DEFINE q == (W - 1) \div PAGE_SIZE
<1>1. a \in Nat /\ b \in Nat /\ b < HighPage(h)
  BY DEF Range3
<1>2. W - 1 \in Nat /\ ROM_START <= W - 1 /\ ROM_START \in Nat
  BY SizeFacts, VmaAssumption
<1>3. q \in Nat /\ W - 1 < StartOf(q + 1)
  BY <1>2, PageStartIs
<1> HIDE DEF q
<1>4. /\ HighPage(h) \in Nat /\ StartOf(HighPage(h)) <= ROM_START
      /\ StartOf(HighPage(h)) \in Nat /\ StartOf(q + 1) \in Nat /\ q + 1 \in Nat
  BY <1>3, Layout, PageIs
<1>5. StartOf(HighPage(h)) < StartOf(q + 1)
  <2> HIDE DEF W
  <2> QED BY <1>2, <1>3, <1>4
<1>6. HighPage(h) < q + 1
  BY <1>4, <1>5, Compare
<1>7. b \in 0 .. q
  BY <1>1, <1>3, <1>4, <1>6
<1>8. Page(W - 1) = q
  BY DEF Page, q
<1> QED BY <1>1, <1>3, <1>7, <1>8

LEMMA SpaceIs ==
  /\ Space!vars = <<Maps, Sound, Asks>> /\ Space!vars' = <<Maps', Sound', Asks'>>
  /\ Space!Next <=> \/ \E op \in {"add", "delete"}, l \in Heads, a, b \in 0 .. Page(W - 1) :
                          a <= b /\ Space!Ask(op, l, a, b)
                    \/ \E l \in Heads : \/ Space!Added(l) \/ Space!AddFails(l) \/ Space!Deleted(l)
                                        \/ Space!DeleteFails(l) \/ Space!Unsound(l)
BY DEF Space!vars, Space!Next, Asks, Maps, Sound

LEMMA SpaceInit == Init => Space!Init
<1> SUFFICES ASSUME Init PROVE /\ Maps = [h \in Heads |-> {}] /\ Sound = Heads /\ Asks = Space!Idle
  BY DEF Space!Init, Asks, Maps, Sound
<1>1. \A h \in Heads : vmas[h] = <<>>
  BY DEF Init
<1>2. \A h \in Heads : PagesIn(vmas[h]) = {} /\ InOrder(h)
  BY <1>1 DEF PagesIn, Range, InOrder, Ordered
<1> QED BY <1>2, AsksIs DEF Init, Maps, Sound

LEMMA AskStep ==
  ASSUME NEW op, NEW h, NEW a, NEW b, Accepted(op, h, a, b)
  PROVE  Space!Next
<1>1. h \in Heads /\ Range3(h, a, b) /\ op \in {"add", "delete"} /\ call = Idle /\ vmas' = vmas
      /\ call' = [op |-> op, head |-> h, va |-> StartOf(a), vend |-> EndOf(b)]
  BY DEF Accepted
<1>2. /\ call' # Idle /\ call'.op = op /\ call'.head = h
      /\ call'.va \div PAGE_SIZE = a /\ call'.vend \div PAGE_SIZE = b
  BY <1>1, CallIs
<1>3. Asks' = [op |-> op, list |-> h, from |-> a, to |-> b]
  BY <1>2 DEF Asks, Page
<1>4. Asks = Space!Idle
  BY <1>1, AsksIs
<1>5. Maps' = Maps /\ Sound' = Sound
  BY <1>1 DEF Maps, Sound, InOrder
<1>6. Space!Ask(op, h, a, b)
  BY <1>3, <1>4, <1>5 DEF Space!Ask, Asks, Maps, Sound
<1>7. a <= b /\ a \in 0 .. b /\ b \in 0 .. b
  BY <1>1 DEF Range3
<1>8. a \in 0 .. Page(W - 1) /\ b \in 0 .. Page(W - 1)
  BY <1>1, <1>7, PagesInside
<1> QED BY <1>1, <1>6, <1>7, <1>8, SpaceIs

\* What a turn on list h is in the abstract specification.
LEMMA EndsIs ==
  ASSUME VmaInv, VmaInv', NEW op, NEW h, NEW a, NEW b, Turns(op, h, a, b)
  PROVE  /\ Space!Ends(op, h) /\ Asks.from = a /\ Asks.to = b
         /\ Maps[h] = PagesIn(vmas[h]) /\ Maps'[h] = PagesIn(vmas'[h])
         /\ h \in Sound <=> Gapped(vmas[h], h)
         /\ h \in Sound' <=> Gapped(vmas'[h], h)
<1>1. Asks = [op |-> op, list |-> h, from |-> a, to |-> b]
  BY AsksIs DEF Turns
<1>2. Asks' = Space!Idle
  BY DEF Turns, Asks, Idle, Space!Idle
<1>3. h \in Heads
  BY DEF Turns
<1>4. \A g \in Heads : Maps[g] = PagesIn(vmas[g]) /\ Maps'[g] = PagesIn(vmas'[g])
  BY DEF Maps
<1>5. \A g \in Heads : /\ g \in Sound <=> Gapped(vmas[g], g)
                       /\ g \in Sound' <=> Gapped(vmas'[g], g)
  BY InOrderIs, InOrderNextIs DEF Sound
<1>6. \A g \in Heads \ {h} : Maps'[g] = Maps[g] /\ (g \in Sound' <=> g \in Sound)
  BY <1>4, <1>5 DEF Turns
<1>7. Space!Ends(op, h)
  BY <1>1, <1>2, <1>6 DEF Space!Ends, Asks, Maps, Sound
<1> QED BY <1>1, <1>3, <1>4, <1>5, <1>7

LEMMA AddRefines ==
  ASSUME VmaInv, VmaInv', NEW h, NEW a, NEW b, Adds(h, a, b)
  PROVE  Space!Next
<1>1. Turns("add", h, a, b) /\ h \in Heads /\ Range3(h, a, b) /\ a \in Nat /\ b \in Nat /\ a <= b
  BY DEF Adds, Turns, Range3
<1>2. /\ Space!Ends("add", h) /\ Asks.from = a /\ Asks.to = b
      /\ Maps[h] = PagesIn(vmas[h]) /\ Maps'[h] = PagesIn(vmas'[h])
      /\ h \in Sound <=> Gapped(vmas[h], h)
      /\ h \in Sound' <=> Gapped(vmas'[h], h)
  BY <1>1, EndsIs
<1>3. CASE ~Gapped(vmas[h], h)
  <2>1. Space!Unsound(h)
    BY <1>2, <1>3 DEF Space!Unsound, Sound
  <2> QED BY <1>1, <2>1, SpaceIs
<1>4. CASE Gapped(vmas[h], h)
  <2>1. Gapped(vmas'[h], h) /\ (Joined(vmas[h], vmas'[h], a, b) \/ Losing(vmas[h], vmas'[h], a, b))
    BY <1>4 DEF Adds
  <2>2. Space!Stays(h)
    BY <1>2, <1>4, <2>1 DEF Space!Stays, Sound
  <2>3. CASE Joined(vmas[h], vmas'[h], a, b)
    <3>1. Maps'[h] = Maps[h] \cup (Asks.from .. Asks.to)
      BY <1>2, <2>3 DEF Joined
    <3>2. Space!Added(h)
      BY <1>2, <2>2, <3>1 DEF Space!Added, Space!Asked, Asks, Maps
    <3> QED BY <1>1, <3>2, SpaceIs
  <2>4. CASE Losing(vmas[h], vmas'[h], a, b)
    <3>1. PICK c \in Nat : /\ c <= a /\ c .. b \subseteq Maps[h] \cup (a .. b)
                           /\ Maps'[h] = Maps[h] \ (c .. b)
      BY <1>2, <2>4 DEF Losing
    <3>2. c \in 0 .. b
      BY <1>1, <3>1
    <3>3. c \in 0 .. Page(W - 1)
      BY <1>1, <3>2, PagesInside
    <3>4. Space!AddFails(h)
      BY <1>2, <2>2, <3>1, <3>3 DEF Space!AddFails, Space!Asked, Asks, Maps
    <3> QED BY <1>1, <3>4, SpaceIs
  <2> QED BY <2>1, <2>3, <2>4
<1> QED BY <1>3, <1>4

LEMMA DeleteRefines ==
  ASSUME VmaInv, VmaInv', NEW h, NEW a, NEW b, Deletes(h, a, b)
  PROVE  Space!Next
<1>1. Turns("delete", h, a, b) /\ h \in Heads
  BY DEF Deletes, Turns
<1>2. /\ Space!Ends("delete", h) /\ Asks.from = a /\ Asks.to = b
      /\ Maps[h] = PagesIn(vmas[h]) /\ Maps'[h] = PagesIn(vmas'[h])
      /\ h \in Sound <=> Gapped(vmas[h], h)
      /\ h \in Sound' <=> Gapped(vmas'[h], h)
  BY <1>1, EndsIs
<1>3. CASE ~Gapped(vmas[h], h)
  <2>1. Space!Unsound(h)
    BY <1>2, <1>3 DEF Space!Unsound, Sound
  <2> QED BY <1>1, <2>1, SpaceIs
<1>4. CASE Gapped(vmas[h], h)
  <2>1. h \in Sound
    BY <1>2, <1>4
  <2>2. /\ Space!Deleted(h) <=> /\ Maps'[h] = Maps[h] \ (a .. b) /\ a .. b \subseteq Maps[h]
                                /\ h \in Sound' \/ {a - 1, b + 1} \subseteq Maps[h]
        /\ Space!DeleteFails(h) <=> /\ Maps'[h] = Maps[h]
                                    /\ \/ h \in Sound' /\ ~(a .. b \subseteq Maps[h])
                                       \/ {a - 1, b + 1} \subseteq Maps[h] /\ a .. b \subseteq Maps[h]
    BY <1>2, <2>1 DEF Space!Deleted, Space!DeleteFails, Space!Stays, Space!Hole, Space!Asked,
                      Asks, Maps, Sound
  <2>3. Space!Deleted(h) \/ Space!DeleteFails(h)
    <3>1. CASE Gapped(vmas'[h], h) /\ TakenOut(vmas[h], vmas'[h], a, b)
      BY <1>2, <2>2, <3>1 DEF TakenOut
    <3>2. CASE HoleMade(vmas[h], vmas'[h], a, b)
      BY <1>2, <2>2, <3>2 DEF HoleMade
    <3> QED BY <1>4, <3>1, <3>2 DEF Deletes
  <2> QED BY <1>1, <2>3, SpaceIs
<1> QED BY <1>3, <1>4

LEMMA SpaceStep ==
  ASSUME VmaInv, VmaInv', [Next]_vars
  PROVE  [Space!Next]_Space!vars
<1>1. CASE Next
  <2>1. Space!Next
    BY <1>1, NextIs, AskStep, AddRefines, DeleteRefines
  <2> QED BY <2>1
<1>2. CASE UNCHANGED vars
  <2>1. Maps' = Maps /\ Sound' = Sound /\ Asks' = Asks
    BY <1>2 DEF vars, Maps, Sound, InOrder, Asks
  <2> QED BY <2>1, SpaceIs
<1> QED BY <1>1, <1>2

\* The lists implement the set of pages a process may touch.  On a list in order
\* an add maps its range or, without memory, loses at most what is contiguous
\* before it; a delete takes out all of its range or nothing, and only one that
\* leaves a hole can leave the list out of order; no call concerns another list
\* (vma.c:78-192).
THEOREM VmaRefinement == Spec => ImplementsAddressSpace
<1>1. Init => Space!Init
  BY SpaceInit
<1>2. VmaInv /\ VmaInv' /\ [Next]_vars => [Space!Next]_Space!vars
  BY SpaceStep
<1> QED BY <1>1, <1>2, VmaInvariant, PTL DEF Spec, ImplementsAddressSpace, Space!Spec
=============================================================================
