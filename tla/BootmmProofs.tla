---------------------------- MODULE BootmmProofs ----------------------------
(***************************************************************************)
(* Theorems about Bootmm, for every amount of memory, every kernel and     *)
(* every request.                                                          *)
(*                                                                         *)
(* The search of find_pages is a recursive function whose argument grows   *)
(* up to the end of the range.  That there is such a function, and what it *)
(* returns, is proved by induction on the distance to the end, with the    *)
(* least counterexample.                                                   *)
(***************************************************************************)
EXTENDS Bootmm, TLAPS, WellFoundedInduction, SequenceTheorems

-----------------------------------------------------------------------------
(* Numbers.                                                                *)

\* The principle the proofs by induction rest on, stated for sets so that no
\* operator has to be instantiated.
LEMMA LeastMember ==
  ASSUME NEW T \in SUBSET Nat, T # {}
  PROVE  \E m \in T : \A k \in T : m <= k
<1> DEFINE R == OpToRel(<, Nat)
<1>1. \A x, y \in Nat : <<y, x>> \in R <=> y < x
  BY DEF OpToRel
<1>2. IsWellFoundedOn(R, Nat)
  BY NatLessThanWellFounded
<1> HIDE DEF R
<1>3. PICK m \in T : \A k \in T : ~ (<<k, m>> \in R)
  BY <1>2, WFMin
<1>4. ASSUME NEW k \in T PROVE m <= k
  <2>1. ~ (<<k, m>> \in R)
    BY <1>3
  <2>2. k \in Nat /\ m \in Nat
    OBVIOUS
  <2>3. ~ (k < m)
    BY <2>1, <2>2, <1>1
  <2> QED BY <2>2, <2>3
<1> QED BY <1>4

LEMMA MinIs ==
  ASSUME NEW T \in SUBSET Nat, T # {}
  PROVE  Min(T) \in T /\ \A k \in T : Min(T) <= k
<1> QED BY LeastMember DEF Min

\* Quotient and remainder.
LEMMA Division ==
  ASSUME NEW x \in Nat, NEW y \in Nat \ {0}
  PROVE  /\ x \div y \in Nat /\ x % y \in 0 .. y - 1
         /\ x % y = x - y * (x \div y)
<1>1. x \div y \in Nat
  OBVIOUS
<1>2. x % y \in 0 .. y - 1
  OBVIOUS
<1>3. x % y = x - y * (x \div y)
  OBVIOUS
<1> QED BY <1>1, <1>2, <1>3

\* Products with a positive size are ordered as their factors.
LEMMA Scale ==
  ASSUME NEW s \in Nat \ {0}, NEW x \in Int, NEW y \in Int
  PROVE  /\ x * s \in Int /\ y * s \in Int
         /\ x * s < y * s <=> x < y
         /\ x * s <= y * s <=> x <= y
<1>1. x * s \in Int /\ y * s \in Int
  OBVIOUS
<1>2. x < y => x * s < y * s
  <2>1. x < y => (y - x) * s > 0
    OBVIOUS
  <2>2. (y - x) * s = y * s - x * s
    OBVIOUS
  <2> QED BY <2>1, <2>2, <1>1
<1>3. y < x => y * s < x * s
  <2>1. y < x => (x - y) * s > 0
    OBVIOUS
  <2>2. (x - y) * s = x * s - y * s
    OBVIOUS
  <2> QED BY <2>1, <2>2, <1>1
<1>4. x = y => x * s = y * s
  OBVIOUS
<1> QED BY <1>1, <1>2, <1>3, <1>4

\* The page an address is in.
LEMMA PfnIs ==
  ASSUME NEW x \in Nat, NEW k \in Nat
  PROVE  Pfn(x) = k <=> k * PAGE_SIZE <= x /\ x < (k + 1) * PAGE_SIZE
<1> DEFINE q == Pfn(x)
<1>1. PAGE_SIZE \in Nat \ {0}
  BY BootAssumption
<1>2. q \in Nat /\ x - PAGE_SIZE * q \in 0 .. PAGE_SIZE - 1
  BY <1>1, Division DEF Pfn
<1> HIDE DEF q
<1>3. q * PAGE_SIZE <= x /\ x < (q + 1) * PAGE_SIZE
  <2>1. PAGE_SIZE * q = q * PAGE_SIZE /\ (q + 1) * PAGE_SIZE = q * PAGE_SIZE + PAGE_SIZE
    BY <1>1, <1>2
  <2>2. q * PAGE_SIZE \in Nat
    BY <1>1, <1>2
  <2> QED BY <1>1, <1>2, <2>1, <2>2
<1>4. ASSUME k * PAGE_SIZE <= x, x < (k + 1) * PAGE_SIZE PROVE q = k
  <2>1. /\ k * PAGE_SIZE \in Int /\ (k + 1) * PAGE_SIZE \in Int
        /\ q * PAGE_SIZE \in Int /\ (q + 1) * PAGE_SIZE \in Int
    BY <1>1, <1>2
  <2>2. k * PAGE_SIZE < (q + 1) * PAGE_SIZE /\ q * PAGE_SIZE < (k + 1) * PAGE_SIZE
    BY <1>3, <1>4, <2>1
  <2>3. k < q + 1 /\ q < k + 1
    BY <1>1, <1>2, <2>2, Scale
  <2> QED BY <1>2, <2>3
<1>5. q = k => k * PAGE_SIZE <= x /\ x < (k + 1) * PAGE_SIZE
  BY <1>3
<1> QED BY <1>4, <1>5 DEF q

LEMMA PfnOfPage ==
  ASSUME NEW k \in Nat
  PROVE  k * PAGE_SIZE \in Nat /\ Pfn(k * PAGE_SIZE) = k
<1>1. PAGE_SIZE \in Nat \ {0}
  BY BootAssumption
<1>2. k * PAGE_SIZE \in Nat /\ (k + 1) * PAGE_SIZE = k * PAGE_SIZE + PAGE_SIZE
  BY <1>1
<1> QED BY <1>1, <1>2, PfnIs

\* The pages an allocation of n bytes takes.
Pages(n) == Pfn(PageUp(n))

LEMMA PageUpIs ==
  ASSUME NEW n \in Nat \ {0}
  PROVE  /\ Pages(n) \in Nat \ {0} /\ PageUp(n) = Pages(n) * PAGE_SIZE /\ PageUp(n) \in Nat
         /\ \A k \in Nat : k * PAGE_SIZE <= n => k <= Pages(n)
         /\ \A k \in Nat : n = k * PAGE_SIZE => Pages(n) = k
<1> DEFINE q == Pfn(n + PAGE_SIZE - 1)
<1>1. PAGE_SIZE \in Nat \ {0} /\ n + PAGE_SIZE - 1 \in Nat
  BY BootAssumption
<1>2. q \in Nat /\ q * PAGE_SIZE <= n + PAGE_SIZE - 1 /\ n + PAGE_SIZE - 1 < (q + 1) * PAGE_SIZE
  <2>1. q \in Nat
    BY <1>1, Division DEF Pfn
  <2> QED BY <1>1, <2>1, PfnIs
<1>3. PageUp(n) = q * PAGE_SIZE
  BY DEF PageUp, Pfn
<1> HIDE DEF q
<1>4. PageUp(n) \in Nat /\ Pages(n) = q
  BY <1>2, <1>3, PfnOfPage DEF Pages
<1>5. (q + 1) * PAGE_SIZE = q * PAGE_SIZE + PAGE_SIZE /\ q * PAGE_SIZE \in Nat
  BY <1>1, <1>2
<1>6. n <= q * PAGE_SIZE /\ q # 0
  <2>1. n <= q * PAGE_SIZE
    BY <1>1, <1>2, <1>5
  <2>2. CASE q = 0
    BY <1>1, <2>1, <2>2
  <2> QED BY <2>1, <2>2
<1>7. ASSUME NEW k \in Nat, k * PAGE_SIZE <= n PROVE k <= q
  <2>1. k * PAGE_SIZE \in Int
    BY <1>1
  <2>2. k * PAGE_SIZE <= q * PAGE_SIZE
    BY <1>5, <1>6, <1>7, <2>1
  <2> QED BY <1>1, <1>2, <2>2, Scale
<1>8. ASSUME NEW k \in Nat, n = k * PAGE_SIZE PROVE q = k
  <2>1. k * PAGE_SIZE \in Nat
    BY <1>1
  <2>2. n + PAGE_SIZE - 1 = k * PAGE_SIZE + (PAGE_SIZE - 1)
    BY <1>1, <1>8, <2>1
  <2>3. q * PAGE_SIZE < (k + 1) * PAGE_SIZE
    <3>1. (k + 1) * PAGE_SIZE = k * PAGE_SIZE + PAGE_SIZE
      BY <1>1
    <3> QED BY <1>1, <1>2, <1>5, <2>1, <2>2, <3>1
  <2>4. q < k + 1
    BY <1>1, <1>2, <2>3, Scale
  <2> QED BY <1>2, <1>7, <1>8, <2>1, <2>4
<1> QED BY <1>2, <1>3, <1>4, <1>6, <1>7, <1>8

-----------------------------------------------------------------------------
(* find_pages.                                                             *)

\* The pages that end the run tried at i, and one turn of the loop, when g is
\* what the turns at higher pages return.
StopsAt(i, count, e) == {t \in i .. i + count - 1 : t >= e \/ s_map[t] = "USED"}

Turn(g, i, count, e, align) ==
  IF i >= e THEN 0
  ELSE IF s_map[i] = "USED" THEN g[i + 1]
  ELSE IF StopsAt(i, count, e) = {} THEN i
  ELSE IF Min(StopsAt(i, count, e)) >= e THEN 0
  ELSE g[Min(StopsAt(i, count, e)) + align]

\* A turn looks at higher pages only.
LEMMA TurnLooksUp ==
  ASSUME NEW i \in Nat, NEW count \in Nat, NEW e \in Nat, NEW align \in Nat \ {0},
         NEW g, NEW h, \A j \in Nat : j > i => g[j] = h[j]
  PROVE  Turn(g, i, count, e, align) = Turn(h, i, count, e, align)
<1>1. StopsAt(i, count, e) # {} =>
        Min(StopsAt(i, count, e)) \in Nat /\ Min(StopsAt(i, count, e)) >= i
  <2>1. StopsAt(i, count, e) \in SUBSET Nat /\ \A t \in StopsAt(i, count, e) : t >= i
    BY DEF StopsAt
  <2> QED BY <2>1, MinIs
<1> HIDE DEF StopsAt
<1>2. i + 1 \in Nat /\ i + 1 > i
  OBVIOUS
<1>3. StopsAt(i, count, e) # {} => LET m == Min(StopsAt(i, count, e)) + align IN m \in Nat /\ m > i
  BY <1>1
<1> QED BY <1>2, <1>3 DEF Turn

\* There is a function all of whose values are turns.
LEMMA ScanExists ==
  ASSUME NEW count \in Nat, NEW e \in Nat, NEW align \in Nat \ {0}
  PROVE  \E g : g = [i \in Nat |-> Turn(g, i, count, e, align)]
<1> DEFINE Good(k) == \E g : /\ g = [i \in Nat |-> g[i]]
                             /\ \A i \in Nat : i >= e - k => g[i] = Turn(g, i, count, e, align)
           Bad == {k \in Nat : ~Good(k)}
<1>1. Bad = {}
  <2> SUFFICES ASSUME Bad # {} PROVE FALSE
    OBVIOUS
  <2>1. PICK m \in Bad : \A k \in Bad : m <= k
    <3>1. Bad \in SUBSET Nat
      OBVIOUS
    <3> HIDE DEF Bad
    <3> QED BY <3>1, LeastMember
  <2>2. m \in Nat /\ ~Good(m)
    OBVIOUS
  <2>3. CASE m = 0
    <3> DEFINE g == [i \in Nat |-> 0]
    <3>1. g = [i \in Nat |-> g[i]]
      OBVIOUS
    <3>2. \A i \in Nat : i >= e - 0 => g[i] = Turn(g, i, count, e, align)
      BY DEF Turn
    <3> QED BY <2>2, <2>3, <3>1, <3>2
  <2>4. CASE m # 0
    <3>1. m - 1 \in Nat /\ m - 1 < m
      BY <2>2, <2>4
    <3>2. Good(m - 1)
      BY <2>1, <3>1
    <3>3. PICK g : /\ g = [i \in Nat |-> g[i]]
                   /\ \A i \in Nat : i >= e - (m - 1) => g[i] = Turn(g, i, count, e, align)
      BY <3>2
    <3> DEFINE h == [i \in Nat |-> IF i = e - m THEN Turn(g, i, count, e, align) ELSE g[i]]
    <3>4. h = [i \in Nat |-> h[i]]
      OBVIOUS
    <3>5. ASSUME NEW i \in Nat, i >= e - m PROVE h[i] = Turn(h, i, count, e, align)
      <4>1. h[i] = Turn(g, i, count, e, align)
        <5>1. CASE i = e - m
          BY <5>1
        <5>2. CASE i # e - m
          <6>1. i >= e - (m - 1)
            BY <2>2, <3>5, <5>2
          <6> QED BY <3>3, <5>2, <6>1
        <5> QED BY <5>1, <5>2
      <4>2. \A j \in Nat : j > i => g[j] = h[j]
        BY <2>2, <3>5
      <4> HIDE DEF h
      <4> QED BY <4>1, <4>2, TurnLooksUp
    <3> HIDE DEF h
    <3>6. Good(m)
      BY <3>4, <3>5
    <3> QED BY <2>2, <3>6
  <2> QED BY <2>3, <2>4
<1>2. Good(e)
  BY <1>1
<1>3. PICK g : /\ g = [i \in Nat |-> g[i]]
               /\ \A i \in Nat : i >= e - e => g[i] = Turn(g, i, count, e, align)
  BY <1>2
<1>4. \A i \in Nat : i >= e - e
  OBVIOUS
<1>5. \A i \in Nat : g[i] = Turn(g, i, count, e, align)
  BY <1>3, <1>4
<1> QED BY <1>3, <1>5

Scans(g, count, s, e, align) ==
  /\ \A i \in Nat : g[i] = Turn(g, i, count, e, align)
  /\ find_pages(count, s, e, align) = g[RoundUp(s, align)]

\* What find_pages evaluates is such a function.
LEMMA FindScans ==
  ASSUME NEW count \in Nat, NEW s \in Nat, NEW e \in Nat, NEW align \in Nat \ {0}
  PROVE  \E g : Scans(g, count, s, e, align)
<1> DEFINE scan == CHOOSE g : g = [i \in Nat |-> Turn(g, i, count, e, align)]
<1>1. scan = [i \in Nat |-> Turn(scan, i, count, e, align)]
  BY ScanExists
<1>2. find_pages(count, s, e, align) = scan[RoundUp(s, align)]
  BY DEF find_pages, Turn, StopsAt
<1> HIDE DEF scan
<1>3. \A i \in Nat : scan[i] = Turn(scan, i, count, e, align)
  BY <1>1
<1>4. Scans(scan, count, s, e, align)
  BY <1>2, <1>3 DEF Scans
<1> QED BY <1>4

\* A run of free pages below e.
Run(i, count, e) == i + count <= e /\ \A t \in i .. i + count - 1 : s_map[t] # "USED"

\* What the search returns from some page on is 0 or a run at or behind it.
LEMMA ScanFindsRun ==
  ASSUME NEW count \in Nat \ {0}, NEW e \in Nat, NEW align \in Nat \ {0}, NEW g,
         \A i \in Nat : g[i] = Turn(g, i, count, e, align)
  PROVE  \A i \in Nat : g[i] = 0 \/ (g[i] \in Nat /\ g[i] >= i /\ Run(g[i], count, e))
<1> DEFINE OK(i) == g[i] = 0 \/ (g[i] \in Nat /\ g[i] >= i /\ Run(g[i], count, e))
           Bad   == {k \in Nat : \E i \in Nat : i >= e - k /\ ~OK(i)}
<1>1. Bad = {}
  <2> SUFFICES ASSUME Bad # {} PROVE FALSE
    OBVIOUS
  <2>1. PICK m \in Bad : \A k \in Bad : m <= k
    <3>1. Bad \in SUBSET Nat
      OBVIOUS
    <3> HIDE DEF Bad
    <3> QED BY <3>1, LeastMember
  <2>2. PICK i \in Nat : i >= e - m /\ ~OK(i)
    BY <2>1
  <2>3. \A j \in Nat : j > i => OK(j)
    <3> SUFFICES ASSUME NEW j \in Nat, j > i, ~OK(j) PROVE FALSE
      OBVIOUS
    <3>1. CASE m = 0
      <4>1. g[j] = 0
        BY <2>2, <3>1 DEF Turn
      <4> QED BY <4>1
    <3>2. CASE m # 0
      <4>1. m - 1 \in Nat /\ m - 1 < m /\ j >= e - (m - 1)
        BY <2>2, <3>2
      <4>2. m - 1 \in Bad
        BY <4>1
      <4> QED BY <2>1, <4>1, <4>2
    <3> QED BY <3>1, <3>2
  <2>4. g[i] = Turn(g, i, count, e, align)
    OBVIOUS
  <2> DEFINE S == StopsAt(i, count, e)
  <2>5. S \in SUBSET Nat /\ \A t \in S : t >= i
    BY DEF StopsAt
  <2>6. CASE i >= e
    BY <2>2, <2>4, <2>6 DEF Turn
  <2>7. CASE ~(i >= e) /\ s_map[i] = "USED"
    <3>1. g[i] = g[i + 1] /\ i + 1 \in Nat /\ i + 1 > i
      BY <2>4, <2>7 DEF Turn
    <3>2. OK(i + 1)
      BY <2>3, <3>1
    <3> QED BY <2>2, <3>1, <3>2
  <2>8. CASE ~(i >= e) /\ s_map[i] # "USED" /\ S = {}
    <3>1. g[i] = i
      BY <2>4, <2>8 DEF Turn
    <3>2. \A t \in i .. i + count - 1 : t < e /\ s_map[t] # "USED"
      BY <2>8 DEF StopsAt
    <3>3. i + count - 1 \in i .. i + count - 1
      OBVIOUS
    <3>4. Run(i, count, e)
      BY <3>2, <3>3 DEF Run
    <3> QED BY <2>2, <3>1, <3>4
  <2>9. CASE ~(i >= e) /\ s_map[i] # "USED" /\ S # {}
    <3>1. Min(S) \in Nat /\ Min(S) >= i
      BY <2>5, <2>9, MinIs
    <3> HIDE DEF S
    <3>2. CASE Min(S) >= e
      BY <2>2, <2>4, <2>9, <3>2 DEF Turn, S
    <3>3. CASE ~(Min(S) >= e)
      <4>1. g[i] = g[Min(S) + align]
        BY <2>4, <2>9, <3>3 DEF Turn, S
      <4>2. PICK j \in Nat : j = Min(S) + align /\ j > i
        BY <3>1
      <4>3. g[i] = g[j] /\ OK(j)
        BY <2>3, <4>1, <4>2
      <4> QED BY <2>2, <4>2, <4>3
    <3> QED BY <3>2, <3>3
  <2> QED BY <2>6, <2>7, <2>8, <2>9
<1>2. ASSUME NEW i \in Nat PROVE OK(i)
  <2>1. i >= e - e
    OBVIOUS
  <2>2. e \notin Bad
    BY <1>1
  <2> QED BY <2>1, <2>2
<1> QED BY <1>2

LEMMA RoundUpIs ==
  ASSUME NEW n \in Nat, NEW a \in Nat \ {0}
  PROVE  RoundUp(n, a) \in Nat /\ (a = 1 => RoundUp(n, a) = n)
<1>1. n + a - 1 \in Nat
  OBVIOUS
<1>2. (n + a - 1) \div a \in Nat
  BY <1>1
<1>3. ((n + a - 1) \div a) * a \in Nat
  BY <1>2
<1>4. a = 1 => RoundUp(n, a) = n
  BY DEF RoundUp
<1> QED BY <1>3, <1>4 DEF RoundUp

\* find_pages returns 0 or a run of free pages.
LEMMA FindsRun ==
  ASSUME NEW count \in Nat \ {0}, NEW s \in Nat, NEW e \in Nat, NEW align \in Nat \ {0}
  PROVE  LET r == find_pages(count, s, e, align)
         IN  r \in Nat /\ (r = 0 \/ Run(r, count, e))
<1>1. PICK g : Scans(g, count, s, e, align)
  BY FindScans
<1>2. RoundUp(s, align) \in Nat
  BY RoundUpIs
<1> QED BY <1>1, <1>2, ScanFindsRun DEF Scans

\* By single pages, it returns the lowest run: so from each page on.
LEMMA ScanFindsFirst ==
  ASSUME NEW count \in Nat \ {0}, NEW e \in Nat, NEW g,
         \A i \in Nat : g[i] = Turn(g, i, count, e, 1)
  PROVE  \A i \in Nat \ {0} :
           \/ g[i] = 0 /\ \A j \in Nat : j >= i => ~Run(j, count, e)
           \/ /\ g[i] \in Nat /\ g[i] >= i /\ Run(g[i], count, e)
              /\ \A j \in Nat : j >= i /\ j < g[i] => ~Run(j, count, e)
<1> DEFINE First(i) == \/ g[i] = 0 /\ \A j \in Nat : j >= i => ~Run(j, count, e)
                       \/ /\ g[i] \in Nat /\ g[i] >= i /\ Run(g[i], count, e)
                          /\ \A j \in Nat : j >= i /\ j < g[i] => ~Run(j, count, e)
           Bad == {k \in Nat : \E i \in Nat \ {0} : i >= e - k /\ ~First(i)}
<1>1. Bad = {}
  <2> SUFFICES ASSUME Bad # {} PROVE FALSE
    OBVIOUS
  <2>1. PICK m \in Bad : \A k \in Bad : m <= k
    <3>1. Bad \in SUBSET Nat
      OBVIOUS
    <3> HIDE DEF Bad
    <3> QED BY <3>1, LeastMember
  <2>2. PICK i \in Nat \ {0} : i >= e - m /\ ~First(i)
    BY <2>1
  <2> DEFINE S == StopsAt(i, count, e)
  <2>3. g[i] = Turn(g, i, count, e, 1)
    OBVIOUS
  <2>4. S \in SUBSET Nat /\ \A t \in S : t \in i .. i + count - 1
    BY DEF StopsAt
  <2>5. CASE i >= e
    <3>1. g[i] = 0
      BY <2>3, <2>5 DEF Turn
    <3>2. \A j \in Nat : j >= i => ~Run(j, count, e)
      BY <2>5 DEF Run
    <3> QED BY <2>2, <3>1, <3>2
  <2>6. ASSUME ~(i >= e) PROVE \A j \in Nat \ {0} : j > i => First(j)
    <3> SUFFICES ASSUME NEW j \in Nat \ {0}, j > i, ~First(j) PROVE FALSE
      OBVIOUS
    <3>1. m \in Nat \ {0}
      BY <2>2, <2>6
    <3>2. m - 1 \in Nat /\ m - 1 < m /\ j >= e - (m - 1)
      BY <2>2, <3>1
    <3>3. m - 1 \in Bad
      BY <3>2
    <3> QED BY <2>1, <3>2, <3>3
  \* Nothing starts between i and a page k that is part of each run that would.
  <2>7. ASSUME ~(i >= e), NEW k \in Nat, k >= i, g[i] = g[k + 1],
               \A j \in Nat : j >= i /\ j <= k => ~Run(j, count, e)
        PROVE  FALSE
    <3>1. PICK n \in Nat \ {0} : n = k + 1 /\ n > i
      BY <2>7
    <3>2. First(n) /\ g[i] = g[n]
      BY <2>6, <2>7, <3>1
    <3>3. \A j \in Nat : j >= i => j <= k \/ j >= n
      BY <3>1
    <3>4. First(i)
      BY <2>7, <3>1, <3>2, <3>3
    <3> QED BY <2>2, <3>4
  <2>8. CASE ~(i >= e) /\ s_map[i] = "USED"
    <3>1. g[i] = g[i + 1]
      BY <2>3, <2>8 DEF Turn
    <3>2. ~Run(i, count, e)
      <4>1. i \in i .. i + count - 1
        OBVIOUS
      <4> QED BY <2>8, <4>1 DEF Run
    <3>3. \A j \in Nat : j >= i /\ j <= i => j = i
      OBVIOUS
    <3> QED BY <2>7, <2>8, <3>1, <3>2, <3>3
  <2>9. CASE ~(i >= e) /\ s_map[i] # "USED" /\ S = {}
    <3>1. g[i] = i
      BY <2>3, <2>9 DEF Turn
    <3>2. \A t \in i .. i + count - 1 : t < e /\ s_map[t] # "USED"
      BY <2>9 DEF StopsAt
    <3>3. i + count - 1 \in i .. i + count - 1
      OBVIOUS
    <3>4. Run(i, count, e)
      BY <3>2, <3>3 DEF Run
    <3> QED BY <2>2, <3>1, <3>4
  <2>10. CASE ~(i >= e) /\ s_map[i] # "USED" /\ S # {}
    <3>1. Min(S) \in S
      BY <2>4, <2>10, MinIs
    <3>2. PICK k \in Nat : k = Min(S) /\ k \in S
      BY <2>4, <3>1
    <3>3. k >= i /\ k <= i + count - 1 /\ (k >= e \/ s_map[k] = "USED")
      BY <3>2 DEF StopsAt
    <3>4. CASE k >= e
      <4>1. g[i] = 0
        BY <2>3, <2>10, <3>2, <3>4 DEF Turn
      <4>2. \A j \in Nat : j >= i => ~Run(j, count, e)
        BY <3>3, <3>4 DEF Run
      <4> QED BY <2>2, <4>1, <4>2
    <3>5. CASE ~(k >= e)
      <4>1. g[i] = g[k + 1]
        BY <2>3, <2>10, <3>2, <3>5 DEF Turn
      <4>2. ASSUME NEW j \in Nat, j >= i, j <= k PROVE ~Run(j, count, e)
        <5>1. k \in j .. j + count - 1
          BY <3>3, <4>2
        <5> QED BY <3>3, <3>5, <5>1 DEF Run
      <4> QED BY <2>7, <2>10, <3>3, <4>1, <4>2
    <3> QED BY <3>4, <3>5
  <2> QED BY <2>5, <2>8, <2>9, <2>10
<1>2. ASSUME NEW i \in Nat \ {0} PROVE First(i)
  <2>1. i >= e - e
    OBVIOUS
  <2>2. e \notin Bad
    BY <1>1
  <2> QED BY <2>1, <2>2
<1> QED BY <1>2

-----------------------------------------------------------------------------
(* No page is in two hands.                                                *)

BootTypeOK ==
  /\ s_map \in [Pfns -> {"FREE", "USED"}]
  /\ last_alloc \in Pfns
  /\ \A r \in owned :
       /\ r \in [start : Nat, size : Nat \ {0}, align : Nat \ {0}, type : Types \cup {"KERNEL"}]
       /\ \E a \in Nat : a < MaxPfn /\ r.start = a * PAGE_SIZE

BootInv == BootTypeOK /\ NoDoubleAllocation

\* The pages of a region that starts at page a.
LEMMA PagesOfIs ==
  ASSUME NEW r, NEW a \in Nat, r.start = a * PAGE_SIZE, r.size \in Nat \ {0}
  PROVE  PagesOf(r) = a .. a + Pages(r.size) - 1
<1>1. Pages(r.size) \in Nat /\ PageUp(r.size) = Pages(r.size) * PAGE_SIZE
  BY PageUpIs
<1>2. a * PAGE_SIZE + Pages(r.size) * PAGE_SIZE = (a + Pages(r.size)) * PAGE_SIZE
  BY <1>1, BootAssumption
<1>3. Pfn(r.start) = a /\ Pfn(r.start + PageUp(r.size)) = a + Pages(r.size)
  BY <1>1, <1>2, PfnOfPage
<1> QED BY <1>1, <1>3 DEF PagesOf

LEMMA BootInitInv == Init => BootInv
<1> SUFFICES ASSUME Init PROVE BootInv
  OBVIOUS
<1>1. KernelPages + MapPages \in Nat /\ Pfn(MapEnd) = KernelPages + MapPages
  BY BootAssumption, PfnOfPage DEF MapEnd
<1>2. last_alloc \in Pfns /\ s_map \in [Pfns -> {"FREE", "USED"}] /\ owned = {}
  BY <1>1, BootAssumption DEF Init, Pfns
<1>3. Reserved \subseteq Used
  BY BootAssumption DEF Init, Reserved, Used, Pfns
<1> QED BY <1>2, <1>3 DEF BootInv, BootTypeOK, NoDoubleAllocation

\* What bootmm_alloc_pages gives out was free.
LEMMA PlaceIs ==
  ASSUME BootTypeOK, NEW size \in Nat \ {0}, NEW align \in Nat \ {0}, Place(size, align) # 0
  PROVE  /\ Place(size, align) \in Nat /\ Place(size, align) + Pages(size) <= MaxPfn
         /\ \A t \in Place(size, align) .. Place(size, align) + Pages(size) - 1 :
              t \in Pfns \ Used
<1> DEFINE c     == Pages(size)
           above == find_pages(c, last_alloc + 1, MaxPfn, align)
           below == find_pages(c, 0, last_alloc, align)
           at    == Place(size, align)
<1>1. /\ c \in Nat \ {0} /\ last_alloc + 1 \in Nat /\ last_alloc \in Nat /\ MaxPfn \in Nat
      /\ last_alloc < MaxPfn
  BY PageUpIs, BootAssumption DEF BootTypeOK, Pfns
<1>2. at = IF above # 0 THEN above ELSE below
  BY DEF Place, Pages
<1>3. /\ above \in Nat /\ (above = 0 \/ Run(above, c, MaxPfn))
      /\ below \in Nat /\ (below = 0 \/ Run(below, c, last_alloc))
  <2> HIDE DEF c
  <2> QED BY <1>1, FindsRun
<1> HIDE DEF c, above, below
<1>4. at \in Nat /\ at # 0 /\ (Run(at, c, MaxPfn) \/ Run(at, c, last_alloc))
  BY <1>2, <1>3
<1> HIDE DEF at
<1>5. at + c <= MaxPfn /\ \A t \in at .. at + c - 1 : s_map[t] # "USED"
  BY <1>1, <1>4 DEF Run
<1>6. \A t \in at .. at + c - 1 : t \in Pfns \ Used
  BY <1>1, <1>4, <1>5 DEF Pfns, Used
<1> QED BY <1>4, <1>5, <1>6 DEF at, c

LEMMA AllocKeeps ==
  ASSUME BootInv, NEW size \in Nat \ {0}, NEW type \in Types \cup {"KERNEL"},
         NEW align \in Nat \ {0}, bootmm_alloc_pages(size, type, align)
  PROVE  BootInv'
<1> DEFINE c == Pages(size)
<1>1. PICK at : at = Place(size, align)
  OBVIOUS
<1> DEFINE new == [start |-> at * PAGE_SIZE, size |-> size, align |-> align, type |-> type]
<1>2. /\ at # 0 /\ owned' = owned \cup {new} /\ last_alloc' = at + c - 1
      /\ s_map' = [p \in Pfns |-> IF p \in at .. at + c - 1 THEN "USED" ELSE s_map[p]]
  BY <1>1 DEF bootmm_alloc_pages, LastPage, set_maps, Pages
<1>3. /\ at \in Nat /\ c \in Nat \ {0} /\ at + c <= MaxPfn
      /\ \A t \in at .. at + c - 1 : t \in Pfns \ Used
  BY <1>1, <1>2, PlaceIs, PageUpIs DEF BootInv
<1>4. /\ new.start = at * PAGE_SIZE /\ new.size = size /\ at * PAGE_SIZE \in Nat
      /\ PagesOf(new) = at .. at + c - 1
  <2>1. new.start = at * PAGE_SIZE /\ new.size = size /\ at * PAGE_SIZE \in Nat
    BY <1>3, PfnOfPage
  <2> QED BY <1>3, <2>1, PagesOfIs
<1>5. new \in [start : Nat, size : Nat \ {0}, align : Nat \ {0}, type : Types \cup {"KERNEL"}]
  BY <1>4
<1> HIDE DEF new, c
<1>6. Used' = Used \cup PagesOf(new)
  <2>1. ASSUME NEW p \in Pfns PROVE p \in Used' <=> p \in Used \/ p \in PagesOf(new)
    BY <1>2, <1>4 DEF Used
  <2> QED BY <1>3, <1>4, <2>1 DEF Used
<1>7. PagesOf(new) \cap Used = {}
  BY <1>3, <1>4
<1>8. \A r : PagesOf(r)' = PagesOf(r)
  BY DEF PagesOf, Pfn, PageUp
<1>9. BootTypeOK'
  <2>1. last_alloc' \in Pfns
    BY <1>2, <1>3, BootAssumption DEF Pfns
  <2>2. s_map' \in [Pfns -> {"FREE", "USED"}]
    BY <1>2 DEF BootInv, BootTypeOK
  <2>3. at < MaxPfn
    BY <1>3, BootAssumption
  <2> QED BY <1>2, <1>3, <1>4, <1>5, <2>1, <2>2, <2>3 DEF BootInv, BootTypeOK
<1>10. NoDoubleAllocation'
  <2>1. /\ Reserved \subseteq Used /\ \A r \in owned : PagesOf(r) \subseteq Used \ Reserved
        /\ \A r, q \in owned : r # q => PagesOf(r) \cap PagesOf(q) = {}
    BY DEF BootInv, NoDoubleAllocation
  <2>2. \A r \in owned' : PagesOf(r) \subseteq Used' \ Reserved
    BY <1>2, <1>6, <1>7, <2>1
  <2>3. \A r, q \in owned' : r # q => PagesOf(r) \cap PagesOf(q) = {}
    BY <1>2, <1>7, <2>1
  <2>4. Reserved \subseteq Used'
    BY <1>6, <2>1
  <2> QED BY <1>8, <2>2, <2>3, <2>4 DEF NoDoubleAllocation, Reserved
<1> QED BY <1>9, <1>10 DEF BootInv

\* bootmm_free_pages, called for n bytes from page a on, frees some of the pages
\* these bytes fill, or all, and no others.
LEMMA FreesPages ==
  ASSUME BootTypeOK, NEW a \in Nat, NEW n \in Nat, bootmm_free_pages(a * PAGE_SIZE, n)
  PROVE  /\ s_map' \in [Pfns -> {"FREE", "USED"}]
         /\ \E F \in SUBSET (a .. a + Pfn(n) - 1) : Used' = Used \ F
<1>1. PAGE_SIZE \in Nat \ {0} /\ Pfn(n) \in Nat
  BY BootAssumption, Division DEF Pfn
<1>2. PageDown(a * PAGE_SIZE) = a * PAGE_SIZE /\ Pfn(a * PAGE_SIZE) = a
  <2>1. Pfn(a * PAGE_SIZE) = a
    BY PfnOfPage
  <2> QED BY <2>1 DEF PageDown, Pfn
<1>3. Pfn(PageDown(n)) = Pfn(n)
  BY <1>1, PfnOfPage DEF PageDown, Pfn
<1>4. CASE UNCHANGED s_map
  <2>1. Used' = Used \ {} /\ {} \in SUBSET (a .. a + Pfn(n) - 1)
    BY <1>4 DEF Used
  <2> QED BY <1>4, <2>1 DEF BootTypeOK
<1>5. CASE set_maps(a, Pfn(n), "FREE")
  <2>1. s_map' = [p \in Pfns |-> IF p \in a .. a + Pfn(n) - 1 THEN "FREE" ELSE s_map[p]]
    BY <1>5 DEF set_maps
  <2>2. Used' = Used \ (a .. a + Pfn(n) - 1)
    BY <2>1 DEF Used
  <2>3. s_map' \in [Pfns -> {"FREE", "USED"}]
    BY <2>1 DEF BootTypeOK
  <2> QED BY <2>2, <2>3
<1>6. UNCHANGED s_map \/ set_maps(a, Pfn(n), "FREE")
  BY <1>2, <1>3 DEF bootmm_free_pages
<1> QED BY <1>4, <1>5, <1>6

\* A region gives way to parts of its pages, which are apart, and of those pages
\* none that belongs to a part is freed.
LEMMA PartsKeep ==
  ASSUME BootInv, NEW r \in owned, NEW parts, NEW F,
         F \subseteq PagesOf(r), Used' = Used \ F, s_map' \in [Pfns -> {"FREE", "USED"}],
         owned' = (owned \ {r}) \cup parts, last_alloc' = last_alloc,
         \A q \in parts :
           /\ q \in [start : Nat, size : Nat \ {0}, align : Nat \ {0}, type : Types \cup {"KERNEL"}]
           /\ \E a \in Nat : a < MaxPfn /\ q.start = a * PAGE_SIZE
           /\ PagesOf(q) \subseteq PagesOf(r) \ F,
         \A p, q \in parts : p # q => PagesOf(p) \cap PagesOf(q) = {}
  PROVE  BootInv'
<1>1. \A q : PagesOf(q)' = PagesOf(q)
  BY DEF PagesOf, Pfn, PageUp
<1>2. /\ Reserved \subseteq Used /\ \A q \in owned : PagesOf(q) \subseteq Used \ Reserved
      /\ \A p, q \in owned : p # q => PagesOf(p) \cap PagesOf(q) = {}
  BY DEF BootInv, NoDoubleAllocation
<1>3. BootTypeOK'
  BY DEF BootInv, BootTypeOK
<1>4. Reserved \subseteq Used'
  BY <1>2
<1>5. ASSUME NEW q \in owned' PROVE PagesOf(q) \subseteq Used' \ Reserved
  <2>1. CASE q \in parts
    BY <1>2, <2>1
  <2>2. CASE q \in owned \ {r}
    BY <1>2, <2>2
  <2> QED BY <2>1, <2>2
<1>6. ASSUME NEW p \in owned', NEW q \in owned', p # q PROVE PagesOf(p) \cap PagesOf(q) = {}
  <2>1. CASE p \in parts /\ q \in parts
    BY <1>6, <2>1
  <2>2. CASE p \in owned \ {r} /\ q \in owned \ {r}
    BY <1>2, <1>6, <2>2
  <2>3. CASE p \in parts /\ q \in owned \ {r}
    BY <1>2, <2>3
  <2>4. CASE p \in owned \ {r} /\ q \in parts
    BY <1>2, <2>4
  <2> QED BY <2>1, <2>2, <2>3, <2>4
<1>7. NoDoubleAllocation'
  BY <1>1, <1>4, <1>5, <1>6 DEF NoDoubleAllocation, Reserved
<1> QED BY <1>3, <1>7 DEF BootInv

LEMMA FreeWholeKeeps ==
  ASSUME BootInv, NEW r \in owned, FreeWhole(r)
  PROVE  BootInv'
<1>1. PICK a \in Nat : r.start = a * PAGE_SIZE
  BY DEF BootInv, BootTypeOK
<1>2. r.size \in Nat \ {0}
  BY DEF BootInv, BootTypeOK
<1>3. PagesOf(r) = a .. a + Pages(r.size) - 1
  BY <1>1, <1>2, PagesOfIs
<1>4. Pfn(r.size) \in Nat /\ Pages(r.size) \in Nat /\ Pfn(r.size) <= Pages(r.size)
  <2>1. Pfn(r.size) \in Nat
    BY <1>2, BootAssumption, Division DEF Pfn
  <2>2. Pfn(r.size) * PAGE_SIZE <= r.size
    BY <1>2, <2>1, PfnIs
  <2> QED BY <1>2, <2>1, <2>2, PageUpIs
<1>5. PICK F \in SUBSET (a .. a + Pfn(r.size) - 1) :
        Used' = Used \ F /\ s_map' \in [Pfns -> {"FREE", "USED"}]
  BY <1>1, <1>2, FreesPages DEF FreeWhole, BootInv
<1>6. F \subseteq PagesOf(r)
  BY <1>3, <1>4
<1>7. owned' = (owned \ {r}) \cup {} /\ last_alloc' = last_alloc
  BY DEF FreeWhole
<1> QED BY <1>5, <1>6, <1>7, PartsKeep

LEMMA FreePartKeeps ==
  ASSUME BootInv, NEW r \in owned, NEW p \in Nat, NEW n \in Nat \ {0}, FreePart(r, p, n)
  PROVE  BootInv'
<1>1. PICK a \in Nat : a < MaxPfn /\ r.start = a * PAGE_SIZE
  BY DEF BootInv, BootTypeOK
<1>2. /\ r.size \in Nat \ {0}
      /\ r \in [start : Nat, size : Nat \ {0}, align : Nat \ {0}, type : Types \cup {"KERNEL"}]
      /\ PAGE_SIZE \in Nat \ {0} /\ MaxPfn \in Nat
  BY BootAssumption DEF BootInv, BootTypeOK
<1> DEFINE c    == Pages(r.size)
           rest == PageUp(r.size) - (p + n) * PAGE_SIZE
           low  == [r EXCEPT !.size = p * PAGE_SIZE]
           high == [r EXCEPT !.start = r.start + p * PAGE_SIZE + n * PAGE_SIZE,
                             !.size = rest, !.align = 1]
<1>3. c \in Nat \ {0} /\ PageUp(r.size) = c * PAGE_SIZE /\ PagesOf(r) = a .. a + c - 1
  BY <1>1, <1>2, PageUpIs, PagesOfIs
<1>4. /\ owned' = (owned \ {r}) \cup {q \in {low, high} : q.size > 0}
      /\ bootmm_free_pages(r.start + p * PAGE_SIZE, n * PAGE_SIZE)
      /\ rest >= 0 /\ last_alloc' = last_alloc
  BY DEF FreePart
<1> HIDE DEF c
<1>5. /\ p * PAGE_SIZE \in Nat /\ n * PAGE_SIZE \in Nat
      /\ r.start + p * PAGE_SIZE = (a + p) * PAGE_SIZE
      /\ r.start + p * PAGE_SIZE + n * PAGE_SIZE = (a + p + n) * PAGE_SIZE
      /\ rest = (c - (p + n)) * PAGE_SIZE
  BY <1>1, <1>2, <1>3
<1>6. p + n <= c
  <2>1. 0 * PAGE_SIZE <= (c - (p + n)) * PAGE_SIZE
    BY <1>2, <1>4, <1>5
  <2>2. c - (p + n) \in Int
    BY <1>3
  <2>3. 0 <= c - (p + n)
    BY <1>2, <2>1, <2>2, Scale
  <2> QED BY <1>3, <2>3
<1>7. PICK F \in SUBSET (a + p .. a + p + n - 1) :
        Used' = Used \ F /\ s_map' \in [Pfns -> {"FREE", "USED"}]
  <2>1. Pfn(n * PAGE_SIZE) = n
    BY PfnOfPage
  <2>2. PICK b \in Nat, k \in Nat : b = a + p /\ k = n * PAGE_SIZE
    BY <1>5
  <2>3. bootmm_free_pages(b * PAGE_SIZE, k)
    BY <1>4, <1>5, <2>2
  <2>4. /\ s_map' \in [Pfns -> {"FREE", "USED"}]
        /\ \E F \in SUBSET (b .. b + Pfn(k) - 1) : Used' = Used \ F
    BY <2>3, FreesPages DEF BootInv
  <2> QED BY <2>1, <2>2, <2>4
<1>8. F \subseteq PagesOf(r)
  BY <1>3, <1>6, <1>7
\* A part of k pages from page b on.
<1>9. ASSUME NEW b \in Nat, NEW k \in Nat, NEW q, q.size > 0, q.size = k * PAGE_SIZE,
             q.start = b * PAGE_SIZE
      PROVE  q.size \in Nat \ {0} /\ k # 0 /\ PagesOf(q) = b .. b + k - 1
  <2>1. q.size \in Nat \ {0} /\ k # 0
    BY <1>2, <1>9
  <2>2. Pages(q.size) = k
    BY <1>9, <2>1, PageUpIs
  <2> QED BY <1>9, <2>1, <2>2, PagesOfIs
<1>10. ASSUME low.size > 0
       PROVE  low.size \in Nat \ {0} /\ PagesOf(low) = a .. a + p - 1
  <2>1. low.size = p * PAGE_SIZE /\ low.start = a * PAGE_SIZE
    BY <1>1, <1>2
  <2> HIDE DEF low
  <2> QED BY <1>9, <1>10, <2>1
<1>11. ASSUME high.size > 0
       PROVE  /\ high.size \in Nat \ {0} /\ p + n < c
              /\ PagesOf(high) = a + p + n .. a + c - 1
  <2>1. high.size = (c - (p + n)) * PAGE_SIZE /\ high.start = (a + p + n) * PAGE_SIZE
    BY <1>2, <1>5
  <2>2. c - (p + n) \in Nat /\ a + p + n \in Nat
    BY <1>3, <1>6
  <2> HIDE DEF high
  <2>3. /\ high.size \in Nat \ {0} /\ c - (p + n) # 0
        /\ PagesOf(high) = a + p + n .. (a + p + n) + (c - (p + n)) - 1
    BY <1>9, <1>11, <2>1, <2>2
  <2>4. (a + p + n) + (c - (p + n)) - 1 = a + c - 1
    BY <1>3
  <2> QED BY <1>3, <1>6, <2>3, <2>4
<1>12. low \in [start : Nat, size : Int, align : Nat \ {0}, type : Types \cup {"KERNEL"}]
  BY <1>2, <1>5
<1>13. high \in [start : Nat, size : Int, align : Nat \ {0}, type : Types \cup {"KERNEL"}]
  <2>1. r.start + p * PAGE_SIZE + n * PAGE_SIZE \in Nat
    BY <1>2, <1>5
  <2>2. rest \in Int /\ 1 \in Nat \ {0}
    BY <1>2, <1>3, <1>5
  <2> HIDE DEF rest
  <2> QED BY <1>2, <2>1, <2>2
<1>14. low.start = a * PAGE_SIZE /\ high.start = (a + p + n) * PAGE_SIZE
  BY <1>1, <1>2, <1>5
<1> HIDE DEF low, high
<1>15. ASSUME low.size > 0
       PROVE  /\ low \in [start : Nat, size : Nat \ {0}, align : Nat \ {0}, type : Types \cup {"KERNEL"}]
              /\ \E b \in Nat : b < MaxPfn /\ low.start = b * PAGE_SIZE
              /\ PagesOf(low) \subseteq PagesOf(r) \ F
  BY <1>1, <1>3, <1>6, <1>7, <1>10, <1>12, <1>14, <1>15
<1>16. ASSUME high.size > 0
       PROVE  /\ high \in [start : Nat, size : Nat \ {0}, align : Nat \ {0}, type : Types \cup {"KERNEL"}]
              /\ \E b \in Nat : b < MaxPfn /\ high.start = b * PAGE_SIZE
              /\ PagesOf(high) \subseteq PagesOf(r) \ F
  <2>1. a + p + n \in PagesOf(r)
    BY <1>3, <1>11, <1>16
  <2>2. a + p + n < MaxPfn
    BY <1>2, <2>1 DEF BootInv, NoDoubleAllocation, Used, Pfns
  <2>3. PagesOf(high) \subseteq PagesOf(r) \ F
    BY <1>3, <1>6, <1>7, <1>11, <1>16
  <2> QED BY <1>11, <1>13, <1>14, <1>16, <2>2, <2>3
<1>17. low.size > 0 /\ high.size > 0 => PagesOf(low) \cap PagesOf(high) = {}
  BY <1>3, <1>10, <1>11
<1> DEFINE parts == {q \in {low, high} : q.size > 0}
<1>18. \A q \in parts :
           /\ q \in [start : Nat, size : Nat \ {0}, align : Nat \ {0}, type : Types \cup {"KERNEL"}]
           /\ \E b \in Nat : b < MaxPfn /\ q.start = b * PAGE_SIZE
           /\ PagesOf(q) \subseteq PagesOf(r) \ F
  BY <1>15, <1>16
<1>19. ASSUME NEW q \in parts, NEW u \in parts, q # u PROVE PagesOf(q) \cap PagesOf(u) = {}
  BY <1>17, <1>19
<1> HIDE DEF parts
<1> QED BY <1>4, <1>7, <1>8, <1>18, <1>19, PartsKeep DEF parts

LEMMA BootStepInv == BootInv /\ [Alloc \/ Free \/ InitBuddy]_vars => BootInv'
<1> SUFFICES ASSUME BootInv, [Alloc \/ Free \/ InitBuddy]_vars PROVE BootInv'
  OBVIOUS
<1>1. CASE UNCHANGED vars
  BY <1>1 DEF vars, BootInv, BootTypeOK, NoDoubleAllocation, Reserved, Used, PagesOf, Pfn, PageUp
<1>2. CASE Alloc
  BY <1>2, AllocKeeps, BootAssumption DEF Alloc
<1>3. CASE InitBuddy
  <2>1. PagesSize \in Nat \ {0} /\ 1 \in Nat \ {0} /\ bootmm_alloc_pages(PagesSize, "KERNEL", 1)
    BY <1>3, BootAssumption DEF InitBuddy
  <2> QED BY <2>1, AllocKeeps
<1>4. CASE Free
  <2>1. PICK r \in owned : \/ FreeWhole(r)
                           \/ \E p \in 0 .. Pfn(r.size), n \in 1 .. Pfn(r.size) : FreePart(r, p, n)
    BY <1>4 DEF Free
  <2>2. CASE FreeWhole(r)
    BY <2>2, FreeWholeKeeps
  <2>3. ASSUME NEW p \in 0 .. Pfn(r.size), NEW n \in 1 .. Pfn(r.size), FreePart(r, p, n)
        PROVE  BootInv'
    <3>1. p \in Nat /\ n \in Nat \ {0}
      OBVIOUS
    <3> QED BY <2>3, <3>1, FreePartKeeps
  <2> QED BY <2>1, <2>2, <2>3
<1> QED BY <1>1, <1>2, <1>3, <1>4

\* No page is given out twice nor one of the kernel, and what a caller has stays
\* marked, whatever is allocated and given back (bootmm_alloc_pages, find_pages,
\* bootmm_free_pages).
THEOREM BootPagesApart == Spec => []NoDoubleAllocation
<1>1. Spec => []BootInv
  BY BootInitInv, BootStepInv, PTL DEF Spec
<1>2. BootInv => NoDoubleAllocation
  BY DEF BootInv
<1> QED BY <1>1, <1>2, PTL

-----------------------------------------------------------------------------
\* A search by single pages is a first fit, whatever is free: page 0 never is.
THEOREM SearchIsFirstFit == Spec => []FirstFit
<1>1. BootInv => FirstFit
  <2> SUFFICES ASSUME BootInv, NEW count \in 1 .. 3, NEW e \in 0 .. MaxPfn
               PROVE  LET runs == {i \in 1 .. e - count :
                                     \A t \in i .. i + count - 1 : s_map[t] = "FREE"}
                      IN  find_pages(count, 0, e, 1) = IF runs = {} THEN 0 ELSE Min(runs)
    BY DEF FirstFit
  <2> DEFINE runs == {i \in 1 .. e - count : \A t \in i .. i + count - 1 : s_map[t] = "FREE"}
             r    == find_pages(count, 0, e, 1)
  <2>1. count \in Nat \ {0} /\ e \in Nat /\ MaxPfn \in Nat \ {0} /\ e <= MaxPfn
    BY BootAssumption
  <2>2. PICK g : Scans(g, count, 0, e, 1)
    BY <2>1, FindScans
  <2>3. r = g[0] /\ \A i \in Nat : g[i] = Turn(g, i, count, e, 1)
    BY <2>2, RoundUpIs DEF Scans
  <2>4. s_map[0] = "USED" /\ s_map \in [Pfns -> {"FREE", "USED"}]
    <3>1. 0 \in Reserved
      BY BootAssumption DEF Reserved
    <3> QED BY <3>1 DEF BootInv, BootTypeOK, NoDoubleAllocation, Used
  <2>5. r = IF e = 0 THEN 0 ELSE g[1]
    BY <2>1, <2>3, <2>4 DEF Turn
  <2>6. \A i : i \in runs <=> i \in Nat \ {0} /\ Run(i, count, e)
    <3> SUFFICES ASSUME NEW i PROVE i \in runs <=> i \in Nat \ {0} /\ Run(i, count, e)
      OBVIOUS
    <3>1. ASSUME i \in Nat, i + count <= e
          PROVE  \A t \in i .. i + count - 1 : s_map[t] = "FREE" <=> s_map[t] # "USED"
      <4>1. \A t \in i .. i + count - 1 : t \in Pfns
        BY <2>1, <3>1 DEF Pfns
      <4> QED BY <2>4, <4>1
    <3>2. i \in 1 .. e - count <=> i \in Nat \ {0} /\ i + count <= e
      BY <2>1
    <3> QED BY <3>1, <3>2 DEF Run
  <2> HIDE DEF runs, r
  <2>7. \/ r = 0 /\ runs = {}
        \/ r \in runs /\ \A i \in runs : r <= i
    <3>1. CASE e = 0
      <4>1. \A i \in Nat \ {0} : ~Run(i, count, e)
        BY <2>1, <3>1 DEF Run
      <4> QED BY <2>5, <2>6, <3>1, <4>1
    <3>2. CASE e # 0
      <4>1. \/ r = 0 /\ \A j \in Nat : j >= 1 => ~Run(j, count, e)
            \/ /\ r \in Nat /\ r >= 1 /\ Run(r, count, e)
               /\ \A j \in Nat : j >= 1 /\ j < r => ~Run(j, count, e)
        BY <2>1, <2>3, <2>5, <3>2, ScanFindsFirst
      <4> QED BY <2>6, <4>1
    <3> QED BY <3>1, <3>2
  <2>8. runs # {} => Min(runs) \in runs /\ \A i \in runs : Min(runs) <= i
    <3>1. runs \in SUBSET Nat
      BY <2>6
    <3> QED BY <3>1, MinIs
  <2>9. \A i \in runs : i \in Nat /\ i # 0
    BY <2>6
  <2>10. r = IF runs = {} THEN 0 ELSE Min(runs)
    BY <2>7, <2>8, <2>9
  <2> QED BY <2>10 DEF runs, r
<1>2. Spec => []BootInv
  BY BootInitInv, BootStepInv, PTL DEF Spec
<1> QED BY <1>1, <1>2, PTL

-----------------------------------------------------------------------------
(***************************************************************************)
(* The list of regions, while nothing is given back and all requests are   *)
(* for whole pages without further alignment, as they are when the kernel  *)
(* boots.  Each allocation is then behind all memory in use, the region it *)
(* adds is behind all regions, and the only entry it can extend is the     *)
(* last one.                                                               *)
(***************************************************************************)
Usages == Types \cup {"KERNEL", "MMMAP"}

Entry == [start : Nat, end : Nat, type : Usages]

\* An entry is pages a to b - 1.
Spans(r, a, b) == r.start = a * PAGE_SIZE /\ r.end = b * PAGE_SIZE - 1

\* The entries of list l are behind each other, the last one ends before page m.
Ordered(l, m) ==
  /\ l \in Seq(Entry) /\ l # <<>>
  /\ \A k \in DOMAIN l : \E a, b \in 0 .. m : a < b /\ Spans(l[k], a, b)
  /\ \A j, k \in DOMAIN l : j < k => l[j].end < l[k].start
  /\ l[Len(l)].end = m * PAGE_SIZE - 1

\* The pages that list l says are in use.
PagesIn(l) == UNION {Pfn(l[k].start) .. Pfn(l[k].end) : k \in DOMAIN l}

ListInv == Used = 0 .. last_alloc /\ Ordered(info, last_alloc + 1)

RecordInv ==
  /\ plain \in BOOLEAN
  /\ plain => ListInv /\ InfoRecordsUsage /\ RegionsFindable
  /\ BuddyStartsBehind

LEMMA SpanIs ==
  ASSUME NEW r, NEW a \in Nat, NEW b \in Nat, a < b, Spans(r, a, b)
  PROVE  Pfn(r.start) = a /\ Pfn(r.end) = b - 1 /\ r.start <= r.end /\ r.end \in Nat /\ r.start \in Nat
<1>1. PAGE_SIZE \in Nat \ {0}
  BY BootAssumption
<1>2. a * PAGE_SIZE \in Nat /\ b * PAGE_SIZE \in Nat /\ a * PAGE_SIZE < b * PAGE_SIZE
  BY <1>1, Scale
<1>3. (b - 1) * PAGE_SIZE = b * PAGE_SIZE - PAGE_SIZE /\ (b - 1) + 1 = b
  BY <1>1
<1>4. r.end \in Nat /\ (b - 1) * PAGE_SIZE <= r.end /\ r.end < b * PAGE_SIZE /\ b - 1 \in Nat
  BY <1>1, <1>2, <1>3 DEF Spans
<1>5. Pfn(r.end) = b - 1
  BY <1>3, <1>4, PfnIs
<1> QED BY <1>2, <1>4, <1>5, PfnOfPage DEF Spans

\* The region of a caller is in entry k of list l.
InEntry(l, k, r) ==
  l[k].type = r.type /\ l[k].start <= r.start /\ r.start + PageUp(r.size) - 1 <= l[k].end

\* A region behind all others: the last entry is extended, or there is a new one.
LEMMA InsertLast ==
  ASSUME NEW l \in Seq(Entry), NEW s \in Nat, NEW e \in Nat, NEW t \in Usages,
         \A k \in DOMAIN l : l[k].end = s - 1 => k = Len(l)
  PROVE  insert_mminfo(l, s, e, t) =
           IF l # <<>> /\ l[Len(l)].type = t /\ l[Len(l)].end = s - 1
           THEN [l EXCEPT ![Len(l)].end = e]
           ELSE Append(l, Region(s, e, t))
<1> DEFINE fits == {k \in DOMAIN l : l[k].type = t /\ l[k].end = s - 1}
           n    == Len(l)
<1>1. n \in Nat /\ DOMAIN l = 1 .. n /\ (l # <<>> <=> n # 0)
  OBVIOUS
<1>2. CASE l # <<>> /\ l[n].type = t /\ l[n].end = s - 1
  <2>1. fits = {n}
    BY <1>1, <1>2
  <2>2. Min(fits) = n
    <3>1. fits \in SUBSET Nat
      BY <1>1
    <3> QED BY <2>1, <3>1, MinIs
  <2> HIDE DEF fits, n
  <2>3. ~(n < n)
    BY <1>1
  <2> QED BY <1>2, <2>1, <2>2, <2>3 DEF insert_mminfo, fits, n
<1>3. CASE ~(l # <<>> /\ l[n].type = t /\ l[n].end = s - 1)
  <2>1. fits = {}
    BY <1>1, <1>3
  <2> QED BY <1>3, <2>1 DEF insert_mminfo
<1> QED BY <1>2, <1>3

\* The list after c pages from page m on have been added for type t.
Grown(l, m, c, t) == insert_mminfo(l, m * PAGE_SIZE, (m + c) * PAGE_SIZE - 1, t)

Grows(l, l2, m, c, t) ==
  /\ Ordered(l2, m + c)
  /\ PagesIn(l2) = PagesIn(l) \cup (m .. m + c - 1)
  /\ \A k \in DOMAIN l : /\ k \in DOMAIN l2 /\ l2[k].type = l[k].type
                         /\ l2[k].start = l[k].start /\ l[k].end <= l2[k].end
  /\ l2[Len(l2)].type = t /\ l2[Len(l2)].start <= m * PAGE_SIZE
  /\ l2[Len(l2)].end = (m + c) * PAGE_SIZE - 1

LEMMA ListGrows ==
  ASSUME NEW l, NEW m \in Nat, NEW c \in Nat \ {0}, NEW t \in Usages, Ordered(l, m),
         NEW l2, l2 = Grown(l, m, c, t)
  PROVE  Grows(l, l2, m, c, t)
<1> DEFINE n == Len(l)
           s == m * PAGE_SIZE
           e == (m + c) * PAGE_SIZE - 1
<1>1. /\ l \in Seq(Entry) /\ n \in Nat \ {0} /\ DOMAIN l = 1 .. n /\ n \in DOMAIN l
      /\ \A k \in DOMAIN l : l[k] \in Entry
  BY DEF Ordered
<1>2. s \in Nat /\ (m + c) * PAGE_SIZE \in Nat /\ s < (m + c) * PAGE_SIZE /\ s <= e /\ e \in Nat
  <2>1. s \in Nat /\ (m + c) * PAGE_SIZE \in Nat /\ s < (m + c) * PAGE_SIZE
    BY BootAssumption, Scale
  <2> QED BY <2>1
<1>3. \A k \in DOMAIN l : l[k].start <= l[k].end
  <2> SUFFICES ASSUME NEW k \in DOMAIN l PROVE l[k].start <= l[k].end
    OBVIOUS
  <2>1. PICK a \in 0 .. m, b \in 0 .. m : a < b /\ Spans(l[k], a, b)
    BY DEF Ordered
  <2> QED BY <2>1, SpanIs
<1>4. l[n].end = s - 1 /\ \A k \in DOMAIN l : k # n => l[k].end < l[n].start
  BY <1>1 DEF Ordered
<1>5. \A k \in DOMAIN l : l[k].end = s - 1 => k = n
  <2> SUFFICES ASSUME NEW k \in DOMAIN l, k # n PROVE l[k].end < s - 1
    BY <1>2, <1>4
  <2>1. /\ l[k].end < l[n].start /\ l[n].start <= l[n].end
        /\ l[k].end \in Nat /\ l[n].start \in Nat
    BY <1>1, <1>3, <1>4 DEF Entry
  <2> QED BY <1>2, <1>4, <2>1
<1>6. \A k \in DOMAIN l : \E a, b \in 0 .. m + c : a < b /\ Spans(l[k], a, b)
  BY DEF Ordered
<1> HIDE DEF s, e
<1>7. l2 = IF l[n].type = t THEN [l EXCEPT ![n].end = e] ELSE Append(l, Region(s, e, t))
  <2>1. l2 = insert_mminfo(l, s, e, t)
    BY DEF s, e, Grown
  <2> QED BY <1>1, <1>2, <1>4, <1>5, <2>1, InsertLast
<1>8. e = (m + c) * PAGE_SIZE - 1 /\ s = m * PAGE_SIZE
  BY DEF s, e
<1>9. CASE l[n].type = t
  <2>1. l2 = [l EXCEPT ![n].end = e]
    BY <1>7, <1>9
  <2>2. /\ l2[n] = [l[n] EXCEPT !.end = e] /\ \A k \in DOMAIN l : k # n => l2[k] = l[k]
        /\ l2[n].start = l[n].start /\ l2[n].type = t /\ l2[n].end = e
    BY <1>1, <1>9, <2>1 DEF Entry
  <2>3. l2 \in Seq(Entry) /\ DOMAIN l2 = DOMAIN l /\ Len(l2) = n /\ l2 # <<>>
    <3>1. [l[n] EXCEPT !.end = e] \in Entry
      BY <1>1, <1>2 DEF Entry
    <3>2. l2 = [l EXCEPT ![n] = [l[n] EXCEPT !.end = e]]
      BY <2>1
    <3> QED BY <1>1, <3>1, <3>2
  <2>4. PICK a \in 0 .. m, b \in 0 .. m : a < b /\ Spans(l[n], a, b)
    BY <1>1 DEF Ordered
  <2>5. b = m
    <3>1. b * PAGE_SIZE = m * PAGE_SIZE
      <4>1. b * PAGE_SIZE \in Int /\ m * PAGE_SIZE \in Int
        BY BootAssumption, Scale
      <4> QED BY <1>4, <1>8, <2>4, <4>1 DEF Spans
    <3> QED BY <3>1, Scale, BootAssumption
  <2>6. Spans(l2[n], a, m + c)
    BY <1>8, <2>2, <2>4 DEF Spans
  <2>7. \A k \in DOMAIN l2 : \E x, y \in 0 .. m + c : x < y /\ Spans(l2[k], x, y)
    <3>1. a \in 0 .. m + c /\ m + c \in 0 .. m + c /\ a < m + c
      BY <2>4
    <3> QED BY <1>6, <2>2, <2>3, <2>6, <3>1
  <2>8. \A j, k \in DOMAIN l2 : j < k => l2[j].end < l2[k].start
    <3> SUFFICES ASSUME NEW j \in DOMAIN l, NEW k \in DOMAIN l, j < k
                 PROVE  l2[j].end < l2[k].start
      BY <2>3
    <3>1. j \in Nat /\ k \in Nat /\ k <= n /\ n \in Nat
      BY <1>1
    <3>2. j # n
      BY <3>1
    <3>3. l2[j] = l[j] /\ l2[k].start = l[k].start
      BY <2>2, <3>2
    <3> QED BY <3>3 DEF Ordered
  <2>9. Ordered(l2, m + c)
    BY <1>8, <2>2, <2>3, <2>7, <2>8 DEF Ordered
  <2>10. PagesIn(l2) = PagesIn(l) \cup (m .. m + c - 1)
    <3>1. /\ Pfn(l[n].start) = a /\ Pfn(l[n].end) = m - 1
          /\ Pfn(l2[n].start) = a /\ Pfn(l2[n].end) = m + c - 1
      BY <2>4, <2>5, <2>6, SpanIs
    <3>2. a .. m + c - 1 = (a .. m - 1) \cup (m .. m + c - 1)
      BY <2>4, <2>5
    <3>3. \A p : p \in PagesIn(l2) <=>
            \/ \E k \in DOMAIN l : k # n /\ p \in Pfn(l[k].start) .. Pfn(l[k].end)
            \/ p \in a .. m + c - 1
      <4>1. \A p : p \in PagesIn(l2) <=> \E k \in DOMAIN l : p \in Pfn(l2[k].start) .. Pfn(l2[k].end)
        BY <2>3 DEF PagesIn
      <4>2. \A k \in DOMAIN l : k # n => Pfn(l2[k].start) .. Pfn(l2[k].end) = Pfn(l[k].start) .. Pfn(l[k].end)
        BY <2>2
      <4>3. Pfn(l2[n].start) .. Pfn(l2[n].end) = a .. m + c - 1
        BY <3>1
      <4> QED BY <1>1, <4>1, <4>2, <4>3
    <3>4. \A p : p \in PagesIn(l) <=>
            \/ \E k \in DOMAIN l : k # n /\ p \in Pfn(l[k].start) .. Pfn(l[k].end)
            \/ p \in a .. m - 1
      BY <1>1, <3>1 DEF PagesIn
    <3> QED BY <3>2, <3>3, <3>4
  <2>11. \A k \in DOMAIN l : /\ k \in DOMAIN l2 /\ l2[k].type = l[k].type
                             /\ l2[k].start = l[k].start /\ l[k].end <= l2[k].end
    <3>1. l[n].end <= e
      BY <1>2, <1>4
    <3>2. \A k \in DOMAIN l : l[k].end <= l[k].end
      BY <1>1 DEF Entry
    <3> QED BY <1>9, <2>2, <2>3, <3>1, <3>2
  <2>12. l2[Len(l2)].start <= s
    <3>1. l[n].start \in Nat /\ l[n].end \in Nat /\ l[n].start <= l[n].end
      BY <1>1, <1>3 DEF Entry
    <3>2. l[n].start <= s
      BY <1>2, <1>4, <3>1
    <3> QED BY <2>2, <2>3, <3>2
  <2> QED BY <1>8, <2>2, <2>3, <2>9, <2>10, <2>11, <2>12 DEF Grows
<1>10. CASE l[n].type # t
  <2> DEFINE new == Region(s, e, t)
  <2>1. l2 = Append(l, new)
    BY <1>7, <1>10
  <2>2. new \in Entry /\ new.start = s /\ new.end = e /\ new.type = t
    BY <1>2 DEF Region, Entry
  <2> HIDE DEF new
  <2>3. /\ l2 \in Seq(Entry) /\ DOMAIN l2 = 1 .. n + 1 /\ Len(l2) = n + 1 /\ l2 # <<>>
        /\ l2[n + 1] = new /\ \A k \in DOMAIN l : l2[k] = l[k]
    BY <1>1, <2>1, <2>2
  <2>4. Spans(l2[n + 1], m, m + c) /\ m < m + c
    BY <1>8, <2>2, <2>3 DEF Spans
  <2>5. \A k \in DOMAIN l2 : k = n + 1 \/ k \in DOMAIN l
    BY <1>1, <2>3
  <2>6. \A k \in DOMAIN l2 : \E x, y \in 0 .. m + c : x < y /\ Spans(l2[k], x, y)
    <3>1. m \in 0 .. m + c /\ m + c \in 0 .. m + c
      OBVIOUS
    <3> QED BY <1>6, <2>3, <2>4, <2>5, <3>1
  <2>7. \A j, k \in DOMAIN l2 : j < k => l2[j].end < l2[k].start
    <3> SUFFICES ASSUME NEW j \in DOMAIN l2, NEW k \in DOMAIN l2, j < k
                 PROVE  l2[j].end < l2[k].start
      OBVIOUS
    <3>1. j \in DOMAIN l /\ l2[j] = l[j]
      BY <1>1, <2>3
    <3>2. CASE k \in DOMAIN l
      BY <2>3, <3>1, <3>2 DEF Ordered
    <3>3. CASE k = n + 1
      <4>1. l[j].end < s
        <5>1. l[j].end \in Nat /\ l[n].start \in Nat /\ l[n].end \in Nat /\ l[n].start <= l[n].end
          BY <1>1, <1>3, <3>1 DEF Entry
        <5> QED BY <1>2, <1>4, <3>1, <5>1
      <4> QED BY <2>2, <2>3, <3>1, <3>3, <4>1
    <3> QED BY <2>5, <3>2, <3>3
  <2>8. Ordered(l2, m + c)
    BY <1>8, <2>2, <2>3, <2>6, <2>7 DEF Ordered
  <2>9. PagesIn(l2) = PagesIn(l) \cup (m .. m + c - 1)
    <3>1. Pfn(l2[n + 1].start) = m /\ Pfn(l2[n + 1].end) = m + c - 1
      BY <2>4, SpanIs
    <3>2. \A p : p \in PagesIn(l2) <=>
            \/ \E k \in DOMAIN l : p \in Pfn(l[k].start) .. Pfn(l[k].end)
            \/ p \in m .. m + c - 1
      BY <1>1, <2>3, <2>5, <3>1 DEF PagesIn
    <3> QED BY <3>2 DEF PagesIn
  <2>10. \A k \in DOMAIN l : /\ k \in DOMAIN l2 /\ l2[k].type = l[k].type
                             /\ l2[k].start = l[k].start /\ l[k].end <= l2[k].end
    <3>1. \A k \in DOMAIN l : l[k].end <= l[k].end
      BY <1>1 DEF Entry
    <3> QED BY <1>1, <2>3, <3>1
  <2>11. s <= s
    BY <1>2
  <2> QED BY <1>8, <2>2, <2>3, <2>8, <2>9, <2>10, <2>11 DEF Grows
<1> QED BY <1>9, <1>10

\* An allocation is right behind the one before.
LEMMA PlaceNext ==
  ASSUME BootTypeOK, ListInv, NEW size \in Nat \ {0}, Place(size, 1) # 0
  PROVE  Place(size, 1) = last_alloc + 1
<1> DEFINE c     == Pages(size)
           i     == last_alloc + 1
           above == find_pages(c, i, MaxPfn, 1)
           below == find_pages(c, 0, last_alloc, 1)
<1>1. /\ c \in Nat \ {0} /\ i \in Nat /\ last_alloc \in Nat /\ MaxPfn \in Nat
      /\ s_map \in [Pfns -> {"FREE", "USED"}]
  BY PageUpIs, BootAssumption DEF BootTypeOK, Pfns
<1>2. Place(size, 1) = IF above # 0 THEN above ELSE below
  BY DEF Place, Pages
<1> HIDE DEF c
<1>3. below = 0
  <2> below \in Nat /\ (below = 0 \/ Run(below, c, last_alloc))
    <3>1. 0 \in Nat /\ 1 \in Nat \ {0} /\ c \in Nat
      BY <1>1
    <3> QED BY <1>1, <3>1, FindsRun
  <2> HIDE DEF below
  <2>1. below \in Nat /\ (below = 0 \/ Run(below, c, last_alloc))
    OBVIOUS
  <2>2. ASSUME Run(below, c, last_alloc) PROVE FALSE
    <3>1. below \in below .. below + c - 1 /\ below \in 0 .. last_alloc
      BY <1>1, <2>1, <2>2 DEF Run
    <3>2. s_map[below] = "USED"
      BY <3>1 DEF ListInv, Used
    <3> QED BY <2>2, <3>1, <3>2 DEF Run
  <2> QED BY <2>1, <2>2
<1>4. above \in {0, i}
  <2>1. PICK g : Scans(g, c, i, MaxPfn, 1)
    BY <1>1, FindScans
  <2>2. above = g[i] /\ g[i] = Turn(g, i, c, MaxPfn, 1)
    BY <1>1, <2>1, RoundUpIs DEF Scans
  <2>3. \A t \in Nat : t >= i /\ t < MaxPfn => s_map[t] # "USED"
    BY <1>1 DEF ListInv, Used, Pfns
  <2> DEFINE S == StopsAt(i, c, MaxPfn)
  <2>4. S # {} => Min(S) >= MaxPfn
    <3>1. S \in SUBSET Nat /\ \A t \in S : t >= MaxPfn
      BY <1>1, <2>3 DEF StopsAt
    <3> HIDE DEF S
    <3> QED BY <3>1, MinIs
  <2> QED BY <1>1, <2>2, <2>3, <2>4 DEF Turn
<1> QED BY <1>2, <1>3, <1>4

\* No two entries of such a list share a byte.
LEMMA ApartIn ==
  ASSUME NEW l, NEW m, Ordered(l, m)
  PROVE  \A j, k \in DOMAIN l : j # k => l[j].end < l[k].start \/ l[k].end < l[j].start
<1>1. \A j, k \in DOMAIN l : j # k => j < k \/ k < j
  BY DEF Ordered
<1> QED BY <1>1 DEF Ordered

LEMMA ListInit == Init => ListInv /\ InfoRecordsUsage /\ RegionsFindable
<1> SUFFICES ASSUME Init PROVE ListInv /\ InfoRecordsUsage /\ RegionsFindable
  OBVIOUS
<1> DEFINE R == Region(0, KernelPages * PAGE_SIZE - 1, "KERNEL")
           l == <<R>>
<1>1. /\ KernelPages \in Nat \ {0} /\ MapPages \in Nat \ {0} /\ PAGE_SIZE \in Nat \ {0}
      /\ KernelPages * PAGE_SIZE \in Nat \ {0} /\ KernelPages * PAGE_SIZE - 1 \in Nat
  <2>1. /\ 0 * PAGE_SIZE < KernelPages * PAGE_SIZE /\ 0 * PAGE_SIZE = 0
        /\ KernelPages * PAGE_SIZE \in Nat
    BY BootAssumption, Scale
  <2> QED BY <2>1, BootAssumption
<1>2. R \in Entry /\ Spans(R, 0, KernelPages) /\ R.type = "KERNEL" /\ R.start = 0
  BY <1>1 DEF Entry, Spans, Region, Usages
<1>3. l = insert_mminfo(<<>>, 0, KernelPages * PAGE_SIZE - 1, "KERNEL")
  <2>1. /\ <<>> \in Seq(Entry) /\ 0 \in Nat /\ "KERNEL" \in Usages
        /\ \A k \in DOMAIN <<>> : <<>>[k].end = 0 - 1 => k = Len(<<>>)
    BY DEF Usages
  <2>2. insert_mminfo(<<>>, 0, KernelPages * PAGE_SIZE - 1, "KERNEL")
          = IF <<>> # <<>> /\ <<>>[Len(<<>>)].type = "KERNEL" /\ <<>>[Len(<<>>)].end = 0 - 1
            THEN [<<>> EXCEPT ![Len(<<>>)].end = KernelPages * PAGE_SIZE - 1]
            ELSE Append(<<>>, R)
    <3> HIDE DEF l
    <3> QED BY ONLY <1>1, <2>1, InsertLast
  <2>3. Append(<<>>, R) = l
    OBVIOUS
  <2> QED BY <2>2, <2>3
<1> HIDE DEF R
<1>4. l \in Seq(Entry) /\ l # <<>> /\ DOMAIN l = {1} /\ l[1] = R /\ Len(l) = 1
  BY <1>2
<1> HIDE DEF l
<1>5. Ordered(l, KernelPages)
  <2>1. \A k \in DOMAIN l : \E a, b \in 0 .. KernelPages : a < b /\ Spans(l[k], a, b)
    <3>1. 0 \in 0 .. KernelPages /\ KernelPages \in 0 .. KernelPages /\ 0 < KernelPages
      BY <1>1
    <3> QED BY <1>2, <1>4, <3>1
  <2>2. \A j, k \in DOMAIN l : ~(j < k)
    BY <1>4
  <2> QED BY <1>2, <1>4, <2>1, <2>2 DEF Ordered, Spans
<1>6. PagesIn(l) = 0 .. KernelPages - 1
  <2>1. Pfn(R.start) = 0 /\ Pfn(R.end) = KernelPages - 1
    BY <1>1, <1>2, SpanIs
  <2> QED BY <1>4, <2>1 DEF PagesIn
<1>7. info = Grown(l, KernelPages, MapPages, "MMMAP")
  BY <1>3 DEF Init, MapStart, MapEnd, Grown
<1>8. /\ Ordered(info, KernelPages + MapPages)
      /\ PagesIn(info) = PagesIn(l) \cup (KernelPages .. KernelPages + MapPages - 1)
  <2>1. "MMMAP" \in Usages
    BY DEF Usages
  <2>2. Grows(l, info, KernelPages, MapPages, "MMMAP")
    BY <1>1, <1>5, <1>7, <2>1, ListGrows
  <2> QED BY <2>2 DEF Grows
<1>9. last_alloc = KernelPages + MapPages - 1 /\ last_alloc + 1 = KernelPages + MapPages
  <2>1. Pfn(MapEnd) = KernelPages + MapPages
    BY <1>1, PfnOfPage DEF MapEnd
  <2> QED BY <1>1, <2>1 DEF Init
<1>10. Used = 0 .. last_alloc
  BY <1>1, <1>9, BootAssumption DEF Init, Used, Pfns
<1>11. ListInv
  BY <1>8, <1>9, <1>10 DEF ListInv
<1>12. InfoRecordsUsage
  <2>1. Listed = PagesIn(info)
    BY DEF Listed, PagesIn
  <2> QED BY <1>1, <1>6, <1>8, <1>9, <1>10, <2>1 DEF InfoRecordsUsage
<1>13. RegionsFindable
  BY <1>8, ApartIn DEF RegionsFindable, Init
<1> QED BY <1>11, <1>12, <1>13

LEMMA ListStep ==
  ASSUME BootInv, ListInv, InfoRecordsUsage, RegionsFindable, NEW size \in Nat \ {0},
         NEW type \in Types \cup {"KERNEL"}, bootmm_alloc_pages(size, type, 1)
  PROVE  ListInv' /\ InfoRecordsUsage' /\ RegionsFindable'
<1> DEFINE c   == Pages(size)
           at  == last_alloc + 1
           a   == at * PAGE_SIZE
           new == [start |-> a, size |-> size, align |-> 1, type |-> type]
           e   == (at + c) * PAGE_SIZE - 1
<1>1. /\ c \in Nat \ {0} /\ PageUp(size) = c * PAGE_SIZE /\ last_alloc \in Nat /\ at \in Nat
      /\ at + c \in Nat /\ PAGE_SIZE \in Nat \ {0} /\ a \in Nat
  <2>1. last_alloc \in Nat /\ at \in Nat /\ PAGE_SIZE \in Nat \ {0}
    BY BootAssumption DEF BootInv, BootTypeOK, Pfns
  <2>2. c \in Nat \ {0} /\ PageUp(size) = c * PAGE_SIZE
    BY PageUpIs
  <2> HIDE DEF c
  <2>3. a \in Nat /\ at + c \in Nat
    BY <2>1, <2>2, PfnOfPage
  <2> QED BY <2>1, <2>2, <2>3
<1>2. Place(size, 1) = at /\ Place(size, 1) # 0
  BY PlaceNext DEF BootInv, bootmm_alloc_pages
<1>3. /\ owned' = owned \cup {new} /\ last_alloc' = at + c - 1
      /\ s_map' = [p \in Pfns |-> IF p \in at .. at + c - 1 THEN "USED" ELSE s_map[p]]
      /\ info' = insert_mminfo(info, a, a + PageUp(size) - 1, type)
  BY <1>2 DEF bootmm_alloc_pages, LastPage, set_maps, Pages
<1>4. a + PageUp(size) - 1 = e
  <2>1. (at + c) * PAGE_SIZE = at * PAGE_SIZE + c * PAGE_SIZE
    BY <1>1
  <2> QED BY <1>1, <2>1
<1>5. new.start = a /\ new.size = size /\ new.type = type
  OBVIOUS
<1>6. at + c <= MaxPfn /\ MaxPfn \in Nat
  BY <1>2, PlaceIs, BootAssumption DEF BootInv
<1>7. type \in Usages /\ Ordered(info, at)
  BY DEF Usages, ListInv
<1> HIDE DEF new, c, at
<1>8. info' = Grown(info, at, c, type)
  BY <1>3, <1>4 DEF Grown
<1>9. /\ Ordered(info', at + c)
      /\ PagesIn(info') = PagesIn(info) \cup (at .. at + c - 1)
      /\ \A k \in DOMAIN info : /\ k \in DOMAIN info' /\ info'[k].type = info[k].type
                                /\ info'[k].start = info[k].start /\ info[k].end <= info'[k].end
      /\ info'[Len(info')].type = type /\ info'[Len(info')].start <= at * PAGE_SIZE
      /\ info'[Len(info')].end = (at + c) * PAGE_SIZE - 1
  <2>1. Grows(info, info', at, c, type)
    BY <1>1, <1>7, <1>8, ListGrows
  <2> QED BY <2>1 DEF Grows
<1>10. Used' = Used \cup (at .. at + c - 1)
  <2>1. \A p \in Pfns : s_map'[p] = "USED" <=> p \in at .. at + c - 1 \/ s_map[p] = "USED"
    BY <1>3
  <2>2. \A p \in at .. at + c - 1 : p \in Pfns
    BY <1>1, <1>6 DEF Pfns
  <2> QED BY <2>1, <2>2 DEF Used
<1>11. ListInv'
  <2>1. last_alloc' + 1 = at + c
    BY <1>1, <1>3
  <2>2. Used' = 0 .. last_alloc'
    <3>1. Used = 0 .. last_alloc
      BY DEF ListInv
    <3> QED BY <1>1, <1>3, <1>10, <3>1 DEF at
  <2> QED BY <1>9, <2>1, <2>2 DEF ListInv
<1>12. InfoRecordsUsage'
  <2>1. Listed = PagesIn(info) /\ Listed' = PagesIn(info')
    BY DEF Listed, PagesIn, Pfn
  <2> QED BY <1>9, <1>10, <2>1 DEF InfoRecordsUsage
<1>13. RegionsFindable'
  <2>1. \A j, k \in DOMAIN info' :
          j # k => info'[j].end < info'[k].start \/ info'[k].end < info'[j].start
    BY <1>9, ApartIn
  <2>2. ASSUME NEW r \in owned
        PROVE  \E k \in DOMAIN info' : InEntry(info', k, r)
    <3>1. PICK k \in DOMAIN info : InEntry(info, k, r)
      BY DEF RegionsFindable, InEntry
    <3>2. /\ k \in DOMAIN info' /\ info'[k].type = info[k].type
          /\ info'[k].start = info[k].start /\ info[k].end <= info'[k].end
      BY <1>9
    <3>3. r.start \in Nat /\ PageUp(r.size) \in Nat
      <4>1. r.start \in Nat /\ r.size \in Nat \ {0}
        BY DEF BootInv, BootTypeOK
      <4>2. Pages(r.size) \in Nat /\ PageUp(r.size) = Pages(r.size) * PAGE_SIZE
        BY <4>1, PageUpIs
      <4> QED BY <1>1, <4>1, <4>2
    <3>4. info[k].end \in Nat /\ info'[k].end \in Nat
      <4>1. info \in Seq(Entry) /\ info' \in Seq(Entry)
        BY <1>7, <1>9 DEF Ordered
      <4>2. info[k] \in Entry /\ info'[k] \in Entry
        BY <3>2, <4>1
      <4> QED BY <4>2 DEF Entry
    <3>5. r.start + PageUp(r.size) - 1 <= info'[k].end
      BY <3>1, <3>2, <3>3, <3>4 DEF InEntry
    <3> QED BY <3>1, <3>2, <3>5 DEF InEntry
  <2>3. \E k \in DOMAIN info' : InEntry(info', k, new)
    <3>1. Len(info') \in DOMAIN info'
      BY <1>9 DEF Ordered
    <3>2. e <= e
      BY <1>1, Scale
    <3> QED BY <1>4, <1>5, <1>9, <3>1, <3>2 DEF InEntry
  <2>4. \A r \in owned' : \E k \in DOMAIN info' : InEntry(info', k, r)
    BY <1>3, <2>2, <2>3
  <2>5. \A r : PageUp(r)' = PageUp(r)
    BY DEF PageUp
  <2> QED BY <2>1, <2>4 DEF RegionsFindable, InEntry, PageUp
<1> QED BY <1>11, <1>12, <1>13

\* The largest end is that of the last entry.
LEMMA EndIs ==
  ASSUME NEW l, NEW m \in Nat, Ordered(l, m + 1)
  PROVE  KernelEndPfn(l) = m
<1> DEFINE ends == {l[k].end : k \in DOMAIN l}
           n    == Len(l)
<1>1. /\ n \in DOMAIN l /\ DOMAIN l = 1 .. n /\ n \in Nat
      /\ \A k \in DOMAIN l : l[k] \in Entry /\ l[k].start \in Nat /\ l[k].end \in Nat
  <2>1. l \in Seq(Entry) /\ l # <<>>
    BY DEF Ordered
  <2>2. \A k \in DOMAIN l : l[k] \in Entry
    BY <2>1
  <2>3. n \in DOMAIN l /\ DOMAIN l = 1 .. n /\ n \in Nat
    BY <2>1
  <2> QED BY <2>2, <2>3 DEF Entry
<1>2. PICK a \in 0 .. m + 1, b \in 0 .. m + 1 : a < b /\ Spans(l[n], a, b)
  BY <1>1 DEF Ordered
<1>3. l[n].start <= l[n].end /\ Pfn(l[n].end) = b - 1
  BY <1>2, SpanIs
<1>4. \A k \in DOMAIN l : l[k].end <= l[n].end
  <2> SUFFICES ASSUME NEW k \in DOMAIN l, k # n PROVE l[k].end <= l[n].end
    BY <1>1
  <2>1. l[k].end < l[n].start
    BY <1>1 DEF Ordered
  <2> QED BY <1>1, <1>3, <2>1
<1>5. Max(ends) = l[n].end
  <2>1. \A x \in ends : x \in Nat /\ x <= l[n].end
    BY <1>1, <1>4
  <2>2. l[n].end \in ends
    BY <1>1
  <2> HIDE DEF ends
  <2>3. \E x \in ends : \A y \in ends : x >= y
    BY <2>1, <2>2
  <2>4. Max(ends) \in ends /\ \A y \in ends : Max(ends) >= y
    BY <2>3 DEF Max
  <2> QED BY <2>1, <2>2, <2>4
<1>6. b = m + 1
  <2>1. b * PAGE_SIZE \in Int /\ (m + 1) * PAGE_SIZE \in Int
    BY BootAssumption, Scale
  <2>2. b * PAGE_SIZE = (m + 1) * PAGE_SIZE
    BY <1>2, <2>1 DEF Spans, Ordered
  <2> QED BY <2>2, Scale, BootAssumption
<1>7. b - 1 = m
  BY <1>6
<1> QED BY <1>3, <1>5, <1>7 DEF KernelEndPfn

LEMMA AlignedUp ==
  ASSUME NEW x \in Nat
  PROVE  x <= Aligned(x + 2^MAX_BUDDY_ORDER - 1)
<1> DEFINE d == 2^MAX_BUDDY_ORDER
           y == x + d - 1
<1>1. d \in Nat \ {0}
  BY ShiftAssumption
<1>2. Aligned(y) = (y \div d) * d
  BY DEF Aligned
<1> HIDE DEF d
<1>3. y \in Nat
  BY <1>1
<1>4. y \div d \in Nat /\ y - d * (y \div d) \in 0 .. d - 1
  BY <1>1, <1>3, Division
<1>5. (y \div d) * d = d * (y \div d) /\ d * (y \div d) \in Nat
  BY <1>1, <1>3, <1>4
<1> QED BY <1>1, <1>2, <1>4, <1>5 DEF d

-----------------------------------------------------------------------------
LEMMA RecordStep == BootInv /\ RecordInv /\ [Alloc \/ Free \/ InitBuddy]_vars => RecordInv'
<1> SUFFICES ASSUME BootInv, RecordInv, [Alloc \/ Free \/ InitBuddy]_vars PROVE RecordInv'
  OBVIOUS
<1>1. BootInv'
  BY BootStepInv
<1>2. CASE UNCHANGED vars
  BY <1>2 DEF vars, RecordInv, ListInv, InfoRecordsUsage, RegionsFindable, BuddyStartsBehind,
     Used, Listed, PageUp, Pfn, NotYet
<1>3. CASE Alloc
  <2>1. PICK size \in Sizes, type \in Types, align \in Aligns : bootmm_alloc_pages(size, type, align)
    BY <1>3 DEF Alloc
  <2>2. size \in Nat \ {0} /\ plain' = (plain /\ align = 1)
    BY <2>1, BootAssumption DEF bootmm_alloc_pages
  <2>3. plain' => ListInv' /\ InfoRecordsUsage' /\ RegionsFindable'
    <3> SUFFICES ASSUME plain' PROVE ListInv' /\ InfoRecordsUsage' /\ RegionsFindable'
      OBVIOUS
    <3>1. plain /\ align = 1
      BY <2>2
    <3>2. ListInv /\ InfoRecordsUsage /\ RegionsFindable /\ bootmm_alloc_pages(size, type, 1)
      BY <2>1, <3>1 DEF RecordInv
    <3> QED BY <2>2, <3>2, ListStep
  <2>4. BuddyStartsBehind'
    BY <1>3 DEF Alloc, BuddyStartsBehind, NotYet
  <2>5. plain' \in BOOLEAN
    BY <2>2
  <2> QED BY <2>3, <2>4, <2>5 DEF RecordInv
<1>4. CASE Free
  <2>1. plain' = FALSE
    BY <1>4 DEF Free, FreeWhole, FreePart
  <2> QED BY <2>1 DEF RecordInv, BuddyStartsBehind
<1>5. CASE InitBuddy
  <2>1. PagesSize \in Nat \ {0} /\ bootmm_alloc_pages(PagesSize, "KERNEL", 1)
    BY <1>5, BootAssumption DEF InitBuddy
  <2>2. plain' = plain /\ plain' \in BOOLEAN
    BY <2>1 DEF bootmm_alloc_pages, RecordInv
  <2>3. plain' => ListInv' /\ InfoRecordsUsage' /\ RegionsFindable'
    BY <2>1, <2>2, ListStep DEF RecordInv
  <2>4. BuddyStartsBehind'
    <3> SUFFICES ASSUME plain' PROVE \A p \in Used' : p <= buddy'.start
      BY DEF BuddyStartsBehind
    <3>1. last_alloc' \in Nat
      <4>1. last_alloc' \in Pfns
        BY <1>1 DEF BootInv, BootTypeOK, Pfns
      <4> QED BY <4>1, BootAssumption DEF Pfns
    <3>2. KernelEndPfn(info') = last_alloc'
      <4>1. Ordered(info', last_alloc' + 1)
        BY <2>3 DEF ListInv
      <4> QED BY <3>1, <4>1, EndIs
    <3>3. buddy'.start = Aligned(last_alloc' + 2^MAX_BUDDY_ORDER - 1)
      BY <1>5, <3>2 DEF InitBuddy
    <3>4. last_alloc' <= buddy'.start
      BY <3>1, <3>3, AlignedUp
    <3>5. buddy'.start \in Int
      <4>1. 2^MAX_BUDDY_ORDER \in Nat \ {0}
        BY ShiftAssumption
      <4> QED BY <3>1, <3>3, <4>1 DEF Aligned
    <3>6. \A p \in Used' : p \in Nat /\ p <= last_alloc'
      BY <2>3, <3>1 DEF ListInv
    <3> QED BY <3>1, <3>4, <3>5, <3>6
  <2> QED BY <2>2, <2>3, <2>4 DEF RecordInv
<1> QED BY <1>2, <1>3, <1>4, <1>5

\* A boot keeps it, as long as it asks for no more than page alignment; of anything
\* else RecordInv says nothing.
LEMMA RecordKept == Spec => []RecordInv
<1>1. Init => BootInv /\ RecordInv
  BY BootInitInv, ListInit DEF RecordInv, BuddyStartsBehind, Init
<1>2. BootInv /\ RecordInv /\ [Alloc \/ Free \/ InitBuddy]_vars => (BootInv /\ RecordInv)'
  BY BootStepInv, RecordStep
<1> QED BY <1>1, <1>2, PTL DEF Spec

\* While the kernel boots with page-aligned allocations, the list of regions and the
\* map of pages say the same (insert_mminfo against set_maps).
THEOREM InfoAgrees == Spec => []BootRecordsUsage
<1>1. RecordInv => BootRecordsUsage
  BY DEF RecordInv, BootRecordsUsage
<1> QED BY <1>1, RecordKept, PTL

\* While the kernel boots so, no byte is listed twice, and the region of each caller
\* is in an entry of its type, where bootmm_free_pages would find it.
THEOREM RegionsKeepTheirEntry == Spec => []BootRegionsFindable
<1>1. RecordInv => BootRegionsFindable
  BY DEF RecordInv, BootRegionsFindable
<1> QED BY <1>1, RecordKept, PTL

\* However large the chunks of the buddy system are, init_buddy takes over no page in
\* use after such a boot except, at worst, the last one in use (buddy_start_pfn).
THEOREM BuddyBehindAll == Spec => []BuddyStartsBehind
<1>1. RecordInv => BuddyStartsBehind
  BY DEF RecordInv
<1> QED BY <1>1, RecordKept, PTL
=============================================================================
