------------------------------- MODULE Bootmm -------------------------------
(***************************************************************************)
(* The boot memory allocator of chapter 6 (Lcore-Stage6-01/kern/mm/        *)
(* bootmm.c) and the computation of the range that init_buddy              *)
(* (Lcore-Stage6-02/kern/mm/buddy.c) takes over from it.                   *)
(*                                                                         *)
(* Memory is kept twice: s_map has one entry per page frame, info lists    *)
(* the regions in use by type, in bytes, ends inclusive.  Booting is       *)
(* sequential, so each call is one step.  cnt_infos is Len(info), and      *)
(* index k of the code is k + 1 here.                                      *)
(***************************************************************************)
EXTENDS Integers, Sequences, FiniteSetsExt, SequencesExt

CONSTANTS
  PAGE_SIZE,         \* 1 << PAGE_SHIFT
  MaxPfn,            \* boot_mm.max_pfn
  KernelPages,       \* the pages below s_map, up to _end
  MapPages,          \* the pages of s_map itself
  MAX_INFO,
  MAX_BUDDY_ORDER,
  Types,             \* the types callers ask with, of enum mm_usage
  Sizes,             \* the sizes in bytes they ask for
  Aligns,            \* the alignments in pages they ask for
  PagesSize          \* the bytes of the array of struct page

Pfns == 0 .. MaxPfn - 1

ASSUME BootAssumption ==
  /\ PAGE_SIZE \in Nat \ {0} /\ MaxPfn \in Nat /\ KernelPages \in Nat \ {0} /\ MapPages \in Nat \ {0}
  /\ KernelPages + MapPages <= MaxPfn
  /\ Sizes \subseteq Nat \ {0} /\ Aligns \subseteq Nat \ {0} /\ PagesSize \in Nat \ {0}

\* What the shift 1 << MAX_BUDDY_ORDER is: arithmetic the provers have no rule for.
ASSUME ShiftAssumption == 2^MAX_BUDDY_ORDER \in Nat \ {0}

VARIABLES
  s_map,       \* s_map[pfn]: PAGE_FREE or PAGE_USED
  info,        \* the regions in use: start, end, type
  last_alloc,  \* the last page of the latest allocation
  owned,       \* the regions callers were given and have not given back
  buddy,       \* buddy_start_pfn and buddy_end_pfn once init_buddy has run
  plain        \* so far the allocations were page aligned and nothing was given back

vars == <<s_map, info, last_alloc, owned, buddy, plain>>

NotYet == [start |-> MaxPfn, end |-> MaxPfn]

PageUp(n)   == ((n + PAGE_SIZE - 1) \div PAGE_SIZE) * PAGE_SIZE
PageDown(n) == (n \div PAGE_SIZE) * PAGE_SIZE
Pfn(a)      == a \div PAGE_SIZE

Region(s, e, t) == [start |-> s, end |-> e, type |-> t]

-----------------------------------------------------------------------------
(* The list of regions.                                                    *)

remove_mminfo(l, k) == IF k > Len(l) THEN l ELSE RemoveAt(l, k)

\* Mutants of insert_mminfo: the end of an extended region is not moved, the
\* type of the region before is not looked at.
insert_mminfoShort(l, s, e, t) ==
  IF \E k \in DOMAIN l : l[k].type = t /\ l[k].end = s - 1 THEN l ELSE Append(l, Region(s, e, t))

insert_mminfoAnyType(l, s, e, t) ==
  LET fits == {k \in DOMAIN l : l[k].end = s - 1}
  IN  IF fits = {} THEN Append(l, Region(s, e, t)) ELSE [l EXCEPT ![Min(fits)].end = e]

\* A region that follows one of its type is merged with it; if it also closes
\* the gap to the next one of its type, the next one's end is taken over and
\* an entry is removed: the very one that was extended.
insert_mminfo(l, s, e, t) ==
  LET fits == {k \in DOMAIN l : l[k].type = t /\ l[k].end = s - 1}
      k    == Min(fits)
      gap  == k < Len(l) /\ l[k + 1].type = t /\ l[k + 1].start - 1 = e
  IN  CASE fits = {} -> Append(l, Region(s, e, t))
        [] fits # {} /\ gap -> remove_mminfo([l EXCEPT ![k].end = l[k + 1].end], k)
        [] OTHER -> [l EXCEPT ![k].end = e]

\* Entry k becomes two at the page that holds x.
split_mminfo(l, k, x) ==
  LET at == PageDown(x)
  IN  IF at <= l[k].start \/ at >= l[k].end THEN l
      ELSE InsertAt([l EXCEPT ![k].start = at], k, [l[k] EXCEPT !.end = at - 1])

-----------------------------------------------------------------------------
(* The search of find_pages: 0 stands for its failure.                     *)

RoundUp(n, a) == ((n + a - 1) \div a) * a

\* Mutant of find_pages: a run that is too short is left by its wanted length.
find_pagesLeaps(count, s_pfn, e_pfn, align) ==
  LET Stops(i) == {t \in i .. i + count - 1 : t >= e_pfn \/ s_map[t] = "USED"}
      scan[i \in Nat] ==
        IF i >= e_pfn THEN 0
        ELSE IF s_map[i] = "USED" THEN scan[i + 1]
        ELSE IF Stops(i) = {} THEN i
        ELSE scan[i + count + 1]
  IN  scan[RoundUp(s_pfn, align)]

find_pages(count, s_pfn, e_pfn, align) ==
  LET Stops(i) == {t \in i .. i + count - 1 : t >= e_pfn \/ s_map[t] = "USED"}
      scan[i \in Nat] ==
        IF i >= e_pfn THEN 0
        ELSE IF s_map[i] = "USED" THEN scan[i + 1]
        ELSE IF Stops(i) = {} THEN i
        ELSE IF Min(Stops(i)) >= e_pfn THEN 0
        ELSE scan[Min(Stops(i)) + align]
  IN  scan[RoundUp(s_pfn, align)]

\* Mutant of set_maps: one entry too few.
set_mapsShort(s_pfn, cnt, val) ==
  s_map' = [p \in Pfns |-> IF p \in s_pfn .. s_pfn + cnt - 2 THEN val ELSE s_map[p]]

set_maps(s_pfn, cnt, val) ==
  s_map' = [p \in Pfns |-> IF p \in s_pfn .. s_pfn + cnt - 1 THEN val ELSE s_map[p]]

-----------------------------------------------------------------------------
MapStart == KernelPages * PAGE_SIZE
MapEnd   == (KernelPages + MapPages) * PAGE_SIZE

Init ==
  /\ s_map = [p \in Pfns |-> IF p < KernelPages + MapPages THEN "USED" ELSE "FREE"]
  /\ info = insert_mminfo(insert_mminfo(<<>>, 0, MapStart - 1, "KERNEL"), MapStart, MapEnd - 1, "MMMAP")
  /\ last_alloc = Pfn(MapEnd) - 1
  /\ owned = {}
  /\ buddy = NotYet
  /\ plain = TRUE

\* Upwards from the last allocation, then from the bottom up to it.
Place(size, align) ==
  LET cnt   == Pfn(PageUp(size))
      above == find_pages(cnt, last_alloc + 1, MaxPfn, align)
  IN  IF above # 0 THEN above ELSE find_pages(cnt, 0, last_alloc, align)

\* An entry past info[MAX_INFO - 1] would be written outside the array.
InArray == Len(info) < MAX_INFO


LastPage(at, size) == at + Pfn(PageUp(size)) - 1

bootmm_alloc_pages(size, type, align) ==
  LET at == Place(size, align)
      a  == at * PAGE_SIZE
  IN  /\ InArray /\ at # 0
      /\ set_maps(at, Pfn(PageUp(size)), "USED")
      /\ last_alloc' = LastPage(at, size)
      /\ info' = insert_mminfo(info, a, a + PageUp(size) - 1, type)
      /\ owned' = owned \cup {[start |-> a, size |-> size, align |-> align, type |-> type]}
      /\ plain' = (plain /\ align = 1)

\* Entry k after [s, s + n - 1] was taken out of it.
Shrink(l, k, s, n) ==
  LET front == l[k].start = s
      back  == l[k].end = s + n - 1
  IN  CASE front /\ back  -> remove_mminfo(l, k)
        [] front /\ ~back -> [l EXCEPT ![k].start = l[k].end, ![k].end = s + n - 1]
        [] ~front /\ back -> [l EXCEPT ![k].start = s + n]
        [] OTHER -> remove_mminfo(split_mminfo(split_mminfo(l, k, s), k + 1, s + n), k + 1)

bootmm_free_pages(start, size) ==
  LET n == PageDown(size)
      s == PageDown(start)
      holds == {k \in DOMAIN info : info[k].start <= s /\ s + n - 1 <= info[k].end}
  IN  IF n = 0 \/ holds = {} THEN UNCHANGED <<s_map, info>>
      ELSE /\ set_maps(Pfn(s), Pfn(n), "FREE")
           /\ info' = Shrink(info, Min(holds), s, n)

-----------------------------------------------------------------------------
Alloc == /\ buddy = NotYet
         /\ \E size \in Sizes, type \in Types, align \in Aligns :
              bootmm_alloc_pages(size, type, align)
         /\ UNCHANGED buddy

\* A caller gives a region back with the size it asked for.
FreeWhole(r) == /\ buddy = NotYet
                /\ bootmm_free_pages(r.start, r.size)
                /\ owned' = owned \ {r}
                /\ plain' = FALSE
                /\ UNCHANGED <<last_alloc, buddy>>

\* A caller gives back n pages of a region, from page p on, and keeps the rest.
FreePart(r, p, n) ==
  LET s    == r.start + p * PAGE_SIZE
      rest == PageUp(r.size) - (p + n) * PAGE_SIZE
  IN  /\ buddy = NotYet /\ InArray
      /\ rest >= 0 /\ n * PAGE_SIZE < PageUp(r.size)
      /\ bootmm_free_pages(s, n * PAGE_SIZE)
      /\ owned' = (owned \ {r})
                  \cup {q \in {[r EXCEPT !.size = p * PAGE_SIZE],
                               [r EXCEPT !.start = s + n * PAGE_SIZE, !.size = rest, !.align = 1]} :
                        q.size > 0}
      /\ plain' = FALSE
      /\ UNCHANGED <<last_alloc, buddy>>

Free == \E r \in owned :
          \/ FreeWhole(r)
          \/ \E p \in 0 .. Pfn(r.size), n \in 1 .. Pfn(r.size) : FreePart(r, p, n)

Aligned(n) == (n \div 2^MAX_BUDDY_ORDER) * 2^MAX_BUDDY_ORDER

\* Mutant of KernelEndPfn: the comparison of the loop turned round.
KernelEndPfnLeast(l) == Pfn(Min({l[k].end : k \in DOMAIN l}))

\* init_buddy: the page array is the last thing it allocates, then everything
\* behind the last region goes to the buddy system.
KernelEndPfn(l) == Pfn(Max({l[k].end : k \in DOMAIN l}))

InitBuddy ==
  /\ buddy = NotYet
  /\ bootmm_alloc_pages(PagesSize, "KERNEL", 1)
  /\ buddy' = [start |-> Aligned(KernelEndPfn(info') + 2^MAX_BUDDY_ORDER - 1),
               end   |-> Aligned(MaxPfn)]

\* What the kernel does while it boots: nothing is given back.
BootSpec == Init /\ [][Alloc \/ InitBuddy]_vars

\* Every use the interface allows.
Spec == Init /\ [][Alloc \/ Free \/ InitBuddy]_vars

-----------------------------------------------------------------------------
PagesOf(r) == Pfn(r.start) .. Pfn(r.start + PageUp(r.size)) - 1

Used == {p \in Pfns : s_map[p] = "USED"}

Reserved == 0 .. KernelPages + MapPages - 1

\* No page is given out twice, nor one of the kernel, and what a caller has
\* stays marked as used whatever others give back.
NoDoubleAllocation ==
  /\ Reserved \subseteq Used
  /\ \A r \in owned : PagesOf(r) \subseteq Used \ Reserved
  /\ \A r, q \in owned : r # q => PagesOf(r) \cap PagesOf(q) = {}

Listed == UNION {Pfn(info[k].start) .. Pfn(info[k].end) : k \in DOMAIN info}

\* info and s_map agree: "the info array records how memory is used at present,
\* by type" (bootmen.h:28).
InfoRecordsUsage == Listed = Used

\* Regions are listed once, and a caller's region lies in an entry of its type:
\* the condition under which bootmm_free_pages will find it.
RegionsFindable ==
  /\ \A j, k \in DOMAIN info : j # k => info[j].end < info[k].start \/ info[k].end < info[j].start
  /\ \A r \in owned : \E k \in DOMAIN info :
       /\ info[k].type = r.type
       /\ info[k].start <= r.start /\ r.start + PageUp(r.size) - 1 <= info[k].end

\* A search by single pages finds the lowest run that is long enough, and fails
\* only if there is none, whatever pattern earlier frees have left in s_map.
FirstFit ==
  \A count \in 1 .. 3 : \A e \in 0 .. MaxPfn :
    LET runs == {i \in 1 .. e - count : \A t \in i .. i + count - 1 : s_map[t] = "FREE"}
    IN  find_pages(count, 0, e, 1) = IF runs = {} THEN 0 ELSE Min(runs)

\* The buddy system takes over available memory (buddy.c:36): no page in use.
BuddyTakesFreePages == Used \cap (buddy.start .. buddy.end - 1) = {}

\* While the kernel boots with page-aligned allocations, as it does, info and s_map
\* agree: a merge closes no gap, there is none (insert_mminfo, set_maps).
BootRecordsUsage == plain => InfoRecordsUsage

\* While it boots so, bootmm_free_pages would find the region of each caller.
BootRegionsFindable == plain => RegionsFindable

\* After such a boot init_buddy takes over no page in use but, at worst, the last
\* one: the largest end it finds in info is behind all the others.
BuddyStartsBehind == plain /\ buddy # NotYet => \A p \in Used : p <= buddy.start
=============================================================================
