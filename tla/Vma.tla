-------------------------------- MODULE Vma --------------------------------
(***************************************************************************)
(* The linear address ranges of a process (Lcore-Stage7-01/task/vma.c):    *)
(* three lists of vma objects, one each for stack, program and heap.       *)
(* Addresses are unsigned and of finite width, ends are inclusive.  A      *)
(* process changes its own lists only, so nothing comes between the steps  *)
(* of a call: one step verifies the range, one does the rest.  The walk    *)
(* along a list is a recursive function.  kmalloc may fail: ok is FALSE,   *)
(* or made is less than 2.                                                 *)
(***************************************************************************)
EXTENDS Integers, SequencesExt, FiniteSetsExt

CONSTANTS
  PAGE_SIZE,
  AddressWidth,       \* addresses are 0 .. 2^AddressWidth - 1
  _KERNEL_VIRT_END, _TASK_CODE_START, _TASK_HEAP_END, ROM_START,
  Sizes,              \* the sizes callers pass to add_vmas
  MaxObjects          \* bound: kmalloc has no memory for more objects in a list

W == 2^AddressWidth

Heads == {"stack", "user", "heap"}

Low  == [stack |-> _KERNEL_VIRT_END, user |-> _TASK_CODE_START, heap |-> _TASK_HEAP_END]
High == [stack |-> _TASK_CODE_START, user |-> _TASK_HEAP_END, heap |-> ROM_START]

ASSUME VmaAssumption ==
  /\ AddressWidth \in Nat /\ W \in Nat /\ PAGE_SIZE \in 2 .. W /\ W % PAGE_SIZE = 0
  /\ \A h \in Heads : Low[h] \in 0 .. High[h] /\ Low[h] % PAGE_SIZE = 0
  /\ ROM_START \in 0 .. W - 1 /\ ROM_START % PAGE_SIZE = 0
  \* No caller asks for nothing, or for more than lies behind ROM_START.
  /\ Sizes \subseteq 1 .. W - ROM_START - PAGE_SIZE
  /\ MaxObjects \in Nat

VARIABLES
  vmas,   \* vmas[h]: the objects of list h in its order
  call    \* the list and the range a call has verified

vars == <<vmas, call>>

Idle == [op |-> "none"]

PageStart(a) == a - (a % PAGE_SIZE)
PageEnd(a)   == (PageStart((a + PAGE_SIZE - 1) % W) - 1) % W

\* cnt, the number of pages, is left out: nothing reads it.
new_vma(va, vend) == [start |-> va, vend |-> vend]

Accepts(h, va, vend) == Low[h] <= va /\ va < High[h] /\ vend < High[h]

\* A call whose range is legal comes past verify_vma, with the range aligned.
verify_vma(op, start, end) ==
  LET va   == PageStart(start)
      vend == PageEnd(end)
  IN  /\ call = Idle
      /\ \E h \in Heads :
           /\ Accepts(h, va, vend)
           /\ call' = [op |-> op, head |-> h, va |-> va, vend |-> vend]
      /\ UNCHANGED vmas

-----------------------------------------------------------------------------
(* add_vmas.  The walk carries the objects it has left in the list, the    *)
(* start of the range, grown by the objects it has absorbed, and whether   *)
(* it has come to "goto ok" or "goto new".                                 *)

\* The object takes the range in below its start.
Grow(tmp, va) == [tmp EXCEPT !.start = va]

Keep(w, tmp)     == [w EXCEPT !.list = Append(@, tmp)]
Done(w, tmp)     == [w EXCEPT !.list = Append(@, tmp), !.at = "ok"]
Absorb(w, tmp)   == [w EXCEPT !.va = tmp.start]
NewHere(w, tmp, new) == [w EXCEPT !.list = @ \o new \o <<tmp>>, !.at = "ok"]

\* Mutant of Before: an object of its own even when the next one follows on.
BeforeApart(w, tmp, vend, ok) ==
  NewHere(w, tmp, IF ok THEN <<new_vma(w.va, vend)>> ELSE <<>>)

\* The range ends before the object starts.
Before(w, tmp, vend, ok) ==
  IF vend + 1 = tmp.start THEN Done(w, Grow(tmp, w.va))
  ELSE NewHere(w, tmp, IF ok THEN <<new_vma(w.va, vend)>> ELSE <<>>)

\* Mutant of Visit: an object inside the range is not removed.
VisitKeeps(w, tmp, vend, ok) ==
  IF w.at = "ok" THEN Keep(w, tmp)
  ELSE CASE w.va < tmp.start ->
              IF vend < tmp.start THEN Before(w, tmp, vend, ok)
              ELSE IF vend >= tmp.vend THEN Keep(w, tmp)
              ELSE Done(w, Grow(tmp, w.va))
         [] w.va >= tmp.start /\ w.va < tmp.vend ->
              IF vend <= tmp.vend THEN Done(w, tmp) ELSE Absorb(w, tmp)
         [] OTHER -> IF w.va - 1 = tmp.vend THEN Absorb(w, tmp) ELSE Keep(w, tmp)

\* One turn of the loop, with the object tmp.
Visit(w, tmp, vend, ok) ==
  IF w.at = "ok" THEN Keep(w, tmp)
  ELSE CASE w.va < tmp.start ->
              IF vend < tmp.start THEN Before(w, tmp, vend, ok)
              ELSE IF vend >= tmp.vend THEN w
              ELSE Done(w, Grow(tmp, w.va))
         [] w.va >= tmp.start /\ w.va < tmp.vend ->
              IF vend <= tmp.vend THEN Done(w, tmp) ELSE Absorb(w, tmp)
         [] OTHER -> IF w.va - 1 = tmp.vend THEN Absorb(w, tmp) ELSE Keep(w, tmp)

\* The loop, one turn for each object of the list.
Loop(l, va, vend, ok) ==
  LET w[n \in 0 .. Len(l)] == IF n = 0 THEN [list |-> <<>>, va |-> va, at |-> "loop"]
                              ELSE Visit(w[n - 1], l[n], vend, ok)
  IN  w[Len(l)]

Walk(l, va, vend, ok) ==
  LET w == Loop(l, va, vend, ok)
  IN  IF w.at = "loop" /\ ok THEN Append(w.list, new_vma(w.va, vend)) ELSE w.list

\* The walk over the list of the call.
add_vmas == /\ call.op = "add"
            /\ \E ok \in BOOLEAN : vmas' = [vmas EXCEPT ![call.head] = Walk(@, call.va, call.vend, ok)]
            /\ Len(vmas'[call.head]) <= MaxObjects
            /\ call' = Idle

-----------------------------------------------------------------------------
(* delete_vmas.                                                            *)

\* seprate_vma: the new object goes behind the one that follows, or to the
\* front of the list if none does.
NewPlace(l, i) == IF i = Len(l) THEN 1 ELSE i + 2
Seprate(l, i, va) == InsertAt([l EXCEPT ![i].vend = va - 1], NewPlace(l, i), new_vma(va, l[i].vend))

\* The object at i loses its middle; made is the number of objects kmalloc
\* had memory for.
CutOut(l, i, va, vend, made) ==
  LET once == Seprate(l, i, va)
      k    == NewPlace(l, i)
      both == Seprate(once, k, vend + 1)
  IN  CASE made = 0 -> l
        [] made = 1 -> once
        [] made = 2 -> RemoveAt(both, IF k = Len(once) THEN k + 1 ELSE k)

\* Mutant of FrontOff: the first page that is kept goes too.
FrontOne(l, i, vend) == [l EXCEPT ![i].start = vend + 1 + PAGE_SIZE]

FrontOff(l, i, vend) == [l EXCEPT ![i].start = vend + 1]

BackOff(l, i, va) == [l EXCEPT ![i].vend = va - 1]

\* The loop stops at the first object that does not end before the range.
Stops(l, va) == {i \in DOMAIN l : va < l[i].vend}

Removed(l, va, vend, made) ==
  LET i   == Min(Stops(l, va))
      tmp == l[i]
  IN  IF Stops(l, va) = {} \/ va < tmp.start \/ vend > tmp.vend THEN l
      ELSE CASE va = tmp.start /\ vend = tmp.vend -> RemoveAt(l, i)
             [] va = tmp.start /\ vend < tmp.vend -> FrontOff(l, i, vend)
             [] va > tmp.start /\ vend = tmp.vend -> BackOff(l, i, va)
             [] OTHER -> CutOut(l, i, va, vend, made)

delete_vmas ==
  /\ call.op = "delete"
  /\ \E made \in 0 .. 2 :
       vmas' = [vmas EXCEPT ![call.head] = Removed(@, call.va, call.vend, made)]
  /\ Len(vmas'[call.head]) <= MaxObjects
  /\ call' = Idle

-----------------------------------------------------------------------------
Init == vmas = [h \in Heads |-> <<>>] /\ call = Idle

CallAdd == \E va \in 0 .. W - 1, size \in Sizes : verify_vma("add", va, (va + size) % W)

CallDelete == \E va \in 0 .. W - 1 : \E vend \in va + 1 .. W - 1 : verify_vma("delete", va, vend)

Next == CallAdd \/ CallDelete \/ add_vmas \/ delete_vmas

Spec == Init /\ [][Next]_vars

-----------------------------------------------------------------------------
PagesOf(o) == o.start \div PAGE_SIZE .. o.vend \div PAGE_SIZE
PagesIn(l) == UNION {PagesOf(o) : o \in Range(l)}

\* The object has at least a page, whole pages only, in the part of list h.
InPart(o, h) == /\ Low[h] <= o.start /\ o.start < o.vend /\ o.vend < High[h]
                /\ o.start % PAGE_SIZE = 0 /\ (o.vend + 1) % PAGE_SIZE = 0

\* The objects of list h are in the order of their addresses, with a page in
\* none of them between any two.
Ordered(l, h) == /\ \A i \in DOMAIN l : InPart(l[i], h)
                 /\ \A i, j \in DOMAIN l : i < j => l[i].vend + 1 < l[j].start
InOrder(h) == Ordered(vmas[h], h)

\* The call cuts a hole into an object of list h that has another object
\* beside it, or has got memory for one of the two new objects only.
Inside(o, va, vend) == o.start < va /\ vend < o.vend
HoleBeside(h) ==
  /\ call.op = "delete" /\ call.head = h
  /\ \E o \in Range(vmas[h]) : Inside(o, call.va, call.vend)
  /\ Len(vmas[h]) > 1 \/ (Len(vmas[h]) < Len(vmas'[h]) /\ PagesIn(vmas'[h]) = PagesIn(vmas[h]))

\* A list in order stays so over every call, whatever it adds, absorbs, cuts off
\* or fails at for want of memory: what both walks rely on when they stop early
\* (vma.c:93, 154).  The one exception is seprate_vma's place for the new object,
\* behind the one that follows (vma.c:30).
OrderKept == [][\A h \in Heads : InOrder(h) => InOrder(h)' \/ HoleBeside(h)]_vars

\* Pages that become mapped in a list in order do so in one object, which also
\* describes whatever was mapped between them, and no object is left that follows
\* on from it (vma.c:95, 103, 115, 120).
AddsOneObject ==
  [][\A h \in Heads : InOrder(h) =>
       LET new == PagesIn(vmas'[h]) \ PagesIn(vmas[h]) IN
       \/ new = {}
       \/ \E o \in Range(vmas'[h]) :
            /\ new \subseteq PagesOf(o)
            /\ \A q \in Range(vmas'[h]) : q.start # o.vend + 1 /\ o.start # q.vend + 1]_vars

Page(a) == a \div PAGE_SIZE

\* A call changes the pages of its list only.  When that list is in order, it
\* changes them the way it was asked to: an add maps the range or, without memory
\* for its object, loses at most the pages mapped contiguously before it; a range
\* is deleted only if all of it is mapped, and stays only if it is not or if pages
\* on both sides of it need an object that there is no memory for.  The list is in
\* order afterwards unless the call has cut a hole (vma.c:78-192).
Space == INSTANCE AddressSpace WITH
           Lists  <- Heads,
           Pages  <- 0 .. Page(W - 1),
           mapped <- [h \in Heads |-> PagesIn(vmas[h])],
           sound  <- {h \in Heads : InOrder(h)},
           call   <- IF call = Idle THEN Idle
                     ELSE [op |-> call.op, list |-> call.head, from |-> Page(call.va), to |-> Page(call.vend)]

ImplementsAddressSpace == Space!Spec

\* "A function that deletes vmas" (vma.c:142): a delete of exactly the range that
\* an object of the list describes takes the object out.
VmasDeleted ==
  [][\A h \in Heads : \A o \in Range(vmas[h]) :
       call.op = "delete" /\ call.head = h /\ call.va = o.start /\ call.vend = o.vend
         => o \notin Range(vmas'[h])]_vars
=============================================================================
