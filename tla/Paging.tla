------------------------------- MODULE Paging -------------------------------
(***************************************************************************)
(* The memory of processes: the page tables of task.c, the page faults of  *)
(* Lcore-Stage7-02/arch/except.c and the allocations both make, from slub  *)
(* and from the buddy system under it.                                     *)
(*                                                                         *)
(* An address is a pair of its indices into page directory and page table. *)
(* The entries for the kernel and the ROM are the same in every directory  *)
(* and left out.  Faults and system calls run with interrupts off; they    *)
(* are taken apart at their calls of kmalloc.                              *)
(*                                                                         *)
(* copy_pagetables copies the page directory and nothing else: both of its *)
(* loops start at _USER_VIRT_START >> PAGE_SHIFT, behind the last of the   *)
(* 1024 entries.  The tables of parent and child are therefore the same    *)
(* ones, and nothing is write-protected or counted.                        *)
(***************************************************************************)
EXTENDS Slub

CONSTANTS
  Tasks, init,
  Dirs, Ptes,    \* the indices of a directory and of a table that users have
  CodeVa,        \* _TASK_CODE_START
  HeapDirs,      \* the entries from _TASK_HEAP_END to ROM_START
  VmaCache       \* the cache get_slub finds for a struct vma

ASSUME PagingAssumption ==
  /\ init \in Tasks
  /\ CodeVa \in (Dirs \ HeapDirs) \X Ptes
  /\ HeapDirs \subseteq Dirs
  /\ VmaCache \in Sizes

VARIABLES
  current,
  tasks,      \* the tasks there are
  taskpage,   \* taskpage[t]: the block of its task_union
  dirpage,    \* dirpage[t]: the block its page directory is in
  pgd,        \* pgd[t][d]: the block of the page table at entry d, or NULL
  pt,         \* pt[b]: the entries block b holds as a page table
  at,         \* where the kernel is
  hand,       \* the block the kernel has just got from kmalloc, or NULL
  miss        \* miss[t]: the address whose access has been broken off

taskVars == <<current, tasks, taskpage>>
tableVars == <<dirpage, pgd, pt>>
vars == <<pool, up, slubVars, taskVars, tableVars, at, hand, miss>>

Vas == Dirs \X Ptes

Absent == "absent"
Code   == "code"       \* the page of the first program
Page1  == "page1"      \* the physical page at address PAGE_SIZE
Stray  == "stray"      \* what was in the memory before, taken for a page entry

NoVa == <<>>

Translation(t, va) == IF pgd[t][va[1]] = NULL THEN Absent ELSE pt[pgd[t][va[1]]][va[2]]

-----------------------------------------------------------------------------
\* Mutant of do_one_mapping: a table that is there already is used.
do_one_mappingReuses(t, va, pa) ==
  LET old == pgd[t][va[1]]
      b   == IF old = NULL THEN Head(pool) ELSE old
  IN  /\ ~ReturnsNull
      /\ IF old = NULL THEN TakeBlocks(1) ELSE UNCHANGED pool
      /\ pgd' = [pgd EXCEPT ![t][va[1]] = b]
      /\ \E rest \in [Ptes -> {Absent, Stray}] :
           pt' = [pt EXCEPT ![b] = IF old = NULL THEN [rest EXCEPT ![va[2]] = pa]
                                   ELSE [@ EXCEPT ![va[2]] = pa]]

\* A new page table, of which only one entry is written, replaces what the
\* directory had.
do_one_mapping(t, va, pa) ==
  /\ ~ReturnsNull
  /\ TakeBlocks(1)
  /\ pgd' = [pgd EXCEPT ![t][va[1]] = Head(pool)]
  /\ \E rest \in [Ptes -> {Absent, Stray}] :
       pt' = [pt EXCEPT ![Head(pool)] = [rest EXCEPT ![va[2]] = pa]]

-----------------------------------------------------------------------------
(* init_task.                                                              *)

InitVma ==
  /\ at = "init_vma"
  /\ slub_alloc(VmaCache)
  /\ at' = "init_map"
  /\ UNCHANGED <<taskVars, tableVars, hand, miss>>

InitMap ==
  /\ at = "init_map"
  /\ \/ do_one_mapping(init, CodeVa, Code) /\ UNCHANGED up
     \/ ReturnsNull /\ pool' = Left /\ die /\ UNCHANGED <<pgd, pt>>
  /\ at' = "user"
  /\ UNCHANGED <<slubVars, taskVars, dirpage, hand, miss>>

-----------------------------------------------------------------------------
(* Accesses to memory, and do_pg_unpresent.                                *)

\* The access the current task makes: the one that was broken off, if any.
Accesses(va) == at = "user" /\ miss[current] \in {NoVa, va}

\* The heap: the handler goes to work.
MissHeap(va) ==
  /\ Accesses(va)
  /\ Translation(current, va) = Absent /\ va[1] \in HeapDirs
  /\ at' = "new_page"
  /\ miss' = [miss EXCEPT ![current] = va]
  /\ UNCHANGED <<pool, up, slubVars, taskVars, tableVars, hand>>

\* Below the heap: the handler dies.
MissCode(va) ==
  /\ Accesses(va)
  /\ Translation(current, va) = Absent /\ va[1] \notin HeapDirs
  /\ die
  /\ UNCHANGED <<pool, slubVars, taskVars, tableVars, at, hand, miss>>

NewPage ==
  /\ at = "new_page"
  /\ IF ReturnsNull THEN die /\ pool' = Left /\ UNCHANGED <<hand, at>>
     ELSE /\ hand' = Head(pool) /\ TakeBlocks(1)
          /\ at' = "add_vmas"
          /\ UNCHANGED up
  /\ UNCHANGED <<slubVars, taskVars, tableVars, miss>>

\* add_vmas finds or extends an object of the task.
VmaFound ==
  /\ at = "add_vmas"
  /\ at' = "map"
  /\ UNCHANGED <<pool, up, slubVars, taskVars, tableVars, hand, miss>>

\* add_vmas makes an object.
VmaNew ==
  /\ at = "add_vmas"
  /\ slub_alloc(VmaCache)
  /\ at' = "map"
  /\ UNCHANGED <<taskVars, tableVars, hand, miss>>

\* add_vmas returns 1: the page is freed and the handler dies.
VmaRefused ==
  /\ at = "add_vmas"
  /\ pool' = kfree(hand, pool) /\ hand' = NULL
  /\ die
  /\ UNCHANGED <<slubVars, taskVars, tableVars, at, miss>>

\* The lists of a child end at the heads of its parent, which it never meets.
VmaEndless ==
  /\ at = "add_vmas" /\ current # init
  /\ die
  /\ UNCHANGED <<pool, slubVars, taskVars, tableVars, at, hand, miss>>

\* Mutant of MapPage: the new page is freed when there is no memory for a table.
MapPageFrees ==
  /\ at = "map"
  /\ \/ do_one_mapping(current, miss[current], Page1)
     \/ ReturnsNull /\ pool' = kfree(hand, Left) /\ UNCHANGED <<pgd, pt>>
  /\ hand' = NULL
  /\ at' = "user"
  /\ UNCHANGED <<up, slubVars, taskVars, dirpage, miss>>

\* The address of the page is not passed on: PAGE_SIZE is.  Nor is it looked
\* at whether do_one_mapping had memory for the table.
MapPage ==
  /\ at = "map"
  /\ \/ do_one_mapping(current, miss[current], Page1)
     \/ ReturnsNull /\ pool' = Left /\ UNCHANGED <<pgd, pt>>
  /\ hand' = NULL
  /\ at' = "user"
  /\ UNCHANGED <<up, slubVars, taskVars, dirpage, miss>>

\* The access that was broken off succeeds.
Resume ==
  /\ at = "user" /\ miss[current] # NoVa
  /\ Translation(current, miss[current]) # Absent
  /\ miss' = [miss EXCEPT ![current] = NoVa]
  /\ UNCHANGED <<pool, up, slubVars, taskVars, tableVars, at, hand>>

\* A write through an entry without the right to write; there are only those
\* nobody has written.  Line 84 asks for just that right, and the task dies.
do_copyonwrite(va) ==
  /\ Accesses(va)
  /\ Translation(current, va) = Stray
  /\ die
  /\ UNCHANGED <<pool, slubVars, taskVars, tableVars, at, hand, miss>>

-----------------------------------------------------------------------------
(* do_fork, copy_mem and copy_pagetables; Sched has the rest of a fork.    *)

ForkTask ==
  /\ at = "user" /\ miss[current] = NoVa
  /\ tasks # Tasks /\ ~ReturnsNull
  /\ hand' = Head(pool) /\ TakeBlocks(1)
  /\ at' = "fork_pgd"
  /\ UNCHANGED <<up, slubVars, taskVars, tableVars, miss>>

\* There is no memory for the task_union: it is freed all the same.
ForkNoTask ==
  /\ at = "user" /\ miss[current] = NoVa
  /\ tasks # Tasks /\ ReturnsNull
  /\ pool' = kfree(NULL, Left)
  /\ UNCHANGED <<up, slubVars, taskVars, tableVars, at, hand, miss>>

\* The directory is copied, and the task goes to the ready ones.
ForkPgd(t) ==
  /\ at = "fork_pgd" /\ ~ReturnsNull
  /\ dirpage' = [dirpage EXCEPT ![t] = Head(pool)] /\ TakeBlocks(1)
  /\ pgd' = [pgd EXCEPT ![t] = pgd[current]]
  /\ taskpage' = [taskpage EXCEPT ![t] = hand]
  /\ tasks' = tasks \cup {t}
  /\ hand' = NULL
  /\ at' = "user"
  /\ UNCHANGED <<up, slubVars, current, pt, miss>>

\* There is no memory for the directory: it is freed, and then the task_union.
ForkNoPgd ==
  /\ at = "fork_pgd" /\ ReturnsNull
  /\ pool' = kfree(hand, kfree(NULL, Left)) /\ hand' = NULL
  /\ at' = "user"
  /\ UNCHANGED <<up, slubVars, taskVars, tableVars, miss>>

-----------------------------------------------------------------------------
\* kmalloc for another part of the kernel, during a system call.
Kmalloc(c) ==
  /\ at = "user" /\ miss[current] = NoVa
  /\ slub_alloc(c)
  /\ UNCHANGED <<taskVars, tableVars, at, hand, miss>>

\* The clock lets another task run.
SwitchTo(t) ==
  /\ at = "user" /\ current # t
  /\ current' = t
  /\ UNCHANGED <<pool, up, slubVars, tasks, taskpage, tableVars, at, hand, miss>>

-----------------------------------------------------------------------------
Init ==
  /\ SlubInit
  /\ current = init /\ tasks = {init}
  /\ taskpage = [t \in Tasks |-> NULL]
  /\ dirpage = [t \in Tasks |-> NULL]
  /\ pgd = [t \in Tasks |-> [d \in Dirs |-> NULL]]
  /\ pt = [b \in Blocks |-> [i \in Ptes |-> Absent]]
  /\ at = "init_vma"
  /\ hand = NULL
  /\ miss = [t \in Tasks |-> NoVa]

Fault == \/ NewPage \/ VmaFound \/ VmaNew \/ VmaRefused \/ VmaEndless \/ MapPage

User == \/ \E va \in Vas : MissHeap(va) \/ MissCode(va) \/ do_copyonwrite(va)
        \/ Resume
        \/ ForkTask \/ ForkNoTask
        \/ \E c \in Sizes : Kmalloc(c)

ForkEnds == ForkNoPgd \/ \E t \in Tasks \ tasks : ForkPgd(t)

Kernel == InitVma \/ InitMap \/ Fault \/ ForkEnds

Next == up /\ (Kernel \/ User \/ \E t \in tasks : SwitchTo(t))

\* The current task repeats the access that was broken off.
Retry(t) == up /\ current = t /\ miss[t] # NoVa /\ (Resume \/ MissHeap(miss[t]))

\* The kernel comes to the end of what it does, and each task runs again (see
\* RunsAgain of Sched), which is when it repeats its access.
Fairness ==
  /\ WF_vars(up /\ Kernel)
  /\ \A t \in Tasks : SF_vars(up /\ t \in tasks /\ SwitchTo(t)) /\ SF_vars(Retry(t))

Spec == Init /\ [][Next]_vars /\ Fairness

-----------------------------------------------------------------------------
\* The places where block b is in use, or free.
Places(b) ==
  {<<"pool", k>> : k \in {j \in 1 .. Len(pool) : pool[j] = b}}
  \cup {<<"cpu", c>> : c \in {s \in Sizes : cpu[s].page = b}}
  \cup (UNION {{<<"full", c, k>> : k \in {j \in 1 .. Len(full[c]) : full[c][j] = b}} : c \in Sizes})
  \cup {<<"task", t>> : t \in {u \in tasks : taskpage[u] = b}}
  \cup {<<"pgd", t>> : t \in {u \in tasks : dirpage[u] = b}}
  \cup {<<"table", d>> : d \in {e \in Dirs : \E t \in tasks : pgd[t][e] = b}}
  \cup {<<"hand">> : k \in {j \in {hand} : j = b}}

\* No memory has two users.  A block is free, or a page of one cache and once
\* on its lists, or one task, or one directory, or a table that only the same
\* entry of several directories may name; and objects do not overlap.  Page 0 is
\* the exception: it is the kernel's, and among the free blocks after a fork that
\* found no memory, but never twice.
NoSharedMemory ==
  up => /\ ObjectsApart
        /\ \A b \in Blocks : Cardinality(Places(b)) <= 1
        /\ Cardinality({k \in 1 .. Len(pool) : pool[k] = NULL}) <= 1

\* What one task does to its memory, a fault above all, changes no address of
\* another, though after a fork they have their tables in common; and what it
\* changes of its own is in the 4 MB of the fault.
FaultPrivate ==
  [][\A t \in tasks, va \in Vas :
       Translation(t, va)' # Translation(t, va) =>
         t = current /\ (at = "init_map" \/ va[1] = miss[t][1])]_vars

\* No fault repeats for ever: the access succeeds or the kernel dies, although
\* do_pg_unpresent does not look whether there was memory for a table.
FaultEnds == \A t \in Tasks : miss[t] # NoVa ~> miss[t] = NoVa \/ ~up
=============================================================================
