# Lcore in TLA+

The repository is a collection of computer science notes. One part of it is a
program: *Lcore*, a teaching kernel for a 32-bit MIPS machine, typed in chapter
by chapter from the book 操作系统设计与实现 ("Operating system design and
implementation", 高等教育出版社). It is in
`src/操作系统/高等教育出版社--操作系统设计与实现/`, one directory
`Lcore-StageX-YY` for each stage; paths below are relative to these directories,
so `6-02/kern/mm/buddy.c` is the file of stage 6-02 of chapter 6. Beside the code
of each chapter lie notes (`第六章 实现….md` and so on) that say what it is meant
to do. This directory holds the TLA+ models of the kernel, the TLC
configurations that check them and the proofs that TLAPS checks.

`PROJECT.json` is the machine-readable index: the components, the runs, the
mutations each property was tried against, the source lines every definition
stands for, the hazards and the theorems.

## How the code is read

The stages are fragments. They have no build file and no stage is complete, so
three rules fix what the program is:

1. **What compiles is modelled as written**, also where it looks like a slip.
   `*clock_head++` in `fs_victim_512` moves the pointer and not the hand;
   `insert_mminfo` removes the entry it has just extended; `seprate_vma` links the
   new object behind the following one. All these are in the models.
2. **An identifier that does not exist is read as the one that is evidently
   meant**: `info.start`/`info.start_pfn`, `bootmm`/`boot_mm`, `budd`/`buddy`,
   `tmo`/`tmp`, `account`/`count`, `crc`/`crc16`, `fs_wrtie`/`fs_write`. The compiler
   would refuse them, so there is no other program to model.
3. **What is called and not defined is external**: `is_buddy`, `set_order`,
   `clear_order`, `lockup`/`unlock`, `list_empty`, `is_bound`, `get_slub`,
   `fs_read_block` and the block functions under it, `fs_read_4k`,
   `fs_write_4k`, `fs_clr_4k`, `fs_next_free`, `put_pid`, `sched_insert_*`,
   `del_vma`, `die`, and the forms of `alloc_pages` and `free_pages` that take and
   return addresses, which slub.c calls. They are modelled by what their callers rely on.

## Inventory

| Component | State | Operations | Hard behaviour | Correct if |
|---|---|---|---|---|
| Boot, exceptions (2-01, 2-02) | machine registers | once, in order | none | - |
| Page tables (2-02/arch/page.c, 7-01/arch/page.c) | page directory and tables | `init_pgtable`, `do_one_mapping` | an existing table must be kept | a mapping changes one page only |
| Tool library (2-02, 3-01/tool) | none | memory, division, multiplication | unsigned and sign edges | they compute the arithmetic |
| VGA and printing (3-01, 4-01) | cursor, screen | `put_char`, `scroll_screen`, `printk` | last line, tabs | output only |
| Interrupts and clock (4-01) | handlers and work lists per interrupt; system time | `do_interrupt`, `register_handler`, `register_work`, `timer_handler`, `flush_systime` | a task switch in the middle of `do_interrupt`; order of registration | no interrupt is cleared unserved, each task runs again |
| Keyboard (5-02) | ring buffer, `key_spin` | `get_scancode`, `get_ch` | interrupt against reader, empty and full buffer | codes arrive once, in order |
| Boot memory (6-01) | `s_map`, `info`, `last_alloc` | `bootmm_alloc_pages`, `bootmm_free_pages` | two descriptions of one memory; sizes, alignment, merging | no page is used twice, both descriptions agree |
| Buddy system (6-02) | free lists, page flags and orders, `buddy.lock` | `init_buddy`, `alloc_pages`, `free_pages` | threads inside at once; chains of merges and splits | see below |
| Slub (6-03) | caches, partial and full pages | `slub_alloc`, `slub_free`, `kmalloc`, `kfree` | page boundaries, largest sizes, a page that is used up | no memory has two users |
| Kernel start-up (6-03/kern/init.c) | - | `init_kernel` | order of initialisers; hand-over from boot memory to buddy | no page in use is handed over |
| Processes (7-01) | `idmap`, task list, page tables, registers | `init_task`, `do_fork`, `copy_mem` | failure half-way through a fork | numbers, lists and memory as before |
| Address ranges (7-01/task/vma.c) | three lists of vma objects | `add_vmas`, `delete_vmas` | merging over several objects, failure of `kmalloc` after objects were removed | lists ordered, exactly the asked pages change |
| Page faults (7-02) | page tables, page counts | `do_pg_unpresent`, `do_copyonwrite` | tables shared by parent and child, memory that runs out half-way | a fault changes no other task, and ends |
| Scheduler (7-03) | ready queue, `current`, time slices | `sched`, `timer_sched` | a fork between two interrupts | no task lost, doubled or starved |
| Sector cache (8-01/kern/fs/fs_fat.c) | buffers, reference and dirty bits, hand | `fs_victim_512`, `fs_read_512`, `fs_write_512`, `fs_fflush` | failing reads and writes, power failure, eviction | no stale, lost or doubled sector |
| FAT file layer (fs_fat.c) | open files, FAT, directory | `fs_open`, `fs_read`, `fs_write`, `fs_close`, `fs_creat`, `fs_alloc` | failure between FAT, directory and data | chains disjoint, reads return what was written |
| SD driver (8-01/kern/fs/sd.c) | card | single and multiple reads and writes | refused commands, bad CRC | a failure is reported |
| Notes and notebook | - | - | - | not part of the kernel |

How they interact: everything is called, there are no messages. `init_kernel`
brings up boot memory, which gives the page array and what is behind the last
region to the buddy system; slub takes pages from buddy; fork and the vma lists
take objects from slub and pages from buddy. The clock interrupt calls the work
registered on it, among it `timer_sched`, which switches tasks. The page fault
handlers read the page tables that fork has written. The file layer goes through
the sector cache, once for the FAT and once for directories, and the cache goes
through the SD driver. `buddy.lock` and `keyb_buffer.key_spin` are the only locks.

## Modules

| Module | Models | State and actions |
|---|---|---|
| `PageAllocator` | (abstract) what callers of a page allocator may rely on | `held`, `call`; `Ask`, `Grant`, `Refuse`, `GiveBack`, `Absorb` |
| `Buddy` | 6-02/kern/mm/buddy.c, all of it | the lists with `nr_free`, the page's order and `_PAGE_ALLOCED`, the lock, and per thread a program counter, its argument and the block in its hands. One action per loop turn: `FreeMerge` is a turn of the loop of `free_pages`, `AllocScan` one of the search and `AllocSplit` one of the splitting of `alloc_pages` |
| `MCBuddy` | - | checks with the bitwise operators that `BuddyIdx` and `CombinedIdx` are the XOR and AND of lines 56-65 |
| `BuddyProofs` | - | theorems about `Buddy` |
| `BuddyRefinement` | - | theorems about eager merging, and that `Buddy` implements `PageAllocator`; extends `BuddyProofs` |
| `Bootmm` | 6-01/kern/mm/bootmm.c and buddy.c:21-31 | `s_map`, `info`, `last_alloc`, the regions callers own, the range the buddy system takes over; `plain`, a history variable, says whether so far all allocations were page aligned and nothing was given back, as in a boot. `Alloc`, `Free` and `InitBuddy`, one step each because booting is sequential |
| `BootmmProofs` | - | theorems about `Bootmm` |
| `AddressSpace` | (abstract) for each list, the set of pages a process may touch, as long as the list can be relied on | `mapped`, `sound`, `call`; ranges are added and deleted, or not for want of memory |
| `Vma` | 7-01/task/vma.c | the three lists; a call is verified in one step and does its work in another. The walk of `add_vmas` is a recursive function along the list (`Loop`) with one `Visit` per object |
| `VmaProofs` | - | theorems about `Vma`, and that it implements `AddressSpace` |
| `Sched` | 7-01/task/task.c without page tables, 7-03/arch/sched.c | `idmap`, the task objects, the list of tasks, the ready queue, `current`, what fork returned, and the tasks for which a missing return answered (`strayed`, a history variable). `Fork` and its three failures, `TickRuns`, `TickSwitches` |
| `Slub` | 6-03/kern/mm/slub.c without `slub_free` | the blocks of the buddy system in the order they come; per cache the page and object in `cpu` and the full list; per page its `slub_head`; the objects callers have. `slub_alloc` has four outcomes: an object of the page in use (`AllocHere`), of a new page (`AllocNew`), none because no page is left (`AllocDies`) or because no object of that size fits into any page (`AllocDrains`), or the end of the model because page 0 would be formatted (`AllocNull`) |
| `Paging` | extends `Slub`: task.c's page tables, 7-02/arch/except.c, `kmalloc` | page directories and tables in blocks of that memory; per task the access that was broken off; where the kernel is. A fault is taken apart at its calls of `kmalloc`: `MissHeap`, `NewPage`, `VmaNew` (and the other results of `add_vmas`), `MapPage`, then `Resume`. A fork is `ForkTask` and `ForkPgd` or `ForkNoPgd`, or `ForkNoTask` |
| `MCPaging` | - | the address of the first program in the run |
| `PagingProofs` | - | theorems about `Paging` |
| `Interrupts` | extends `Sched`: 4-01/arch/intr.c, time.c, `init_keyboard`, the registering calls of `init_kernel` | handlers, work lists, ICR and IER, and per task its place in `do_interrupt` with the ICR it has read. `Raise` by the hardware; `Enter`, `CallClock`, `CleanClock`, `CallKeyb`, `CleanKeyb` by the processor; `Syscall` is a fork |
| `SchedProofs` | - | theorems about `Sched`, and about `Interrupts`, which runs it |
| `FsCache` | the sector cache of 8-01/kern/fs/fs_fat.c, over an SD card | card, buffers, hand, the loop variable of a flush, and `latest`, what was last written to each sector. `Hit`, `Miss` and its two failures, `FlushOne` per buffer, `FlushFails`, `OtherVictim`, `Crash` |
| `MCFsCache` | - | declares the sectors interchangeable |
| `FsCacheProofs` | - | theorems about `FsCache` |
| `FatFile` | `fs_read`, `fs_write`, `fs_alloc`, `fs_close` of fs_fat.c, over what the sector cache shows | the FAT, the hint of `fs_alloc`, the directory's sizes and which of these are on the card for certain (`saved`); the data of the clusters; per file a handle with its buffers; the call under way; `content`, what was last written. A call takes a step per turn of its loops: `Follow` goes to the next cluster, `Alloc` and `Clear` extend a chain, `CopyOut` and `CopyIn` move one piece. Each has a failure |
| `MCFatFile` | - | the card of the run |
| `FatFileProofs` | - | theorems about `FatFile` |

Points where the model is less than obvious:

* **Buddy.** The lock is in the code for threads that call the allocator
  concurrently, so any number of threads is modelled and each turn of a loop is
  a step. `clean_flag` (buddy.c:50) comes before the lock and is a step before it.
  The largest request may exceed `MAX_BUDDY_ORDER`: the code has no check and
  reaches its failing return. A frame's index is relative to `start_page`.
* **Bootmm.** `find_pages` keeps its loop (a recursive function): where a run is
  too short the code continues `align` pages behind the used page it met. Addresses
  are bytes with inclusive ends, as in the code; a page has two bytes in the runs,
  the smallest number that tells a page boundary from a byte.
* **Vma.** Addresses wrap at `2^AddressWidth`. `kmalloc` may fail at each of its calls:
  `add_vmas` then has no object to link, and `delete_vmas` has both, one or none
  of the two it needs for a hole (`made`). Wherever an object is cut, `seprate_vma`
  links the rest behind the object that follows, as line 30 does, so lists get out of
  order, and the calls go on with them. `OrderKept`, `AddsOneObject` and
  `AddressSpace` say what a call does to a list *in order*, and which calls may leave
  it out of order; `vma_holes` shows what then happens. `MaxObjects` is a bound: no
  call gets memory for more objects. `cnt` is left out, for nothing reads it.
* **Sched.** `copy_mem` has no return statement behind its error labels error2 and
  error3, so what `do_fork` gets is whatever the register holds (`Botched`): NULL, or
  an address where it finds any number, another task's or none, to return, and stores a 0
  (task.c:206) where it supposes the child's `v0`. The model lets the number be any, and the
  store hit the `v0` of any task or nothing modelled; what else in memory it may hit is left out.
  `ForkNamesChild` is about the tasks that neither has hit since (`strayed`). The number lost when `copy_pagetables` fails
  stays lost. `get_emptypid` looks at one bit of each byte of `idmap`, since
  `sizeof(unsigned char)` is 1, so there are 16 numbers and not 128. The state of
  the task that `sched` picks stays `READY`, as in the code. `Sched` models a
  kernel whose clock calls `timer_sched`; `Interrupts` models how that comes about.
* **Slub.** Without `slub_free` no page is ever on a partial list. Addresses in a page
  are offsets; the link `is_bound` recognises is the page's own address, 0, so the object
  at the start of a page, where its `slub_head` is, is never handed out. Of a
  size of which two do not fit into a page, that is the only object.
* **Paging.** Addresses are pairs of indices; the kernel's own entries are left out.
  The loops of `copy_pagetables` never turn, so a fork copies the directory only.
  A new page table holds what was in its memory: entries that are absent, or `Stray`,
  taken for mapped pages. `do_pg_unpresent` passes `PAGE_SIZE` as the physical address, so
  every page of the heap is physical page 1, and the page it allocated is
  lost. `kmalloc(PAGE_SIZE)` passes a number of pages on; a block is taken to be as
  large as was asked for. A fork without memory frees NULL (task.c:160, 250), and `kfree` has no
  test for it: page 0, the kernel's (bootmm.c:97), joins the free blocks. Its `private` is taken to
  be 0: the initialisation of the page array is not in the repository. When `kmalloc` gets page 0
  it returns NULL, so its caller fails while memory is left, and page 0 is gone from the pool
  (`ReturnsNull`, `Left`). When `slub_alloc` gets it, it formats a page over the kernel;
  the model stops there (`AllocNull`). A child's lists of address ranges end at the heads of its parent, so a walk
  may never end (`VmaEndless`); the kernel then does nothing more, as after `die`. That such a
  walk might take the head for an object and change the lists is left out.
* **Interrupts.** `switch_to` saves a task in the middle of its `do_interrupt`, so
  the source it was serving is cleared by another task, and it finds the ICR it
  read when it returns. A new task starts behind its parent's system call and clears nothing: the
  tick that brought it in interrupts it once more. A source that is raised while it
  is pending is not seen twice. SPI never gets a handler and is
  pending for ever once raised: the model lets interrupts with a handler through, and no
  user instruction, so no fork, comes between. No file calls `init_sched`: it may be called at any
  time before interrupts are enabled, and only before `init_time` does it register
  `timer_sched`, for the test of `register_work` (intr.c:87) is the wrong way
  round. For the same reason `init_time` returns before `set_timer` (time.c:39-42) and
  `init_keyboard` before the buffer is set up (key.c:28-36); the clock is taken to
  interrupt all the same, and `keyb_handler`, which is not defined, to return.
* **FsCache.** `latest` is a history variable: no action reads it to decide. The file
  system is not re-entered, so an access is a step, but `fs_fflush` is a step for
  each buffer, for the power may fail between them. What `fs_victim_512` stores
  through the moved pointer is the word behind the hand; for one of the two caches
  this may be the hand of the other, which is `OtherVictim`; other words are not
  modelled. A write that fails may
  have reached the card or not. `Crash` forgets every buffer.
* **FatFile.** `fs_open` always fails as written (fs_fat.c:234), so nothing could be
  read or written; `Open` stands for the handle it sets up when it finds the entry.
  `fs_alloc` never stores through `new_alloc`: the entry of the last cluster stays the
  end of the chain, and what is written behind it goes to a buffer that names no
  cluster. The model follows this: `content` and the properties are therefore about
  the positions that have a cluster. For a file without clusters the first cluster
  stays 0. Premises: a card of less than 1 GB, which has no sector for the entry or
  the data of cluster 0x0FFFFFFF, so accesses to them fail; a read that fails leaves
  the buffer alone (`fs_cache_crc` shows what happens otherwise); a cluster is
  written as a whole or not at all; one handle per file. A flush of the cache is one
  step here, because `FsCache` has its parts; after a power failure each entry of the
  FAT, each size and the hint may be either the flushed or the latest value, but not one that lay
  between and that a failed flush may have written. `card[0]` is
  what `fs_dataclus2sec(0)` names, two clusters before the first one.

## Runs

| Run | Asks | Instance and why it is enough |
|---|---|---|
| `buddy_threads` | Is every frame always in exactly one place, do lists, orders and counters agree, and are two buddies never both free, while two threads interleave? Does Buddy implement PageAllocator, does booting end and coalesce, is the lock always released? | 2 threads, 4 frames, orders 0-2, requests up to 3, with fairness. Merge and split chains of length 2, failing requests and every overlap of two calls occur; 98 000 states |
| `bootmm` | With returns of regions and of parts of regions, is a page ever given out twice, and is the search a first fit? As long as the allocations are page aligned and nothing is given back (`plain`), as in a boot, do `s_map` and `info` agree, are regions found again, and where does the buddy range start? | 6 pages, 3 sizes (one odd), 2 types besides the kernel's, alignments 1 and 2; all patterns of used pages arise; 418 000 states |
| `bootmm_merge_loses` | *violation*: does `info` record the use of memory (bootmen.h:28)? | an aligned allocation leaves a gap that a later one closes |
| `bootmm_handover` | *violation*: is only available memory handed to the buddy system (buddy.c:36)? | the last used page is a multiple of the largest block |
| `vma_ranges` | Does every call but one that cuts a hole beside an object, or with memory for one object, keep a list in order? In a list in order, does an add produce one object, does every call change the pages as asked (AddressSpace)? | 16 pages of 2 bytes: 5 of program, 1 of heap; five pages hold three separate objects; every failure of `kmalloc`, and lists in every order line 30 leads to; 57 000 states |
| `vma_holes` | *violation*: does `delete_vmas` delete (vma.c:142)? | a hole is cut with memory for one object, then the part in front of it is deleted |
| `sched_fork` | Is no task lost, doubled or starved, do numbers stay distinct, does fork name its child? | 3 tasks, 5 numbers, so objects run out, and numbers when forks have lost two; any answer and any stray store of a fork without return; slices of 4 and 2 ticks |
| `process_memory` | Does any memory get two users, but for page 0, which failing forks free? Does a fault change another task's addresses, or repeat for ever? | 2 tasks; 8 blocks, so that memory runs out before each call of `kmalloc`; objects of which two and none fit behind the head of a page, whose end leaves no room for the link of a third; 2 entries of the heap with tables of 2, so that a mapping drops another; 177 000 states |
| `clock_interrupts` | Is an interrupt ever cleared unserved, does a key stay pending, does each task run again? | 3 tasks with slices of 4 and 2 ticks, all three sources, either order of the registrations; 211 000 states |
| `fs_cache` | Are buffers never stale, doubled or lost over failures and power cuts; is the eviction order the documented one? | 4 sectors in 3 buffers, so that eviction happens with every pattern of the bits |
| `fat_files` | Do reads return what was written, is every byte kept and durable after a close, are the chains left alone? | one file of two clusters behind a single buffer, so that each change of cluster evicts; one file without clusters; two free clusters around the chain, so that a wrong hint would meet it; reads and writes of 3 bytes with clusters of 2, which start at even and at odd offsets and go past the chain, the first of which extend the file; 246 000 states |
| `fs_cache_crc` | *violation*: does a clean buffer hold what the card holds (the chapter's notes, line 13)? | one buffer and a read with a bad CRC |

All properties of the passing runs were tried against a mutation of the code
that breaks them (`mutants` in PROJECT.json; the mutated definitions are named as
such in the modules).

Bounds. Nothing counts without limit: the buddy and scheduler models are finite by
their constants alone. `Vma` stops at `MaxObjects` objects in a list, three in `vma_ranges`:
a list of three has an object in front of, behind and between others; lists in order have no
more there, and only repeated holes in a list out of order would make more. `Bootmm` stops at `MAX_INFO` entries (`InArray`),
which is also where the code would write past its array; the runs choose it so
large that it is not reached. `CHECK_DEADLOCK FALSE` is said for `Bootmm`, which is
finished when memory is full or the buddy system has taken over, and for
`Paging`, because `die`, and page 0 under slub, stop the kernel.

### Fairness

* `Buddy!FairSpec`: weak fairness on the steps *inside* the allocator, per thread,
  and on the loop of `init_buddy`. A thread waits for nothing but the lock and the
  kernel runs on. Nobody is obliged to call. Weak fairness does not promise a
  thread the lock when several compete, and no property asks for it:
  `LockReleased` is about the thread that has it.
* `Sched!Spec`: weak fairness on the clock interrupt, which is free-running
  hardware. Forks are never obliged to happen; `RunsAgain` holds however many do,
  because only finitely many can succeed.
* `Paging!Spec`: weak fairness on what the kernel does with interrupts off; strong
  fairness on switching to each task and on a task repeating the access that
  was broken off. The latter two are what `RunsAgain` of `Sched` shows: each task
  runs again and again. Nobody is obliged to access memory, fork or ask for objects.
* `Interrupts!IntrSpec`: weak fairness on booting, on the processor in `do_interrupt`
  and on the clock. Keys and SPI are never obliged to come.

## Proofs

Every theorem holds for all values of the constants that satisfy the stated
assumptions, and is checked to the last leaf.

**Buddy** (`BuddyProofs`): `TypeCorrect`, `NoOverlap`, `Aligned`, `NothingLost`,
`ListsCorrect` for any number of threads, frames and orders. None of these is
inductive alone. The invariant `BuddyInv` adds *where* things are: the lock is
held exactly by the thread whose program counter is inside the critical section
(`Locking`), the block in a thread's hands is legal (`HandsOK`), and the placement of
blocks is good: disjoint, natural and covering (`Good`). A merge or a split then is
one lemma about placements (two halves against their union), applied at each
action; the arithmetic of buddies, that two natural blocks of one order with the
same parent are halves of a natural block, is proved once. Assumptions:
`Boot` is a thread, the range is a multiple of each block size (buddy.c:26-31
aligns it), and `2^(o+1) = 2 * 2^o`, which the provers have no rule for and
which TLC evaluates on every instance.

**Eager merging and the abstract allocator** (`BuddyRefinement`): `FlagExact`,
`MergedFully` and `Refinement`. The hard step of the refinement is the refusal:
`alloc_pages` gives up when the lists from the wanted order upwards are empty, the
abstract allocator only when no aligned block of that order is free. The two agree
because of `EagerOn`: an aligned block whose frames are all free lies inside one
listed block. That holds for the listed blocks at *every* step, also while the thread with
the lock has a block out of the lists, and is proved first about sets of blocks alone
(adding a block whose buddy is not free, taking a block out), by induction on the order. `Scanned`
says which lists `alloc_pages` has found empty so far, and `Marked` where
`_PAGE_ALLOCED` is set while blocks are between lists and callers. `MergedFully` is
the case of a block and its buddy. Each action then maps to one of `PageAllocator`
or to a stutter: a request is granted when the block leaves the lock, a freed
block is absorbed when it is listed.

**Scheduler** (`SchedProofs`): `QueueCorrect`, `PidsCorrect`, `SliceCorrect`,
`ForkCorrect`. The conjunction of the first three with the types is inductive: the exact queue is what
makes the head of the queue a task, and the positive counters are what keeps the
tick from wrapping. The lemmas about a new first element and about rotating a
sequence without repetitions carry the proof. Assumption: a default slice of two
ticks or more (with one tick, the renewed slice `_DEFAULT_TICKS / 2` is 0).
`ForkCorrect` (`ForkNamesChild`) rests on it: a new number is no one else's, and no task
goes away. It holds whatever forks fail and whatever they return or store, for every task that
these have not hit (`strayed`).

**Boot memory** (`BootmmProofs`): `BootPagesApart` (`NoDoubleAllocation`) and
`SearchIsFirstFit` (`FirstFit`) for every sequence of allocations and returns;
`InfoAgrees`, `RegionsKeepTheirEntry` and `BuddyBehindAll`, of every sequence too, as long as
it is that of a boot (`plain`). The loop of
`find_pages` is a recursive function. What it returns is proved by induction on the
distance to the end of the range: the pages it returns are free and aligned, and
with an alignment of one page it leaves no earlier run out. For a boot the invariant is `RecordInv`: with
an alignment of one page the used pages are exactly those up to `last_alloc`, and
`info` is a list of adjacent intervals over them, so `insert_mminfo` only ever appends or
extends the last entry. An alignment of 1 is what the one caller in the kernel,
`init_buddy`, passes; `bootmm_merge_loses` shows that the first is false without it.

**Sector cache** (`FsCacheProofs`): `OneBuffer`, `NeverStale`, `NoLostWrite`,
`CleanCorrect`, `FlushCorrect`, `CleanEvictedFirst`, `ReferencedSpared`. The four
invariants depend on each other: what leaves the cache is on the card because its
buffer was current and either dirty, and then written, or clean, and then equal to the
card. `FlushCorrect` adds `CleanBelow`, that a flush has left nothing dirty behind
it. The theorems assume `"crc" \notin ReadErrors`; the run `fs_cache_crc` shows that
without it they are false.

**Files** (`FatFileProofs`): `FilesKeepTheirBytes` (`BytesKept`), `ReadsAreRight`
(`ReadsWhatWasWritten`), `ChainsStay` (`ChainsKept`), `CloseIsDurable`
(`CloseDurable`), for any number of files, buffers and clusters of any size. The clusters of a file are a
recursive function of their number (`NthIn`), and the facts about it are proved by
induction: a table that agrees on the clusters in use yields the same chain
(`NthSame`), and no cluster is in two places of the chains (`NthOnce`). `FileInv` has four parts.
`Intact`: the FAT in the cache and the one on the card agree with the first one
on the chains, and the cluster behind the hint is in none; this is inductive
although an allocation may fail half-way and a power failure mixes the two tables entry by entry.
`Buffered` and `Bytes`: a buffer holds a cluster of its own file, alone, and is
current; what no buffer holds is current on the card. `Closing`: the buffers of a handle
below the loop variable of `fs_close` are clean. `Moving`: a call is at the cluster
that its position and the number of clusters still to go say, and a read has got
exactly the bytes up to its position. Every step that replaces a buffer is an instance of two
lemmas, `Evicted` and `Installed`. Assumptions: `FatAssumption` and
`ChainAssumption`, that the card is consistent at first: chains neither meet nor
run in a circle, and no cluster of a chain is marked free.

**Interrupts** (`SchedProofs`): `QueueUnderInterrupts` and `ClearedWhenServed`
(`TicksCounted`). Seen from `Sched` every step of `Interrupts` is a step of `Sched` or none
(`SchedSteps`), so the scheduler's invariant carries over. `IntrInv` adds where tasks
can be: one that does not run has never run, or is behind the call of `timer_handler`;
the clock is pending from when the running task has read it until it clears it.
The exceptions in `TicksCounted` are what remains where this fails: for a key, whose
pending bit another task may have cleared in between, and for the first tick of a new task.
Assumptions: those of the scheduler.

**Paging** (`PagingProofs`): `FaultsArePrivate` (`FaultPrivate`) and
`MemoryNotShared` (`NoSharedMemory`), for any number of tasks, blocks and addresses. Tasks share page tables after a fork; a fault is
private because `do_one_mapping` writes into a block that no directory names. That is not
inductive: a block may come back through `free_pages`. `PagingInv` says that a free block
is free once and no table, page 0 at most once among them, and that the block the kernel has in hand is neither
free nor a table. A call of `kmalloc` that returns NULL takes nothing or page 0, a `kfree(NULL)` returns page 0,
which was taken before or never free (`LeftFacts`, `NullTaken`, `GiveBack`), so no other block is affected. `MemoryNotShared` needs all uses at once: `SharedInv` says that
a block has at most one use and a free block none (`OneUser`), and where objects are in the
pages of the slub caches. Assumptions: the constants are as `SlubAssumption` and
`PagingAssumption` say (`init` is a task, the program lies below the heap).

**Address ranges** (`VmaProofs`): `VmaInvariant`, `OrderIsKept` (`OrderKept`), `OneObjectAdded`
(`AddsOneObject`) and `VmaRefinement` (`ImplementsAddressSpace`), for any size of pages
and addresses, any layout and lists of any length, in order or not. Addresses are first turned into
numbers of pages, which takes that no end wraps: a range that `verify_vma` lets pass
ends below `ROM_START`, and no size reaches past the end of the address space. `VmaInv` says what holds
of every list: it holds objects, and a call in progress has a range of whole pages inside its part.
What holds of a list in order is stronger and is kept by each step, not by an invariant: its
objects consist of whole pages and have at least a page between any two. The gap is what
order alone lacks: two objects that only touch are in order, but an add next to them would merge one and leave the other.
What the loop of `add_vmas` leaves behind is proved by induction on the objects it has
passed (`VisitTurn`, `LoopIs`, `WalkIs`): before the new range has found its place, the
objects passed lie before it and the current start covers what was absorbed. From that
`AddedPages` and `RemovedPages` say which pages a call maps and unmaps, and `SpaceStep` that each
step is one of `AddressSpace`, which leaves a list out of order to itself (`Unsound`). Assumptions:
`VmaAssumption`, with pages of at least two bytes and sizes that do not wrap.

Induction over data is done here without the library's induction theorems, which
take an operator: `LeastMember`, that every set of numbers has a least member, follows from
the well-foundedness of `<`, and each induction considers the least counterexample.

**Only model-checked**: liveness (`LockReleased`, `BootFinishes`, `RunsAgain`,
`FaultEnds`, `KeyTaken`, `RunsWhenRegistered`), which is out of the prover's reach.
Every safety invariant, action property and refinement of a passing run has a theorem.

## Known disagreements between code and text

With a run (`findings` in PROJECT.json):

* bootmm.c:42-44 removes the entry it has extended; the list then misses two
  regions (`bootmm_merge_loses`).
* buddy.c:26 hands over the last used page when its number is a multiple of the
  largest block (`bootmm_handover`). `BuddyStartsBehind` shows that nothing worse can
  happen.
* vma.c:30 links the rest of a split object behind the following object, or in front of the list if
  none follows, and vma.c:177-181 leaves a half-cut hole when `kmalloc` fails between. After an
  add of 4-9 and a delete of 6-7 with memory for one object the list is [rest, front], and a
  delete of 4-5, which is exactly `front`, does nothing (`vma_holes`). With memory for
  both it takes a second object: add two ranges that do not touch, delete the middle of the
  first, and the list is [front, second, rest].
* fs_fat.c:77 leaves a buffer named after a sector whose bytes were overwritten
  (`fs_cache_crc`).

Seen while modelling, without a run of their own:

* bootmm.c:216 exchanges start and end when the front of a region is given
  back, so the entry ends before it starts (bootmen.h:28 says the list records the
  use of memory). `BootRegionsFindable` and `BootRecordsUsage` are therefore about
  a boot, in which nothing is given back, and `NoDoubleAllocation`, which does
  not rest on `info`, for every use.
* bootmm.c:171 and 191 round sizes up when allocating and down when freeing; the
  last page of an odd-sized region is never freed.
* bootmm.c:54 counts entries past `MAX_INFO` (the notes of chapter 6, line 19, ask
  that it never does).
* bootmm.c:149 leaves the alignment of line 123 behind once it has met a used
  page.
* vma.c does not adjust `cnt` when the front or the back of an object is deleted; the
  notes of chapter 7 (line 30) call it the number of pages.
* task.c:113 and 133: the loops of `copy_pagetables` start behind their end, so no
  table is copied and none is write-protected, against their comments.
* task.c:28 makes a new page table for each mapping: what the 4 MB around it held
  is dropped, and most of the new table is never written.
* except.c:27 maps `PAGE_SIZE` instead of the new page, and does not look at the result;
  except.c:84 ends a task for just the lack of a right that brought it there (its comment, line
  35, speaks of a copy).
* slub.c:120 moves `pages`; slub.c:159 passes a number of pages where buddy.c takes an
  order; slub.c:163 tests `size` where it means `cache`. For sizes above 1024 and up to
  2048 the format loop leaves one object, the one with the `slub_head`, so
  `slub_alloc` uses up all memory (`AllocDrains`; slub.c:146 promises any size).
* task.c:160 and 250 free what may be NULL, and slub.c:170-176 does not look: page 0, in use, joins
  the free blocks. `NoSharedMemory` excepts this page and shows that it is free once at most and
  that no other block gets a second user by it.
* task.c:247-251: behind error2 and error3 `copy_mem` returns nothing, so `fork` may answer with any number and
  store a 0 anywhere (task.c:203, 206). `ForkNamesChild` excepts the tasks this has hit.
* task.c:249: the process number is not given back.
* fs_fat.c:587: `fs_alloc` finds a cluster, marks it and clears it, but does not store
  its number for the caller, so no file ever grows by a cluster and the marked one is
  lost (the notes of chapter 8, line 41).
* fs_fat.c:234 assigns where it means to compare, so `fs_open` always fails.
* intr.c:48-49: a task that was switched out inside its tick goes on with the ICR it
  read then, calls the keyboard's handler in vain, and clears a key that has come
  since. `TicksCounted` has this as its one exception.
* time.c:99 carries into the wrong digit; intr.c:87 and 99 have their guards the
  wrong way round; key.c:83 returns with the lock held.
* sd.c:170-174: `sd_read_multiple` returns after its first block.

## Plan

In the order of importance; all but number 10 are done.

1. `PageAllocator`, `Buddy`, `BuddyProofs`: the concurrent core.
2. `Bootmm`: the hand-over of memory.
3. `FsCache`, `FsCacheProofs`: failures and crashes.
4. `AddressSpace`, `Vma`: merging and splitting of ranges.
5. `Sched`, `SchedProofs`: fork and round robin.
6. `FatFile`: reads, writes and closing over the chains of the FAT.
7. `Slub`: objects from pages.
8. `Paging`: page tables, forks and faults over `Slub`.
9. `Interrupts`: dispatch, registration and the clock under `Sched`.
10. Later: `fs_creat` and `fs_find` as operations on directory entries; the tool library
    as operators against reference arithmetic; the ring pointers of list.h.
11. `BuddyRefinement`, `BootmmProofs`, `FsCacheProofs`, `FatFileProofs`, `VmaProofs`,
    `PagingProofs`: theorems for the safety properties and refinements of the runs.

## Not modelled

Boot code and exception entry (straight-line register set-up), `init_pgtable` (identity
mappings of the kernel, written once), VGA output and formatting (no state another
part reads), SPI command sequences of the SD driver (pure I/O; their outcomes are in
`FsCache`), the pointer manipulation inside list.h (lists are sequences), the notes and
the notebook. `fs_init`, `fs_find` and `fs_creat` (parsing and building of directory entries).
`slub_free`, after whose first call no page can be looked up. `flush_systime` and
`get_scancode`, which the guards of `register_work` keep off their lists, and `get_ch`,
which nothing calls and for which the buffer is never filled. The tool library.

## Running

    tlc -workers 2 -config FsCache.cfg MCFsCache
    tlapm FsCacheProofs.tla

Run names, modules and configurations are listed under `runs` in PROJECT.json. The
longest run takes about a minute, the longest proof module a few minutes.
