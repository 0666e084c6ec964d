\* Two threads that interleave in the allocator of a four-frame range.
SPECIFICATION FairSpec
CONSTANTS
  Boot = b
  Procs = {b, p1}
  NoProc = NoProc
  NPages = 4
  MAX_BUDDY_ORDER = 2
  MaxRequest = 3
INVARIANTS TypeOK BlocksDisjoint NoFrameLost ListsAgree BlocksNatural AllocedExact NoFreeBuddies
PROPERTIES ImplementsAllocator LockReleased BootFinishes
