\* Allocations of a boot, then also aligned ones, returns of regions and of parts of them;
\* after init_buddy the system has left this module.
SPECIFICATION Spec
CONSTANTS
  PAGE_SIZE = 2
  MaxPfn = 6
  KernelPages = 1
  MapPages = 1
  MAX_INFO = 10
  MAX_BUDDY_ORDER = 1
  Types = {"VGABUFF", "PTABLE"}
  Sizes = {2, 3, 6}
  Aligns = {1, 2}
  PagesSize = 2
INVARIANTS NoDoubleAllocation FirstFit BootRecordsUsage BootRegionsFindable BuddyStartsBehind
CHECK_DEADLOCK FALSE
