\* The range init_buddy computes.
SPECIFICATION BootSpec
CONSTANTS
  PAGE_SIZE = 2
  MaxPfn = 10
  KernelPages = 1
  MapPages = 1
  MAX_INFO = 10
  MAX_BUDDY_ORDER = 2
  Types = {"VGABUFF", "PTABLE"}
  Sizes = {2, 4}
  Aligns = {1}
  PagesSize = 2
INVARIANTS BuddyTakesFreePages
CHECK_DEADLOCK FALSE
