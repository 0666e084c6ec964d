\* A gap left by an aligned region is filled.
SPECIFICATION BootSpec
CONSTANTS
  PAGE_SIZE = 2
  MaxPfn = 8
  KernelPages = 1
  MapPages = 1
  MAX_INFO = 10
  MAX_BUDDY_ORDER = 2
  Types = {"VGABUFF", "PTABLE"}
  Sizes = {2, 3}
  Aligns = {1, 2}
  PagesSize = 2
INVARIANTS InfoRecordsUsage
CHECK_DEADLOCK FALSE
