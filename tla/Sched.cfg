\* Three objects and five process numbers, two of them to lose; slices of four
\* ticks to start with, of two later.
SPECIFICATION Spec
CONSTANTS
  Slots = {init, t1, t2}
  init = init
  IDMAP_MAX = 5
  _DEFAULT_TICKS = 4
INVARIANTS QueueExact PidsDistinct SliceNeverZero ForkNamesChild
PROPERTIES RunsAgain
