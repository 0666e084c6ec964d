\* Two tasks; two entries of the heap, with tables of two; eight blocks; objects of which
\* two and none fit behind the head of a page, which ends where a third one's link would be.
SPECIFICATION Spec
CONSTANTS
  NBlocks = 8
  PAGE_SIZE = 76
  Sizes = {14, 36}
  Tasks = {init, t1}
  init = init
  Dirs = {0, 1, 2}
  Ptes = {0, 1}
  CodeVa <- MCCodeVa
  HeapDirs = {1, 2}
  VmaCache = 14
 
PROPERTIES FaultPrivate FaultEnds
CHECK_DEADLOCK FALSE
