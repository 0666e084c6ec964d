\* Four sectors in three buffers; reads, writes and power fail.
SPECIFICATION Spec
CONSTANTS
  Sectors = {s1, s2, s3, s4}
  Values = {v0, v1}
  Junk = Junk
  NoSector = NoSector
  NBUF = 3
  ReadErrors = {"refused"}
INVARIANTS OneBufferPerSector CacheCurrent EvictedWritten CleanIsOnDisk
PROPERTIES FlushDurable CleanFirst SecondChance
SYMMETRY SectorsAlike
