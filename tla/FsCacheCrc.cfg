\* A read may find a bad CRC after it has overwritten the buffer.
SPECIFICATION Spec
CONSTANTS
  Sectors = {s1, s2}
  Values = {v0, v1}
  Junk = Junk
  NoSector = NoSector
  NBUF = 1
  ReadErrors = {"refused", "crc"}
INVARIANTS CleanIsOnDisk
