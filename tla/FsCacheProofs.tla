--------------------------- MODULE FsCacheProofs ---------------------------
(***************************************************************************)
(* Proofs about FsCache, for any sectors, values and number of buffers.    *)
(* The four invariants of the cache need one another: a sector that leaves *)
(* the cache is on the card because its buffer was current, and was either *)
(* written back or clean.  All of it rests on reads that fail before they  *)
(* touch the buffer, so that assumption is a conjunct of the invariant.    *)
(***************************************************************************)
EXTENDS FsCache, TLAPS

\* What fs_fflush has passed needs no write any more.
CleanBelow == flushing \in Bufs => \A i \in Bufs : i < flushing => ~MustWrite(buf[i])

Coherent == OneBufferPerSector /\ CacheCurrent /\ EvictedWritten /\ CleanIsOnDisk

NoCrc == "crc" \notin ReadErrors

FsInv == CacheTypeOK /\ Coherent /\ CleanBelow /\ NoCrc

BufType == [cur : Sectors \cup {NoSector}, data : Values \cup {Junk}, ref : BOOLEAN, dirty : BOOLEAN]

\* A write-back changes nothing but the sector of its buffer, which then has
\* what was last written to it.
LEMMA WritesBack ==
  ASSUME FsInv, NEW v \in Bufs
  PROVE  /\ WriteBack(buf[v]) \in [Sectors -> Values]
         /\ \A s \in Sectors :
              WriteBack(buf[v])[s] = IF MustWrite(buf[v]) /\ buf[v].cur = s THEN latest[s] ELSE disk[s]
<1>1. /\ disk \in [Sectors -> Values] /\ latest \in [Sectors -> Values]
      /\ buf[v].cur \in Sectors \cup {NoSector}
  BY DEF FsInv, CacheTypeOK
<1>2. buf[v].cur # NoSector => buf[v].data = latest[buf[v].cur]
  BY DEF FsInv, Coherent, CacheCurrent
<1> QED BY <1>1, <1>2 DEF WriteBack, MustWrite

\* A step that writes back a buffer v, or fails to, and keeps every buffer
\* but for the dirty bit of v and the reference bits.
LEMMA WrittenBack ==
  ASSUME FsInv, NEW v \in Bufs,
         disk' \in {disk, WriteBack(buf[v])}, latest' = latest,
         buf' \in [Bufs -> BufType],
         \A i \in Bufs : /\ buf'[i].cur = buf[i].cur /\ buf'[i].data = buf[i].data
                         /\ i # v => buf'[i].dirty = buf[i].dirty,
         \/ buf'[v].dirty = buf[v].dirty
         \/ buf'[v].dirty = (buf[v].dirty /\ ~MustWrite(buf[v])) /\ disk' = WriteBack(buf[v])
  PROVE  disk' \in [Sectors -> Values] /\ latest' \in [Sectors -> Values] /\ Coherent'
<1> USE DEF FsInv
<1>1. /\ disk \in [Sectors -> Values] /\ latest \in [Sectors -> Values]
      /\ \A i \in Bufs : buf[i].cur \in Sectors \cup {NoSector} /\ buf[i].dirty \in BOOLEAN
  BY DEF CacheTypeOK
<1>2. disk' \in [Sectors -> Values]
  BY <1>1, WritesBack
<1>3. \A s \in Sectors : disk'[s] = disk[s] \/ (buf[v].cur = s /\ disk'[s] = latest[s])
  BY WritesBack
<1>4. OneBufferPerSector'
  BY DEF Coherent, OneBufferPerSector
<1>5. CacheCurrent'
  BY DEF Coherent, CacheCurrent
<1>6. EvictedWritten'
  <2> SUFFICES ASSUME NEW s \in Sectors, Cached(s)' = {} PROVE disk'[s] = latest[s]
    BY DEF EvictedWritten
  <2>1. Cached(s) = {}
    BY DEF Cached
  <2>2. disk[s] = latest[s]
    BY <2>1 DEF Coherent, EvictedWritten
  <2> QED BY <1>3, <2>2
<1>7. CleanIsOnDisk'
  <2> SUFFICES ASSUME NEW i \in Bufs, buf[i].cur # NoSector, ~buf'[i].dirty
               PROVE  buf[i].data = disk'[buf[i].cur]
    BY DEF CleanIsOnDisk
  <2>1. buf[i].data = latest[buf[i].cur] /\ buf[i].cur \in Sectors
    BY <1>1 DEF Coherent, CacheCurrent
  <2>2. CASE ~buf[i].dirty
    <3>1. buf[i].data = disk[buf[i].cur]
      BY <2>2 DEF Coherent, CleanIsOnDisk
    <3> QED BY <1>3, <2>1, <3>1
  <2>3. CASE buf[i].dirty
    <3>1. i = v /\ MustWrite(buf[v]) /\ disk' = WriteBack(buf[v])
      BY <2>3 DEF MustWrite
    <3> QED BY <2>1, <3>1, WritesBack
  <2> QED BY <1>1, <2>2, <2>3
<1> QED BY <1>1, <1>2, <1>4, <1>5, <1>6, <1>7 DEF Coherent

\* The buffers after the first sweep: at most reference bits have changed.
LEMMA SweptSame ==
  ASSUME FsInv
  PROVE  /\ Swept \in [Bufs -> BufType]
         /\ \A i \in Bufs : /\ Swept[i].cur = buf[i].cur /\ Swept[i].data = buf[i].data
                            /\ Swept[i].dirty = buf[i].dirty
<1>1. buf \in [Bufs -> BufType]
  BY DEF FsInv, CacheTypeOK, BufType
<1>2. \A i \in Bufs, r \in BOOLEAN :
        LET b == [buf[i] EXCEPT !.ref = r]
        IN  b \in BufType /\ b.cur = buf[i].cur /\ b.data = buf[i].data /\ b.dirty = buf[i].dirty
  BY <1>1 DEF BufType
<1> DEFINE r(i) == buf[i].ref /\ \E q \in Quiet : Behind(q) < Behind(i)
<1>3. \A i \in Bufs : r(i) \in BOOLEAN /\ Swept[i] = [buf[i] EXCEPT !.ref = r(i)]
  BY <1>1 DEF BufType, Swept
<1>4. Swept = [i \in Bufs |-> Swept[i]]
  BY DEF Swept
<1> HIDE DEF r
<1>5. \A i \in Bufs : /\ Swept[i] \in BufType
                     /\ Swept[i].cur = buf[i].cur /\ Swept[i].data = buf[i].data
                     /\ Swept[i].dirty = buf[i].dirty
  <2> SUFFICES ASSUME NEW i \in Bufs
               PROVE  /\ Swept[i] \in BufType
                      /\ Swept[i].cur = buf[i].cur /\ Swept[i].data = buf[i].data
                      /\ Swept[i].dirty = buf[i].dirty
    OBVIOUS
  <2>1. PICK b \in BOOLEAN : Swept[i] = [buf[i] EXCEPT !.ref = b]
    BY <1>3
  <2> QED BY <1>2, <2>1
<1>6. Swept \in [Bufs -> BufType]
  BY <1>4, <1>5
<1> QED BY <1>5, <1>6

\* A hit: only the buffer of the sector, and what was written to it, change.
LEMMA HitStep ==
  ASSUME FsInv, NEW s \in Sectors, NEW use \in Uses, Hit(s, use)
  PROVE  FsInv'
<1> USE DEF FsInv
<1>1. PICK i \in Bufs : buf[i].cur = s /\ buf' = [buf EXCEPT ![i] = Used([buf[i] EXCEPT !.ref = TRUE], use)]
  BY DEF Hit, Cached
<1>2. /\ buf \in [Bufs -> BufType] /\ disk \in [Sectors -> Values] /\ latest \in [Sectors -> Values]
      /\ NoSector \notin Sectors
  BY CacheAssumption DEF CacheTypeOK, BufType
<1>3. disk' = disk /\ clock_head' = clock_head /\ flushing' = flushing /\ flushing = NBUF /\ Note(s, use)
  BY DEF Hit
<1>4. \/ use = Keep
      \/ use # Keep /\ use.val \in Values
  BY DEF Uses, Keep, Put
<1>5. /\ buf' \in [Bufs -> BufType]
      /\ \A j \in Bufs : j # i => buf'[j] = buf[j]
      /\ buf'[i].cur = s
      /\ use = Keep => buf'[i].data = buf[i].data /\ buf'[i].dirty = buf[i].dirty
      /\ use # Keep => buf'[i].data = use.val /\ buf'[i].dirty = TRUE
  BY <1>1, <1>2, <1>4 DEF BufType, Used
<1>6. /\ latest' \in [Sectors -> Values]
      /\ \A t \in Sectors : latest'[t] = IF use # Keep /\ t = s THEN use.val ELSE latest[t]
  BY <1>2, <1>3, <1>4 DEF Note
<1>7. CacheTypeOK'
  BY <1>2, <1>3, <1>5, <1>6 DEF CacheTypeOK, BufType
<1>8. OneBufferPerSector'
  BY <1>1, <1>5 DEF Coherent, OneBufferPerSector
<1>9. CacheCurrent'
  <2>1. \A j \in Bufs : j # i => buf[j].cur # s
    BY <1>1, <1>2 DEF Coherent, OneBufferPerSector
  <2>2. \A j \in Bufs : buf[j].cur \in Sectors \cup {NoSector}
    BY <1>2 DEF BufType
  <2> QED BY <1>1, <1>2, <1>5, <1>6, <2>1, <2>2 DEF Coherent, CacheCurrent
<1>10. EvictedWritten'
  <2>1. \A t \in Sectors : Cached(t)' = {} => t # s /\ Cached(t) = {}
    BY <1>1, <1>5 DEF Cached
  <2> QED BY <1>3, <1>6, <2>1 DEF Coherent, EvictedWritten
<1>11. CleanIsOnDisk'
  BY <1>1, <1>3, <1>5 DEF Coherent, CleanIsOnDisk
<1>12. CleanBelow' /\ NoCrc'
  BY <1>3, CacheAssumption DEF CleanBelow, NoCrc, Bufs
<1> QED BY <1>7, <1>8, <1>9, <1>10, <1>11, <1>12 DEF Coherent

\* A miss: the victim's sector leaves the cache for s.
LEMMA MissStep ==
  ASSUME FsInv, NEW s \in Sectors, NEW v \in Bufs, NEW use \in Uses, Miss(s, v, use)
  PROVE  FsInv'
<1> USE DEF FsInv
<1> DEFINE new == Used([cur |-> s, data |-> disk[s], ref |-> TRUE, dirty |-> FALSE], use)
<1>1. /\ buf \in [Bufs -> BufType] /\ disk \in [Sectors -> Values] /\ latest \in [Sectors -> Values]
      /\ NoSector \notin Sectors
  BY CacheAssumption DEF CacheTypeOK, BufType
<1>2. /\ clock_head' = v /\ flushing' = flushing /\ flushing = NBUF /\ Note(s, use)
      /\ Cached(s) = {} /\ disk' = WriteBack(buf[v]) /\ buf' = [Swept EXCEPT ![v] = new]
  BY DEF Miss, Missing
<1>3. \/ use = Keep
      \/ use # Keep /\ use.val \in Values
  BY DEF Uses, Keep, Put
<1>4. /\ new \in BufType /\ new.cur = s
      /\ use = Keep => new.data = disk[s] /\ new.dirty = FALSE
      /\ use # Keep => new.data = use.val /\ new.dirty = TRUE
  BY <1>1, <1>3 DEF BufType, Used
<1> HIDE DEF new
<1>5. /\ buf' \in [Bufs -> BufType] /\ buf'[v] = new
      /\ \A i \in Bufs : i # v => /\ buf'[i].cur = buf[i].cur /\ buf'[i].data = buf[i].data
                                 /\ buf'[i].dirty = buf[i].dirty
  BY <1>2, <1>4, SweptSame
<1>6. /\ latest' \in [Sectors -> Values]
      /\ \A t \in Sectors : latest'[t] = IF use # Keep /\ t = s THEN use.val ELSE latest[t]
  BY <1>1, <1>2, <1>3 DEF Note
<1>7. /\ disk' \in [Sectors -> Values]
      /\ \A t \in Sectors : disk'[t] = IF MustWrite(buf[v]) /\ buf[v].cur = t THEN latest[t] ELSE disk[t]
  BY <1>2, WritesBack
<1>8. \A i \in Bufs : buf[i].cur # s /\ buf[i].cur \in Sectors \cup {NoSector}
  BY <1>1, <1>2 DEF Cached, BufType
<1>9. disk[s] = latest[s] /\ disk'[s] = disk[s]
  BY <1>2, <1>7, <1>8 DEF Coherent, EvictedWritten
<1>10. CacheTypeOK'
  BY <1>2, <1>5, <1>6, <1>7 DEF CacheTypeOK, BufType
<1>11. OneBufferPerSector'
  BY <1>4, <1>5, <1>8 DEF Coherent, OneBufferPerSector
<1>12. CacheCurrent'
  <2> SUFFICES ASSUME NEW i \in Bufs, buf'[i].cur # NoSector
               PROVE  buf'[i].data = latest'[buf'[i].cur]
    BY DEF CacheCurrent
  <2>1. CASE i = v
    BY <1>4, <1>5, <1>6, <1>9, <2>1
  <2>2. CASE i # v
    <3>1. buf[i].data = latest[buf[i].cur]
      BY <1>5, <2>2 DEF Coherent, CacheCurrent
    <3> QED BY <1>5, <1>6, <1>8, <2>2, <3>1
  <2> QED BY <2>1, <2>2
<1>13. EvictedWritten'
  <2> SUFFICES ASSUME NEW t \in Sectors, Cached(t)' = {} PROVE disk'[t] = latest'[t]
    BY DEF EvictedWritten
  <2>1. t # s /\ \A i \in Bufs : i # v => buf[i].cur # t
    BY <1>4, <1>5 DEF Cached
  <2>2. CASE buf[v].cur # t
    <3>1. disk[t] = latest[t]
      BY <2>1, <2>2 DEF Cached, Coherent, EvictedWritten
    <3> QED BY <1>6, <1>7, <2>1, <2>2, <3>1
  <2>3. CASE buf[v].cur = t /\ buf[v].dirty
    BY <1>1, <1>6, <1>7, <2>1, <2>3 DEF MustWrite
  <2>4. CASE buf[v].cur = t /\ ~buf[v].dirty
    <3>1. disk[t] = latest[t]
      BY <1>1, <2>4 DEF Coherent, CleanIsOnDisk, CacheCurrent
    <3> QED BY <1>6, <1>7, <2>1, <2>4, <3>1 DEF MustWrite
  <2> QED BY <2>2, <2>3, <2>4
<1>14. CleanIsOnDisk'
  <2> SUFFICES ASSUME NEW i \in Bufs, buf'[i].cur # NoSector, ~buf'[i].dirty
               PROVE  buf'[i].data = disk'[buf'[i].cur]
    BY DEF CleanIsOnDisk
  <2>1. CASE i = v
    BY <1>4, <1>5, <1>9, <2>1
  <2>2. CASE i # v
    <3>1. buf[i].data = disk[buf[i].cur] /\ buf[i].cur # NoSector
      BY <1>5, <2>2 DEF Coherent, CleanIsOnDisk
    <3>2. buf[v].cur # buf[i].cur
      BY <2>2, <3>1 DEF Coherent, OneBufferPerSector
    <3> QED BY <1>5, <1>7, <1>8, <2>2, <3>1, <3>2
  <2> QED BY <2>1, <2>2
<1>15. CleanBelow' /\ NoCrc'
  BY <1>2, CacheAssumption DEF CleanBelow, NoCrc, Bufs
<1> QED BY <1>10, <1>11, <1>12, <1>13, <1>14, <1>15 DEF Coherent

\* fs_write_block fails at a miss, with or without an effect on the card.
LEMMA MissWriteFailsStep ==
  ASSUME FsInv, NEW s \in Sectors, NEW v \in Bufs, MissWriteFails(s, v)
  PROVE  FsInv'
<1>1. /\ disk' \in {disk, WriteBack(buf[v])} /\ buf' = Swept /\ latest' = latest
      /\ clock_head' = v /\ flushing' = flushing /\ flushing = NBUF
  BY DEF MissWriteFails, Missing
<1>2. disk' \in [Sectors -> Values] /\ latest' \in [Sectors -> Values] /\ Coherent'
  BY <1>1, SweptSame, WrittenBack
<1>3. CacheTypeOK'
  BY <1>1, <1>2, SweptSame DEF FsInv, CacheTypeOK, BufType
<1>4. CleanBelow' /\ NoCrc'
  BY <1>1, CacheAssumption DEF FsInv, CleanBelow, NoCrc, Bufs
<1> QED BY <1>2, <1>3, <1>4 DEF FsInv

\* fs_read_block is refused after the write-back.
LEMMA MissReadFailsStep ==
  ASSUME FsInv, NEW s \in Sectors, NEW v \in Bufs, MissReadFails(s, v)
  PROVE  FsInv'
<1>1. /\ disk' = WriteBack(buf[v]) /\ latest' = latest
      /\ clock_head' = v /\ flushing' = flushing /\ flushing = NBUF
  BY DEF MissReadFails, Missing
<1>2. PICK e \in ReadErrors :
        buf' = [Swept EXCEPT ![v].dirty = @ /\ ~MustWrite(buf[v]),
                             ![v].data = IF e = "crc" THEN Junk ELSE @]
  BY DEF MissReadFails
<1>3. e # "crc"
  BY DEF FsInv, NoCrc
<1>4. /\ Swept \in [Bufs -> BufType]
      /\ \A i \in Bufs : /\ Swept[i].cur = buf[i].cur /\ Swept[i].data = buf[i].data
                         /\ Swept[i].dirty = buf[i].dirty
  BY SweptSame
<1>5. /\ buf' \in [Bufs -> BufType]
      /\ \A i \in Bufs : /\ buf'[i].cur = buf[i].cur /\ buf'[i].data = buf[i].data
                         /\ i # v => buf'[i].dirty = buf[i].dirty
      /\ buf'[v].dirty = (buf[v].dirty /\ ~MustWrite(buf[v]))
  <2> DEFINE d == buf[v].dirty /\ ~MustWrite(buf[v])
             b == [Swept[v] EXCEPT !.dirty = d, !.data = Swept[v].data]
  <2>1. d \in BOOLEAN /\ Swept[v] \in BufType
    BY <1>4 DEF MustWrite
  <2>2. buf' = [Swept EXCEPT ![v] = b]
    BY <1>2, <1>3, <1>4
  <2>3. b \in BufType /\ b.cur = buf[v].cur /\ b.data = buf[v].data /\ b.dirty = d
    BY <1>4, <2>1 DEF BufType
  <2> HIDE DEF b
  <2> QED BY <1>4, <2>2, <2>3
<1>6. disk' \in [Sectors -> Values] /\ latest' \in [Sectors -> Values] /\ Coherent'
  BY <1>1, <1>5, WrittenBack
<1>7. CacheTypeOK'
  BY <1>1, <1>5, <1>6 DEF FsInv, CacheTypeOK, BufType
<1>8. CleanBelow' /\ NoCrc'
  BY <1>1, CacheAssumption DEF FsInv, CleanBelow, NoCrc, Bufs
<1> QED BY <1>6, <1>7, <1>8 DEF FsInv

\* One turn of the loop of fs_fflush.
LEMMA FlushOneStep ==
  ASSUME FsInv, FlushOne
  PROVE  FsInv'
<1> DEFINE v == flushing
<1>1. /\ v \in Bufs /\ disk' = WriteBack(buf[v]) /\ latest' = latest
      /\ clock_head' = clock_head /\ flushing' = flushing + 1
      /\ buf' = [buf EXCEPT ![v].dirty = @ /\ ~MustWrite(buf[v])]
  BY DEF FlushOne
<1>2. buf \in [Bufs -> BufType]
  BY DEF FsInv, CacheTypeOK, BufType
<1>3. /\ buf' \in [Bufs -> BufType]
      /\ \A i \in Bufs : /\ buf'[i].cur = buf[i].cur /\ buf'[i].data = buf[i].data
                         /\ i # v => buf'[i].dirty = buf[i].dirty
      /\ buf'[v].dirty = (buf[v].dirty /\ ~MustWrite(buf[v]))
  BY <1>1, <1>2 DEF BufType
<1>4. disk' \in [Sectors -> Values] /\ latest' \in [Sectors -> Values] /\ Coherent'
  BY <1>1, <1>3, WrittenBack
<1>5. CacheTypeOK'
  BY <1>1, <1>3, <1>4, CacheAssumption DEF FsInv, CacheTypeOK, BufType, Bufs
<1>6. CleanBelow'
  <2> SUFFICES ASSUME NEW i \in Bufs, i < flushing + 1 PROVE ~MustWrite(buf'[i])
    BY <1>1 DEF CleanBelow, Bufs
  <2>1. i = v \/ i < v
    BY <1>1, CacheAssumption DEF Bufs
  <2>2. CASE i = v
    BY <1>3, <2>2 DEF MustWrite
  <2>3. CASE i < v
    BY <1>1, <1>3, <2>3 DEF FsInv, CleanBelow, MustWrite, Bufs
  <2> QED BY <2>1, <2>2, <2>3
<1> QED BY <1>4, <1>5, <1>6 DEF FsInv, NoCrc

\* fs_fflush gives up.
LEMMA FlushFailsStep ==
  ASSUME FsInv, FlushFails
  PROVE  FsInv'
<1>1. /\ flushing \in Bufs /\ disk' \in {disk, WriteBack(buf[flushing])} /\ buf' = buf
      /\ latest' = latest /\ clock_head' = clock_head /\ flushing' = NBUF
  BY DEF FlushFails
<1>2. disk' \in [Sectors -> Values] /\ latest' \in [Sectors -> Values] /\ Coherent'
  BY <1>1, WrittenBack DEF FsInv, CacheTypeOK, BufType
<1> QED BY <1>1, <1>2, CacheAssumption DEF FsInv, CacheTypeOK, CleanBelow, NoCrc, MustWrite, Bufs

-----------------------------------------------------------------------------
\* Empty buffers are coherent with any card: fs_init, and after a power failure.
LEMMA EmptyInv ==
  ASSUME NoCrc, disk \in [Sectors -> Values], latest = disk,
         buf = [i \in Bufs |-> Free], clock_head = 0, flushing = NBUF
  PROVE  FsInv
<1>1. \A i \in Bufs : buf[i] = Free
  OBVIOUS
<1>2. NBUF \notin Bufs /\ 0 \in Bufs /\ NBUF \in 0 .. NBUF
  BY CacheAssumption DEF Bufs
<1>3. CacheTypeOK
  BY <1>2 DEF CacheTypeOK, Free
<1>4. Coherent
  BY <1>1 DEF Coherent, OneBufferPerSector, CacheCurrent, EvictedWritten, CleanIsOnDisk, Free
<1> QED BY <1>2, <1>3, <1>4 DEF FsInv, CleanBelow

LEMMA InitInv == NoCrc /\ Init => FsInv
BY EmptyInv DEF Init

LEMMA CrashStep ==
  ASSUME FsInv, Crash
  PROVE  FsInv'
<1>1. /\ disk' = disk /\ latest' = disk /\ buf' = [i \in Bufs |-> Free]
      /\ clock_head' = 0 /\ flushing' = NBUF /\ disk \in [Sectors -> Values] /\ NoCrc
  BY DEF Crash, FsInv, CacheTypeOK
<1>2. \A i \in Bufs : buf'[i] = Free
  BY <1>1
<1>3. NBUF \notin Bufs /\ 0 \in Bufs /\ NBUF \in 0 .. NBUF
  BY CacheAssumption DEF Bufs
<1>4. CacheTypeOK'
  BY <1>1, <1>3 DEF CacheTypeOK, Free
<1>5. Coherent'
  BY <1>1, <1>2 DEF Coherent, OneBufferPerSector, CacheCurrent, EvictedWritten, CleanIsOnDisk, Free
<1> QED BY <1>1, <1>3, <1>4, <1>5 DEF FsInv, CleanBelow, NoCrc

\* The card and the buffers stay as they are.
LEMMA QuietStep ==
  ASSUME FsInv, UNCHANGED <<disk, buf, latest>>, clock_head' \in Bufs,
         flushing' = flushing \/ flushing' = 0
  PROVE  FsInv'
<1>1. CacheTypeOK'
  BY CacheAssumption DEF FsInv, CacheTypeOK
<1>2. Coherent'
  BY DEF FsInv, Coherent, OneBufferPerSector, CacheCurrent, EvictedWritten, CleanIsOnDisk, Cached
<1>3. CleanBelow'
  BY DEF FsInv, CleanBelow, MustWrite, Bufs
<1> QED BY <1>1, <1>2, <1>3 DEF FsInv, NoCrc

LEMMA StepInv == FsInv /\ [Next]_vars => FsInv'
<1> SUFFICES ASSUME FsInv, [Next]_vars PROVE FsInv'
  OBVIOUS
<1>0. clock_head \in Bufs /\ 0 \in Bufs
  BY CacheAssumption DEF FsInv, CacheTypeOK, Bufs
<1>1. CASE Access
  BY <1>1, HitStep, MissStep, MissWriteFailsStep, MissReadFailsStep DEF Access
<1>2. CASE Flush
  BY <1>0, <1>2, QuietStep DEF Flush
<1>3. CASE FlushOne
  BY <1>3, FlushOneStep
<1>4. CASE FlushFails
  BY <1>4, FlushFailsStep
<1>5. CASE OtherVictim
  BY <1>0, <1>5, QuietStep DEF OtherVictim
<1>6. CASE Crash
  BY <1>6, CrashStep
<1>7. CASE UNCHANGED vars
  BY <1>0, <1>7, QuietStep DEF vars
<1> QED BY <1>1, <1>2, <1>3, <1>4, <1>5, <1>6, <1>7 DEF Next

\* With reads that fail before they touch the buffer, the inductive invariant
\* holds throughout.
THEOREM Invariant == NoCrc /\ Spec => []FsInv
BY InitInv, StepInv, PTL DEF Spec

\* The cache keeps its types: the hand stays on a buffer and flush within them.
THEOREM TypeCorrect == NoCrc /\ Spec => []CacheTypeOK
<1>1. FsInv => CacheTypeOK
  BY DEF FsInv
<1> QED BY <1>1, Invariant, PTL

\* fs_read_512 never gives two buffers to one sector (fs_fat.c:65-87).
THEOREM OneBuffer == NoCrc /\ Spec => []OneBufferPerSector
<1>1. FsInv => OneBufferPerSector
  BY DEF FsInv, Coherent
<1> QED BY <1>1, Invariant, PTL

\* A cached sector reads as it was last written, whatever failed (fs_fat.c:65-87).
THEOREM NeverStale == NoCrc /\ Spec => []CacheCurrent
<1>1. FsInv => CacheCurrent
  BY DEF FsInv, Coherent
<1> QED BY <1>1, Invariant, PTL

\* No write is lost with the buffer it was made in (fs_fat.c:48-58 and 74).
THEOREM NoLostWrite == NoCrc /\ Spec => []EvictedWritten
<1>1. FsInv => EvictedWritten
  BY DEF FsInv, Coherent
<1> QED BY <1>1, Invariant, PTL

\* A buffer without its dirty bit holds what the card holds (fs_fat.c:48-58).
THEOREM CleanCorrect == NoCrc /\ Spec => []CleanIsOnDisk
<1>1. FsInv => CleanIsOnDisk
  BY DEF FsInv, Coherent
<1> QED BY <1>1, Invariant, PTL

\* The last turn of fs_fflush leaves every write on the card (fs_fat.c:363-367).
LEMMA LastTurn == FsInv /\ FlushOne /\ flushing' = NBUF => disk' = latest
<1> SUFFICES ASSUME FsInv, FlushOne, flushing' = NBUF PROVE disk' = latest
  OBVIOUS
<1>1. /\ flushing \in Bufs /\ disk' = WriteBack(buf[flushing])
      /\ disk' \in [Sectors -> Values] /\ latest \in [Sectors -> Values]
      /\ \A i \in Bufs : buf[i].cur \in Sectors \cup {NoSector}
  BY WritesBack DEF FlushOne, FsInv, CacheTypeOK
<1>2. \A i \in Bufs : i # flushing => ~MustWrite(buf[i])
  BY <1>1, CacheAssumption DEF FlushOne, FsInv, CleanBelow, Bufs
<1>3. ASSUME NEW s \in Sectors PROVE disk'[s] = latest[s]
  <2>1. CASE MustWrite(buf[flushing]) /\ buf[flushing].cur = s
    BY <1>1, <2>1, WritesBack
  <2>2. CASE ~(MustWrite(buf[flushing]) /\ buf[flushing].cur = s)
    <3>1. disk'[s] = disk[s]
      BY <1>1, <2>2, WritesBack
    <3>2. CASE Cached(s) = {}
      BY <3>1, <3>2 DEF FsInv, Coherent, EvictedWritten
    <3>3. ASSUME NEW i \in Bufs, buf[i].cur = s PROVE disk[s] = latest[s]
      <4>1. ~buf[i].dirty /\ s # NoSector
        BY <1>2, <2>2, <3>3, CacheAssumption DEF MustWrite
      <4> QED BY <3>3, <4>1 DEF FsInv, Coherent, CleanIsOnDisk, CacheCurrent
    <3> QED BY <3>1, <3>2, <3>3 DEF Cached
  <2> QED BY <2>1, <2>2
<1> QED BY <1>1, <1>3

\* An fs_fflush that reports success has put everything on the card.
THEOREM FlushCorrect == NoCrc /\ Spec => FlushDurable
<1>1. FsInv => [FlushOne /\ flushing' = NBUF => disk' = latest]_vars
  BY LastTurn
<1> QED BY <1>1, Invariant, PTL DEF FlushDurable, Spec

-----------------------------------------------------------------------------
\* What the choice of the victim promises, whatever state it starts from.
LEMMA VictimFacts ==
  ASSUME NEW v \in Bufs, Victim(v)
  PROVE  /\ buf[v].dirty => \A i \in Bufs : buf[i].dirty
         /\ buf[v].ref => ~\E j \in Bufs : ~buf[j].ref /\ ~buf[j].dirty
<1>1. CASE Quiet # {}
  BY <1>1 DEF Victim, First, Quiet
<1>2. CASE Quiet = {} /\ Clean # {}
  BY <1>2 DEF Victim, First, Quiet, Clean
<1>3. CASE Quiet = {} /\ Clean = {}
  BY <1>3 DEF Quiet, Clean
<1> QED BY <1>1, <1>2, <1>3

LEMMA CleanFirstStep == FsInv /\ [Next]_vars => (flushing = NBUF /\ disk' # disk => \A i \in Bufs : buf[i].dirty)
<1> SUFFICES ASSUME FsInv, [Next]_vars, flushing = NBUF, disk' # disk
             PROVE  \A i \in Bufs : buf[i].dirty
  OBVIOUS
<1>1. flushing \notin Bufs
  BY CacheAssumption DEF Bufs
<1>2. PICK s \in Sectors : \E v \in Bufs : /\ Victim(v)
                                         /\ disk' \in {disk, WriteBack(buf[v])}
  <2>1. Access
    BY <1>1 DEF Next, Flush, FlushOne, FlushFails, OtherVictim, Crash, vars
  <2> QED BY <2>1 DEF Access, Hit, Miss, MissWriteFails, MissReadFails, Missing
<1>3. PICK v \in Bufs : Victim(v) /\ disk' \in {disk, WriteBack(buf[v])}
  BY <1>2
<1>4. buf[v].dirty
  BY <1>3 DEF WriteBack, MustWrite
<1> QED BY <1>3, <1>4, VictimFacts

LEMMA SecondChanceStep ==
  FsInv /\ [Next]_vars => \A i \in Bufs : buf[i].ref /\ buf'[i].cur \notin {buf[i].cur, NoSector}
                                        => ~\E j \in Bufs : ~buf[j].ref /\ ~buf[j].dirty
<1> SUFFICES ASSUME FsInv, [Next]_vars, NEW i \in Bufs, buf[i].ref,
                    buf'[i].cur \notin {buf[i].cur, NoSector}
             PROVE  ~\E j \in Bufs : ~buf[j].ref /\ ~buf[j].dirty
  OBVIOUS
<1>1. buf \in [Bufs -> BufType]
  BY DEF FsInv, CacheTypeOK, BufType
<1>2. \A j \in Bufs : Swept[j].cur = buf[j].cur
  BY SweptSame
<1>3. CASE Access
  <2>1. ASSUME NEW s \in Sectors, NEW use \in Uses, Hit(s, use) PROVE FALSE
    <3>1. PICK k \in Bufs : buf' = [buf EXCEPT ![k] = Used([buf[k] EXCEPT !.ref = TRUE], use)]
      BY <2>1 DEF Hit, Cached
    <3>2. Used([buf[k] EXCEPT !.ref = TRUE], use).cur = buf[k].cur
      BY <1>1 DEF Used, BufType
    <3> QED BY <1>1, <3>1, <3>2
  <2>2. ASSUME NEW s \in Sectors, NEW v \in Bufs, NEW use \in Uses, Miss(s, v, use)
        PROVE  i = v /\ Victim(v)
    <3>1. Victim(v) /\ \A j \in Bufs : j # v => buf'[j] = Swept[j]
      BY <2>2, SweptSame DEF Miss, Missing
    <3> QED BY <1>2, <3>1
  <2>3. ASSUME NEW s \in Sectors, NEW v \in Bufs, MissWriteFails(s, v) PROVE FALSE
    BY <1>2, <2>3 DEF MissWriteFails
  <2>4. ASSUME NEW s \in Sectors, NEW v \in Bufs, MissReadFails(s, v) PROVE FALSE
    <3>1. PICK e \in ReadErrors :
            buf' = [Swept EXCEPT ![v].dirty = @ /\ ~MustWrite(buf[v]),
                                 ![v].data = IF e = "crc" THEN Junk ELSE @]
      BY <2>4 DEF MissReadFails
    <3>2. buf'[i].cur = Swept[i].cur
      BY <3>1, SweptSame DEF BufType
    <3> QED BY <1>2, <3>2
  <2> QED BY <1>3, <2>1, <2>2, <2>3, <2>4, VictimFacts DEF Access
<1>4. CASE FlushOne
  <2>1. buf'[i].cur = buf[i].cur
    BY <1>1, <1>4 DEF FlushOne, BufType
  <2> QED BY <2>1
<1>5. CASE Crash
  BY <1>5 DEF Crash, Free
<1> QED BY <1>3, <1>4, <1>5 DEF Next, Flush, FlushFails, OtherVictim, vars

\* An eviction writes to the card only when every buffer is dirty (fs_fat.c:25-45).
THEOREM CleanEvictedFirst == NoCrc /\ Spec => CleanFirst
BY CleanFirstStep, Invariant, PTL DEF CleanFirst, Spec

\* A referenced block is replaced only when no clean block is without a
\* reference (fs_fat.c:7-36).
THEOREM ReferencedSpared == NoCrc /\ Spec => SecondChance
BY SecondChanceStep, Invariant, PTL DEF SecondChance, Spec
=============================================================================
