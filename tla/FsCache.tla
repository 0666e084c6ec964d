------------------------------- MODULE FsCache -------------------------------
(***************************************************************************)
(* The sector cache of the file system (Lcore-Stage8-01/kern/fs/           *)
(* fs_fat.c): fs_read_512 with its victim search, the write-back, the      *)
(* callers that change a buffer they were given, and fs_fflush; over an SD *)
(* card (sd.c) whose reads and writes may fail and which may lose power.   *)
(*                                                                         *)
(* The file system takes no lock and is called by one thread at a time, so *)
(* an access is one step; fs_fflush is one step per buffer, because it     *)
(* stops at the first write that fails.                                    *)
(***************************************************************************)
EXTENDS Integers

CONSTANTS
  Sectors,
  Values,
  Junk,         \* what a read that failed its CRC has left in the buffer
  NoSector,     \* 0xffffffff: the buffer holds no sector
  NBUF,         \* DIR_DATA_BUF_NUM or FAT_BUF_NUM
  ReadErrors    \* how a read may fail: {"refused"}, {"refused", "crc"}

ASSUME CacheAssumption ==
  /\ NBUF \in Nat \ {0} /\ NoSector \notin Sectors
  /\ ReadErrors \subseteq {"refused", "crc"}

Bufs == 0 .. NBUF - 1

VARIABLES
  disk,        \* the sectors of the card
  buf,         \* buf[i]: cur, data and the two bits of state of a BUF_512
  clock_head,
  flushing,    \* the loop variable of fs_fflush, NBUF outside it
  latest       \* what was last written to each sector through the cache

vars == <<disk, buf, clock_head, flushing, latest>>

Free == [cur |-> NoSector, data |-> Junk, ref |-> FALSE, dirty |-> FALSE]

Init ==
  /\ disk \in [Sectors -> Values]
  /\ buf = [i \in Bufs |-> Free]
  /\ clock_head = 0
  /\ flushing = NBUF
  /\ latest = disk

-----------------------------------------------------------------------------
(* fs_victim_512.  Buffers are looked at in the order of the clock, from   *)
(* clock_head on.                                                          *)

Behind(i) == (i - clock_head) % NBUF

Quiet == {i \in Bufs : ~buf[i].ref /\ ~buf[i].dirty}
Clean == {i \in Bufs : ~buf[i].dirty}

\* The hand comes to v before it comes to the others in S.
First(v, S) == v \in S /\ \A i \in S : Behind(v) <= Behind(i)

\* Mutants of Victim: only the dirty bit is looked at; no second sweep.
VictimNoRef(v)   == IF Clean # {} THEN First(v, Clean) ELSE v = clock_head
VictimOnePass(v) == IF Quiet # {} THEN First(v, Quiet) ELSE v = clock_head

\* The first buffer that is neither referenced nor dirty, or else the first
\* that is not dirty, or else the one under the hand.  The hand stays there:
\* the last line of the function moves the pointer instead of the hand, and
\* sets the word behind the hand to 0.
Victim(v) == IF Quiet # {} THEN First(v, Quiet)
             ELSE IF Clean # {} THEN First(v, Clean)
             ELSE v = clock_head

\* The buffers the first sweep has passed lose their reference bit.
Swept == [i \in Bufs |-> [buf[i] EXCEPT !.ref = @ /\ \E q \in Quiet : Behind(q) < Behind(i)]]

-----------------------------------------------------------------------------
\* Mutant of Cached: only referenced buffers are compared.
CachedRef(s) == {i \in Bufs : buf[i].cur = s /\ buf[i].ref}

Cached(s) == {i \in Bufs : buf[i].cur = s}

\* What the caller does with the buffer it is given: look at it, or set its
\* state to 3 and store v.
Keep == [op |-> "keep"]
Put(v) == [op |-> "put", val |-> v]
Uses == {Keep} \cup {Put(v) : v \in Values}

\* Mutant of Used: the state is set to 1, not to 3.
UsedClean(b, use) == IF use = Keep THEN b ELSE [b EXCEPT !.data = use.val, !.ref = TRUE]

Used(b, use) == IF use = Keep THEN b ELSE [b EXCEPT !.data = use.val, !.ref = TRUE, !.dirty = TRUE]

Note(s, use) == latest' = IF use = Keep THEN latest ELSE [latest EXCEPT ![s] = use.val]

Hit(s, use) ==
  /\ flushing = NBUF
  /\ \E i \in Cached(s) :
       /\ \A j \in Cached(s) : i <= j
       /\ buf' = [buf EXCEPT ![i] = Used([buf[i] EXCEPT !.ref = TRUE], use)]
  /\ Note(s, use)
  /\ UNCHANGED <<disk, clock_head, flushing>>

\* The buffer fs_write_512 would write.
MustWrite(b) == b.cur # NoSector /\ b.dirty

\* Mutant of WriteBack: the victim is dropped without being written.
WriteBackNever(b) == disk

\* The card after a successful fs_write_512.
WriteBack(b) == IF MustWrite(b) THEN [disk EXCEPT ![b.cur] = b.data] ELSE disk

Missing(s, v) == /\ flushing = NBUF /\ Cached(s) = {}
                 /\ Victim(v)
                 /\ clock_head' = v

Miss(s, v, use) ==
  /\ Missing(s, v)
  /\ disk' = WriteBack(buf[v])
  /\ buf' = [Swept EXCEPT ![v] = Used([cur |-> s, data |-> disk[s], ref |-> TRUE, dirty |-> FALSE], use)]
  /\ Note(s, use)
  /\ UNCHANGED flushing

\* fs_write_block fails: the card may have stored the sector all the same.
MissWriteFails(s, v) ==
  /\ Missing(s, v)
  /\ MustWrite(buf[v])
  /\ disk' \in {disk, WriteBack(buf[v])}
  /\ buf' = Swept
  /\ UNCHANGED <<flushing, latest>>

\* Mutant of MissReadFails: the buffer is named before it is read.
MissReadFailsNamed(s, v) ==
  /\ Missing(s, v)
  /\ disk' = WriteBack(buf[v])
  /\ buf' = [Swept EXCEPT ![v].dirty = @ /\ ~MustWrite(buf[v]), ![v].cur = s]
  /\ UNCHANGED <<flushing, latest>>

\* fs_read_block fails after the write-back: the buffer still names the
\* sector it held, and a bad CRC is found after its bytes were overwritten.
MissReadFails(s, v) ==
  /\ Missing(s, v)
  /\ disk' = WriteBack(buf[v])
  /\ \E e \in ReadErrors :
       buf' = [Swept EXCEPT ![v].dirty = @ /\ ~MustWrite(buf[v]),
                            ![v].data = IF e = "crc" THEN Junk ELSE @]
  /\ UNCHANGED <<flushing, latest>>

-----------------------------------------------------------------------------
Flush == /\ flushing = NBUF
         /\ flushing' = 0
         /\ UNCHANGED <<disk, buf, clock_head, latest>>

\* Mutant of FlushOne: referenced buffers are passed over.
FlushOneQuiet ==
  /\ flushing \in Bufs
  /\ LET skip == buf[flushing].ref
     IN  /\ disk' = IF skip THEN disk ELSE WriteBack(buf[flushing])
         /\ buf' = [buf EXCEPT ![flushing].dirty = @ /\ skip]
  /\ flushing' = flushing + 1
  /\ UNCHANGED <<clock_head, latest>>

\* One turn of the loop of fs_fflush.
FlushOne ==
  /\ flushing \in Bufs
  /\ disk' = WriteBack(buf[flushing])
  /\ buf' = [buf EXCEPT ![flushing].dirty = @ /\ ~MustWrite(buf[flushing])]
  /\ flushing' = flushing + 1
  /\ UNCHANGED <<clock_head, latest>>

\* A write fails: of the buffer, or of what is flushed before the buffers.
FlushFails ==
  /\ flushing \in Bufs
  /\ flushing = 0 \/ MustWrite(buf[flushing])
  /\ disk' \in {disk, WriteBack(buf[flushing])}
  /\ flushing' = NBUF
  /\ UNCHANGED <<buf, clock_head, latest>>

\* The word behind the hand of another cache may be the hand of this one.
OtherVictim ==
  /\ flushing = NBUF
  /\ clock_head' = 0
  /\ UNCHANGED <<disk, buf, flushing, latest>>

\* The power fails, and fs_init starts again from the card.
Crash ==
  /\ buf' = [i \in Bufs |-> Free]
  /\ clock_head' = 0
  /\ flushing' = NBUF
  /\ latest' = disk
  /\ UNCHANGED disk

-----------------------------------------------------------------------------
Access == \E s \in Sectors :
            \/ \E use \in Uses : Hit(s, use)
            \/ \E v \in Bufs : \/ \E use \in Uses : Miss(s, v, use)
                             \/ MissWriteFails(s, v)
                             \/ MissReadFails(s, v)

Next == Access \/ Flush \/ FlushOne \/ FlushFails \/ OtherVictim \/ Crash

Spec == Init /\ [][Next]_vars

-----------------------------------------------------------------------------
\* The types of the variables.
CacheTypeOK ==
  /\ disk \in [Sectors -> Values]
  /\ buf \in [Bufs -> [cur : Sectors \cup {NoSector}, data : Values \cup {Junk},
                       ref : BOOLEAN, dirty : BOOLEAN]]
  /\ clock_head \in Bufs
  /\ flushing \in 0 .. NBUF
  /\ latest \in [Sectors -> Values]

\* A sector is in one buffer at most, or two callers would change two copies.
OneBufferPerSector == \A i, j \in Bufs : buf[i].cur = buf[j].cur /\ buf[i].cur # NoSector => i = j

\* A caller that is given a buffer sees what was last written to the sector,
\* whatever was evicted, written back or failed in between.
CacheCurrent == \A i \in Bufs : buf[i].cur # NoSector => buf[i].data = latest[buf[i].cur]

\* What was written to a sector that is not cached any more is on the card.
EvictedWritten == \A s \in Sectors : Cached(s) = {} => disk[s] = latest[s]

\* A buffer without the dirty bit is not written back, so it must hold what
\* the card holds: "the data read from the disk takes the place of this block"
\* (the chapter's notes, line 13).
CleanIsOnDisk ==
  \A i \in Bufs : buf[i].cur # NoSector /\ ~buf[i].dirty => buf[i].data = disk[buf[i].cur]

\* An fs_fflush that succeeds leaves everything that was written on the card.
FlushDurable == [][FlushOne /\ flushing' = NBUF => disk' = latest]_vars

\* The write that an eviction may cost is paid only when every buffer is dirty:
\* clean blocks are replaced first (the chapter's notes, line 17).
CleanFirst ==
  [][flushing = NBUF /\ disk' # disk => \A i \in Bufs : buf[i].dirty]_vars

\* A block that was referenced gets its second chance: it is replaced only
\* when no clean block is without a reference (the chapter's notes, line 16).
SecondChance ==
  [][\A i \in Bufs : buf[i].ref /\ buf'[i].cur \notin {buf[i].cur, NoSector} =>
        ~\E j \in Bufs : ~buf[j].ref /\ ~buf[j].dirty]_vars
=============================================================================
