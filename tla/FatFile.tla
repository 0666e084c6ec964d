------------------------------ MODULE FatFile ------------------------------
(***************************************************************************)
(* Reading, writing and closing files (Lcore-Stage8-01/kern/fs/fs_fat.c):  *)
(* fs_read, fs_write, fs_alloc and fs_close over the chains of the FAT,    *)
(* with the buffers each open file has for its own clusters.               *)
(*                                                                         *)
(* Calls come one at a time, but any access to the card may fail, and the  *)
(* power may, between any two of them; so a call takes a step for each     *)
(* turn of its loops.  Sectors of the FAT and of directories go through    *)
(* the cache of FsCache: fat and dirsize are what it shows.  fs_read_4k,   *)
(* fs_write_4k, fs_clr_4k and fs_next_free are external, as is fs_open,    *)
(* which stands for a handle set up from the directory entry.              *)
(***************************************************************************)
EXTENDS Integers, Sequences, FiniteSetsExt

CONSTANTS
  Files,
  First,        \* First[f]: the first cluster in f's directory entry, 0 for none
  Fat0, Size0,  \* the FAT and the sizes of the files at first
  Hint0,        \* the last cluster allocated before: meta_buf + 492
  FreeCount,    \* meta_buf + 488, which nothing changes
  LastCluster,  \* CountOfClusters + 1
  EOC,          \* an entry that is greater: end of chain
  NoCluster,    \* the buffer holds no cluster
  ClusterBytes, \* BPB_SecPerClus << 9
  NBUF,         \* LOCAL_DATA_BUF_NUM
  Values,       \* the bytes callers write; 0 is one of them
  Counts,       \* how many they read or write at a time
  MaxSize       \* bound: no write goes beyond this position

Clusters == 2 .. LastCluster
Bufs     == 0 .. NBUF - 1
Offsets  == 0 .. ClusterBytes - 1
Zeros    == [k \in Offsets |-> 0]

ASSUME FatAssumption ==
  /\ LastCluster \in Nat /\ EOC \in Nat /\ EOC > LastCluster
  /\ Fat0 \in [0 .. LastCluster -> {0, EOC} \cup Clusters] /\ Fat0[0] = EOC
  /\ First \in [Files -> {0} \cup Clusters]
  /\ Hint0 \in Nat /\ Hint0 + 1 \in Clusters /\ Fat0[Hint0 + 1] = 0
  /\ ClusterBytes \in Nat \ {0} /\ NBUF \in Nat \ {0} /\ 0 \in Values
  /\ Size0 \in [Files -> Nat] /\ Counts \subseteq Nat \ {0} /\ MaxSize \in Nat
  /\ NoCluster \notin {0, EOC} \cup Clusters

\* The card is consistent at first: chains neither meet nor run in a circle, and
\* no cluster of a chain is marked free.
ASSUME ChainAssumption ==
  /\ \A c, d \in Clusters : Fat0[c] = Fat0[d] /\ Fat0[c] \in Clusters => c = d
  /\ \A c \in Clusters : Fat0[c] \in Clusters => Fat0[Fat0[c]] # 0
  /\ \A f \in Files : First[f] # 0 => Fat0[First[f]] # 0 /\ \A c \in Clusters : Fat0[c] # First[f]
  /\ \A f, g \in Files : First[f] = First[g] /\ First[f] # 0 => f = g

VARIABLES
  fat,      \* the entries 0 .. CountOfClusters + 1
  hint,     \* meta_buf + 492
  dirsize,  \* the sizes in the directory entries
  saved,    \* what of these three is on the card for certain
  card,     \* the data of the clusters; 0 is what fs_dataclus2sec(0) names
  file,     \* the handles: open, filesize and loc
  buf,      \* buf[f][i]: data_buf[i] of the handle of f
  call,     \* the call that is under way
  content   \* what was last written to each position that has a cluster

vars == <<fat, hint, dirsize, saved, card, file, buf, call, content>>

Idle  == [op |-> "none"]
Empty == [cur |-> NoCluster, data |-> Zeros, dirty |-> FALSE]

\* The k-th cluster of f by table t, EOC behind the last.
NthIn(t, f, k) == LET at[n \in 0 .. k] == IF n = 0 THEN First[f]
                                          ELSE IF at[n - 1] \in Clusters THEN t[at[n - 1]] ELSE EOC
                  IN  at[k]

Nth(f, k) == NthIn(fat, f, k)

\* The positions of f that have a cluster.
InChain(f) == {p \in 0 .. MaxSize - 1 : Nth(f, p \div ClusterBytes) \in Clusters}

Init ==
  /\ fat = Fat0 /\ hint = Hint0 /\ dirsize = Size0
  /\ saved = [fat |-> fat, hint |-> hint, size |-> dirsize]
  /\ card = [c \in {0} \cup Clusters |-> Zeros]
  /\ file = [f \in Files |-> [open |-> FALSE, size |-> 0, loc |-> 0]]
  /\ buf = [f \in Files |-> [i \in Bufs |-> Empty]]
  /\ call = Idle
  /\ content = [f \in Files |-> [p \in InChain(f) |-> 0]]

\* A handle as fs_open sets it up.
Open(f) ==
  /\ call = Idle /\ ~file[f].open
  /\ file' = [file EXCEPT ![f] = [open |-> TRUE, size |-> dirsize[f], loc |-> 0]]
  /\ buf' = [buf EXCEPT ![f] = [i \in Bufs |-> Empty]]
  /\ UNCHANGED <<fat, hint, dirsize, saved, card, call, content>>

-----------------------------------------------------------------------------
(* The buffers of a handle.  Which one is replaced is left open.           *)

Holding(f, c) == {i \in Bufs : buf[f][i].cur = c}

\* Mutant of PutBack: what is replaced is not written.
PutBackNever(b) == UNCHANGED card

\* fs_write_4k succeeds.  The card has no sector for EOC.
PutBack(b) == IF b.dirty THEN b.cur \in DOMAIN card /\ card' = [card EXCEPT ![b.cur] = b.data]
              ELSE UNCHANGED card

\* fs_write_4k fails, with or without an effect.
PutBackFails(b) == b.dirty /\ (UNCHANGED card \/ PutBack(b))

\* fs_read_4k makes i the buffer of cluster c, holding data.
Loads(f, c, i, data) ==
  \/ i \in Holding(f, c) /\ data = buf[f][i].data /\ UNCHANGED card
  \/ /\ Holding(f, c) = {} /\ c \in DOMAIN card
     /\ PutBack(buf[f][i])
     /\ data = card[c]

\* fs_read_4k fails at the write, or at the read behind it.
LoadFails(f, c) ==
  /\ Holding(f, c) = {}
  /\ \E i \in Bufs : \/ PutBackFails(buf[f][i]) /\ UNCHANGED buf
                     \/ PutBack(buf[f][i]) /\ buf' = [buf EXCEPT ![f][i].dirty = FALSE]

-----------------------------------------------------------------------------
(* fs_read and fs_write.                                                   *)

Stage(walk) == IF walk = 0 THEN "copy" ELSE "walk"

\* at is the next thing the call does; walk counts the clusters to go to.
Begin(op, f, n, v) ==
  LET loc == file[f].loc
  IN  [op |-> op, file |-> f, clus |-> First[f], next |-> First[f], walk |-> loc \div ClusterBytes,
       at |-> IF First[f] = 0 THEN "alloc" ELSE Stage(loc \div ClusterBytes),
       pos |-> loc, last |-> loc + n - 1, val |-> v, got |-> <<>>]

\* Nothing is read from a file without clusters, or at its end.
StartRead(f) ==
  /\ call = Idle /\ file[f].open /\ First[f] # 0
  /\ \E count \in Counts :
       LET n == IF file[f].loc + count > file[f].size THEN file[f].size - file[f].loc ELSE count
       IN  n # 0 /\ call' = Begin("read", f, n, 0)
  /\ UNCHANGED <<fat, hint, dirsize, saved, card, file, buf, content>>

StartWrite(f) ==
  /\ call = Idle /\ file[f].open
  /\ \E count \in Counts, v \in Values :
       file[f].loc + count <= MaxSize /\ call' = Begin("write", f, count, v)
  /\ UNCHANGED <<fat, hint, dirsize, saved, card, file, buf, content>>

\* Mutant of To: the loop goes on with the same cluster.
ToSame(c) == [call EXCEPT !.walk = @ - 1, !.at = Stage(call.walk - 1)]

\* The call goes on with cluster c.
To(c) == [call EXCEPT !.clus = c, !.walk = @ - 1, !.at = Stage(call.walk - 1)]

\* fs_get_fat_entry_val of the cluster; a write allocates behind the last one.
Follow ==
  /\ call # Idle /\ call.at = "walk" /\ call.clus # EOC
  /\ LET next == fat[call.clus]
     IN  call' = IF call.op = "write" /\ next > LastCluster
                 THEN [call EXCEPT !.next = next, !.at = "alloc"] ELSE To(next)
  /\ UNCHANGED <<fat, hint, dirsize, saved, card, file, buf, content>>

FollowFails ==
  /\ call # Idle /\ call.at = "walk"
  /\ call' = Idle
  /\ UNCHANGED <<fat, hint, dirsize, saved, card, file, buf, content>>

NextFree(t, c) == Min({d \in c .. LastCluster : t[d] = 0} \cup {LastCluster + 1})

Candidate == IF hint + 1 > FreeCount + 1 THEN NextFree(fat, 2) ELSE hint + 1

Marked == [c \in DOMAIN fat |-> IF c = Candidate THEN EOC ELSE fat[c]]

\* Mutant of NewHint: the cluster taken now, as if the one behind it were free.
NewHintTaken == Candidate

NewHint == NextFree(Marked, Candidate) - 1

\* fs_alloc.  The cluster it has found is never stored for the caller, whose
\* next stays what it was.
Alloc ==
  /\ call # Idle /\ call.at = "alloc"
  /\ NextFree(Marked, Candidate) <= LastCluster
  /\ fat' = Marked /\ hint' = NewHint
  /\ card' = [card EXCEPT ![Candidate] = Zeros]
  /\ call' = [call EXCEPT !.at = "clear"]
  /\ UNCHANGED <<dirsize, saved, file, buf, content>>

\* It fails before or after it has marked the cluster, or when it clears it.
AllocFails ==
  /\ call # Idle /\ call.at = "alloc"
  /\ \/ UNCHANGED <<fat, hint, card>>
     \/ fat' = Marked /\ UNCHANGED <<hint, card>>
     \/ /\ fat' = Marked
        /\ NextFree(Marked, Candidate) <= LastCluster /\ hint' = NewHint
        /\ card' \in {card, [card EXCEPT ![Candidate] = Zeros]}
  /\ call' = Idle
  /\ UNCHANGED <<dirsize, saved, file, buf, content>>

\* fs_clr_4k for the cluster the call has in next, once that is the entry of
\* the last cluster: EOC itself, or 0 for a file without clusters.
Clear ==
  /\ call # Idle /\ call.at = "clear"
  /\ \E i \in Bufs :
       /\ PutBack(buf[call.file][i])
       /\ buf' = [buf EXCEPT ![call.file][i] = [Empty EXCEPT !.cur = call.next]]
  /\ IF call.next = call.clus THEN fat' = fat /\ call' = [call EXCEPT !.at = Stage(call.walk)]
     ELSE fat' = [fat EXCEPT ![call.clus] = call.next] /\ call' = To(call.next)
  /\ UNCHANGED <<hint, dirsize, saved, file, content>>

ClearFails ==
  /\ call # Idle /\ call.at = "clear"
  /\ \/ call.next # call.clus /\ UNCHANGED card  \* in fs_modify_fat
     \/ \E i \in Bufs : PutBackFails(buf[call.file][i])
  /\ call' = Idle
  /\ UNCHANGED <<fat, hint, dirsize, saved, file, buf, content>>

\* The last position of this call in the cluster it has come to.
PieceEnd == Min({call.last, (call.pos \div ClusterBytes + 1) * ClusterBytes - 1})

Piece == call.pos .. PieceEnd

\* After a piece: return, or look for the next cluster.
Onward(got) ==
  call' = IF PieceEnd = call.last THEN [call EXCEPT !.at = "return", !.got = got]
          ELSE [call EXCEPT !.pos = PieceEnd + 1, !.walk = 1, !.at = "walk", !.got = got]

\* The bytes of a piece as the buffer shows them.
Taken(data) == [k \in 1 .. PieceEnd - call.pos + 1 |-> data[(call.pos + k - 1) % ClusterBytes]]

CopyOut ==
  /\ call # Idle /\ call.op = "read" /\ call.at = "copy"
  /\ \E i \in Bufs, data \in [Offsets -> Values] :
       /\ Loads(call.file, call.clus, i, data)
       /\ buf' = [buf EXCEPT ![call.file][i] = [cur |-> call.clus, data |-> data,
                                                dirty |-> @.dirty /\ @.cur = call.clus]]
       /\ Onward(call.got \o Taken(data))
  /\ UNCHANGED <<fat, hint, dirsize, saved, file, content>>

Put(data) == [k \in Offsets |-> IF k \in {p % ClusterBytes : p \in Piece} THEN call.val ELSE data[k]]

CopyIn ==
  /\ call # Idle /\ call.op = "write" /\ call.at = "copy"
  /\ \E i \in Bufs, data \in [Offsets -> Values] :
       /\ Loads(call.file, call.clus, i, data)
       /\ buf' = [buf EXCEPT ![call.file][i] = [cur |-> call.clus, data |-> Put(data), dirty |-> TRUE]]
  /\ content' = [content EXCEPT ![call.file] =
                   [p \in DOMAIN @ |-> IF p \in Piece THEN call.val ELSE @[p]]]
  /\ Onward(<<>>)
  /\ UNCHANGED <<fat, hint, dirsize, saved, file>>

CopyFails ==
  /\ call # Idle /\ call.at = "copy"
  /\ LoadFails(call.file, call.clus)
  /\ call' = Idle
  /\ UNCHANGED <<fat, hint, dirsize, saved, file, content>>

\* loc moves over what was read or written, and a write may extend the file.
Return ==
  /\ call # Idle /\ call.at = "return"
  /\ call' = Idle
  /\ file' = [file EXCEPT ![call.file].loc = call.last + 1,
                          ![call.file].size = Max({@, call.last + 1})]
  /\ UNCHANGED <<fat, hint, dirsize, saved, card, buf, content>>

-----------------------------------------------------------------------------
(* fs_close, and the power supply.                                         *)

\* Mutant of Close: the entry of the handle is not copied.
CloseOldEntry(f) ==
  /\ call = Idle /\ file[f].open
  /\ call' = [op |-> "close", file |-> f, at |-> "flush", i |-> 0]
  /\ UNCHANGED <<fat, hint, dirsize, saved, card, file, buf, content>>

\* The directory entry of the handle goes to the cache of the directories; if
\* its sector cannot be read, nothing happens.
Close(f) ==
  /\ call = Idle /\ file[f].open
  /\ dirsize' = [dirsize EXCEPT ![f] = file[f].size]
  /\ call' = [op |-> "close", file |-> f, at |-> "flush", i |-> 0]
  /\ UNCHANGED <<fat, hint, saved, card, file, buf, content>>

\* fs_fflush.
Flush ==
  /\ call # Idle /\ call.at = "flush"
  /\ saved' = [fat |-> fat, hint |-> hint, size |-> dirsize]
  /\ call' = [call EXCEPT !.at = "data"]
  /\ UNCHANGED <<fat, hint, dirsize, card, file, buf, content>>

\* What a flush that fails has written is not certain: saved stays.
FlushFails ==
  /\ call # Idle /\ call.at = "flush"
  /\ call' = Idle
  /\ UNCHANGED <<fat, hint, dirsize, saved, card, file, buf, content>>

\* The buffers of the handle, one after the other.
CloseData ==
  /\ call # Idle /\ call.at = "data"
  /\ PutBack(buf[call.file][call.i])
  /\ buf' = [buf EXCEPT ![call.file][call.i].dirty = FALSE]
  /\ IF call.i + 1 < NBUF THEN call' = [call EXCEPT !.i = @ + 1] /\ UNCHANGED file
     ELSE call' = Idle /\ file' = [file EXCEPT ![call.file].open = FALSE]
  /\ UNCHANGED <<fat, hint, dirsize, saved, content>>

CloseDataFails ==
  /\ call # Idle /\ call.at = "data"
  /\ PutBackFails(buf[call.file][call.i])
  /\ call' = Idle
  /\ UNCHANGED <<fat, hint, dirsize, saved, file, buf, content>>

\* The power fails: of what was not flushed, the card has any part.
Crash ==
  /\ \E old \in SUBSET {c \in DOMAIN fat : fat[c] # saved.fat[c]} :
       fat' = [c \in DOMAIN fat |-> IF c \in old THEN saved.fat[c] ELSE fat[c]]
  /\ \E old \in SUBSET {f \in Files : dirsize[f] # saved.size[f]} :
       dirsize' = [f \in Files |-> IF f \in old THEN saved.size[f] ELSE dirsize[f]]
  /\ hint' \in {hint, saved.hint}
  /\ saved' = [fat |-> fat', hint |-> hint', size |-> dirsize']
  /\ file' = [f \in Files |-> [open |-> FALSE, size |-> 0, loc |-> 0]]
  /\ buf' = [f \in Files |-> [i \in Bufs |-> Empty]]
  /\ call' = Idle
  /\ content' = [f \in Files |-> [p \in DOMAIN content[f] |->
                   card[Nth(f, p \div ClusterBytes)][p % ClusterBytes]]]
  /\ UNCHANGED card

Next ==
  \/ \E f \in Files : Open(f) \/ StartRead(f) \/ StartWrite(f) \/ Close(f)
  \/ Follow \/ FollowFails \/ Alloc \/ AllocFails \/ Clear \/ ClearFails
  \/ CopyOut \/ CopyIn \/ CopyFails \/ Return
  \/ Flush \/ FlushFails \/ CloseData \/ CloseDataFails \/ Crash

Spec == Init /\ [][Next]_vars

-----------------------------------------------------------------------------
(* What must hold.                                                         *)

\* fs_read, over all the turns of its loops and whatever was evicted or
\* failed before, gives the caller what was last written to each position.
ReadsWhatWasWritten ==
  (call # Idle /\ call.op = "read") =>
    \A k \in DOMAIN call.got :
      LET p == file[call.file].loc + k - 1
      IN  p \in DOMAIN content[call.file] => call.got[k] = content[call.file][p]

\* A byte of a file is in the buffer that holds its cluster, or else on the
\* card: no eviction and no failed call has lost it.
BytesKept ==
  \A f \in Files : \A p \in DOMAIN content[f] :
    LET c     == Nth(f, p \div ClusterBytes)
        shows == IF Holding(f, c) = {} THEN {card[c]} ELSE {buf[f][i].data : i \in Holding(f, c)}
    IN  c \in Clusters /\ \A data \in shows : data[p % ClusterBytes] = content[f][p]

\* When fs_close succeeds, the size of the file and its bytes are on the card.
CloseDurable ==
  [][\A f \in Files : (CloseData /\ call' = Idle /\ call.file = f) =>
       /\ saved'.size[f] = file[f].size
       /\ \A p \in DOMAIN content[f] :
            card'[Nth(f, p \div ClusterBytes)][p % ClusterBytes] = content[f][p]]_vars

\* No allocation takes a cluster of a chain, whatever part of the earlier
\* ones the card has kept: the clusters of each file stay what they were.
ChainsKept ==
  [][\A f \in Files : \A k \in 0 .. MaxSize \div ClusterBytes : Nth(f, k)' = Nth(f, k)]_vars
=============================================================================
