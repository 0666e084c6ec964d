---------------------------- MODULE FatFileProofs ----------------------------
(***************************************************************************)
(* Theorems about FatFile, for every card that is consistent at first,     *)
(* every size of clusters and any number of files, buffers and bytes.      *)
(*                                                                         *)
(* The clusters of a file are a recursive function of their number.  What  *)
(* it returns is proved by induction, with the least counterexample.       *)
(***************************************************************************)
EXTENDS FatFile, TLAPS, WellFoundedInduction, SequenceTheorems

-----------------------------------------------------------------------------
(* Numbers.                                                                *)

\* The principle the proofs by induction rest on, stated for sets so that no
\* operator has to be instantiated.
LEMMA LeastMember ==
  ASSUME NEW T \in SUBSET Nat, T # {}
  PROVE  \E m \in T : \A k \in T : m <= k
<1> DEFINE R == OpToRel(<, Nat)
<1>1. \A x, y \in Nat : <<y, x>> \in R <=> y < x
  BY DEF OpToRel
<1>2. IsWellFoundedOn(R, Nat)
  BY NatLessThanWellFounded
<1> HIDE DEF R
<1>3. PICK m \in T : \A k \in T : ~ (<<k, m>> \in R)
  BY <1>2, WFMin
<1>4. ASSUME NEW k \in T PROVE m <= k
  <2>1. ~ (<<k, m>> \in R)
    BY <1>3
  <2>2. k \in Nat /\ m \in Nat
    OBVIOUS
  <2>3. ~ (k < m)
    BY <2>1, <2>2, <1>1
  <2> QED BY <2>2, <2>3
<1> QED BY <1>4

LEMMA MinIs ==
  ASSUME NEW T \in SUBSET Nat, T # {}
  PROVE  Min(T) \in T /\ \A k \in T : Min(T) <= k
<1> QED BY LeastMember DEF Min

\* Quotient and remainder.
LEMMA Division ==
  ASSUME NEW x \in Nat, NEW y \in Nat \ {0}
  PROVE  /\ x \div y \in Nat /\ x % y \in 0 .. y - 1
         /\ x % y = x - y * (x \div y)
<1>1. x \div y \in Nat
  OBVIOUS
<1>2. x % y \in 0 .. y - 1
  OBVIOUS
<1>3. x % y = x - y * (x \div y)
  OBVIOUS
<1> QED BY <1>1, <1>2, <1>3

\* Products with a positive size are ordered as their factors.
LEMMA Scale ==
  ASSUME NEW s \in Nat \ {0}, NEW x \in Int, NEW y \in Int
  PROVE  /\ x * s \in Int /\ y * s \in Int
         /\ x * s < y * s <=> x < y
         /\ x * s <= y * s <=> x <= y
<1>1. x * s \in Int /\ y * s \in Int
  OBVIOUS
<1>2. x < y => x * s < y * s
  <2>1. x < y => (y - x) * s > 0
    OBVIOUS
  <2>2. (y - x) * s = y * s - x * s
    OBVIOUS
  <2> QED BY <2>1, <2>2, <1>1
<1>3. y < x => y * s < x * s
  <2>1. y < x => (x - y) * s > 0
    OBVIOUS
  <2>2. (x - y) * s = x * s - y * s
    OBVIOUS
  <2> QED BY <2>1, <2>2, <1>1
<1>4. x = y => x * s = y * s
  OBVIOUS
<1> QED BY <1>1, <1>2, <1>3, <1>4

-----------------------------------------------------------------------------
(* Chains.                                                                 *)

\* g[0 .. k] are the clusters of f by table t.
Walks(t, f, k, g) ==
  g = [n \in 0 .. k |-> IF n = 0 THEN First[f]
                        ELSE IF g[n - 1] \in Clusters THEN t[g[n - 1]] ELSE EOC]

LEMMA WalkExists ==
  ASSUME NEW t, NEW f, NEW k \in Nat
  PROVE  \E g : Walks(t, f, k, g)
<1> DEFINE T == {n \in Nat : ~ \E g : Walks(t, f, n, g)}
<1>1. SUFFICES T = {}
  OBVIOUS
<1>2. SUFFICES ASSUME T # {} PROVE FALSE
  OBVIOUS
<1>3. PICK m \in T : \A n \in T : m <= n
  BY <1>2, LeastMember
<1>4. m \in Nat /\ ~ \E g : Walks(t, f, m, g)
  OBVIOUS
<1>5. m # 0
  <2>1. Walks(t, f, 0, [n \in 0 .. 0 |-> First[f]])
    BY DEF Walks
  <2> QED BY <1>4, <2>1
<1>6. m - 1 \in Nat /\ m - 1 \notin T
  BY <1>3, <1>4, <1>5
<1>7. PICK g : Walks(t, f, m - 1, g)
  BY <1>6
<1> DEFINE h == [n \in 0 .. m |->
                   IF n < m THEN g[n] ELSE IF g[m - 1] \in Clusters THEN t[g[m - 1]] ELSE EOC]
<1>8. ASSUME NEW n \in 0 .. m
      PROVE  h[n] = IF n = 0 THEN First[f] ELSE IF h[n - 1] \in Clusters THEN t[h[n - 1]] ELSE EOC
  <2>1. CASE n = m
    <3>1. h[n] = (IF g[m - 1] \in Clusters THEN t[g[m - 1]] ELSE EOC) /\ h[n - 1] = g[m - 1]
      BY <1>4, <1>5, <2>1
    <3> QED BY <1>5, <2>1, <3>1
  <2>2. CASE n < m
    <3>1. n \in 0 .. m - 1 /\ h[n] = g[n] /\ (n # 0 => n - 1 \in 0 .. m /\ n - 1 < m /\ h[n - 1] = g[n - 1])
      BY <1>4, <2>2
    <3>2. g[n] = IF n = 0 THEN First[f] ELSE IF g[n - 1] \in Clusters THEN t[g[n - 1]] ELSE EOC
      BY <1>7, <3>1 DEF Walks
    <3> HIDE DEF h
    <3> QED BY <3>1, <3>2
  <2> QED BY <1>4, <2>1, <2>2
<1>9. Walks(t, f, m, h)
  <2>1. h = [n \in 0 .. m |-> h[n]]
    OBVIOUS
  <2> HIDE DEF h
  <2> QED BY <1>8, <2>1 DEF Walks
<1> QED BY <1>4, <1>9

\* Two such functions agree as far as both go.
LEMMA WalksAgree ==
  ASSUME NEW t, NEW f, NEW k \in Nat, NEW j \in Nat, j <= k,
         NEW g, Walks(t, f, k, g), NEW h, Walks(t, f, j, h)
  PROVE  \A n \in 0 .. j : g[n] = h[n]
<1> DEFINE T == {n \in 0 .. j : g[n] # h[n]}
<1>1. SUFFICES ASSUME T # {} PROVE FALSE
  OBVIOUS
<1>2. T \in SUBSET Nat
  OBVIOUS
<1>3. PICK m \in T : \A n \in T : m <= n
  BY <1>1, <1>2, LeastMember
<1>4. m \in 0 .. j /\ m \in 0 .. k /\ g[m] # h[m]
  OBVIOUS
<1>5. /\ g[m] = IF m = 0 THEN First[f] ELSE IF g[m - 1] \in Clusters THEN t[g[m - 1]] ELSE EOC
      /\ h[m] = IF m = 0 THEN First[f] ELSE IF h[m - 1] \in Clusters THEN t[h[m - 1]] ELSE EOC
  BY <1>4 DEF Walks
<1>6. m # 0 => g[m - 1] = h[m - 1]
  <2>1. m # 0 => m - 1 \in 0 .. j /\ m - 1 \notin T
    BY <1>3, <1>4
  <2> QED BY <2>1
<1> QED BY <1>4, <1>5, <1>6

LEMMA NthInIs ==
  ASSUME NEW t, NEW f, NEW k \in Nat
  PROVE  \E g : Walks(t, f, k, g) /\ NthIn(t, f, k) = g[k]
<1> DEFINE at == CHOOSE g : Walks(t, f, k, g)
<1>1. Walks(t, f, k, at)
  BY WalkExists
<1>2. NthIn(t, f, k) = at[k]
  BY DEF NthIn, Walks
<1> QED BY <1>1, <1>2

\* The clusters of a file, one after the other.
LEMMA NthFacts ==
  ASSUME NEW t, NEW f, NEW k \in Nat
  PROVE  /\ NthIn(t, f, 0) = First[f]
         /\ NthIn(t, f, k + 1) = IF NthIn(t, f, k) \in Clusters THEN t[NthIn(t, f, k)] ELSE EOC
<1>1. NthIn(t, f, 0) = First[f]
  <2>1. PICK g : Walks(t, f, 0, g) /\ NthIn(t, f, 0) = g[0]
    BY NthInIs
  <2> QED BY <2>1 DEF Walks
<1>2. PICK g : Walks(t, f, k + 1, g) /\ NthIn(t, f, k + 1) = g[k + 1]
  BY NthInIs
<1>3. PICK h : Walks(t, f, k, h) /\ NthIn(t, f, k) = h[k]
  BY NthInIs
<1>4. g[k] = h[k]
  <2>1. k + 1 \in Nat /\ k <= k + 1 /\ k \in 0 .. k
    OBVIOUS
  <2> QED BY <1>2, <1>3, <2>1, WalksAgree
<1>5. g[k + 1] = IF g[k] \in Clusters THEN t[g[k]] ELSE EOC
  <2>1. k + 1 \in 0 .. k + 1 /\ k + 1 # 0 /\ k + 1 - 1 = k
    OBVIOUS
  <2> QED BY <1>2, <2>1 DEF Walks
<1> QED BY <1>1, <1>2, <1>3, <1>4, <1>5

\* The clusters of f, and the entries of the FAT that say which they are.
Chain(f) == {c \in Clusters : \E k \in Nat : NthIn(Fat0, f, k) = c}

Owned == {0} \cup UNION {Chain(f) : f \in Files}

Entries == {0, EOC} \cup Clusters

LEMMA Numbers ==
  /\ LastCluster \in Nat /\ EOC \in Nat /\ EOC \notin Clusters /\ 0 \notin Clusters /\ EOC # 0
  /\ Clusters \subseteq Nat /\ Clusters \subseteq 0 .. LastCluster
  /\ Fat0[0] = EOC /\ \A c \in 0 .. LastCluster : Fat0[c] \in Entries
BY FatAssumption DEF Clusters, Entries

LEMMA NthType ==
  ASSUME NEW f \in Files, NEW k \in Nat
  PROVE  /\ NthIn(Fat0, f, k) \in Entries
         /\ NthIn(Fat0, f, k) \in Clusters => NthIn(Fat0, f, k) \in Chain(f)
         /\ NthIn(Fat0, f, k) \in Clusters \cup {0} => NthIn(Fat0, f, k) \in Owned
<1> DEFINE T == {n \in Nat : NthIn(Fat0, f, n) \notin Entries}
<1>1. NthIn(Fat0, f, k) \in Entries
  <2>1. SUFFICES ASSUME T # {} PROVE FALSE
    OBVIOUS
  <2>2. PICK m \in T : \A n \in T : m <= n
    BY <2>1, LeastMember
  <2>3. m # 0
    BY NthFacts, FatAssumption DEF Entries
  <2>4. m - 1 \in Nat /\ m - 1 \notin T /\ (m - 1) + 1 = m
    BY <2>2, <2>3
  <2>5. NthIn(Fat0, f, (m - 1) + 1)
          = IF NthIn(Fat0, f, m - 1) \in Clusters THEN Fat0[NthIn(Fat0, f, m - 1)] ELSE EOC
    BY <2>4, NthFacts
  <2>6. NthIn(Fat0, f, m) \in Entries
    BY <2>4, <2>5, Numbers DEF Entries
  <2> QED BY <2>6
<1>2. NthIn(Fat0, f, k) \in Clusters => NthIn(Fat0, f, k) \in Chain(f)
  BY DEF Chain
<1> QED BY <1>1, <1>2 DEF Owned

\* A table that has the chains has the same clusters.
LEMMA NthSame ==
  ASSUME NEW t, \A c \in Owned : t[c] = Fat0[c], NEW f \in Files, NEW k \in Nat
  PROVE  NthIn(t, f, k) = NthIn(Fat0, f, k)
<1> DEFINE T == {n \in Nat : NthIn(t, f, n) # NthIn(Fat0, f, n)}
<1>1. SUFFICES ASSUME T # {} PROVE FALSE
  OBVIOUS
<1>2. PICK m \in T : \A n \in T : m <= n
  BY <1>1, LeastMember
<1>3. m # 0
  BY NthFacts
<1>4. m - 1 \in Nat /\ m - 1 \notin T /\ (m - 1) + 1 = m
  BY <1>2, <1>3
<1>5. /\ NthIn(Fat0, f, (m - 1) + 1)
           = IF NthIn(Fat0, f, m - 1) \in Clusters THEN Fat0[NthIn(Fat0, f, m - 1)] ELSE EOC
      /\ NthIn(t, f, (m - 1) + 1)
           = IF NthIn(t, f, m - 1) \in Clusters THEN t[NthIn(t, f, m - 1)] ELSE EOC
  BY <1>4, NthFacts
<1>6. NthIn(t, f, m - 1) = NthIn(Fat0, f, m - 1)
  BY <1>4
<1>7. NthIn(t, f, m) = NthIn(Fat0, f, m)
  BY <1>4, <1>5, <1>6, NthType
<1> QED BY <1>7

\* The n-th cluster of f is not another one of f, nor one of another file.
Once(n) ==
  \A f, g \in Files, k \in Nat :
    NthIn(Fat0, f, n) \in Clusters /\ NthIn(Fat0, g, k) = NthIn(Fat0, f, n) => f = g /\ k = n

LEMMA NthOnce ==
  ASSUME NEW k \in Nat
  PROVE  Once(k)
<1> DEFINE T == {n \in Nat : ~Once(n)}
<1>1. SUFFICES ASSUME T # {} PROVE FALSE
  OBVIOUS
<1>2. PICK m \in T : \A n \in T : m <= n
  BY <1>1, LeastMember
<1>3. PICK f \in Files, g \in Files, j \in Nat :
        /\ NthIn(Fat0, f, m) \in Clusters /\ NthIn(Fat0, g, j) = NthIn(Fat0, f, m)
        /\ ~(f = g /\ j = m)
  BY <1>2 DEF Once
<1>4. ASSUME NEW h \in Files, NEW n \in Nat, n # 0, NthIn(Fat0, h, n) \in Clusters
      PROVE  /\ n - 1 \in Nat /\ NthIn(Fat0, h, n - 1) \in Clusters
             /\ Fat0[NthIn(Fat0, h, n - 1)] = NthIn(Fat0, h, n)
  <2>1. n - 1 \in Nat /\ (n - 1) + 1 = n
    BY <1>4
  <2>2. NthIn(Fat0, h, (n - 1) + 1)
          = IF NthIn(Fat0, h, n - 1) \in Clusters THEN Fat0[NthIn(Fat0, h, n - 1)] ELSE EOC
    BY <2>1, NthFacts
  <2> QED BY <1>4, <2>1, <2>2, Numbers
<1>5. \A h \in Files : NthIn(Fat0, h, 0) \in Clusters =>
        First[h] = NthIn(Fat0, h, 0) /\ First[h] # 0
  BY NthFacts, Numbers
<1>6. CASE m = 0 /\ j = 0
  BY <1>3, <1>5, <1>6, ChainAssumption
<1>7. CASE m = 0 /\ j # 0
  BY <1>3, <1>4, <1>5, <1>7, ChainAssumption
<1>8. CASE m # 0 /\ j = 0
  BY <1>3, <1>4, <1>5, <1>8, ChainAssumption
<1>9. CASE m # 0 /\ j # 0
  <2>1. /\ m - 1 \in Nat /\ j - 1 \in Nat
        /\ NthIn(Fat0, f, m - 1) \in Clusters /\ NthIn(Fat0, g, j - 1) \in Clusters
        /\ Fat0[NthIn(Fat0, f, m - 1)] = Fat0[NthIn(Fat0, g, j - 1)]
        /\ Fat0[NthIn(Fat0, f, m - 1)] \in Clusters
    BY <1>3, <1>4, <1>9
  <2>2. NthIn(Fat0, g, j - 1) = NthIn(Fat0, f, m - 1)
    BY <2>1, ChainAssumption
  <2>3. Once(m - 1)
    BY <1>2, <2>1
  <2>4. f = g /\ j - 1 = m - 1
    BY <2>1, <2>2, <2>3 DEF Once
  <2> QED BY <1>3, <2>4
<1> QED BY <1>6, <1>7, <1>8, <1>9

\* Chains are apart, and their clusters are not free.
LEMMA ChainFacts ==
  /\ \A f, g \in Files : f # g => Chain(f) \cap Chain(g) = {}
  /\ \A c \in Owned : c \in 0 .. LastCluster /\ Fat0[c] # 0 /\ (c # 0 => c \in Clusters)
<1>1. \A f, g \in Files : f # g => Chain(f) \cap Chain(g) = {}
  BY NthOnce DEF Chain, Once
<1>2. ASSUME NEW f \in Files, NEW k \in Nat, NthIn(Fat0, f, k) \in Clusters
      PROVE  Fat0[NthIn(Fat0, f, k)] # 0
  <2>1. CASE k = 0
    BY <1>2, <2>1, NthFacts, Numbers, ChainAssumption
  <2>2. CASE k # 0
    <3>1. k - 1 \in Nat /\ (k - 1) + 1 = k
      BY <2>2
    <3>2. NthIn(Fat0, f, (k - 1) + 1)
            = IF NthIn(Fat0, f, k - 1) \in Clusters THEN Fat0[NthIn(Fat0, f, k - 1)] ELSE EOC
      BY <3>1, NthFacts
    <3> QED BY <1>2, <3>1, <3>2, Numbers, ChainAssumption
  <2> QED BY <2>1, <2>2
<1>3. \A f \in Files : \A c \in Chain(f) : Fat0[c] # 0 /\ c \in Clusters
  BY <1>2 DEF Chain
<1> QED BY <1>1, <1>3, Numbers DEF Owned

-----------------------------------------------------------------------------
(* The inductive invariant.                                                *)

\* The positions of f that have a cluster, and which one.
At(f, p) == NthIn(Fat0, f, p \div ClusterBytes)

Placed(f) == {p \in 0 .. MaxSize - 1 : At(f, p) \in Clusters}

Tables  == [0 .. LastCluster -> Entries]
Data    == [Offsets -> Values]
Buffers == [cur : Entries \cup {NoCluster}, data : Data, dirty : BOOLEAN]

CardType == [{0} \cup Clusters -> Data]
BufType  == [Files -> [Bufs -> Buffers]]

TypeOK ==
  /\ fat \in Tables /\ hint \in Int /\ dirsize \in [Files -> Nat]
  /\ saved \in [fat : Tables, hint : Int, size : [Files -> Nat]]
  /\ card \in CardType /\ buf \in BufType
  /\ file \in [Files -> [open : BOOLEAN, size : Nat, loc : Nat]]
  /\ content = [f \in Files |-> [p \in Placed(f) |-> content[f][p]]]

\* Table t still has the chains, and the cluster behind h is in none of them.
Intact(t, h) ==
  /\ \A c \in Owned : t[c] = Fat0[c]
  /\ h + 1 \in Clusters \ Owned

\* A buffer that holds a cluster holds one of its file, no other buffer does, and
\* the card has the same unless it is dirty.
Buffered(crd, bf) ==
  \A f \in Files, i \in Bufs : bf[f][i].cur \in Clusters =>
    /\ bf[f][i].cur \in Chain(f)
    /\ ~bf[f][i].dirty => bf[f][i].data = crd[bf[f][i].cur]
    /\ \A j \in Bufs : bf[f][j].cur = bf[f][i].cur => j = i

\* A byte is in the buffer that holds its cluster, or else on the card.
Bytes(crd, bf, ct) ==
  \A f \in Files : \A p \in Placed(f) :
    /\ \A i \in Bufs : bf[f][i].cur = At(f, p) => bf[f][i].data[p % ClusterBytes] = ct[f][p]
    /\ (\A i \in Bufs : bf[f][i].cur # At(f, p)) => crd[At(f, p)][p % ClusterBytes] = ct[f][p]

Sound(crd, bf, ct) == Buffered(crd, bf) /\ Bytes(crd, bf, ct)

Closing ==
  /\ call \in [op : {"close"}, file : Files, at : {"flush", "data"}, i : Bufs]
  /\ call.at = "flush" => call.i = 0 /\ dirsize[call.file] = file[call.file].size
  /\ call.at = "data" => /\ saved.size[call.file] = file[call.file].size
                         /\ \A j \in Bufs : j < call.i => ~buf[call.file][j].dirty

\* The cluster a call is at is the one for its position, less those still to go.
AtPlace ==
  /\ file[call.file].loc <= call.pos /\ call.pos <= call.last
  /\ call.walk <= call.pos \div ClusterBytes
  /\ call.clus = NthIn(Fat0, call.file, call.pos \div ClusterBytes - call.walk)
  /\ call.at = "copy" => call.walk = 0
  /\ call.at = "walk" => call.walk # 0

\* When a write allocates, what it goes on with is what its last cluster has for
\* an entry already.
Allocating ==
  /\ call.op = "write"
  /\ \/ call.next = 0 /\ call.clus = 0
     \/ call.next = EOC /\ call.clus \in Owned /\ Fat0[call.clus] = EOC /\ call.walk # 0

\* got is what f has from position loc to position end - 1.
Has(got, f, loc, end, ct) ==
  /\ Len(got) = end - loc
  /\ \A k \in DOMAIN got : loc + k - 1 \in Placed(f) => got[k] = ct[f][loc + k - 1]

\* A read has got the bytes up to its position.
GotThem ==
  Has(call.got, call.file, file[call.file].loc,
      IF call.at = "return" THEN call.last + 1 ELSE call.pos, content)

Calls == [op : {"read", "write"}, file : Files, clus : Entries, next : Entries, walk : Nat,
          at : {"alloc", "clear", "walk", "copy", "return"}, pos : Nat, last : Nat,
          val : Values, got : Seq(Values)]

Moving ==
  /\ call \in Calls /\ AtPlace
  /\ call.at \in {"alloc", "clear"} => Allocating
  /\ call.op = "read" => GotThem

CallInv == call = Idle \/ (file[call.file].open /\ (Closing \/ Moving))

\* The handle of a file knows no less than its position, and closed ones are clean.
HandlesOK ==
  \A f \in Files : /\ file[f].loc <= file[f].size
                   /\ file[f].open \/ \A i \in Bufs : ~buf[f][i].dirty

FileInv ==
  /\ TypeOK
  /\ Intact(fat, hint) /\ Intact(saved.fat, saved.hint)
  /\ Sound(card, buf, content) /\ HandlesOK /\ CallInv

-----------------------------------------------------------------------------
(* Buffers and the card.                                                   *)

LEMMA PlaceIsIn ==
  ASSUME NEW f \in Files, NEW p \in Placed(f)
  PROVE  /\ p \in Nat /\ p \div ClusterBytes \in Nat /\ p % ClusterBytes \in Offsets
         /\ At(f, p) \in Clusters /\ At(f, p) \in Chain(f)
<1>1. p \in Nat /\ At(f, p) \in Clusters /\ ClusterBytes \in Nat \ {0}
  BY FatAssumption DEF Placed
<1>2. p \div ClusterBytes \in Nat /\ p % ClusterBytes \in 0 .. ClusterBytes - 1
  BY <1>1, Division
<1> QED BY <1>1, <1>2, NthType DEF At, Offsets

\* The buffers but i of f that are not dirty agree with the card.
OthersClean(crd, bf, f, i) ==
  \A g \in Files, j \in Bufs :
    (g # f \/ j # i) /\ bf[g][j].cur \in Clusters /\ ~bf[g][j].dirty
      => bf[g][j].data = crd[bf[g][j].cur]

\* No buffer but i of f holds the cluster of position p of g.
NotElsewhere(bf, f, i, g, p) == \A j \in Bufs : g # f \/ j # i => bf[g][j].cur # At(g, p)

\* PutBack for a card crd that becomes crd2.
Written(crd, crd2, b) ==
  IF b.dirty THEN b.cur \in DOMAIN crd /\ crd2 = [crd EXCEPT ![b.cur] = b.data] ELSE crd2 = crd

\* Nothing is lost if buffer i of f holds something else from now on.
Replaceable(crd, bf, ct, f, i) ==
  /\ OthersClean(crd, bf, f, i)
  /\ \A g \in Files : \A p \in Placed(g) :
       NotElsewhere(bf, f, i, g, p) => crd[At(g, p)][p % ClusterBytes] = ct[g][p]
  /\ bf[f][i].cur \in Clusters => bf[f][i].data = crd[bf[f][i].cur]

\* So it is once it was written back.
LEMMA Evicted ==
  ASSUME NEW crd \in CardType, NEW crd2, NEW bf \in BufType, NEW ct, Sound(crd, bf, ct),
         NEW f \in Files, NEW i \in Bufs, Written(crd, crd2, bf[f][i])
  PROVE  crd2 \in CardType /\ Replaceable(crd2, bf, ct, f, i)
<1> DEFINE b == bf[f][i]
<1>1. b \in Buffers /\ b.data \in Data /\ b.dirty \in BOOLEAN
  BY DEF BufType, Buffers
<1>2. DOMAIN crd = {0} \cup Clusters
  BY DEF CardType
<1>3. crd2 \in CardType
  BY <1>1, <1>2 DEF CardType, Written
<1>4. \A c \in {0} \cup Clusters : c # b.cur => crd2[c] = crd[c]
  BY <1>2 DEF CardType, Written
<1>5. b.cur \in Clusters => b.data = crd2[b.cur]
  <2>1. CASE b.dirty
    BY <1>2, <2>1 DEF CardType, Written
  <2>2. CASE ~b.dirty
    BY <2>2 DEF Written, Sound, Buffered
  <2> QED BY <2>1, <2>2
<1>6. OthersClean(crd2, bf, f, i)
  <2> SUFFICES ASSUME NEW g \in Files, NEW j \in Bufs, g # f \/ j # i,
                      bf[g][j].cur \in Clusters, ~bf[g][j].dirty
               PROVE  bf[g][j].data = crd2[bf[g][j].cur]
    BY DEF OthersClean
  <2>1. bf[g][j].cur # b.cur
    BY ChainFacts DEF Sound, Buffered
  <2>2. bf[g][j].data = crd[bf[g][j].cur]
    BY DEF Sound, Buffered
  <2> QED BY <1>4, <2>1, <2>2
<1>7. ASSUME NEW g \in Files, NEW p \in Placed(g), NotElsewhere(bf, f, i, g, p)
      PROVE  crd2[At(g, p)][p % ClusterBytes] = ct[g][p]
  <2>1. At(g, p) \in Clusters /\ At(g, p) \in Chain(g)
    BY PlaceIsIn
  <2>2. CASE g = f /\ b.cur = At(g, p)
    BY <1>5, <2>1, <2>2 DEF Sound, Bytes
  <2>3. CASE ~(g = f /\ b.cur = At(g, p))
    <3>1. \A j \in Bufs : bf[g][j].cur # At(g, p)
      BY <1>7, <2>3 DEF NotElsewhere
    <3>2. b.cur # At(g, p)
      BY <2>1, <2>3, ChainFacts DEF Sound, Buffered
    <3>3. crd2[At(g, p)] = crd[At(g, p)]
      BY <1>4, <2>1, <3>2
    <3> QED BY <3>1, <3>3 DEF Sound, Bytes
  <2> QED BY <2>2, <2>3
<1> QED BY <1>3, <1>5, <1>6, <1>7 DEF Replaceable

\* What it may be replaced by, when that makes the bytes of the files ct2.
MayReplace(new, crd2, bf, ct, ct2, f, i) ==
  /\ OthersClean(crd2, bf, f, i)
  /\ new.cur \in Clusters =>
       /\ new.cur \in Chain(f) /\ \A j \in Bufs : j # i => bf[f][j].cur # new.cur
       /\ ~new.dirty => new.data = crd2[new.cur]
  /\ \A p \in Placed(f) : At(f, p) = new.cur => new.data[p % ClusterBytes] = ct2[f][p]
  /\ \A g \in Files : \A p \in Placed(g) : (g = f => At(g, p) # new.cur) =>
       /\ ct2[g][p] = ct[g][p]
       /\ NotElsewhere(bf, f, i, g, p) => crd2[At(g, p)][p % ClusterBytes] = ct[g][p]

Replaced(bf, f, i, new) == [bf EXCEPT ![f][i] = new]

LEMMA Installed ==
  ASSUME NEW crd, NEW bf \in BufType, NEW ct, Sound(crd, bf, ct), NEW f \in Files, NEW i \in Bufs,
         NEW new \in Buffers, NEW bf2, bf2 = Replaced(bf, f, i, new), NEW crd2, NEW ct2,
         MayReplace(new, crd2, bf, ct, ct2, f, i)
  PROVE  bf2 \in BufType /\ Sound(crd2, bf2, ct2)
<1>1. bf2 \in BufType
  BY DEF BufType, Replaced
<1> USE DEF MayReplace
<1>2. /\ bf2[f][i] = new
      /\ \A g \in Files, j \in Bufs : g # f \/ j # i => bf2[g][j] = bf[g][j]
  BY DEF BufType, Replaced
<1>3. Buffered(crd2, bf2)
  <2> SUFFICES ASSUME NEW g \in Files, NEW j \in Bufs, bf2[g][j].cur \in Clusters
               PROVE  /\ bf2[g][j].cur \in Chain(g)
                      /\ ~bf2[g][j].dirty => bf2[g][j].data = crd2[bf2[g][j].cur]
                      /\ \A k \in Bufs : bf2[g][k].cur = bf2[g][j].cur => k = j
    BY DEF Buffered
  <2>1. CASE g = f /\ j = i
    BY <1>2, <2>1
  <2>2. CASE g # f \/ j # i
    <3>1. bf2[g][j] = bf[g][j]
      BY <1>2, <2>2
    <3>2. bf[g][j].cur \in Chain(g) /\ \A k \in Bufs : bf[g][k].cur = bf[g][j].cur => k = j
      BY <3>1 DEF Sound, Buffered
    <3>3. ~bf[g][j].dirty => bf[g][j].data = crd2[bf[g][j].cur]
      BY <2>2, <3>1 DEF OthersClean
    <3>4. \A k \in Bufs : bf2[g][k].cur = bf2[g][j].cur => k = j
      <4> SUFFICES ASSUME NEW k \in Bufs, bf2[g][k].cur = bf2[g][j].cur PROVE k = j
        OBVIOUS
      <4>1. CASE g = f /\ k = i
        BY <1>2, <2>2, <3>1, <4>1
      <4>2. CASE g # f \/ k # i
        BY <1>2, <3>1, <3>2, <4>2
      <4> QED BY <4>1, <4>2
    <3> QED BY <3>1, <3>2, <3>3, <3>4
  <2> QED BY <2>1, <2>2
<1>4. Bytes(crd2, bf2, ct2)
  <2> SUFFICES ASSUME NEW g \in Files, NEW p \in Placed(g)
               PROVE  /\ \A j \in Bufs : bf2[g][j].cur = At(g, p) =>
                           bf2[g][j].data[p % ClusterBytes] = ct2[g][p]
                      /\ (\A j \in Bufs : bf2[g][j].cur # At(g, p)) =>
                           crd2[At(g, p)][p % ClusterBytes] = ct2[g][p]
    BY DEF Bytes
  <2>1. CASE g = f /\ At(g, p) = new.cur
    <3>1. At(f, p) \in Clusters
      BY <2>1, PlaceIsIn
    <3>2. \A j \in Bufs : bf2[g][j].cur = At(g, p) => j = i
      BY <1>2, <2>1, <3>1
    <3> QED BY <1>2, <2>1, <3>2
  <2>2. CASE g = f => At(g, p) # new.cur
    <3>1. ct2[g][p] = ct[g][p]
      BY <2>2
    <3>2. ASSUME NEW j \in Bufs, bf2[g][j].cur = At(g, p)
          PROVE  bf2[g][j].data[p % ClusterBytes] = ct2[g][p]
      <4>1. bf2[g][j] = bf[g][j]
        BY <1>2, <2>2, <3>2
      <4> QED BY <3>1, <3>2, <4>1 DEF Sound, Bytes
    <3>3. ASSUME \A j \in Bufs : bf2[g][j].cur # At(g, p)
          PROVE  crd2[At(g, p)][p % ClusterBytes] = ct2[g][p]
      <4>1. NotElsewhere(bf, f, i, g, p)
        BY <1>2, <3>3 DEF NotElsewhere
      <4> QED BY <2>2, <3>1, <4>1
    <3> QED BY <3>2, <3>3
  <2> QED BY <2>1, <2>2
<1> QED BY <1>1, <1>3, <1>4 DEF Sound

\* What happens to the clusters of no file does not matter.
LEMMA CardKept ==
  ASSUME NEW crd, NEW bf, NEW ct, Sound(crd, bf, ct), NEW crd2,
         \A c \in Owned : crd2[c] = crd[c]
  PROVE  Sound(crd2, bf, ct)
<1>1. \A f \in Files : \A c \in Chain(f) : crd2[c] = crd[c]
  BY DEF Owned
<1>2. Buffered(crd2, bf)
  BY <1>1 DEF Sound, Buffered
<1>3. \A f \in Files : \A p \in Placed(f) : crd2[At(f, p)] = crd[At(f, p)]
  BY <1>1, PlaceIsIn
<1> QED BY <1>2, <1>3 DEF Sound, Bytes

\* A buffer that was written, or was meant to be, as it is or clean.
Cleaned(bf, f, i) == [bf EXCEPT ![f][i].dirty = FALSE]

LEMMA PutBackKeeps ==
  ASSUME NEW crd \in CardType, NEW crd2, NEW bf \in BufType, NEW ct, Sound(crd, bf, ct),
         NEW f \in Files, NEW i \in Bufs, Written(crd, crd2, bf[f][i]),
         NEW bf2, bf2 = bf \/ bf2 = Cleaned(bf, f, i)
  PROVE  crd2 \in CardType /\ bf2 \in BufType /\ Sound(crd2, bf2, ct)
<1>1. PICK new : /\ new \in {bf[f][i], [bf[f][i] EXCEPT !.dirty = FALSE]}
                 /\ bf2 = [bf EXCEPT ![f][i] = new]
  <2>1. bf = [bf EXCEPT ![f][i] = bf[f][i]]
    BY DEF BufType
  <2>2. [bf EXCEPT ![f][i].dirty = FALSE] = [bf EXCEPT ![f][i] = [bf[f][i] EXCEPT !.dirty = FALSE]]
    BY DEF BufType, Buffers
  <2> QED BY <2>1, <2>2 DEF Cleaned
<1>2. new \in Buffers /\ new.cur = bf[f][i].cur /\ new.data = bf[f][i].data
  <2>1. bf[f][i] \in Buffers
    BY DEF BufType
  <2> QED BY <1>1, <2>1 DEF Buffers
<1>3. crd2 \in CardType /\ Replaceable(crd2, bf, ct, f, i)
  BY Evicted
<1>4. new.cur \in Clusters =>
        /\ new.cur \in Chain(f) /\ \A j \in Bufs : j # i => bf[f][j].cur # new.cur
        /\ ~new.dirty => new.data = crd2[new.cur]
  BY <1>2, <1>3 DEF Sound, Buffered, Replaceable
<1>5. \A p \in Placed(f) : At(f, p) = new.cur => new.data[p % ClusterBytes] = ct[f][p]
  BY <1>2 DEF Sound, Bytes
<1>6. MayReplace(new, crd2, bf, ct, ct, f, i)
  BY <1>3, <1>4, <1>5 DEF MayReplace, Replaceable
<1>7. bf2 = Replaced(bf, f, i, new)
  BY <1>1 DEF Replaced
<1>8. bf2 \in BufType /\ Sound(crd2, bf2, ct)
  BY <1>7, <1>2, <1>6, Installed
<1> QED BY <1>3, <1>8

-----------------------------------------------------------------------------
(* The steps that do not move data.                                        *)

\* Shared by all that change the call alone.
LEMMA CallOnly ==
  ASSUME FileInv, CallInv',
         UNCHANGED <<fat, hint, dirsize, saved, card, file, buf, content>>
  PROVE  FileInv'
BY DEF FileInv, TypeOK, Intact, HandlesOK

LEMMA ToIdle == call' = Idle => CallInv'
BY DEF CallInv

LEMMA BeginIs ==
  ASSUME FileInv, NEW op \in {"read", "write"}, NEW f \in Files, file[f].open, NEW n \in Nat \ {0},
         NEW v \in Values, op = "read" => First[f] # 0, call' = Begin(op, f, n, v), file' = file
  PROVE  CallInv'
<1> DEFINE loc == file[f].loc
           k   == loc \div ClusterBytes
<1>1. loc \in Nat
  BY DEF FileInv, TypeOK
<1>2. k \in Nat
  BY <1>1, Division, FatAssumption
<1>3. First[f] \in Entries /\ First[f] = NthIn(Fat0, f, 0)
  BY NthFacts, FatAssumption DEF Entries
<1> HIDE DEF loc, k
<1>4. /\ call'.op = op /\ call'.file = f /\ call'.clus = First[f] /\ call'.next = First[f]
      /\ call'.walk = k /\ call'.at = (IF First[f] = 0 THEN "alloc" ELSE Stage(k))
      /\ call'.pos = loc /\ call'.last = loc + n - 1 /\ call'.val = v /\ call'.got = <<>>
  BY DEF Begin, loc, k
<1>5. call' \in Calls
  <2>1. call'.at \in {"alloc", "walk", "copy"}
    BY <1>4 DEF Stage
  <2>2. loc + n - 1 \in Nat /\ <<>> \in Seq(Values)
    BY <1>1
  <2> QED BY <1>1, <1>2, <1>3, <1>4, <2>1, <2>2 DEF Calls, Begin, loc, k
<1>6. AtPlace'
  <2>1. loc <= loc /\ loc <= loc + n - 1 /\ k <= k /\ k - k = 0
    BY <1>1, <1>2
  <2>2. call'.at = "copy" => k = 0
    BY <1>4 DEF Stage
  <2>3. call'.at = "walk" => k # 0
    BY <1>4 DEF Stage
  <2>4. file'[f].loc = loc /\ loc \div ClusterBytes = k
    BY DEF loc, k
  <2> QED BY <1>3, <1>4, <2>1, <2>2, <2>3, <2>4 DEF AtPlace
<1>7. call'.at \in {"alloc", "clear"} => Allocating'
  BY <1>4 DEF Allocating, Stage
<1>8. call'.op = "read" => GotThem'
  <2>1. Len(<<>>) = 0 /\ DOMAIN <<>> = {} /\ loc - loc = 0
    BY <1>1
  <2>2. call'.at # "return" /\ file'[f].loc = loc
    BY <1>4 DEF Stage, loc
  <2> QED BY <1>4, <2>1, <2>2 DEF GotThem, Has
<1> QED BY <1>4, <1>5, <1>6, <1>7, <1>8 DEF CallInv, Moving

LEMMA StartReadKeeps ==
  ASSUME FileInv, NEW f \in Files, StartRead(f)
  PROVE  FileInv'
<1>1. PICK count \in Counts :
        LET n == IF file[f].loc + count > file[f].size THEN file[f].size - file[f].loc ELSE count
        IN  n # 0 /\ call' = Begin("read", f, n, 0)
  BY DEF StartRead
<1> DEFINE n == IF file[f].loc + count > file[f].size THEN file[f].size - file[f].loc ELSE count
<1>2. n \in Nat \ {0}
  <2>1. /\ file[f].loc \in Nat /\ file[f].size \in Nat /\ file[f].loc <= file[f].size
        /\ count \in Nat \ {0}
    BY FatAssumption DEF FileInv, TypeOK, HandlesOK
  <2> QED BY <1>1, <2>1
<1> HIDE DEF n
<1>3. call' = Begin("read", f, n, 0)
  BY <1>1 DEF n
<1>4. file[f].open /\ First[f] # 0 /\ 0 \in Values
      /\ UNCHANGED <<fat, hint, dirsize, saved, card, file, buf, content>>
  BY FatAssumption DEF StartRead
<1>5. CallInv'
  BY <1>2, <1>3, <1>4, BeginIs
<1> QED BY <1>4, <1>5, CallOnly

LEMMA StartWriteKeeps ==
  ASSUME FileInv, NEW f \in Files, StartWrite(f)
  PROVE  FileInv'
<1>1. PICK count \in Counts, v \in Values : call' = Begin("write", f, count, v)
  BY DEF StartWrite
<1>2. count \in Nat \ {0}
  BY FatAssumption
<1>3. file[f].open /\ UNCHANGED <<fat, hint, dirsize, saved, card, file, buf, content>>
  BY DEF StartWrite
<1>4. CallInv'
  BY <1>1, <1>2, <1>3, BeginIs
<1> QED BY <1>3, <1>4, CallOnly

\* Which stages are those of a read or a write, and which of a close.
LEMMA StageIs ==
  ASSUME FileInv, call # Idle
  PROVE  /\ file[call.file].open /\ call.file \in Files
         /\ call.at \in {"alloc", "clear", "walk", "copy", "return"} => Moving
         /\ call.at \in {"flush", "data"} => Closing
<1>1. file[call.file].open /\ (Closing \/ Moving)
  BY DEF FileInv, CallInv
<1>2. Closing => call.at \in {"flush", "data"} /\ call.file \in Files
  BY DEF Closing
<1>3. Moving => call.at \in {"alloc", "clear", "walk", "copy", "return"} /\ call.file \in Files
  BY DEF Moving, Calls
<1> QED BY <1>1, <1>2, <1>3

\* The entry of the cluster a call is at is the next cluster.
LEMMA NextIs ==
  ASSUME Moving, call.clus \in Owned
  PROVE  /\ call.pos \div ClusterBytes - call.walk \in Nat
         /\ NthIn(Fat0, call.file, call.pos \div ClusterBytes - call.walk + 1) = Fat0[call.clus]
<1> DEFINE k == call.pos \div ClusterBytes
           f == call.file
<1>1. k \in Nat /\ call.walk \in Nat /\ call.walk <= k /\ f \in Files
  BY Division, FatAssumption DEF Moving, Calls, AtPlace
<1>2. k - call.walk \in Nat
  BY <1>1
<1>3. call.clus = NthIn(Fat0, f, k - call.walk)
  BY DEF Moving, AtPlace
<1> HIDE DEF k, f
<1>4. NthIn(Fat0, f, k - call.walk + 1) = IF call.clus \in Clusters THEN Fat0[call.clus] ELSE EOC
  BY <1>2, <1>3, NthFacts
<1>5. call.clus \notin Clusters => call.clus = 0
  BY ChainFacts
<1> QED BY <1>2, <1>4, <1>5, Numbers DEF k, f

\* To moves on by one cluster.
LEMMA Goes ==
  ASSUME FileInv, Moving, call.at \in {"walk", "clear"}, call.walk # 0, call.clus \in Owned,
         file[call.file].open, call' = To(Fat0[call.clus]), UNCHANGED <<file, content>>
  PROVE  CallInv'
<1> DEFINE k == call.pos \div ClusterBytes
           c == Fat0[call.clus]
<1>1. k \in Nat /\ call.walk \in Nat /\ call.walk <= k /\ call \in Calls
  BY Division, FatAssumption DEF Moving, Calls, AtPlace
<1>2. c \in Entries
  BY ChainFacts, Numbers
<1> HIDE DEF c
<1>3. /\ call'.walk = call.walk - 1 /\ call'.clus = c /\ call'.at = Stage(call.walk - 1)
      /\ call'.op = call.op /\ call'.file = call.file /\ call'.next = call.next
      /\ call'.pos = call.pos /\ call'.last = call.last /\ call'.val = call.val /\ call'.got = call.got
  BY <1>1 DEF To, Calls, c
<1>4. call'.at \in {"walk", "copy"} /\ (call'.at = "copy" <=> call'.walk = 0)
  BY <1>3 DEF Stage
<1>5. call' \in Calls
  <2>1. call' = [call EXCEPT !.clus = c, !.walk = @ - 1, !.at = Stage(call.walk - 1)]
    BY DEF To, c
  <2>2. call.walk - 1 \in Nat
    BY <1>1
  <2> QED BY <1>1, <1>2, <1>3, <1>4, <2>1, <2>2 DEF Calls
<1>6. AtPlace'
  <2>1. c = NthIn(Fat0, call.file, k - call.walk + 1)
    BY NextIs DEF c
  <2>2. k - call.walk + 1 = k - (call.walk - 1) /\ call.walk - 1 <= k
    BY <1>1
  <2>3. file[call.file].loc <= call.pos /\ call.pos <= call.last
    BY DEF Moving, AtPlace
  <2> QED BY <1>3, <1>4, <2>1, <2>2, <2>3 DEF AtPlace
<1>7. call'.op = "read" => GotThem'
  <2>1. call.at # "return" /\ call'.at # "return"
    BY <1>4
  <2> QED BY <1>3, <2>1 DEF Moving, GotThem
<1> QED BY <1>3, <1>4, <1>5, <1>6, <1>7 DEF CallInv, Moving

\* The cluster a call is at, unless that is the end of the chain.
LEMMA ClusIs ==
  ASSUME Moving
  PROVE  call.clus \in Owned \/ call.clus = EOC
<1>1. call.pos \div ClusterBytes - call.walk \in Nat /\ call.file \in Files
  <2>1. call.pos \div ClusterBytes \in Nat /\ call.walk \in Nat
        /\ call.walk <= call.pos \div ClusterBytes /\ call.file \in Files
    BY Division, FatAssumption DEF Moving, Calls, AtPlace
  <2> QED BY <2>1
<1>2. call.clus = NthIn(Fat0, call.file, call.pos \div ClusterBytes - call.walk)
  BY DEF Moving, AtPlace
<1> QED BY <1>1, <1>2, NthType DEF Entries

LEMMA FollowKeeps ==
  ASSUME FileInv, Follow
  PROVE  FileInv'
<1>1. /\ call # Idle /\ call.at = "walk" /\ call.clus # EOC
      /\ UNCHANGED <<fat, hint, dirsize, saved, card, file, buf, content>>
  BY DEF Follow
<1>2. Moving /\ file[call.file].open /\ call.clus \in Owned
  BY <1>1, StageIs, ClusIs
<1>3. fat[call.clus] = Fat0[call.clus] /\ Fat0[call.clus] \in Entries
  BY <1>2, ChainFacts, Numbers DEF FileInv, Intact
<1>4. call.walk # 0
  BY <1>1, <1>2 DEF Moving, AtPlace
<1>5. CASE call.op = "write" /\ Fat0[call.clus] > LastCluster
  <2>1. call' = [call EXCEPT !.next = Fat0[call.clus], !.at = "alloc"]
    BY <1>3, <1>5 DEF Follow
  <2>2. Fat0[call.clus] = EOC
    BY <1>3, <1>5, FatAssumption DEF Entries, Clusters
  <2>3. /\ call'.op = "write" /\ call'.at = "alloc" /\ call'.next = EOC /\ call'.walk = call.walk
        /\ call'.clus = call.clus /\ call'.file = call.file /\ call'.pos = call.pos
        /\ call'.last = call.last /\ call' \in Calls
    BY <1>2, <1>5, <2>1, <2>2 DEF Moving, Calls, Entries
  <2>4. AtPlace'
    BY <1>1, <1>2, <2>3 DEF Moving, AtPlace
  <2>5. Allocating'
    BY <1>2, <1>4, <2>2, <2>3 DEF Allocating
  <2>6. CallInv'
    BY <1>1, <1>2, <2>3, <2>4, <2>5 DEF CallInv, Moving
  <2> QED BY <1>1, <2>6, CallOnly
<1>6. CASE ~(call.op = "write" /\ Fat0[call.clus] > LastCluster)
  <2>1. call' = To(Fat0[call.clus])
    BY <1>3, <1>6 DEF Follow
  <2>2. CallInv'
    BY <1>1, <1>2, <1>4, <2>1, Goes
  <2> QED BY <1>1, <2>2, CallOnly
<1> QED BY <1>5, <1>6

-----------------------------------------------------------------------------
(* Allocation.                                                             *)

LEMMA NextFreeIs ==
  ASSUME NEW t, NEW c \in Nat \ {0}
  PROVE  /\ NextFree(t, c) \in Nat
         /\ NextFree(t, c) <= LastCluster => c <= NextFree(t, c) /\ t[NextFree(t, c)] = 0
         /\ NextFree(t, c) # 0
<1> DEFINE S == {d \in c .. LastCluster : t[d] = 0} \cup {LastCluster + 1}
<1>1. LastCluster \in Nat /\ S \in SUBSET Nat /\ S # {} /\ 0 \notin S
  BY Numbers
<1>2. \A d \in S : d <= LastCluster => c <= d /\ t[d] = 0
  BY <1>1
<1>3. Min(S) \in S
  BY <1>1, MinIs
<1> QED BY <1>1, <1>2, <1>3 DEF NextFree

\* What fs_alloc takes is in no chain, and neither is what it will try next.
LEMMA CandidateIs ==
  ASSUME FileInv
  PROVE  /\ Candidate \notin Owned
         /\ Marked \in Tables /\ \A c \in Owned : Marked[c] = Fat0[c]
         /\ NextFree(Marked, Candidate) <= LastCluster =>
              /\ Candidate \in Clusters
              /\ NewHint \in Int /\ NewHint + 1 \in Clusters \ Owned
<1>1. /\ fat \in Tables /\ hint + 1 \in Clusters /\ hint + 1 \notin Owned
      /\ \A c \in Owned : fat[c] = Fat0[c]
  BY DEF FileInv, TypeOK, Intact
<1>2. Candidate \in Nat /\ 2 <= Candidate /\ Candidate \notin Owned
  <2>1. CASE Candidate = hint + 1
    BY <1>1, <2>1 DEF Clusters
  <2>2. CASE Candidate = NextFree(fat, 2)
    <3>1. /\ NextFree(fat, 2) \in Nat
          /\ NextFree(fat, 2) <= LastCluster => 2 <= NextFree(fat, 2) /\ fat[NextFree(fat, 2)] = 0
      <4>1. 2 \in Nat \ {0}
        OBVIOUS
      <4> QED BY <4>1, NextFreeIs
    <3>2. 2 <= LastCluster /\ LastCluster \in Nat
      BY <1>1, Numbers DEF Clusters
    <3>3. \A c \in Owned : c <= LastCluster /\ fat[c] # 0
      BY <1>1, <3>2, ChainFacts
    <3> QED BY <2>2, <3>1, <3>2, <3>3
  <2> QED BY <2>1, <2>2 DEF Candidate
<1> HIDE DEF Candidate
<1>3. /\ \A c \in 0 .. LastCluster : Marked[c] = IF c = Candidate THEN EOC ELSE fat[c]
      /\ Marked \in Tables
  BY <1>1 DEF Tables, Marked, Entries
<1>4. \A c \in Owned : Marked[c] = Fat0[c]
  BY <1>1, <1>2, <1>3, ChainFacts
<1>5. ASSUME NextFree(Marked, Candidate) <= LastCluster
      PROVE  /\ Candidate \in Clusters
             /\ NewHint \in Int /\ NewHint + 1 \in Clusters \ Owned
  <2>1. /\ NextFree(Marked, Candidate) \in Nat /\ Candidate <= NextFree(Marked, Candidate)
        /\ Marked[NextFree(Marked, Candidate)] = 0
    BY <1>2, <1>5, NextFreeIs
  <2>2. NextFree(Marked, Candidate) \in Clusters /\ Candidate \in Clusters
    BY <1>2, <1>5, <2>1, Numbers DEF Clusters
  <2>3. NextFree(Marked, Candidate) \notin Owned
    BY <1>4, <2>1, ChainFacts
  <2>4. NewHint = NextFree(Marked, Candidate) - 1
    BY DEF NewHint
  <2> HIDE DEF NewHint
  <2> QED BY <2>1, <2>2, <2>3, <2>4
<1> QED BY <1>2, <1>3, <1>4, <1>5

\* An allocation, completed or not, leaves chains and bytes as they are.
LEMMA AllocIsApart ==
  ASSUME FileInv, CallInv',
         \/ UNCHANGED <<fat, hint, card>>
         \/ fat' = Marked /\ UNCHANGED <<hint, card>>
         \/ /\ NextFree(Marked, Candidate) <= LastCluster
            /\ fat' = Marked /\ hint' = NewHint
            /\ card' \in {card, [card EXCEPT ![Candidate] = Zeros]},
         UNCHANGED <<dirsize, saved, file, buf, content>>
  PROVE  FileInv'
<1>1. /\ Candidate \notin Owned
      /\ Marked \in Tables /\ \A c \in Owned : Marked[c] = Fat0[c]
      /\ NextFree(Marked, Candidate) <= LastCluster =>
           /\ Candidate \in Clusters
           /\ NewHint \in Int /\ NewHint + 1 \in Clusters \ Owned
  BY CandidateIs
<1>2. fat' \in Tables /\ hint' \in Int /\ Intact(fat', hint')
  BY <1>1 DEF FileInv, TypeOK, Intact
<1>3. card' \in CardType /\ \A c \in Owned : card'[c] = card[c]
  <2>1. CASE card' = card
    BY <2>1 DEF FileInv, TypeOK
  <2>2. CASE card' = [card EXCEPT ![Candidate] = Zeros]
    <3>1. Zeros \in Data
      BY FatAssumption DEF Zeros, Data
    <3>2. card \in CardType
      BY DEF FileInv, TypeOK
    <3>3. card' \in CardType
      BY <2>2, <3>1, <3>2 DEF CardType
    <3>4. \A c \in Owned : c \in {0} \cup Clusters
      BY ChainFacts
    <3> QED BY <1>1, <2>2, <3>2, <3>3, <3>4 DEF CardType
  <2> QED BY <2>1, <2>2
<1>4. Sound(card', buf, content)
  BY <1>3, CardKept DEF FileInv
<1> QED BY <1>2, <1>3, <1>4 DEF FileInv, TypeOK, Intact, HandlesOK

LEMMA AllocKeeps ==
  ASSUME FileInv, Alloc
  PROVE  FileInv'
<1>1. /\ call # Idle /\ call.at = "alloc" /\ call' = [call EXCEPT !.at = "clear"]
      /\ NextFree(Marked, Candidate) <= LastCluster
      /\ fat' = Marked /\ hint' = NewHint /\ card' = [card EXCEPT ![Candidate] = Zeros]
      /\ UNCHANGED <<dirsize, saved, file, buf, content>>
  BY DEF Alloc
<1>2. Moving /\ Allocating /\ file[call.file].open
  <2>1. Moving /\ file[call.file].open
    BY <1>1, StageIs
  <2> QED BY <1>1, <2>1 DEF Moving
<1>3. /\ call' \in Calls /\ call'.at = "clear" /\ call'.op = call.op /\ call'.file = call.file
      /\ call'.clus = call.clus /\ call'.next = call.next /\ call'.walk = call.walk
      /\ call'.pos = call.pos /\ call'.last = call.last
  BY <1>1, <1>2 DEF Moving, Calls
<1>4. AtPlace' /\ Allocating'
  BY <1>1, <1>2, <1>3 DEF Moving, AtPlace, Allocating
<1>5. CallInv'
  BY <1>1, <1>2, <1>3, <1>4 DEF CallInv, Moving, Allocating
<1> QED BY <1>1, <1>5, AllocIsApart

LEMMA AllocFailsKeeps ==
  ASSUME FileInv, AllocFails
  PROVE  FileInv'
<1>1. CallInv'
  BY ToIdle DEF AllocFails
<1> QED BY <1>1, AllocIsApart DEF AllocFails

-----------------------------------------------------------------------------
(* The steps that move data.                                               *)

\* The steps in which a buffer of a file is written and the call goes on or ends.
LEMMA BufferWritten ==
  ASSUME FileInv, CallInv', NEW f \in Files, NEW i \in Bufs,
         card' = card \/ Written(card, card', buf[f][i]),
         \/ buf' = buf
         \/ Written(card, card', buf[f][i]) /\ buf' = [buf EXCEPT ![f][i].dirty = FALSE],
         UNCHANGED <<fat, hint, dirsize, saved, content>>,
         file' \in [Files -> [open : BOOLEAN, size : Nat, loc : Nat]],
         \A g \in Files : /\ file'[g].loc = file[g].loc /\ file'[g].size = file[g].size
                          /\ \/ file'[g].open = file[g].open
                             \/ \A j \in Bufs : ~buf'[g][j].dirty
  PROVE  FileInv'
<1>1. card \in CardType /\ buf \in BufType /\ Sound(card, buf, content)
  BY DEF FileInv, TypeOK
<1>2. card' \in CardType /\ buf' \in BufType /\ Sound(card', buf', content)
  <2>1. CASE card' = card /\ buf' = buf
    BY <1>1, <2>1
  <2>2. CASE Written(card, card', buf[f][i])
    <3>1. buf' = buf \/ buf' = Cleaned(buf, f, i)
      BY DEF Cleaned
    <3> QED BY <1>1, <2>2, <3>1, PutBackKeeps
  <2> QED BY <2>1, <2>2
<1>3. \A g \in Files, j \in Bufs : ~buf[g][j].dirty => ~buf'[g][j].dirty
  <2>1. CASE buf' = buf
    BY <2>1
  <2>2. CASE buf' = [buf EXCEPT ![f][i].dirty = FALSE]
    BY <1>1, <2>2 DEF BufType, Buffers
  <2> QED BY <2>1, <2>2
<1>4. HandlesOK'
  BY <1>3 DEF FileInv, HandlesOK
<1> QED BY <1>2, <1>4 DEF FileInv, TypeOK, Intact

\* What CopyOut and CopyIn have in buffer i, for cluster c, with the card crd.
Loaded(crd, f, c, i, data) ==
  /\ data \in Data
  /\ OthersClean(crd, buf, f, i)
  /\ c \in Clusters =>
       /\ c \in Chain(f) /\ \A j \in Bufs : j # i => buf[f][j].cur # c
       /\ data = crd[c] \/ (buf[f][i].cur = c /\ buf[f][i].dirty)
  /\ \A p \in Placed(f) : At(f, p) = c => data[p % ClusterBytes] = content[f][p]
  /\ \A g \in Files : \A p \in Placed(g) :
       (g = f => At(g, p) # c) /\ NotElsewhere(buf, f, i, g, p)
         => crd[At(g, p)][p % ClusterBytes] = content[g][p]

LEMMA LoadedIs ==
  ASSUME FileInv, Moving, NEW f, f = call.file, NEW c, c = call.clus, NEW i \in Bufs, NEW data,
         Loads(f, c, i, data)
  PROVE  card' \in CardType /\ Loaded(card', f, c, i, data)
<1>1. /\ card \in CardType /\ buf \in BufType /\ Sound(card, buf, content) /\ f \in Files
      /\ Buffered(card, buf) /\ Bytes(card, buf, content)
  BY DEF FileInv, TypeOK, Moving, Calls, Sound
<1>2. c \in Clusters => c \in Chain(f)
  <2>1. call.pos \div ClusterBytes \in Nat /\ call.walk \in Nat /\ call.walk <= call.pos \div ClusterBytes
    BY Division, FatAssumption DEF Moving, Calls, AtPlace
  <2>2. c = NthIn(Fat0, f, call.pos \div ClusterBytes - call.walk)
    BY DEF Moving, AtPlace
  <2>3. call.pos \div ClusterBytes - call.walk \in Nat
    BY <2>1
  <2> QED BY <1>1, <2>2, <2>3, NthType
<1>3. CASE i \in Holding(f, c) /\ data = buf[f][i].data /\ UNCHANGED card
  <2>1. buf[f][i].cur = c /\ card' = card
    BY <1>3 DEF Holding
  <2>2. data \in Data
    BY <1>1, <1>3 DEF BufType, Buffers
  <2>3. OthersClean(card, buf, f, i)
    BY <1>1 DEF OthersClean, Buffered
  <2>4. c \in Clusters =>
          /\ c \in Chain(f) /\ \A j \in Bufs : j # i => buf[f][j].cur # c
          /\ data = card[c] \/ (buf[f][i].cur = c /\ buf[f][i].dirty)
    BY <1>1, <1>3, <2>1 DEF Buffered
  <2>5. \A p \in Placed(f) : At(f, p) = c => data[p % ClusterBytes] = content[f][p]
    BY <1>1, <1>3, <2>1 DEF Bytes
  <2>6. ASSUME NEW g \in Files, NEW p \in Placed(g), g = f => At(g, p) # c,
               NotElsewhere(buf, f, i, g, p)
        PROVE  card[At(g, p)][p % ClusterBytes] = content[g][p]
    <3>1. \A j \in Bufs : buf[g][j].cur # At(g, p)
      BY <2>1, <2>6 DEF NotElsewhere
    <3> QED BY <1>1, <3>1 DEF Bytes
  <2> QED BY <1>1, <2>1, <2>2, <2>3, <2>4, <2>5, <2>6 DEF Loaded
<1>4. CASE Holding(f, c) = {} /\ c \in DOMAIN card /\ PutBack(buf[f][i]) /\ data = card[c]
  <2>1. Written(card, card', buf[f][i])
    BY <1>4 DEF PutBack, Written
  <2>2. /\ card' \in CardType
        /\ OthersClean(card', buf, f, i)
        /\ \A g \in Files : \A p \in Placed(g) :
             NotElsewhere(buf, f, i, g, p) => card'[At(g, p)][p % ClusterBytes] = content[g][p]
    <3>1. card' \in CardType /\ Replaceable(card', buf, content, f, i)
      BY <1>1, <2>1, Evicted
    <3> QED BY <3>1 DEF Replaceable
  <2>3. \A j \in Bufs : buf[f][j].cur # c
    BY <1>4 DEF Holding
  <2>4. data \in Data /\ data = card'[c]
    <3>1. c \in {0} \cup Clusters
      BY <1>1, <1>4 DEF CardType
    <3>2. buf[f][i].cur # c
      BY <2>3
    <3> QED BY <1>1, <1>4, <2>1, <3>1, <3>2 DEF CardType, Written
  <2>5. \A p \in Placed(f) : At(f, p) = c => data[p % ClusterBytes] = content[f][p]
    BY <1>1, <1>4, <2>3 DEF Bytes
  <2> QED BY <1>2, <2>2, <2>3, <2>4, <2>5 DEF Loaded
<1> QED BY <1>3, <1>4 DEF Loads

\* The steps in which a call replaces a buffer of its file.
LEMMA BufferReplaced ==
  ASSUME FileInv, call # Idle, CallInv', NEW i \in Bufs, NEW new \in Buffers,
         buf' = Replaced(buf, call.file, i, new), card' \in CardType,
         MayReplace(new, card', buf, content, content', call.file, i),
         content' = [g \in Files |-> [p \in Placed(g) |-> content'[g][p]]],
         UNCHANGED <<fat, hint, dirsize, saved, file>>
  PROVE  FileInv'
<1>1. buf \in BufType /\ Sound(card, buf, content) /\ call.file \in Files /\ file[call.file].open
  BY StageIs DEF FileInv, TypeOK
<1>2. buf' \in BufType /\ Sound(card', buf', content')
  BY <1>1, Installed
<1>3. \A g \in Files : g # call.file => buf'[g] = buf[g]
  BY <1>1 DEF Replaced, BufType
<1>4. HandlesOK'
  BY <1>1, <1>3 DEF FileInv, HandlesOK
<1> QED BY <1>2, <1>4 DEF FileInv, TypeOK, Intact

LEMMA ClearKeeps ==
  ASSUME FileInv, Clear
  PROVE  FileInv'
<1>1. call # Idle /\ call.at = "clear" /\ UNCHANGED <<hint, dirsize, saved, file, content>>
  BY DEF Clear
<1>2. Moving /\ Allocating /\ file[call.file].open /\ call.file \in Files /\ call \in Calls
  <2>1. Moving /\ file[call.file].open /\ call.file \in Files
    BY <1>1, StageIs
  <2> QED BY <1>1, <2>1 DEF Moving
<1> DEFINE new == [Empty EXCEPT !.cur = call.next]
<1>3. PICK i \in Bufs : PutBack(buf[call.file][i]) /\ buf' = Replaced(buf, call.file, i, new)
  BY DEF Clear, Replaced
<1>4. new \in Buffers /\ new.cur = call.next /\ call.next \in {0, EOC}
  <2>1. call.next \in {0, EOC}
    BY <1>2 DEF Allocating
  <2>2. Zeros \in Data
    BY FatAssumption DEF Zeros, Data
  <2> QED BY <2>1, <2>2 DEF Empty, Buffers, Entries
<1> HIDE DEF new
<1>5. card' \in CardType /\ MayReplace(new, card', buf, content, content', call.file, i)
  <2>1. card \in CardType /\ buf \in BufType /\ Sound(card, buf, content)
    BY DEF FileInv, TypeOK
  <2>2. Written(card, card', buf[call.file][i])
    BY <1>3 DEF PutBack, Written
  <2>3. card' \in CardType /\ Replaceable(card', buf, content, call.file, i)
    BY <1>2, <2>1, <2>2, Evicted
  <2>4. new.cur \notin Clusters
    BY <1>4, Numbers
  <2>5. \A p \in Placed(call.file) : At(call.file, p) # new.cur
    BY <1>2, <2>4, PlaceIsIn
  <2> QED BY <1>1, <2>3, <2>4, <2>5 DEF MayReplace, Replaceable
<1>6. fat' = fat /\ CallInv'
  <2>1. CASE call.next = call.clus
    <3>1. fat' = fat /\ call' = [call EXCEPT !.at = Stage(call.walk)]
      BY <2>1 DEF Clear
    <3>2. /\ call'.walk = call.walk /\ call'.clus = call.clus /\ call'.op = call.op
          /\ call'.file = call.file /\ call'.pos = call.pos /\ call'.last = call.last
          /\ call'.at = Stage(call.walk) /\ call' \in Calls
      BY <1>2, <3>1 DEF Calls, Stage
    <3>3. call'.at \in {"walk", "copy"} /\ (call'.at = "copy" <=> call'.walk = 0)
      BY <3>2 DEF Stage
    <3>4. AtPlace'
      BY <1>1, <1>2, <3>2, <3>3 DEF Moving, AtPlace
    <3>5. call'.op = "write"
      BY <1>2, <3>2 DEF Allocating
    <3> QED BY <1>1, <1>2, <3>1, <3>2, <3>3, <3>4, <3>5 DEF CallInv, Moving
  <2>2. CASE call.next # call.clus
    <3>1. call.next = EOC /\ call.clus \in Owned /\ Fat0[call.clus] = EOC /\ call.walk # 0
      BY <1>2, <2>2 DEF Allocating
    <3>2. fat' = [fat EXCEPT ![call.clus] = EOC] /\ call' = To(Fat0[call.clus])
      BY <2>2, <3>1 DEF Clear
    <3>3. fat' = fat
      BY <3>1, <3>2 DEF FileInv, TypeOK, Intact, Tables
    <3>4. CallInv'
      BY <1>1, <1>2, <3>1, <3>2, Goes
    <3> QED BY <3>3, <3>4
  <2> QED BY <2>1, <2>2
<1>7. content' = [g \in Files |-> [p \in Placed(g) |-> content'[g][p]]]
  BY <1>1 DEF FileInv, TypeOK
<1> QED BY <1>1, <1>3, <1>4, <1>5, <1>6, <1>7, BufferReplaced

LEMMA ClearFailsKeeps ==
  ASSUME FileInv, ClearFails
  PROVE  FileInv'
<1>1. /\ call # Idle /\ CallInv'
      /\ UNCHANGED <<fat, hint, dirsize, saved, file, buf, content>>
  BY ToIdle DEF ClearFails
<1>2. /\ call.file \in Files /\ buf \in BufType
      /\ file' \in [Files -> [open : BOOLEAN, size : Nat, loc : Nat]]
  BY <1>1, StageIs DEF FileInv, TypeOK
<1>3. PICK i \in Bufs : card' = card \/ PutBackFails(buf[call.file][i])
  <2>1. 0 \in Bufs
    BY FatAssumption DEF Bufs
  <2> QED BY <2>1 DEF ClearFails
<1>4. card' = card \/ Written(card, card', buf[call.file][i])
  BY <1>3 DEF PutBackFails, PutBack, Written
<1> QED BY <1>1, <1>2, <1>4, BufferWritten

-----------------------------------------------------------------------------
(* Pieces.                                                                 *)

LEMMA SamePosition ==
  ASSUME NEW p \in Nat, NEW q \in Nat, p \div ClusterBytes = q \div ClusterBytes,
         p % ClusterBytes = q % ClusterBytes
  PROVE  p = q
<1>1. ClusterBytes \in Nat \ {0} /\ p \div ClusterBytes \in Nat
  BY FatAssumption, Division
<1>2. /\ p - ClusterBytes * (p \div ClusterBytes) = p % ClusterBytes
      /\ q - ClusterBytes * (q \div ClusterBytes) = q % ClusterBytes
  BY <1>1, Division
<1>3. ClusterBytes * (p \div ClusterBytes) \in Nat
  BY <1>1
<1> QED BY <1>2, <1>3

\* The number of the cluster of a position.
LEMMA NumberIs ==
  ASSUME NEW p \in Nat, NEW k \in Nat
  PROVE  p \div ClusterBytes = k <=> k * ClusterBytes <= p /\ p < (k + 1) * ClusterBytes
<1> DEFINE q == p \div ClusterBytes
           s == ClusterBytes
<1>1. s \in Nat \ {0}
  BY FatAssumption
<1>2. q \in Nat /\ p - s * q \in 0 .. s - 1
  BY <1>1, Division
<1> HIDE DEF q, s
<1>3. q * s <= p /\ p < (q + 1) * s
  <2>1. s * q = q * s /\ (q + 1) * s = q * s + s /\ q * s \in Nat
    BY <1>1, <1>2
  <2> QED BY <1>1, <1>2, <2>1
<1>4. ASSUME k * s <= p, p < (k + 1) * s PROVE q = k
  <2>1. k * s \in Int /\ (k + 1) * s \in Int /\ q * s \in Int /\ (q + 1) * s \in Int
    BY <1>1, <1>2
  <2>2. k * s < (q + 1) * s /\ q * s < (k + 1) * s
    BY <1>3, <1>4, <2>1
  <2>3. k < q + 1 /\ q < k + 1
    BY <1>1, <1>2, <2>2, Scale
  <2> QED BY <1>2, <2>3
<1>5. q = k => k * s <= p /\ p < (k + 1) * s
  BY <1>3
<1> QED BY <1>4, <1>5 DEF q, s

\* A piece is in one cluster, and the next position is the first of the next.
LEMMA PieceIs ==
  ASSUME call.pos \in Nat, call.last \in Nat, call.pos <= call.last
  PROVE  /\ PieceEnd \in Nat /\ call.pos <= PieceEnd /\ PieceEnd <= call.last
         /\ \A p \in Piece : p \in Nat /\ p \div ClusterBytes = call.pos \div ClusterBytes
         /\ PieceEnd # call.last =>
              (PieceEnd + 1) \div ClusterBytes = call.pos \div ClusterBytes + 1
<1> DEFINE k == call.pos \div ClusterBytes
           e == (k + 1) * ClusterBytes - 1
           E == {call.last, e}
<1>1. k \in Nat /\ ClusterBytes \in Nat \ {0}
  BY Division, FatAssumption
<1> HIDE DEF k
<1>2. k * ClusterBytes <= call.pos /\ call.pos < (k + 1) * ClusterBytes
  BY <1>1, NumberIs DEF k
<1>3. e \in Nat /\ call.pos <= e /\ e + 1 = (k + 1) * ClusterBytes /\ k * ClusterBytes \in Nat
  <2>1. (k + 1) * ClusterBytes \in Nat /\ k * ClusterBytes \in Nat
    BY <1>1
  <2> QED BY <1>2, <2>1
<1>4. PieceEnd = Min(E)
  BY DEF PieceEnd, k
<1> HIDE DEF e
<1>5. Min(E) \in E /\ \A x \in E : Min(E) <= x
  <2>1. E \in SUBSET Nat /\ E # {}
    BY <1>3
  <2> QED BY <2>1, MinIs
<1>6. /\ PieceEnd \in Nat /\ call.pos <= PieceEnd /\ PieceEnd <= call.last /\ PieceEnd <= e
      /\ PieceEnd # call.last => PieceEnd = e
  BY <1>3, <1>4, <1>5
<1> HIDE DEF PieceEnd, E
<1>7. ASSUME NEW p \in Piece PROVE p \in Nat /\ p \div ClusterBytes = k
  <2>1. p \in Nat /\ call.pos <= p /\ p <= PieceEnd
    BY <1>6 DEF Piece
  <2>2. k * ClusterBytes <= p /\ p < (k + 1) * ClusterBytes
    BY <1>2, <1>3, <1>6, <2>1
  <2> QED BY <1>1, <2>1, <2>2, NumberIs
<1>8. ASSUME PieceEnd # call.last PROVE (PieceEnd + 1) \div ClusterBytes = k + 1
  <2>1. PieceEnd + 1 = (k + 1) * ClusterBytes /\ PieceEnd + 1 \in Nat
    BY <1>3, <1>6, <1>8
  <2>2. (k + 1) * ClusterBytes < (k + 1 + 1) * ClusterBytes
    BY <1>1, Scale
  <2>3. k + 1 \in Nat /\ (k + 1) * ClusterBytes <= (k + 1) * ClusterBytes
    BY <1>1, <1>3
  <2> QED BY <2>1, <2>2, <2>3, NumberIs
<1> QED BY <1>6, <1>7, <1>8 DEF k

\* What a read has got after a piece.
GotPiece(got) == Has(got, call.file, file[call.file].loc, PieceEnd + 1, content)

LEMMA OnwardKeeps ==
  ASSUME FileInv, Moving, call.at = "copy", file[call.file].open, NEW got \in Seq(Values), Onward(got),
         UNCHANGED file, call.op = "read" => content' = content /\ GotPiece(got)
  PROVE  CallInv'
<1> DEFINE k == call.pos \div ClusterBytes
<1>1. /\ call \in Calls /\ call.walk = 0 /\ call.pos \in Nat /\ call.last \in Nat
      /\ file[call.file].loc <= call.pos /\ call.pos <= call.last /\ file[call.file].loc \in Nat
  BY DEF Moving, AtPlace, Calls, FileInv, TypeOK
<1>2. k \in Nat /\ call.clus = NthIn(Fat0, call.file, k)
  <2>1. k \in Nat
    BY <1>1, Division, FatAssumption
  <2>2. call.clus = NthIn(Fat0, call.file, k - 0) /\ k - 0 = k
    BY <1>1, <2>1 DEF Moving, AtPlace
  <2> QED BY <2>1, <2>2
<1>3. /\ PieceEnd \in Nat /\ call.pos <= PieceEnd /\ PieceEnd <= call.last
      /\ PieceEnd # call.last => (PieceEnd + 1) \div ClusterBytes = k + 1
  BY <1>1, PieceIs
<1>4. CASE PieceEnd = call.last
  <2>1. call' = [call EXCEPT !.at = "return", !.got = got]
    BY <1>4 DEF Onward
  <2>2. /\ call' \in Calls /\ call'.at = "return" /\ call'.got = got /\ call'.op = call.op
        /\ call'.file = call.file /\ call'.clus = call.clus /\ call'.walk = call.walk
        /\ call'.pos = call.pos /\ call'.last = call.last
    BY <1>1, <2>1 DEF Calls
  <2>3. AtPlace'
    BY <2>2 DEF Moving, AtPlace
  <2>4. call'.op = "read" => GotThem'
    BY <1>4, <2>2 DEF GotPiece, GotThem
  <2> QED BY <2>2, <2>3, <2>4 DEF CallInv, Moving
<1>5. CASE PieceEnd # call.last
  <2>1. call' = [call EXCEPT !.pos = PieceEnd + 1, !.walk = 1, !.at = "walk", !.got = got]
    BY <1>5 DEF Onward
  <2>2. /\ call'.at = "walk" /\ call'.got = got /\ call'.op = call.op
        /\ call'.file = call.file /\ call'.clus = call.clus /\ call'.walk = 1
        /\ call'.pos = PieceEnd + 1 /\ call'.last = call.last
    BY <1>1, <2>1 DEF Calls
  <2>3. call' \in Calls
    <3>1. PieceEnd + 1 \in Nat /\ 1 \in Nat
      BY <1>3
    <3> QED BY <1>1, <2>1, <3>1 DEF Calls
  <2>4. AtPlace'
    <3>1. (PieceEnd + 1) \div ClusterBytes = k + 1 /\ (k + 1) - 1 = k /\ 1 <= k + 1
      BY <1>2, <1>3, <1>5
    <3>2. file[call.file].loc <= PieceEnd + 1 /\ PieceEnd + 1 <= call.last
      BY <1>1, <1>3, <1>5
    <3> HIDE DEF k
    <3> QED BY <1>2, <2>2, <3>1, <3>2 DEF AtPlace
  <2>5. call'.op = "read" => GotThem'
    BY <2>2 DEF GotPiece, GotThem
  <2> QED BY <2>2, <2>3, <2>4, <2>5 DEF CallInv, Moving
<1> QED BY <1>4, <1>5

\* The cluster of the position of a call that copies.
LEMMA CopiesAt ==
  ASSUME Moving, call.at = "copy"
  PROVE  /\ call.pos \in Nat /\ call.last \in Nat /\ call.pos <= call.last /\ call.file \in Files
         /\ call.clus = At(call.file, call.pos)
         /\ \A p \in Placed(call.file) : p \in Piece => At(call.file, p) = call.clus
<1>1. /\ call.pos \in Nat /\ call.last \in Nat /\ call.pos <= call.last /\ call.file \in Files
      /\ call.walk = 0
  BY DEF Moving, AtPlace, Calls
<1>2. call.clus = At(call.file, call.pos)
  <2>1. call.pos \div ClusterBytes \in Nat
    BY <1>1, Division, FatAssumption
  <2>2. call.pos \div ClusterBytes - 0 = call.pos \div ClusterBytes
    BY <2>1
  <2> QED BY <1>1, <2>2 DEF Moving, AtPlace, At
<1>3. \A p \in Piece : p \div ClusterBytes = call.pos \div ClusterBytes
  BY <1>1, PieceIs
<1> QED BY <1>1, <1>2, <1>3 DEF At

LEMMA ConcatIs ==
  ASSUME NEW S, NEW a \in Seq(S), NEW b \in Seq(S)
  PROVE  /\ a \o b \in Seq(S) /\ Len(a \o b) = Len(a) + Len(b)
         /\ \A k \in DOMAIN (a \o b) :
              \/ k <= Len(a) /\ k \in DOMAIN a /\ (a \o b)[k] = a[k]
              \/ k > Len(a) /\ k - Len(a) \in 1 .. Len(b) /\ (a \o b)[k] = b[k - Len(a)]
OBVIOUS

LEMMA CopyOutKeeps ==
  ASSUME FileInv, CopyOut
  PROVE  FileInv'
<1> DEFINE f == call.file
           loc == file[f].loc
<1>1. /\ call # Idle /\ call.op = "read" /\ call.at = "copy"
      /\ UNCHANGED <<fat, hint, dirsize, saved, file, content>>
  BY DEF CopyOut
<1>2. Moving /\ file[f].open /\ f \in Files /\ call \in Calls /\ GotThem
  <2>1. Moving /\ file[f].open /\ f \in Files
    BY <1>1, StageIs
  <2> QED BY <1>1, <2>1 DEF Moving
<1>3. PICK i \in Bufs, data \in [Offsets -> Values] :
        /\ Loads(f, call.clus, i, data)
        /\ buf' = [buf EXCEPT ![f][i] = [cur |-> call.clus, data |-> data,
                                         dirty |-> @.dirty /\ @.cur = call.clus]]
        /\ Onward(call.got \o Taken(data))
  BY DEF CopyOut
<1> DEFINE new == [cur |-> call.clus, data |-> data,
                   dirty |-> buf[f][i].dirty /\ buf[f][i].cur = call.clus]
<1>4. buf \in BufType /\ buf' = Replaced(buf, f, i, new)
  BY <1>2, <1>3 DEF FileInv, TypeOK, BufType, Replaced
<1>5. card' \in CardType /\ Loaded(card', f, call.clus, i, data)
  BY <1>2, <1>3, LoadedIs
<1>6. /\ new \in Buffers /\ new.cur = call.clus /\ new.data = data
      /\ new.dirty = (buf[f][i].dirty /\ buf[f][i].cur = call.clus)
  <2>1. call.clus \in Entries /\ buf[f][i].dirty \in BOOLEAN /\ data \in Data
    BY <1>2, <1>4, <1>5 DEF BufType, Buffers, Calls, Loaded
  <2> QED BY <2>1 DEF Buffers
<1> HIDE DEF new
<1>7. MayReplace(new, card', buf, content, content', f, i)
  BY <1>1, <1>5, <1>6 DEF MayReplace, Loaded
<1>8. content' = [g \in Files |-> [p \in Placed(g) |-> content'[g][p]]]
  BY <1>1 DEF FileInv, TypeOK
<1> DEFINE got == call.got \o Taken(data)
           n   == PieceEnd - call.pos + 1
<1>9. /\ call.pos \in Nat /\ call.last \in Nat /\ loc \in Nat /\ loc <= call.pos
      /\ PieceEnd \in Nat /\ call.pos <= PieceEnd /\ PieceEnd <= call.last /\ n \in Nat \ {0}
      /\ Piece = call.pos .. PieceEnd
      /\ \A p \in Piece : p \in Nat /\ p \div ClusterBytes = call.pos \div ClusterBytes
  <2>1. /\ call.pos \in Nat /\ call.last \in Nat /\ loc \in Nat /\ loc <= call.pos
        /\ call.pos <= call.last
    BY <1>2 DEF Moving, AtPlace, Calls, FileInv, TypeOK
  <2>2. /\ PieceEnd \in Nat /\ call.pos <= PieceEnd /\ PieceEnd <= call.last
        /\ \A p \in Piece : p \in Nat /\ p \div ClusterBytes = call.pos \div ClusterBytes
    BY <2>1, PieceIs
  <2>3. n \in Nat \ {0}
    BY <2>1, <2>2
  <2> QED BY <2>1, <2>2, <2>3 DEF Piece
<1>10. Taken(data) \in Seq(Values) /\ Len(Taken(data)) = n
       /\ \A k \in 1 .. n : Taken(data)[k] = data[(call.pos + k - 1) % ClusterBytes]
  <2>1. Taken(data) = [k \in 1 .. n |-> data[(call.pos + k - 1) % ClusterBytes]]
    BY DEF Taken
  <2>2. ASSUME NEW k \in 1 .. n PROVE data[(call.pos + k - 1) % ClusterBytes] \in Values
    <3>1. call.pos + k - 1 \in Nat
      BY <1>9
    <3>2. (call.pos + k - 1) % ClusterBytes \in Offsets
      BY <3>1, Division, FatAssumption DEF Offsets
    <3> QED BY <3>2
  <2> HIDE DEF n
  <2> QED BY <1>9, <2>1, <2>2
<1>11. got \in Seq(Values) /\ call.got \in Seq(Values) /\ Len(got) = Len(call.got) + n
       /\ \A k \in DOMAIN got : k \in Nat /\
            IF k <= Len(call.got) THEN k \in DOMAIN call.got /\ got[k] = call.got[k]
            ELSE k - Len(call.got) \in 1 .. n /\ got[k] = Taken(data)[k - Len(call.got)]
  <2>1. call.got \in Seq(Values)
    BY <1>2 DEF Calls
  <2> HIDE DEF n, got
  <2>2. Len(Taken(data)) = n /\ Taken(data) \in Seq(Values)
    BY <1>10
  <2>3. /\ got \in Seq(Values) /\ Len(got) = Len(call.got) + n
        /\ \A k \in DOMAIN got :
             \/ k <= Len(call.got) /\ k \in DOMAIN call.got /\ got[k] = call.got[k]
             \/ /\ k > Len(call.got) /\ k - Len(call.got) \in 1 .. n
                /\ got[k] = Taken(data)[k - Len(call.got)]
    BY <2>1, <2>2, ConcatIs DEF got
  <2>4. \A k \in DOMAIN got : k \in Nat
    BY <2>3
  <2>5. Len(call.got) \in Nat
    BY <2>1
  <2> QED BY <2>1, <2>3, <2>4, <2>5
<1>12. Len(call.got) = call.pos - loc
  BY <1>1, <1>2 DEF GotThem, Has
<1>13. GotPiece(got)
  <2>1. Len(got) = (PieceEnd + 1) - loc
    <3>1. Len(got) = (call.pos - loc) + (PieceEnd - call.pos + 1)
      BY <1>11, <1>12
    <3>2. call.pos \in Nat /\ loc \in Nat /\ PieceEnd \in Nat
      BY <1>9
    <3> HIDE DEF got, loc
    <3> QED BY <3>1, <3>2
  <2>2. ASSUME NEW k \in DOMAIN got, loc + k - 1 \in Placed(f)
        PROVE  got[k] = content[f][loc + k - 1]
    <3>1. CASE k <= Len(call.got)
      BY <1>2, <1>11, <2>2, <3>1 DEF GotThem, Has
    <3>2. CASE ~(k <= Len(call.got))
      <4>1. /\ k - Len(call.got) \in 1 .. n /\ got[k] = Taken(data)[k - Len(call.got)]
            /\ k \in Nat
        BY <1>11, <3>2
      <4>2. call.pos + (k - Len(call.got)) - 1 = loc + k - 1
        <5>1. call.pos \in Nat /\ loc \in Nat
          BY <1>9
        <5> HIDE DEF loc
        <5> QED BY <1>12, <4>1, <5>1
      <4>3. got[k] = data[(loc + k - 1) % ClusterBytes]
        BY <1>10, <4>1, <4>2
      <4>4. loc + k - 1 \in Piece
        <5>1. /\ k - Len(call.got) \in 1 .. n /\ k \in Nat /\ n = PieceEnd - call.pos + 1
              /\ call.pos \in Nat /\ PieceEnd \in Nat /\ loc \in Nat
              /\ Piece = call.pos .. PieceEnd
          BY <1>9, <4>1
        <5>2. k - Len(call.got) = k - (call.pos - loc)
          BY <1>12
        <5> HIDE DEF n, loc
        <5>3. 1 <= k - (call.pos - loc) /\ k - (call.pos - loc) <= PieceEnd - call.pos + 1
          BY <5>1, <5>2
        <5> QED BY <5>1, <5>3
      <4>5. At(f, loc + k - 1) = call.clus
        BY <1>1, <1>2, <2>2, <4>4, CopiesAt
      <4> QED BY <1>5, <2>2, <4>3, <4>5 DEF Loaded
    <3> QED BY <3>1, <3>2
  <2>3. Has(got, f, loc, PieceEnd + 1, content)
    <3> HIDE DEF got, loc, f
    <3>1. \A k \in DOMAIN got : loc + k - 1 \in Placed(f) => got[k] = content[f][loc + k - 1]
      BY <2>2
    <3> QED BY <2>1, <3>1 DEF Has
  <2> QED BY <2>3 DEF GotPiece
<1>14. CallInv'
  BY <1>1, <1>2, <1>3, <1>11, <1>13, OnwardKeeps
<1> QED BY <1>1, <1>4, <1>5, <1>6, <1>7, <1>8, <1>14, BufferReplaced

LEMMA CopyInKeeps ==
  ASSUME FileInv, CopyIn
  PROVE  FileInv'
<1> DEFINE f == call.file
           c == call.clus
<1>1. /\ call # Idle /\ call.op = "write" /\ call.at = "copy"
      /\ UNCHANGED <<fat, hint, dirsize, saved, file>>
      /\ content' = [content EXCEPT ![f] =
                       [p \in DOMAIN content[f] |-> IF p \in Piece THEN call.val ELSE content[f][p]]]
      /\ Onward(<<>>)
  BY DEF CopyIn
<1>2. Moving /\ file[f].open /\ f \in Files /\ call \in Calls
  <2>1. Moving /\ file[f].open /\ f \in Files
    BY <1>1, StageIs
  <2> QED BY <1>1, <2>1 DEF Moving
<1>3. PICK i \in Bufs, data \in [Offsets -> Values] :
        /\ Loads(f, c, i, data)
        /\ buf' = [buf EXCEPT ![f][i] = [cur |-> c, data |-> Put(data), dirty |-> TRUE]]
  BY DEF CopyIn
<1> DEFINE new == [cur |-> c, data |-> Put(data), dirty |-> TRUE]
<1>4. buf \in BufType /\ buf' = Replaced(buf, f, i, new)
  BY <1>3 DEF FileInv, TypeOK, Replaced
<1>5. card' \in CardType /\ Loaded(card', f, c, i, data)
  BY <1>2, <1>3, LoadedIs
<1>6. new \in Buffers /\ new.cur = c /\ new.data = Put(data) /\ new.dirty
  <2>1. c \in Entries /\ Put(data) \in Data
    BY <1>2 DEF Calls, Put, Data
  <2> QED BY <2>1 DEF Buffers
<1>7. \A x \in Offsets : Put(data)[x] = IF \E p \in Piece : p % ClusterBytes = x THEN call.val ELSE data[x]
  BY DEF Put
<1>8. content = [g \in Files |-> [p \in Placed(g) |-> content[g][p]]]
  BY DEF FileInv, TypeOK
<1>9. /\ \A g \in Files : g # f => content'[g] = content[g]
      /\ \A p \in Placed(f) : content'[f][p] = IF p \in Piece THEN call.val ELSE content[f][p]
      /\ content' = [g \in Files |-> [p \in Placed(g) |-> content'[g][p]]]
  <2>1. DOMAIN content[f] = Placed(f) /\ DOMAIN content = Files
    BY <1>2, <1>8
  <2>2. content'[f] = [p \in Placed(f) |-> IF p \in Piece THEN call.val ELSE content[f][p]]
    BY <1>1, <1>2, <2>1
  <2>3. \A g \in Files : g # f => content'[g] = content[g]
    BY <1>1, <2>1
  <2>4. ASSUME NEW g \in Files PROVE content'[g] = [p \in Placed(g) |-> content'[g][p]]
    <3>1. CASE g = f
      BY <2>2, <3>1
    <3>2. CASE g # f
      <4>1. content[g] = [p \in Placed(g) |-> content[g][p]]
        BY <1>8
      <4> QED BY <2>3, <3>2, <4>1
    <3> QED BY <3>1, <3>2
  <2>5. content' = [g \in Files |-> content'[g]]
    BY <1>1, <2>1
  <2>6. content' = [g \in Files |-> [p \in Placed(g) |-> content'[g][p]]]
    BY <2>4, <2>5
  <2> QED BY <2>2, <2>3, <2>6
<1> HIDE DEF new, f, c
<1>10. ASSUME NEW p \in Placed(f), At(f, p) = c
       PROVE  Put(data)[p % ClusterBytes] = content'[f][p]
  <2>1. /\ p \in Nat /\ p % ClusterBytes \in Offsets /\ At(f, p) \in Clusters
        /\ p \div ClusterBytes \in Nat
    BY <1>2, PlaceIsIn
  <2>2. CASE p \in Piece
    BY <1>7, <1>9, <2>1, <2>2
  <2>3. CASE p \notin Piece
    <3>1. /\ call.pos \in Nat /\ call.last \in Nat /\ call.pos <= call.last
          /\ At(f, call.pos) = At(f, p)
      BY <1>1, <1>2, <1>10, CopiesAt DEF f, c
    <3>2. call.pos \div ClusterBytes \in Nat
      BY <3>1, Division, FatAssumption
    <3>3. call.pos \div ClusterBytes = p \div ClusterBytes
      <4>1. Once(p \div ClusterBytes)
        BY <2>1, NthOnce
      <4> QED BY <1>2, <2>1, <3>1, <3>2, <4>1 DEF Once, At
    <3>4. ASSUME NEW q \in Piece, q % ClusterBytes = p % ClusterBytes PROVE FALSE
      <4>1. q \in Nat /\ q \div ClusterBytes = p \div ClusterBytes
        BY <3>1, <3>3, PieceIs
      <4>2. q = p
        BY <2>1, <3>4, <4>1, SamePosition
      <4> QED BY <2>3, <4>2
    <3>5. Put(data)[p % ClusterBytes] = data[p % ClusterBytes]
      BY <1>7, <2>1, <3>4
    <3>6. data[p % ClusterBytes] = content[f][p]
      BY <1>5, <1>10 DEF Loaded
    <3> QED BY <1>9, <2>3, <3>5, <3>6
  <2> QED BY <2>2, <2>3
<1>11. ASSUME NEW g \in Files, NEW p \in Placed(g), g = f => At(g, p) # c
       PROVE  content'[g][p] = content[g][p]
  <2>1. CASE g # f
    BY <1>9, <2>1
  <2>2. CASE g = f
    <3>1. p \notin Piece
      BY <1>1, <1>2, <1>11, <2>2, CopiesAt DEF f, c
    <3> QED BY <1>9, <2>2, <3>1
  <2> QED BY <2>1, <2>2
<1>12. MayReplace(new, card', buf, content, content', f, i)
  BY <1>5, <1>6, <1>10, <1>11 DEF MayReplace, Loaded
<1>13. CallInv'
  <2>1. <<>> \in Seq(Values) /\ call.op # "read"
    BY <1>1
  <2> QED BY <1>1, <1>2, <2>1, OnwardKeeps DEF f
<1> QED BY <1>1, <1>4, <1>5, <1>6, <1>9, <1>12, <1>13, BufferReplaced DEF f

LEMMA CopyFailsKeeps ==
  ASSUME FileInv, CopyFails
  PROVE  FileInv'
<1>1. /\ call # Idle /\ CallInv'
      /\ UNCHANGED <<fat, hint, dirsize, saved, file, content>>
  BY ToIdle DEF CopyFails
<1>2. /\ call.file \in Files /\ buf \in BufType
      /\ file' \in [Files -> [open : BOOLEAN, size : Nat, loc : Nat]]
  BY <1>1, StageIs DEF FileInv, TypeOK
<1>3. PICK i \in Bufs :
        \/ PutBackFails(buf[call.file][i]) /\ UNCHANGED buf
        \/ PutBack(buf[call.file][i]) /\ buf' = [buf EXCEPT ![call.file][i].dirty = FALSE]
  BY DEF CopyFails, LoadFails
<1>4. /\ card' = card \/ Written(card, card', buf[call.file][i])
      /\ \/ buf' = buf
         \/ Written(card, card', buf[call.file][i]) /\ buf' = [buf EXCEPT ![call.file][i].dirty = FALSE]
  BY <1>3 DEF PutBackFails, PutBack, Written
<1> QED BY <1>1, <1>2, <1>4, BufferWritten

LEMMA ReturnKeeps ==
  ASSUME FileInv, Return
  PROVE  FileInv'
<1> DEFINE f    == call.file
           size == Max({file[f].size, call.last + 1})
<1>1. /\ call # Idle /\ call.at = "return" /\ CallInv'
      /\ file' = [file EXCEPT ![f].loc = call.last + 1, ![f].size = Max({@, call.last + 1})]
      /\ UNCHANGED <<fat, hint, dirsize, saved, card, buf, content>>
  BY ToIdle DEF Return
<1>2. f \in Files /\ call.last \in Nat
  BY <1>1, StageIs DEF Moving, Calls
<1>3. file \in [Files -> [open : BOOLEAN, size : Nat, loc : Nat]]
  BY DEF FileInv, TypeOK
<1>4. size \in Nat /\ call.last + 1 <= size
  <2> DEFINE S == {file[f].size, call.last + 1}
  <2>1. \E x \in S : \A y \in S : x >= y
    BY <1>2, <1>3
  <2>2. Max(S) \in S /\ \A y \in S : Max(S) >= y
    <3> HIDE DEF S
    <3> QED BY <2>1 DEF Max
  <2> QED BY <1>2, <1>3, <2>2
<1>5. file' = [file EXCEPT ![f] = [open |-> file[f].open, size |-> size, loc |-> call.last + 1]]
  <2> DEFINE moved == [file EXCEPT ![f].loc = call.last + 1]
  <2>1. file' = [moved EXCEPT ![f].size = Max({moved[f].size, call.last + 1})]
    BY <1>1
  <2>2. /\ moved = [file EXCEPT ![f] = [file[f] EXCEPT !.loc = call.last + 1]]
        /\ moved \in [Files -> [open : BOOLEAN, size : Nat, loc : Nat]]
        /\ moved[f] = [file[f] EXCEPT !.loc = call.last + 1]
    BY <1>2, <1>3
  <2>3. moved[f].size = file[f].size /\ moved[f].open = file[f].open /\ moved[f].loc = call.last + 1
    BY <1>2, <1>3, <2>2
  <2> HIDE DEF moved, f
  <2>4. file' = [moved EXCEPT ![f] = [moved[f] EXCEPT !.size = size]]
    BY <2>1, <2>3
  <2>5. [moved[f] EXCEPT !.size = size] = [open |-> file[f].open, size |-> size, loc |-> call.last + 1]
    <3>1. moved[f] \in [open : BOOLEAN, size : Nat, loc : Nat]
      BY <1>2, <2>2
    <3> QED BY <2>3, <3>1
  <2> HIDE DEF size
  <2> QED BY <1>2, <2>2, <2>4, <2>5
<1> HIDE DEF size
<1>6. file' \in [Files -> [open : BOOLEAN, size : Nat, loc : Nat]]
  BY <1>2, <1>3, <1>4, <1>5
<1>7. HandlesOK'
  <2> SUFFICES ASSUME NEW g \in Files
               PROVE  /\ file'[g].loc <= file'[g].size
                      /\ file'[g].open \/ \A i \in Bufs : ~buf'[g][i].dirty
    BY DEF HandlesOK
  <2>1. file'[g].open = file[g].open
    BY <1>2, <1>3, <1>5
  <2>2. file'[g].loc <= file'[g].size
    BY <1>2, <1>3, <1>4, <1>5 DEF FileInv, HandlesOK
  <2> QED BY <1>1, <2>1, <2>2 DEF FileInv, HandlesOK
<1> QED BY <1>1, <1>6, <1>7 DEF FileInv, TypeOK, Intact

-----------------------------------------------------------------------------
(* Opening, closing, and the power supply.                                 *)

LEMMA FollowFailsKeeps ==
  ASSUME FileInv, FollowFails \/ FlushFails
  PROVE  FileInv'
<1>1. call' = Idle /\ UNCHANGED <<fat, hint, dirsize, saved, card, file, buf, content>>
  BY DEF FollowFails, FlushFails
<1> QED BY <1>1, ToIdle, CallOnly

\* What a clean buffer shows is on the card.
LEMMA CleanIsOnCard ==
  ASSUME NEW crd, NEW bf, NEW ct, Sound(crd, bf, ct), NEW f \in Files, \A i \in Bufs : ~bf[f][i].dirty,
         NEW p \in Placed(f)
  PROVE  crd[At(f, p)][p % ClusterBytes] = ct[f][p]
<1>1. At(f, p) \in Clusters
  BY PlaceIsIn
<1>2. CASE \E i \in Bufs : bf[f][i].cur = At(f, p)
  BY <1>1, <1>2 DEF Sound, Buffered, Bytes
<1>3. CASE \A i \in Bufs : bf[f][i].cur # At(f, p)
  BY <1>3 DEF Sound, Bytes
<1> QED BY <1>2, <1>3

\* A handle with new buffers shows what is on the card.
Emptied(bf, f) == [bf EXCEPT ![f] = [i \in Bufs |-> Empty]]

LEMMA EmptyIs ==
  Empty \in Buffers /\ Empty.cur \notin Clusters /\ Empty.cur = NoCluster /\ ~Empty.dirty
<1>1. Zeros \in Data
  BY FatAssumption DEF Zeros, Data
<1>2. NoCluster \notin Clusters
  BY FatAssumption
<1> QED BY <1>1, <1>2 DEF Empty, Buffers

LEMMA EmptiedKeeps ==
  ASSUME NEW crd, NEW bf \in BufType, NEW ct, Sound(crd, bf, ct), NEW f \in Files,
         \A i \in Bufs : ~bf[f][i].dirty, NEW bf2, bf2 = Emptied(bf, f)
  PROVE  bf2 \in BufType /\ Sound(crd, bf2, ct)
<1>1. bf2 \in BufType
  BY EmptyIs DEF BufType, Emptied
<1>2. /\ \A i \in Bufs : bf2[f][i] = Empty
      /\ \A g \in Files : g # f => bf2[g] = bf[g]
  BY DEF BufType, Emptied
<1>3. Buffered(crd, bf2)
  BY <1>2, EmptyIs DEF Sound, Buffered
<1>4. Bytes(crd, bf2, ct)
  <2> SUFFICES ASSUME NEW g \in Files, NEW p \in Placed(g)
               PROVE  /\ \A i \in Bufs : bf2[g][i].cur = At(g, p) =>
                           bf2[g][i].data[p % ClusterBytes] = ct[g][p]
                      /\ (\A i \in Bufs : bf2[g][i].cur # At(g, p)) =>
                           crd[At(g, p)][p % ClusterBytes] = ct[g][p]
    BY DEF Bytes
  <2>1. CASE g = f
    <3>1. At(g, p) \in Clusters
      BY PlaceIsIn
    <3>2. \A i \in Bufs : bf2[g][i].cur # At(g, p)
      BY <1>2, <2>1, <3>1, EmptyIs
    <3>3. crd[At(g, p)][p % ClusterBytes] = ct[g][p]
      BY <2>1, CleanIsOnCard
    <3> QED BY <3>2, <3>3
  <2>2. CASE g # f
    BY <1>2, <2>2 DEF Sound, Bytes
  <2> QED BY <2>1, <2>2
<1> QED BY <1>1, <1>3, <1>4 DEF Sound

LEMMA OpenKeeps ==
  ASSUME FileInv, NEW f \in Files, Open(f)
  PROVE  FileInv'
<1>1. /\ ~file[f].open /\ call' = Idle
      /\ file' = [file EXCEPT ![f] = [open |-> TRUE, size |-> dirsize[f], loc |-> 0]]
      /\ buf' = Emptied(buf, f)
      /\ UNCHANGED <<fat, hint, dirsize, saved, card, content>>
  BY DEF Open, Emptied
<1>2. \A i \in Bufs : ~buf[f][i].dirty
  BY <1>1 DEF FileInv, HandlesOK
<1>3. buf \in BufType /\ Sound(card, buf, content)
  BY DEF FileInv, TypeOK
<1>4. buf' \in BufType /\ Sound(card, buf', content)
  BY <1>1, <1>2, <1>3, EmptiedKeeps
<1>5. /\ file \in [Files -> [open : BOOLEAN, size : Nat, loc : Nat]]
      /\ dirsize[f] \in Nat
  BY DEF FileInv, TypeOK
<1>6. file' \in [Files -> [open : BOOLEAN, size : Nat, loc : Nat]]
  BY <1>1, <1>5
<1>7. HandlesOK'
  <2> SUFFICES ASSUME NEW g \in Files
               PROVE  /\ file'[g].loc <= file'[g].size
                      /\ file'[g].open \/ \A i \in Bufs : ~buf'[g][i].dirty
    BY DEF HandlesOK
  <2>1. CASE g = f
    BY <1>1, <1>5, <2>1
  <2>2. CASE g # f
    <3>1. file'[g] = file[g] /\ buf'[g] = buf[g]
      BY <1>1, <1>3, <1>5, <2>2 DEF Emptied, BufType
    <3> QED BY <3>1 DEF FileInv, HandlesOK
  <2> QED BY <2>1, <2>2
<1>8. CallInv'
  BY <1>1, ToIdle
<1> QED BY <1>1, <1>4, <1>6, <1>7, <1>8 DEF FileInv, TypeOK, Intact

LEMMA CloseKeeps ==
  ASSUME FileInv, NEW f \in Files, Close(f)
  PROVE  FileInv'
<1>1. /\ file[f].open
      /\ dirsize' = [dirsize EXCEPT ![f] = file[f].size]
      /\ call' = [op |-> "close", file |-> f, at |-> "flush", i |-> 0]
      /\ UNCHANGED <<fat, hint, saved, card, file, buf, content>>
  BY DEF Close
<1>2. /\ file \in [Files -> [open : BOOLEAN, size : Nat, loc : Nat]]
      /\ dirsize \in [Files -> Nat]
  BY DEF FileInv, TypeOK
<1>3. dirsize' \in [Files -> Nat] /\ dirsize'[f] = file[f].size
  BY <1>1, <1>2
<1>4. 0 \in Bufs
  BY FatAssumption DEF Bufs
<1>5. CallInv'
  BY <1>1, <1>3, <1>4 DEF CallInv, Closing
<1> QED BY <1>1, <1>3, <1>5 DEF FileInv, TypeOK, Intact, HandlesOK

LEMMA FlushKeeps ==
  ASSUME FileInv, Flush
  PROVE  FileInv'
<1>1. /\ call # Idle /\ call.at = "flush"
      /\ saved' = [fat |-> fat, hint |-> hint, size |-> dirsize]
      /\ call' = [call EXCEPT !.at = "data"]
      /\ UNCHANGED <<fat, hint, dirsize, card, file, buf, content>>
  BY DEF Flush
<1>2. Closing /\ file[call.file].open
  BY <1>1, StageIs
<1>3. /\ call \in [op : {"close"}, file : Files, at : {"flush", "data"}, i : Bufs]
      /\ call.i = 0 /\ dirsize[call.file] = file[call.file].size
  BY <1>1, <1>2 DEF Closing
<1>4. /\ call' \in [op : {"close"}, file : Files, at : {"flush", "data"}, i : Bufs]
      /\ call'.at = "data" /\ call'.i = 0 /\ call'.file = call.file
  BY <1>1, <1>3
<1>5. \A j \in Bufs : ~(j < 0)
  BY FatAssumption DEF Bufs
<1>6. CallInv'
  BY <1>1, <1>2, <1>3, <1>4, <1>5 DEF CallInv, Closing
<1>7. saved' \in [fat : Tables, hint : Int, size : [Files -> Nat]]
  BY <1>1 DEF FileInv, TypeOK
<1> QED BY <1>1, <1>6, <1>7 DEF FileInv, TypeOK, Intact, HandlesOK

\* One buffer of the handle after the other is written.
LEMMA CloseDataIs ==
  ASSUME FileInv, CloseData
  PROVE  /\ call.file \in Files /\ call.i \in Bufs /\ file[call.file].open
         /\ Written(card, card', buf[call.file][call.i])
         /\ saved.size[call.file] = file[call.file].size
         /\ \A j \in Bufs : j <= call.i => ~buf'[call.file][j].dirty
         /\ call' = Idle => \A j \in Bufs : ~buf'[call.file][j].dirty
<1>1. /\ call # Idle /\ call.at = "data" /\ PutBack(buf[call.file][call.i])
      /\ buf' = Cleaned(buf, call.file, call.i)
  BY DEF CloseData, Cleaned
<1>2. Closing /\ file[call.file].open
  BY <1>1, StageIs
<1>3. /\ call.file \in Files /\ call.i \in Bufs
      /\ saved.size[call.file] = file[call.file].size
      /\ \A j \in Bufs : j < call.i => ~buf[call.file][j].dirty
  BY <1>1, <1>2 DEF Closing
<1>4. Written(card, card', buf[call.file][call.i])
  BY <1>1 DEF PutBack, Written
<1>5. \A j \in Bufs : j <= call.i => ~buf'[call.file][j].dirty
  <2> SUFFICES ASSUME NEW j \in Bufs, j <= call.i PROVE ~buf'[call.file][j].dirty
    OBVIOUS
  <2>1. buf \in BufType
    BY DEF FileInv, TypeOK
  <2>2. CASE j = call.i
    BY <1>1, <1>3, <2>1, <2>2 DEF Cleaned, BufType, Buffers
  <2>3. CASE j # call.i
    <3>1. j < call.i
      BY <1>3, <2>3, FatAssumption DEF Bufs
    <3>2. buf'[call.file][j] = buf[call.file][j]
      BY <1>1, <1>3, <2>1, <2>3 DEF Cleaned, BufType, Buffers
    <3> QED BY <1>3, <3>1, <3>2
  <2> QED BY <2>2, <2>3
<1>6. ASSUME call' = Idle PROVE \A j \in Bufs : ~buf'[call.file][j].dirty
  <2>1. ~(call.i + 1 < NBUF)
    <3>1. "op" \in DOMAIN call /\ call.op = "close"
      BY <1>2 DEF Closing
    <3>2. Idle.op = "none"
      BY DEF Idle
    <3>3. ASSUME call.i + 1 < NBUF PROVE FALSE
      <4>1. call' = [call EXCEPT !.i = @ + 1]
        BY <3>3 DEF CloseData
      <4>2. call'.op = "close"
        BY <3>1, <4>1
      <4> QED BY <1>6, <3>2, <4>2
    <3> QED BY <3>3
  <2>2. \A j \in Bufs : j <= call.i
    BY <1>3, <2>1, FatAssumption DEF Bufs
  <2> QED BY <1>5, <2>2
<1> QED BY <1>2, <1>3, <1>4, <1>5, <1>6

LEMMA CloseDataKeeps ==
  ASSUME FileInv, CloseData
  PROVE  FileInv'
<1> DEFINE f == call.file
           i == call.i
<1>1. /\ call # Idle /\ call.at = "data" /\ buf' = [buf EXCEPT ![f][i].dirty = FALSE]
      /\ UNCHANGED <<fat, hint, dirsize, saved, content>>
  BY DEF CloseData
<1>2. /\ f \in Files /\ i \in Bufs /\ file[f].open /\ Written(card, card', buf[f][i])
      /\ saved.size[f] = file[f].size /\ \A j \in Bufs : j <= i => ~buf'[f][j].dirty
  BY CloseDataIs
<1>3. file \in [Files -> [open : BOOLEAN, size : Nat, loc : Nat]]
  BY DEF FileInv, TypeOK
<1>4. CASE i + 1 < NBUF
  <2>1. call' = [call EXCEPT !.i = @ + 1] /\ file' = file
    BY <1>4 DEF CloseData
  <2>2. call \in [op : {"close"}, file : Files, at : {"flush", "data"}, i : Bufs]
    BY <1>1, StageIs DEF Closing
  <2>3. i + 1 \in Bufs
    BY <1>2, <1>4, FatAssumption DEF Bufs
  <2>4. /\ call' \in [op : {"close"}, file : Files, at : {"flush", "data"}, i : Bufs]
        /\ call'.at = "data" /\ call'.file = f /\ call'.i = i + 1
    BY <1>1, <2>1, <2>2, <2>3
  <2>5. \A j \in Bufs : j < i + 1 => j <= i
    BY <1>2, FatAssumption DEF Bufs
  <2> HIDE DEF f, i
  <2>6. Closing'
    BY <1>1, <1>2, <2>1, <2>4, <2>5 DEF Closing
  <2>7. CallInv'
    BY <1>2, <2>1, <2>4, <2>6 DEF CallInv
  <2> QED BY <1>1, <1>2, <1>3, <2>1, <2>7, BufferWritten
<1>5. CASE ~(i + 1 < NBUF)
  <2>1. call' = Idle /\ file' = [file EXCEPT ![f].open = FALSE]
    BY <1>5 DEF CloseData
  <2>2. CallInv' /\ \A j \in Bufs : ~buf'[f][j].dirty
    BY <2>1, CloseDataIs, ToIdle
  <2>3. file' \in [Files -> [open : BOOLEAN, size : Nat, loc : Nat]]
    BY <1>2, <1>3, <2>1
  <2>4. \A g \in Files : /\ file'[g].loc = file[g].loc /\ file'[g].size = file[g].size
                         /\ g # f => file'[g].open = file[g].open
    BY <1>2, <1>3, <2>1
  <2> HIDE DEF f, i
  <2> QED BY <1>1, <1>2, <2>2, <2>3, <2>4, BufferWritten
<1> QED BY <1>4, <1>5

LEMMA CloseDataFailsKeeps ==
  ASSUME FileInv, CloseDataFails
  PROVE  FileInv'
<1>1. /\ call # Idle /\ call.at = "data" /\ PutBackFails(buf[call.file][call.i]) /\ call' = Idle
      /\ UNCHANGED <<fat, hint, dirsize, saved, file, buf, content>>
  BY DEF CloseDataFails
<1>2. call.file \in Files /\ call.i \in Bufs /\ CallInv'
  BY <1>1, StageIs, ToIdle DEF Closing
<1>3. card' = card \/ Written(card, card', buf[call.file][call.i])
  BY <1>1 DEF PutBackFails, PutBack, Written
<1>4. file' \in [Files -> [open : BOOLEAN, size : Nat, loc : Nat]]
  BY <1>1 DEF FileInv, TypeOK
<1> QED BY <1>1, <1>2, <1>3, <1>4, BufferWritten

\* While the table has the chains, Nth is what it was at first.
LEMMA NthIsAt ==
  ASSUME FileInv, NEW f \in Files, NEW k \in Nat
  PROVE  Nth(f, k) = NthIn(Fat0, f, k)
BY NthSame DEF FileInv, Intact, Nth

LEMMA CrashKeeps ==
  ASSUME FileInv, Crash
  PROVE  FileInv'
<1>1. /\ buf' = [f \in Files |-> [i \in Bufs |-> Empty]]
      /\ file' = [f \in Files |-> [open |-> FALSE, size |-> 0, loc |-> 0]]
      /\ saved' = [fat |-> fat', hint |-> hint', size |-> dirsize']
      /\ call' = Idle /\ card' = card /\ hint' \in {hint, saved.hint}
  BY DEF Crash
<1>2. /\ fat \in Tables /\ hint \in Int /\ dirsize \in [Files -> Nat] /\ card \in CardType
      /\ saved \in [fat : Tables, hint : Int, size : [Files -> Nat]]
      /\ \A f \in Files : DOMAIN content[f] = Placed(f)
  BY DEF FileInv, TypeOK
<1>3. /\ \A c \in Owned : fat[c] = Fat0[c] /\ saved.fat[c] = Fat0[c]
      /\ hint + 1 \in Clusters \ Owned /\ saved.hint + 1 \in Clusters \ Owned
  BY DEF FileInv, Intact
<1>4. fat' \in Tables /\ \A c \in Owned : fat'[c] = Fat0[c]
  <2>1. PICK old \in SUBSET {c \in DOMAIN fat : fat[c] # saved.fat[c]} :
          fat' = [c \in DOMAIN fat |-> IF c \in old THEN saved.fat[c] ELSE fat[c]]
    BY DEF Crash
  <2>2. DOMAIN fat = 0 .. LastCluster /\ saved.fat \in Tables
    BY <1>2 DEF Tables
  <2>3. fat' \in Tables
    BY <1>2, <2>1, <2>2 DEF Tables
  <2> QED BY <1>3, <2>1, <2>2, <2>3, ChainFacts
<1>5. dirsize' \in [Files -> Nat]
  <2>1. PICK old \in SUBSET {f \in Files : dirsize[f] # saved.size[f]} :
          dirsize' = [f \in Files |-> IF f \in old THEN saved.size[f] ELSE dirsize[f]]
    BY DEF Crash
  <2> QED BY <1>2, <2>1
<1>6. /\ hint' \in Int /\ Intact(fat', hint')
  BY <1>1, <1>2, <1>3, <1>4 DEF Intact
<1>7. /\ saved' \in [fat : Tables, hint : Int, size : [Files -> Nat]]
      /\ saved'.fat = fat' /\ saved'.hint = hint'
  BY <1>1, <1>4, <1>5, <1>6
<1>8. \A f \in Files, i \in Bufs : buf'[f][i] = Empty
  BY <1>1
<1>9. buf' \in BufType
  BY <1>1, EmptyIs DEF BufType
<1>10. content' = [f \in Files |-> [p \in Placed(f) |-> card[At(f, p)][p % ClusterBytes]]]
  <2>1. content' = [f \in Files |-> [p \in DOMAIN content[f] |->
                      card[Nth(f, p \div ClusterBytes)][p % ClusterBytes]]]
    BY DEF Crash
  <2>2. \A f \in Files : \A p \in Placed(f) : Nth(f, p \div ClusterBytes) = At(f, p)
    BY PlaceIsIn, NthIsAt DEF At
  <2> QED BY <1>2, <2>1, <2>2
<1>11. \A f \in Files : \A p \in Placed(f) : content'[f][p] = card[At(f, p)][p % ClusterBytes]
  BY <1>10
<1>12. content' = [f \in Files |-> [p \in Placed(f) |-> content'[f][p]]]
  BY <1>10
<1>13. Sound(card', buf', content')
  <2>1. Buffered(card', buf')
    BY <1>8, EmptyIs DEF Buffered
  <2>2. Bytes(card', buf', content')
    BY <1>1, <1>8, <1>11, EmptyIs, PlaceIsIn DEF Bytes
  <2> QED BY <2>1, <2>2 DEF Sound
<1>14. HandlesOK' /\ file' \in [Files -> [open : BOOLEAN, size : Nat, loc : Nat]]
  BY <1>1, <1>8, EmptyIs DEF HandlesOK
<1>15. CallInv'
  BY <1>1, ToIdle
<1>16. TypeOK'
  BY <1>1, <1>2, <1>4, <1>5, <1>6, <1>7, <1>9, <1>12, <1>14 DEF TypeOK
<1> QED BY <1>6, <1>7, <1>13, <1>14, <1>15, <1>16 DEF FileInv

-----------------------------------------------------------------------------
(* The invariant.                                                          *)

LEMMA InitFileInv ==
  ASSUME Init
  PROVE  FileInv
<1>1. /\ fat = Fat0 /\ hint = Hint0 /\ dirsize = Size0
      /\ saved = [fat |-> fat, hint |-> hint, size |-> dirsize]
      /\ card = [c \in {0} \cup Clusters |-> Zeros]
      /\ file = [f \in Files |-> [open |-> FALSE, size |-> 0, loc |-> 0]]
      /\ buf = [f \in Files |-> [i \in Bufs |-> Empty]]
      /\ call = Idle
      /\ content = [f \in Files |-> [p \in InChain(f) |-> 0]]
  BY DEF Init
<1>2. Hint0 + 1 \in Clusters \ Owned
  BY FatAssumption, ChainFacts
<1>3. Hint0 \in Int
  BY FatAssumption
<1>4. Zeros \in Data /\ card \in CardType /\ buf \in BufType
  BY <1>1, EmptyIs, FatAssumption DEF Zeros, Data, CardType, BufType
<1>5. \A f \in Files : InChain(f) = Placed(f)
  <2>1. ASSUME NEW f \in Files, NEW p \in 0 .. MaxSize - 1
        PROVE  Nth(f, p \div ClusterBytes) = At(f, p)
    BY <1>1 DEF Nth, At
  <2> QED BY <2>1 DEF InChain, Placed
<1>6. content = [f \in Files |-> [p \in Placed(f) |-> 0]]
  BY <1>1, <1>5
<1>7. \A f \in Files : \A p \in Placed(f) : content[f][p] = 0
  BY <1>6
<1>8. content = [f \in Files |-> [p \in Placed(f) |-> content[f][p]]]
  BY <1>6
<1>9. fat \in Tables
  BY <1>1, FatAssumption DEF Tables, Entries
<1>10. dirsize \in [Files -> Nat]
  BY <1>1, FatAssumption
<1>11. Intact(fat, hint) /\ Intact(saved.fat, saved.hint)
  BY <1>1, <1>2 DEF Intact
<1>12. \A f \in Files, i \in Bufs : buf[f][i] = Empty
  BY <1>1
<1>13. Sound(card, buf, content)
  <2>1. Buffered(card, buf)
    BY <1>12, EmptyIs DEF Buffered
  <2>2. ASSUME NEW f \in Files, NEW p \in Placed(f)
        PROVE  card[At(f, p)][p % ClusterBytes] = content[f][p]
    BY <1>1, <1>7, PlaceIsIn DEF Zeros
  <2>3. \A f \in Files : \A p \in Placed(f) : \A i \in Bufs : buf[f][i].cur # At(f, p)
    BY <1>12, EmptyIs, PlaceIsIn
  <2>4. Bytes(card, buf, content)
    BY <2>2, <2>3 DEF Bytes
  <2> QED BY <2>1, <2>4 DEF Sound
<1>14. HandlesOK /\ CallInv /\ file \in [Files -> [open : BOOLEAN, size : Nat, loc : Nat]]
  BY <1>1, <1>12, EmptyIs DEF HandlesOK, CallInv
<1>15. saved \in [fat : Tables, hint : Int, size : [Files -> Nat]] /\ hint \in Int
  BY <1>1, <1>3, <1>9, <1>10
<1>16. TypeOK
  BY <1>4, <1>8, <1>9, <1>10, <1>14, <1>15 DEF TypeOK
<1> QED BY <1>11, <1>13, <1>14, <1>16 DEF FileInv

LEMMA FileStep ==
  ASSUME FileInv, [Next]_vars
  PROVE  FileInv'
<1>1. CASE Next
  <2>1. CASE \E f \in Files : Open(f) \/ StartRead(f) \/ StartWrite(f) \/ Close(f)
    BY <2>1, OpenKeeps, StartReadKeeps, StartWriteKeeps, CloseKeeps
  <2>2. CASE Follow \/ FollowFails \/ FlushFails
    BY <2>2, FollowKeeps, FollowFailsKeeps
  <2>3. CASE Alloc \/ AllocFails \/ Clear \/ ClearFails
    BY <2>3, AllocKeeps, AllocFailsKeeps, ClearKeeps, ClearFailsKeeps
  <2>4. CASE CopyOut \/ CopyIn \/ CopyFails \/ Return
    BY <2>4, CopyOutKeeps, CopyInKeeps, CopyFailsKeeps, ReturnKeeps
  <2>5. CASE Flush \/ CloseData \/ CloseDataFails \/ Crash
    BY <2>5, FlushKeeps, CloseDataKeeps, CloseDataFailsKeeps, CrashKeeps
  <2> QED BY <1>1, <2>1, <2>2, <2>3, <2>4, <2>5 DEF Next
<1>2. CASE UNCHANGED vars
  <2>1. UNCHANGED <<fat, hint, dirsize, saved, card, file, buf, call, content>>
    BY <1>2 DEF vars
  <2>2. TypeOK'
    BY <2>1 DEF FileInv, TypeOK
  <2>3. CallInv'
    BY <2>1 DEF FileInv, CallInv, Closing, Moving, AtPlace, Allocating, GotThem
  <2> QED BY <2>1, <2>2, <2>3 DEF FileInv, HandlesOK
<1> QED BY <1>1, <1>2

\* At every moment, whatever accesses to the card have failed and whenever the
\* power has: the FAT and what is on the card of it have the chains of the files
\* as they were, each byte is in the buffer that holds its cluster or on the
\* card, and a call is at the cluster its position belongs to.
THEOREM FileInvariant == Spec => []FileInv
<1>1. Init => FileInv
  BY InitFileInv
<1>2. FileInv /\ [Next]_vars => FileInv'
  BY FileStep
<1> QED BY <1>1, <1>2, PTL DEF Spec

\* Every byte of every file is where the program will find it, for files,
\* buffers and clusters of any number and size: no eviction, no failed call and
\* no other file has overwritten it.
THEOREM FilesKeepTheirBytes == Spec => []BytesKept
<1>1. ASSUME FileInv PROVE BytesKept
  <2> SUFFICES ASSUME NEW f \in Files, NEW p \in DOMAIN content[f],
                      NEW c, c = Nth(f, p \div ClusterBytes),
                      NEW data \in IF Holding(f, c) = {} THEN {card[c]}
                                   ELSE {buf[f][i].data : i \in Holding(f, c)}
               PROVE  c \in Clusters /\ data[p % ClusterBytes] = content[f][p]
    <3>1. ASSUME NEW f \in Files, NEW p \in DOMAIN content[f]
          PROVE  Nth(f, p \div ClusterBytes) \in Clusters
      BY <1>1, PlaceIsIn, NthIsAt DEF FileInv, TypeOK, At
    <3> QED BY <3>1 DEF BytesKept
  <2>1. p \in Placed(f)
    BY <1>1 DEF FileInv, TypeOK
  <2>2. c = At(f, p) /\ c \in Clusters
    BY <1>1, <2>1, PlaceIsIn, NthIsAt DEF At
  <2>3. CASE Holding(f, c) = {}
    BY <1>1, <2>1, <2>2, <2>3 DEF Holding, FileInv, Sound, Bytes
  <2>4. CASE Holding(f, c) # {}
    BY <1>1, <2>1, <2>2, <2>4 DEF Holding, FileInv, Sound, Bytes
  <2> QED BY <2>2, <2>3, <2>4
<1> QED BY <1>1, FileInvariant, PTL

\* What fs_read hands to its caller is, byte by byte, what was written there last.
THEOREM ReadsAreRight == Spec => []ReadsWhatWasWritten
<1>1. ASSUME FileInv PROVE ReadsWhatWasWritten
  <2> SUFFICES ASSUME call # Idle, call.op = "read", NEW k \in DOMAIN call.got,
                      NEW p, p = file[call.file].loc + k - 1, p \in DOMAIN content[call.file]
               PROVE  call.got[k] = content[call.file][p]
    BY DEF ReadsWhatWasWritten
  <2>1. Moving
    BY <1>1 DEF FileInv, CallInv, Closing
  <2>2. call.file \in Files /\ p \in Placed(call.file)
    BY <1>1, <2>1 DEF Moving, Calls, FileInv, TypeOK
  <2> QED BY <2>1, <2>2 DEF Moving, GotThem, Has
<1> QED BY <1>1, FileInvariant, PTL

\* No step, a failed allocation or a loss of power among them, changes which
\* clusters a file has, however long its chain.
THEOREM ChainsStay == Spec => ChainsKept
<1>1. ASSUME FileInv, FileInv'
      PROVE  \A f \in Files : \A k \in 0 .. MaxSize \div ClusterBytes : Nth(f, k)' = Nth(f, k)
  <2> SUFFICES ASSUME NEW f \in Files, NEW k \in Nat PROVE Nth(f, k)' = Nth(f, k)
    OBVIOUS
  <2>1. NthIn(fat', f, k) = NthIn(Fat0, f, k)
    BY <1>1, NthSame DEF FileInv, Intact
  <2>2. Nth(f, k) = NthIn(Fat0, f, k)
    BY <1>1, NthIsAt
  <2> QED BY <2>1, <2>2 DEF Nth
<1>2. FileInv /\ FileInv' => [\A f \in Files : \A k \in 0 .. MaxSize \div ClusterBytes :
                                Nth(f, k)' = Nth(f, k)]_vars
  BY <1>1
<1> QED BY <1>2, FileInvariant, PTL DEF ChainsKept

\* When fs_close returns without an error, nothing of the file is left that a
\* loss of power could take: its size is on the card and so are its bytes.
THEOREM CloseIsDurable == Spec => CloseDurable
<1>1. ASSUME FileInv, FileInv', NEW f \in Files, CloseData, call' = Idle, call.file = f
      PROVE  /\ saved'.size[f] = file[f].size
             /\ \A p \in DOMAIN content[f] :
                  card'[Nth(f, p \div ClusterBytes)][p % ClusterBytes] = content[f][p]
  <2>1. /\ saved' = saved /\ content' = content
        /\ saved.size[f] = file[f].size /\ \A j \in Bufs : ~buf'[f][j].dirty
    BY <1>1, CloseDataIs DEF CloseData
  <2>2. ASSUME NEW p \in DOMAIN content[f]
        PROVE  card'[Nth(f, p \div ClusterBytes)][p % ClusterBytes] = content[f][p]
    <3>1. p \in Placed(f)
      BY <1>1 DEF FileInv, TypeOK
    <3>2. Nth(f, p \div ClusterBytes) = At(f, p)
      BY <1>1, <3>1, PlaceIsIn, NthIsAt DEF At
    <3>3. Sound(card', buf', content')
      BY <1>1 DEF FileInv
    <3>4. card'[At(f, p)][p % ClusterBytes] = content'[f][p]
      BY <2>1, <3>1, <3>3, CleanIsOnCard
    <3> QED BY <2>1, <3>2, <3>4
  <2> QED BY <2>1, <2>2
<1>2. FileInv /\ FileInv' =>
        [\A f \in Files : (CloseData /\ call' = Idle /\ call.file = f) =>
           /\ saved'.size[f] = file[f].size
           /\ \A p \in DOMAIN content[f] :
                card'[Nth(f, p \div ClusterBytes)][p % ClusterBytes] = content[f][p]]_vars
  BY <1>1
<1> QED BY <1>2, FileInvariant, PTL DEF CloseDurable
=============================================================================
