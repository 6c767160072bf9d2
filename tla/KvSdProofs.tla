------------------------------ MODULE KvSdProofs ------------------------------
(***************************************************************************)
(* The SD card store proved correct for every card, hash, index and cache, *)
(* any keys and any number of calls and power cuts, but for the keys       *)
(* excused or left behind (KvSd).                                          *)
(*   - TypeOK: no block, bucket or index holds more than it can;           *)
(*   - CachesCoherent: the caches hold what the card holds;                *)
(*   - NoOverfill: open_used is never too small without a power cut;       *)
(*   - CopyOnWrite: the card alone answers at every moment of a call;      *)
(*   - AcknowledgedIsReadable: so do the three tiers between calls.        *)
(***************************************************************************)
EXTENDS KvSd, FiniteSetTheorems, WellFoundedInduction, TLAPS

Card == [key : Keys, val : Vals]
HtEntry == [key : Keys, blk : Blocks]
SdCache == [valid : BOOLEAN, ents : Seq(Card)]

-----------------------------------------------------------------------------
(* The invariant: ranges.                                                  *)

CardTyped ==
    /\ sb \in [open : Places, used : 0 .. BlockCap]
    /\ bit \in [Blocks -> BOOLEAN] /\ head \in [Blocks -> {"ok", "zero", "garbled"}]
    /\ blk \in [Blocks -> Seq(Card)] /\ \A b \in Blocks : Len(blk[b]) <= BlockCap
    /\ ht \in [Buckets -> Seq(HtEntry)] /\ \A b \in Buckets : Len(ht[b]) <= BucketCap
    /\ fidx \in [Keys -> Places] /\ sealed \in BOOLEAN

IndexTyped ==
    /\ idx \in [Keys -> Places] /\ Cardinality(Indexed) <= IndexMax /\ fidxLive \in BOOLEAN

BuffersTyped ==
    /\ open \in Blocks /\ used \in 0 .. BlockCap /\ dirty \in BOOLEAN
    /\ openCache \in SdCache /\ Len(openCache.ents) <= BlockCap
    /\ dataCache \in [Blocks -> SdCache] /\ \A b \in Blocks : Len(dataCache[b].ents) <= BlockCap

Putting == op.val # Gone

\* What the call in progress carries from step to step.
CallTyped ==
    /\ op \in [key : Keys \cup {0}, val : Vals \cup {Gone}, old : Places, drop : SUBSET Buckets]
    /\ Calling => op.key \in Keys /\ op.key \in touched
    /\ pc \in {"append", "program", "hash", "rehash", "index"} => Putting
    /\ pc = "unhash" => ~Putting
    /\ pc \in {"append", "program", "hash"} => op.drop = {}
    /\ pc \in {"remove", "free"} => op.old \in Blocks
    /\ pc = "free" => blk[op.old] = <<>>
    /\ pc = "remove" /\ Putting => op.old # open
    /\ pc = "free" /\ Putting => op.old # open
    /\ pc = "rehash" => \E b \in Buckets : op.drop = {b} /\ Holds(b)

HistoryTyped ==
    /\ pc \in {"off", "idle", "append", "program", "hash", "rehash", "index", "remove",
               "free", "unhash", "erase", "seal", "overfull"}
    /\ val \in [Keys -> Vals \cup {Gone}] /\ touched \subseteq Keys /\ excused \subseteq Keys
    /\ behind \subseteq Keys /\ ops \in 0 .. MaxOps /\ cuts \in 0 .. MaxCuts
    /\ pc = "off" => touched = {} /\ ~fidxLive /\ ~openCache.valid
                     /\ (\A b \in Blocks : ~dataCache[b].valid)
                     /\ (\A k \in Keys : idx[k] = None)

TypeInv == CardTyped /\ IndexTyped /\ BuffersTyped /\ CallTyped /\ HistoryTyped

-----------------------------------------------------------------------------
(* The invariant: buffers and fill levels.                                 *)

\* A block whose header is not sound is read as empty; one just allocated is buffered as such.
HeadersTrue ==
    /\ \A b \in Blocks : head[b] # "ok" => blk[b] = <<>>
    /\ pc = "program" => openCache = Cached(<<>>)

\* Without a power cut that lost calls, the fill level is never below what the block
\* holds, in SRAM and, when nothing was called since the flush, in the superblock.
FillTrue ==
    /\ sb.open = None => pc = "off" /\ \A b \in Blocks : blk[b] = <<>>
    /\ pc = "off" => open = 0 /\ used = 0
    /\ pc \in {"erase", "seal"} => sb.open = open /\ sb.used = used
    /\ behind = {} /\ pc \notin {"off", "program", "overfull"} => Len(blk[open]) <= used
    /\ behind = {} /\ touched = {} =>
          /\ ~Calling
          /\ sb.open # None => Len(blk[sb.open]) <= sb.used
          /\ pc # "off" => sb.open = open /\ sb.used = used

BufferInv == CachesCoherent /\ HeadersTrue /\ FillTrue /\ NoOverfill

-----------------------------------------------------------------------------
(* The invariant: the card.  A key that was not excused is at most once in *)
(* a block and in a bucket.                                                *)

Once(s, k) == \A i, j \in DOMAIN s : s[i].key = k /\ s[j].key = k => i = j
Of(s, k) == s[First(s, k)]

\* Bucket c has k in block b; block b has v under k.
Hashes(c, k, b) == HasKey(ht[c], k) /\ Of(ht[c], k).blk = b
Stored(k, b, v) == b \in Blocks /\ HasKey(blk[b], k) /\ Of(blk[b], k).val = v

BucketsOf(k) == {c \in {Hash1[k], Hash2[k]} : HasKey(ht[c], k)}

\* The hash table has the one block with the key's last value.
Settled(k) ==
    IF val[k] = Gone THEN BucketsOf(k) = {}
    ELSE \E c \in Buckets, b \in Blocks :
            BucketsOf(k) = {c} /\ Hashes(c, k, b) /\ Stored(k, b, val[k])

\* The hash table has the block with the new version.
Moved(k) ==
    /\ Stored(k, open, op.val)
    /\ \E c \in Buckets : BucketsOf(k) = {c} /\ Hashes(c, k, open)

\* The call on k has changed something.
Changing(k) ==
    op.key = k /\ pc \in {"hash", "rehash", "index", "remove", "free", "unhash"}

PutTrue(k) ==
    /\ pc = "hash" => /\ Settled(k) /\ Stored(k, open, op.val)
                      /\ \A c \in BucketsOf(k) : ~Hashes(c, k, open)
    /\ pc = "rehash" =>
          /\ Stored(k, open, op.val)
          /\ \E c, d \in Buckets, b \in Blocks :
                /\ op.drop = {c} /\ c # d /\ BucketsOf(k) = {c, d}
                /\ Hashes(c, k, b) /\ Stored(k, b, val[k]) /\ Hashes(d, k, open)
    /\ pc \in {"index", "remove", "free"} => Moved(k)

DeleteTrue(k) ==
    \/ BucketsOf(k) = {}
    \/ \E c \in Buckets, b \in Blocks :
          /\ BucketsOf(k) = {c} /\ Hashes(c, k, b)
          /\ HasKey(blk[b], k) => Stored(k, b, val[k])

\* A block that is free, or was only just allocated, does not have the key.
InUse(k) == \A b \in Blocks : HasKey(blk[b], k) => bit[b] /\ ~(pc = "program" /\ b = open)

KeyTrue(k) ==
    /\ InUse(k)
    /\ \A c \in Buckets : Once(ht[c], k)
    /\ \A b \in Blocks : Once(blk[b], k)
    /\ IF Changing(k) THEN IF Putting THEN PutTrue(k) ELSE DeleteTrue(k) ELSE Settled(k)

CardInv == \A k \in Keys \ excused : KeyTrue(k)

-----------------------------------------------------------------------------
(* The invariant: the tiers.  A key left behind by a power cut may also be *)
(* in other blocks, and the flash tier may have an old one of them.        *)

\* Where an index tier that has b for k leads.
LeadsTo(k, b) == b = None \/ val[k] = Gone \/ b = HtLookup(k)

InBlocks(k, s) == \A b \in Blocks : HasKey(blk[b], k) => b \in s

\* Where the card of a key in a call may be: in the block found at its begin and, once
\* written, in the open one.
CallWhere(k) ==
    IF Putting THEN InBlocks(k, IF pc = "free" THEN {open} ELSE {open, op.old})
    ELSE InBlocks(k, IF pc = "remove" THEN {op.old} ELSE {})

TiersTrue(k) ==
    IF Changing(k)
    THEN /\ CallWhere(k)
         /\ pc \in {"remove", "free"} /\ Putting => idx[k] \in {None, open} /\ ~fidxLive
    ELSE /\ InBlocks(k, {HtLookup(k)})
         /\ LeadsTo(k, idx[k]) /\ (fidxLive => LeadsTo(k, fidx[k]))
         /\ op.key = k /\ Calling => val[k] = Gone \/ op.old = HtLookup(k)

SnapshotTrue(k) == sealed /\ k \notin touched => LeadsTo(k, fidx[k])

TierInv == \A k \in Keys \ (excused \cup behind) : TiersTrue(k) /\ SnapshotTrue(k)

SdInv == TypeInv /\ BufferInv /\ CardInv /\ TierInv

-----------------------------------------------------------------------------
(* Blocks and buckets as sequences.                                        *)

LEMMA Constants ==
    ASSUME SdAssumption
    PROVE  /\ Keys \subseteq Nat \ {0} /\ IsFiniteSet(Keys) /\ Gone \notin Vals
           /\ NumBlocks \in Nat \ {0} /\ BlockCap \in Nat \ {0} /\ BucketCap \in Nat \ {0}
           /\ None \notin Blocks /\ Places = Blocks \cup {None} /\ None # 0 /\ 0 \in Blocks
           /\ \A k \in Keys : Hash1[k] \in Buckets /\ Hash2[k] \in Buckets
           /\ IndexMax \in Nat \ {0} /\ MaxOps \in Nat /\ MaxCuts \in Nat
BY DEF SdAssumption, None, Blocks, Places

\* A set of numbers that is not empty has a least one.
LEMMA LeastNumber ==
    ASSUME NEW S, S \subseteq Nat, S # {} PROVE \E m \in S : \A i \in S : m <= i
<1>1. PICK m \in S : \A i \in S : ~(<<i, m>> \in OpToRel(<, Nat))
  BY NatLessThanWellFounded, WFMin
<1>2. \A i \in S : ~(i < m)
  BY <1>1 DEF OpToRel
<1> QED
  BY <1>2

\* packed_find and ht_bucket_find find an entry of the key.
LEMMA FirstIs ==
    ASSUME NEW T, NEW s \in Seq(T), NEW k, HasKey(s, k)
    PROVE  /\ First(s, k) \in 1 .. Len(s) /\ s[First(s, k)].key = k /\ Of(s, k) \in T
           /\ Len(s) > 0
<1> DEFINE S == {i \in 1 .. Len(s) : s[i].key = k}
<1> S \subseteq Nat /\ S # {}
  BY DEF HasKey
<1>1. PICK m \in S : \A i \in S : m <= i
  <2> HIDE DEF S
  <2> QED BY LeastNumber
<1>2. \E i \in DOMAIN s : s[i].key = k /\ \A j \in 1 .. i - 1 : s[j].key # k
  BY <1>1
<1>3. First(s, k) \in DOMAIN s /\ s[First(s, k)].key = k
  BY <1>2 DEF First
<1> QED
  BY <1>3 DEF Of

LEMMA OnlyFirst ==
    ASSUME NEW T, NEW s \in Seq(T), NEW k, Once(s, k), NEW i \in 1 .. Len(s), s[i].key = k
    PROVE  HasKey(s, k) /\ First(s, k) = i /\ Of(s, k) = s[i]
<1>1. HasKey(s, k)
  BY DEF HasKey
<1> QED
  BY <1>1, FirstIs DEF Once, Of

\* A change of a sequence that readers of a key do not notice.
SameFor(s, t, k) ==
    Once(s, k) => /\ Once(t, k) /\ (HasKey(t, k) <=> HasKey(s, k))
                  /\ HasKey(s, k) => Of(t, k) = Of(s, k)

\* Nothing but the places of the entries has changed, and those of a key by the map f.
LEMMA SameByPlace ==
    ASSUME NEW T, NEW s \in Seq(T), NEW t \in Seq(T), NEW k,
           \A i \in 1 .. Len(s) : s[i].key = k => \E j \in 1 .. Len(t) : t[j] = s[i],
           \A j \in 1 .. Len(t) : t[j].key = k => \E i \in 1 .. Len(s) : t[j] = s[i],
           Once(t, k)
    PROVE  SameFor(s, t, k)
<1> SUFFICES ASSUME Once(s, k)
             PROVE  (HasKey(t, k) <=> HasKey(s, k)) /\ (HasKey(s, k) => Of(t, k) = Of(s, k))
  BY DEF SameFor
<1>1. HasKey(t, k) <=> HasKey(s, k)
  BY DEF HasKey
<1>2. ASSUME HasKey(s, k) PROVE Of(t, k) = Of(s, k)
  <2>1. PICK i \in 1 .. Len(s) : s[i].key = k
    BY <1>2 DEF HasKey
  <2>2. PICK j \in 1 .. Len(t) : t[j] = s[i]
    BY <2>1
  <2> QED
    BY <2>1, <2>2, OnlyFirst
<1> QED
  BY <1>1, <1>2

LEMMA AppendIs ==
    ASSUME NEW T, NEW s \in Seq(T), NEW e \in T
    PROVE  /\ Append(s, e) \in Seq(T) /\ Len(Append(s, e)) = Len(s) + 1
           /\ s \o <<e>> = Append(s, e)
           /\ \A k : k # e.key => SameFor(s, Append(s, e), k)
           /\ ~HasKey(s, e.key) => /\ Once(Append(s, e), e.key) /\ HasKey(Append(s, e), e.key)
                                   /\ Of(Append(s, e), e.key) = e
<1> DEFINE t == Append(s, e)
<1>1. /\ t \in Seq(T) /\ Len(t) = Len(s) + 1 /\ t[Len(t)] = e
      /\ \A i \in 1 .. Len(s) : t[i] = s[i]
  OBVIOUS
<1>2. s \o <<e>> = t
  OBVIOUS
<1>3. ASSUME NEW k, k # e.key, Once(s, k) PROVE SameFor(s, t, k)
  <2>1. \A j \in 1 .. Len(t) : t[j].key = k => j \in 1 .. Len(s)
    BY <1>1, <1>3
  <2>2. Once(t, k)
    BY <1>1, <1>3, <2>1 DEF Once
  <2> HIDE DEF t
  <2> QED
    BY <1>1, <2>1, <2>2, SameByPlace
<1>4. ASSUME ~HasKey(s, e.key) PROVE Once(t, e.key) /\ HasKey(t, e.key) /\ Of(t, e.key) = e
  <2>1. \A j \in 1 .. Len(t) : t[j].key = e.key => j = Len(t)
    BY <1>1, <1>4 DEF HasKey
  <2>2. Once(t, e.key)
    BY <1>1, <2>1 DEF Once
  <2> HIDE DEF t
  <2> QED
    BY <1>1, <2>2, OnlyFirst
<1> QED
  BY <1>1, <1>2, <1>3, <1>4 DEF SameFor

\* packed_remove_card takes out the first card of the key and leaves the others as they were.
LEMMA WithoutIs ==
    ASSUME NEW T, NEW s \in Seq(T), NEW k, HasKey(s, k)
    PROVE  /\ Without(s, k) \in Seq(T) /\ Len(Without(s, k)) = Len(s) - 1
           /\ \A j : j # k => SameFor(s, Without(s, k), j)
           /\ Once(s, k) => ~HasKey(Without(s, k), k)
<1> DEFINE n == First(s, k)
           t == Without(s, k)
<1>1. n \in 1 .. Len(s) /\ s[n].key = k
  BY FirstIs
<1>2. /\ SubSeq(s, 1, n - 1) \in Seq(T) /\ Len(SubSeq(s, 1, n - 1)) = n - 1
      /\ \A i \in 1 .. n - 1 : SubSeq(s, 1, n - 1)[i] = s[i]
  BY <1>1
<1>3. /\ SubSeq(s, n + 1, Len(s)) \in Seq(T) /\ Len(SubSeq(s, n + 1, Len(s))) = Len(s) - n
      /\ \A i \in 1 .. Len(s) - n : SubSeq(s, n + 1, Len(s))[i] = s[n + i]
  BY <1>1
<1>4. t = SubSeq(s, 1, n - 1) \o SubSeq(s, n + 1, Len(s))
  BY DEF Without
<1> HIDE DEF n, t
<1> DEFINE head1 == SubSeq(s, 1, n - 1)
           tail1 == SubSeq(s, n + 1, Len(s))
<1>5. /\ t \in Seq(T) /\ Len(t) = Len(s) - 1
      /\ \A i \in 1 .. Len(t) : t[i] = IF i < n THEN s[i] ELSE s[i + 1]
  <2>1. /\ head1 \in Seq(T) /\ Len(head1) = n - 1 /\ \A i \in 1 .. n - 1 : head1[i] = s[i]
        /\ tail1 \in Seq(T) /\ Len(tail1) = Len(s) - n
        /\ \A i \in 1 .. Len(s) - n : tail1[i] = s[n + i]
        /\ t = head1 \o tail1
    BY <1>2, <1>3, <1>4
  <2> HIDE DEF head1, tail1
  <2>2. /\ t \in Seq(T) /\ Len(t) = Len(s) - 1
        /\ \A i \in 1 .. Len(t) : t[i] = IF i <= Len(head1) THEN head1[i] ELSE tail1[i - Len(head1)]
    BY <1>1, <2>1
  <2>3. ASSUME NEW i \in 1 .. Len(t) PROVE t[i] = IF i < n THEN s[i] ELSE s[i + 1]
    <3>1. CASE i < n
      BY <1>1, <2>1, <2>2, <3>1
    <3>2. CASE ~(i < n)
      <4>1. i - (n - 1) \in 1 .. Len(s) - n /\ n + (i - (n - 1)) = i + 1 /\ ~(i <= n - 1)
        BY <1>1, <2>2, <3>2
      <4> QED BY <2>1, <2>2, <3>2, <4>1
    <3> QED BY <3>1, <3>2
  <2> QED BY <2>2, <2>3
<1>6. ASSUME NEW j, j # k, Once(s, j) PROVE SameFor(s, t, j)
  <2>1. ASSUME NEW i \in 1 .. Len(s), s[i].key = j PROVE \E m \in 1 .. Len(t) : t[m] = s[i]
    <3>1. i # n
      BY <1>1, <1>6, <2>1
    <3>2. CASE i < n
      BY <1>1, <1>5, <3>2
    <3>3. CASE i > n
      <4>1. i - 1 \in 1 .. Len(t) /\ t[i - 1] = s[i]
        BY <1>1, <1>5, <3>3
      <4> QED BY <4>1
    <3> QED BY <1>1, <3>1, <3>2, <3>3
  <2>2. \A m \in 1 .. Len(t) : \E i \in 1 .. Len(s) : t[m] = s[i] /\ i = IF m < n THEN m ELSE m + 1
    BY <1>1, <1>5
  <2>3. Once(t, j)
    <3> SUFFICES ASSUME NEW a \in 1 .. Len(t), NEW b \in 1 .. Len(t), t[a].key = j, t[b].key = j
                 PROVE  a = b
      BY <1>5 DEF Once
    <3>1. PICK c \in 1 .. Len(s) : t[a] = s[c] /\ c = IF a < n THEN a ELSE a + 1
      BY <2>2
    <3>2. PICK d \in 1 .. Len(s) : t[b] = s[d] /\ d = IF b < n THEN b ELSE b + 1
      BY <2>2
    <3>3. c = d
      BY <1>6, <3>1, <3>2 DEF Once
    <3> QED BY <1>1, <3>1, <3>2, <3>3
  <2> QED
    BY <1>5, <2>1, <2>2, <2>3, SameByPlace
<1>7. ASSUME Once(s, k) PROVE ~HasKey(t, k)
  <2> SUFFICES ASSUME NEW a \in 1 .. Len(t), t[a].key = k PROVE FALSE
    BY <1>5 DEF HasKey
  <2>1. \A i \in 1 .. Len(s) : s[i].key = k => i = n
    BY <1>1, <1>7 DEF Once
  <2>2. CASE a < n
    <3>1. a \in 1 .. Len(s) /\ t[a] = s[a]
      BY <1>1, <1>5, <2>2
    <3> QED BY <1>1, <2>1, <2>2, <3>1
  <2>3. CASE ~(a < n)
    <3>1. a + 1 \in 1 .. Len(s) /\ t[a] = s[a + 1] /\ a + 1 # n
      BY <1>1, <1>5, <2>3
    <3> QED BY <2>1, <3>1
  <2> QED BY <2>2, <2>3
<1> QED
  BY <1>5, <1>6, <1>7 DEF SameFor, n, t

\* ht_remove puts the last entry in the place of the key's.
LEMMA SwappedIs ==
    ASSUME NEW T, NEW s \in Seq(T), NEW k, HasKey(s, k)
    PROVE  /\ Swapped(s, k) \in Seq(T) /\ Len(Swapped(s, k)) = Len(s) - 1
           /\ \A j : j # k => SameFor(s, Swapped(s, k), j)
           /\ Once(s, k) => ~HasKey(Swapped(s, k), k)
<1> DEFINE n == First(s, k)
           u == [s EXCEPT ![n] = s[Len(s)]]
           t == Swapped(s, k)
<1>1. n \in 1 .. Len(s) /\ s[n].key = k /\ Len(s) > 0
  BY FirstIs
<1>2. u \in Seq(T) /\ Len(u) = Len(s) /\ \A i \in 1 .. Len(s) : u[i] = IF i = n THEN s[Len(s)] ELSE s[i]
  BY <1>1
<1>3. t = SubSeq(u, 1, Len(s) - 1)
  BY DEF Swapped
<1> HIDE DEF n, t, u
<1>4. t \in Seq(T) /\ Len(t) = Len(s) - 1 /\ \A i \in 1 .. Len(t) : t[i] = u[i]
  BY <1>1, <1>2, <1>3
<1>5. \A i \in 1 .. Len(t) : t[i] = IF i = n THEN s[Len(s)] ELSE s[i]
  BY <1>2, <1>4
<1>6. ASSUME NEW j, j # k, Once(s, j) PROVE SameFor(s, t, j)
  <2>1. ASSUME NEW i \in 1 .. Len(s), s[i].key = j PROVE \E m \in 1 .. Len(t) : t[m] = s[i]
    <3>1. i # n
      BY <1>1, <1>6, <2>1
    <3>2. CASE i < Len(s)
      BY <1>4, <1>5, <3>1, <3>2
    <3>3. CASE i = Len(s)
      <4>1. n \in 1 .. Len(t) /\ t[n] = s[i]
        BY <1>1, <1>4, <1>5, <3>1, <3>3
      <4> QED BY <4>1
    <3> QED BY <3>2, <3>3
  <2>2. \A m \in 1 .. Len(t) : \E i \in 1 .. Len(s) : t[m] = s[i] /\ i = IF m = n THEN Len(s) ELSE m
    BY <1>1, <1>4, <1>5
  <2>3. Once(t, j)
    <3> SUFFICES ASSUME NEW a \in 1 .. Len(t), NEW b \in 1 .. Len(t), t[a].key = j, t[b].key = j
                 PROVE  a = b
      BY <1>4 DEF Once
    <3>1. PICK c \in 1 .. Len(s) : t[a] = s[c] /\ c = IF a = n THEN Len(s) ELSE a
      BY <2>2
    <3>2. PICK d \in 1 .. Len(s) : t[b] = s[d] /\ d = IF b = n THEN Len(s) ELSE b
      BY <2>2
    <3>3. c = d
      BY <1>6, <3>1, <3>2 DEF Once
    <3> QED BY <1>1, <1>4, <3>1, <3>2, <3>3
  <2> QED
    BY <1>4, <2>1, <2>2, <2>3, SameByPlace
<1>7. ASSUME Once(s, k) PROVE ~HasKey(t, k)
  <2> SUFFICES ASSUME NEW a \in 1 .. Len(t), t[a].key = k PROVE FALSE
    BY <1>4 DEF HasKey
  <2>1. \A i \in 1 .. Len(s) : s[i].key = k => i = n
    BY <1>1, <1>7 DEF Once
  <2>2. a \in 1 .. Len(s) - 1
    BY <1>4
  <2>3. CASE a = n
    <3>1. t[a] = s[Len(s)] /\ Len(s) \in 1 .. Len(s) /\ Len(s) # n
      BY <1>1, <1>5, <2>2, <2>3
    <3> QED BY <2>1, <3>1
  <2>4. CASE a # n
    <3>1. t[a] = s[a] /\ a \in 1 .. Len(s)
      BY <1>5, <2>2, <2>4
    <3> QED BY <2>1, <2>4, <3>1
  <2> QED BY <2>3, <2>4
<1> QED
  BY <1>4, <1>6, <1>7 DEF SameFor, n, t

\* ht_insert in place of the key's own entry.
LEMMA ReplacedIs ==
    ASSUME NEW s \in Seq(HtEntry), NEW k, HasKey(s, k), NEW b \in Blocks
    PROVE  LET t == [s EXCEPT ![First(s, k)].blk = b]
           IN  /\ t \in Seq(HtEntry) /\ Len(t) = Len(s)
               /\ \A j : j # k => SameFor(s, t, j)
               /\ Once(s, k) => Once(t, k) /\ HasKey(t, k) /\ Of(t, k).blk = b
<1> DEFINE n == First(s, k)
           t == [s EXCEPT ![n].blk = b]
<1>1. n \in 1 .. Len(s) /\ s[n].key = k
  BY FirstIs
<1>2. /\ [s[n] EXCEPT !.blk = b] \in HtEntry /\ [s[n] EXCEPT !.blk = b].key = s[n].key
      /\ [s[n] EXCEPT !.blk = b].blk = b
  <2>1. s[n] \in HtEntry
    BY <1>1
  <2> HIDE DEF n
  <2> QED BY <2>1 DEF HtEntry
<1>3. t = [s EXCEPT ![n] = [s[n] EXCEPT !.blk = b]]
  OBVIOUS
<1>4. /\ t \in Seq(HtEntry) /\ Len(t) = Len(s)
      /\ \A i \in 1 .. Len(s) : i # n => t[i] = s[i]
      /\ t[n].key = k /\ t[n].blk = b
  BY <1>1, <1>2, <1>3
<1> HIDE DEF n, t
<1>5. ASSUME NEW j, j # k, Once(s, j) PROVE SameFor(s, t, j)
  <2>1. \A i \in 1 .. Len(s) : (s[i].key = j \/ t[i].key = j) => t[i] = s[i]
    BY <1>1, <1>4, <1>5
  <2>2. Once(t, j)
    BY <1>4, <1>5, <2>1 DEF Once
  <2> QED
    BY <1>4, <2>1, <2>2, SameByPlace
<1>6. ASSUME Once(s, k) PROVE Once(t, k) /\ HasKey(t, k) /\ Of(t, k).blk = b
  <2>1. \A i \in 1 .. Len(s) : s[i].key = k => i = n
    BY <1>1, <1>6 DEF Once
  <2>2. Once(t, k)
    BY <1>4, <2>1 DEF Once
  <2> QED
    BY <1>1, <1>4, <2>2, OnlyFirst
<1> QED
  BY <1>4, <1>5, <1>6 DEF SameFor, n, t

-----------------------------------------------------------------------------
(* The operators on the tiers.                                             *)

LEMMA EntryOfBucket ==
    ASSUME SdAssumption, CardTyped, NEW c \in Buckets, NEW k, HasKey(ht[c], k)
    PROVE  First(ht[c], k) \in 1 .. Len(ht[c]) /\ ht[c][First(ht[c], k)].blk \in Blocks
           /\ Of(ht[c], k).blk = ht[c][First(ht[c], k)].blk
<1>1. ht[c] \in Seq(HtEntry)
  BY DEF CardTyped
<1>2. First(ht[c], k) \in 1 .. Len(ht[c]) /\ Of(ht[c], k) \in HtEntry
  BY <1>1, FirstIs
<1> QED
  BY <1>2 DEF HtEntry, Of

LEMMA LookupIn ==
    ASSUME SdAssumption, CardTyped, IndexTyped, NEW k \in Keys
    PROVE  HtLookup(k) \in Places /\ FindSlot(k) \in Places
<1>1. HtLookup(k) \in Places
  BY Constants, EntryOfBucket DEF HtLookup
<1> QED
  BY <1>1 DEF FindSlot, CardTyped, IndexTyped

LEMMA InsertIs ==
    ASSUME SdAssumption, idx \in [Keys -> Places], Cardinality(Indexed) <= IndexMax,
           NEW k \in Keys, NEW b \in Places
    PROVE  LET new == IndexInsert(k, b)
           IN  /\ new \in [Keys -> Places] /\ new[k] = b
               /\ \A j \in Keys : j # k => new[j] \in {None, idx[j]}
               /\ Cardinality({j \in Keys : new[j] # None}) <= IndexMax
<1> DEFINE new == IndexInsert(k, b)
           S == {j \in Keys : new[j] # None}
<1>0. /\ None \in Places /\ Keys \subseteq Nat /\ IndexMax \in Nat \ {0}
      /\ IsFiniteSet(Keys)
  BY Constants
<1>1. IsFiniteSet(Indexed) /\ Indexed \subseteq Keys /\ Cardinality(Indexed) \in Nat
  BY <1>0, FS_Subset, FS_CardinalityType DEF Indexed
<1>2. CASE idx[k] # None \/ Cardinality(Indexed) < IndexMax
  <2>1. new = [idx EXCEPT ![k] = b]
    BY <1>2 DEF IndexInsert
  <2>2. S \subseteq Indexed \cup {k}
    BY <2>1 DEF Indexed
  <2>3. IsFiniteSet(Indexed \cup {k})
        /\ Cardinality(Indexed \cup {k}) = IF k \in Indexed THEN Cardinality(Indexed)
                                           ELSE Cardinality(Indexed) + 1
    BY <1>1, FS_AddElement
  <2>4. Cardinality(Indexed \cup {k}) <= IndexMax
    BY <1>0, <1>1, <1>2, <2>3 DEF Indexed
  <2>5. Cardinality(S) <= Cardinality(Indexed \cup {k}) /\ Cardinality(S) \in Nat
        /\ Cardinality(Indexed \cup {k}) \in Nat
    BY <2>2, <2>3, FS_Subset, FS_CardinalityType
  <2>6. Cardinality(S) <= IndexMax
    BY <1>0, <2>4, <2>5
  <2> QED
    BY <1>0, <2>1, <2>6
<1>3. CASE ~(idx[k] # None \/ Cardinality(Indexed) < IndexMax)
  <2>1. new = [j \in Keys |-> IF j = k THEN b
                              ELSE IF \A i \in Indexed : j <= i THEN None ELSE idx[j]]
    BY <1>3 DEF IndexInsert
  <2>2. Cardinality(Indexed) = IndexMax
    BY <1>0, <1>1, <1>3
  <2>3. Indexed # {}
    BY <1>0, <2>2, FS_EmptySet
  <2>4. PICK m \in Indexed : \A i \in Indexed : m <= i
    BY <1>0, <1>1, <2>3, LeastNumber
  <2>5. IsFiniteSet(Indexed \ {m}) /\ Cardinality(Indexed \ {m}) = IndexMax - 1
    BY <1>1, <2>2, <2>4, FS_RemoveElement
  <2>6. k \notin Indexed \ {m}
    BY <1>3 DEF Indexed
  <2>7. IsFiniteSet((Indexed \ {m}) \cup {k}) /\ Cardinality((Indexed \ {m}) \cup {k}) = IndexMax
    <3> DEFINE R == Indexed \ {m}
    <3>1. IsFiniteSet(R) /\ Cardinality(R) = IndexMax - 1 /\ k \notin R
      BY <2>5, <2>6
    <3> HIDE DEF R
    <3>2. IsFiniteSet(R \cup {k}) /\ Cardinality(R \cup {k}) = Cardinality(R) + 1
      BY <3>1, FS_AddElement
    <3>3. Cardinality(R \cup {k}) = IndexMax
      BY <1>0, <3>1, <3>2
    <3> QED BY <3>2, <3>3 DEF R
  <2>8. S \subseteq (Indexed \ {m}) \cup {k}
    BY <2>1, <2>4 DEF Indexed
  <2>9. Cardinality(S) <= IndexMax
    BY <2>7, <2>8, FS_Subset
  <2> QED
    BY <1>0, <2>1, <2>9
<1> QED
  BY <1>2, <1>3

\* Promoting a key puts where it was found in the SRAM index, at most for another key.
LEMMA PromotedIs ==
    ASSUME SdAssumption, CardTyped, IndexTyped, NEW k \in Keys, idx' = Promoted(k)
    PROVE  /\ idx' \in [Keys -> Places] /\ Cardinality(Indexed') <= IndexMax
           /\ idx'[k] = FindSlot(k)
           /\ \A j \in Keys : j # k => idx'[j] \in {None, idx[j]}
<1>1. FindSlot(k) \in Places
  BY LookupIn
<1>2. CASE FindSlot(k) = None
  <2>1. idx' = idx /\ Indexed' = Indexed
    BY <1>2 DEF Promoted, Indexed
  <2>2. idx[k] = None
    BY <1>2 DEF FindSlot
  <2> QED
    BY <1>2, <2>1, <2>2 DEF IndexTyped
<1>3. CASE FindSlot(k) # None
  <2>1. idx' = IndexInsert(k, FindSlot(k))
    BY <1>3 DEF Promoted
  <2> QED
    BY <1>1, <2>1, InsertIs DEF IndexTyped, Indexed
<1> QED
  BY <1>2, <1>3

LEMMA ContentIn ==
    ASSUME CardTyped, BuffersTyped, NEW b \in Blocks
    PROVE  Content(b) \in Seq(Card) /\ Len(Content(b)) <= BlockCap
BY DEF CardTyped, BuffersTyped, SdCache, Content

LEMMA CacheInsertIs ==
    ASSUME SdAssumption, CardTyped, BuffersTyped, NEW b \in Blocks, CacheInsert(b)
    PROVE  /\ dataCache' \in [Blocks -> SdCache]
           /\ \A c \in Blocks : Len(dataCache'[c].ents) <= BlockCap
           /\ \A c \in Blocks : dataCache'[c].valid =>
                  dataCache'[c].ents = Content(c)
<1> DEFINE CacheRight ==
              /\ dataCache' \in [Blocks -> SdCache]
              /\ \A c \in Blocks : Len(dataCache'[c].ents) <= BlockCap
              /\ \A c \in Blocks : dataCache'[c].valid => dataCache'[c].ents = Content(c)
<1>1. /\ Cached(Content(b)) \in SdCache /\ Cached(Content(b)).ents = Content(b)
      /\ Len(Content(b)) <= BlockCap
  BY ContentIn DEF Cached, SdCache
<1>2. NoEntries \in SdCache /\ ~NoEntries.valid /\ Len(NoEntries.ents) = 0 /\ 0 <= BlockCap
  BY Constants DEF NoEntries, SdCache
<1>3. dataCache \in [Blocks -> SdCache] /\ \A c \in Blocks : Len(dataCache[c].ents) <= BlockCap
  BY DEF BuffersTyped
<1>4. CASE dataCache[b].valid
  BY <1>3, <1>4 DEF CacheInsert, Content
<1>5. ASSUME ~dataCache[b].valid, dataCache' = [dataCache EXCEPT ![b] = Cached(Content(b))]
      PROVE  CacheRight
  BY <1>1, <1>3, <1>5 DEF Content
<1>6. ASSUME ~dataCache[b].valid, NEW c \in Blocks, dataCache[c].valid,
             dataCache' = [dataCache EXCEPT ![b] = Cached(Content(b)), ![c] = NoEntries]
      PROVE  CacheRight
  BY <1>1, <1>2, <1>3, <1>6 DEF Content
<1> QED
  BY <1>4, <1>5, <1>6 DEF CacheInsert

-----------------------------------------------------------------------------
(* Ranges.                                                                 *)

LEMMA TypeInit == SdAssumption /\ Init => TypeInv
<1> SUFFICES ASSUME SdAssumption, Init PROVE TypeInv
  OBVIOUS
<1>0. /\ <<>> \in Seq(Card) /\ <<>> \in Seq(HtEntry) /\ Len(<<>>) = 0
      /\ BlockCap \in Nat /\ BucketCap \in Nat /\ IndexMax \in Nat
  BY Constants
<1>1. CardTyped
  <2>0. None \in Places /\ 0 \in 0 .. BlockCap
    BY Constants
  <2>1. /\ sb \in [open : Places, used : 0 .. BlockCap]
        /\ bit \in [Blocks -> BOOLEAN] /\ fidx \in [Keys -> Places] /\ sealed \in BOOLEAN
        /\ head \in [Blocks -> {"ok", "zero", "garbled"}]
    BY <2>0 DEF Init
  <2>2. blk \in [Blocks -> Seq(Card)] /\ \A b \in Blocks : Len(blk[b]) <= BlockCap
    BY <1>0 DEF Init
  <2>3. ht \in [Buckets -> Seq(HtEntry)] /\ \A b \in Buckets : Len(ht[b]) <= BucketCap
    BY <1>0 DEF Init
  <2> QED BY <2>1, <2>2, <2>3 DEF CardTyped
<1>2. IndexTyped
  <2>1. Indexed = {}
    BY DEF Init, Indexed
  <2>2. Cardinality(Indexed) = 0
    BY <2>1, FS_EmptySet
  <2>3. idx \in [Keys -> Places] /\ fidxLive \in BOOLEAN
    BY Constants DEF Init
  <2> QED BY <1>0, <2>2, <2>3 DEF IndexTyped
<1>3. BuffersTyped
  <2>1. NoEntries \in SdCache /\ Len(NoEntries.ents) = 0
    BY <1>0 DEF NoEntries, SdCache
  <2> QED BY <1>0, <2>1, Constants DEF Init, BuffersTyped
<1>4. CallTyped
  BY Constants DEF Init, CallTyped, NoOp, Calling
<1>5. HistoryTyped
  BY Constants DEF Init, HistoryTyped, NoEntries
<1> QED BY <1>1, <1>2, <1>3, <1>4, <1>5 DEF TypeInv

LEMMA CallTypes ==
    ASSUME SdAssumption, TypeInv, Call PROVE TypeInv'
<1>0. CardTyped /\ IndexTyped /\ BuffersTyped /\ CallTyped /\ HistoryTyped
  BY DEF TypeInv
<1>1. ASSUME NEW k \in Keys, NEW v \in Vals \cup {Gone}, Begin(k, v),
             touched' = touched \cup {k},
             \/ pc' = "append" /\ v # Gone
             \/ pc' = "remove" /\ v = Gone /\ FindSlot(k) # None
      PROVE  TypeInv'
  <2>1. CardTyped'
    BY <1>0, <1>1 DEF Begin, CardTyped, sdVars, flashVars
  <2>2. IndexTyped'
    <3>1. idx' = Promoted(k) /\ fidxLive' = fidxLive
      BY <1>1 DEF Begin
    <3> QED BY <1>0, <3>1, PromotedIs DEF IndexTyped
  <2>3. BuffersTyped'
    BY <1>0, <1>1 DEF Begin, BuffersTyped, openVars
  <2>4. CallTyped'
    <3>1. FindSlot(k) \in Places /\ (FindSlot(k) # None => FindSlot(k) \in Blocks)
      BY <1>0, LookupIn, Constants
    <3> QED BY <1>0, <1>1, <3>1 DEF Begin, CallTyped, Calling, Putting
  <2>5. HistoryTyped'
    BY <1>0, <1>1, Constants DEF Begin, HistoryTyped
  <2> QED BY <2>1, <2>2, <2>3, <2>4, <2>5 DEF TypeInv
<1>2. ASSUME NEW k \in Keys, Get(k) PROVE TypeInv'
  <2>1. CardTyped'
    BY <1>0, <1>2 DEF Get, CardTyped, sdVars, flashVars
  <2>2. IndexTyped'
    <3>1. idx' = Promoted(k) /\ fidxLive' = fidxLive
      BY <1>2 DEF Get
    <3> QED BY <1>0, <3>1, PromotedIs DEF IndexTyped
  <2>3. BuffersTyped'
    <3>1. FindSlot(k) \in Blocks
      BY <1>0, <1>2, LookupIn, Constants DEF Get
    <3>2. CASE CacheInsert(FindSlot(k))
      BY <1>0, <1>2, <3>1, <3>2, CacheInsertIs DEF Get, BuffersTyped, openVars
    <3>3. CASE UNCHANGED dataCache
      BY <1>0, <1>2, <3>3 DEF Get, BuffersTyped, openVars
    <3> QED BY <1>2, <3>2, <3>3 DEF Get
  <2>4. CallTyped'
    BY <1>0, <1>2 DEF Get, CallTyped, Calling, Putting, ghosts
  <2>5. HistoryTyped'
    BY <1>0, <1>2 DEF Get, HistoryTyped, ghosts
  <2> QED BY <2>1, <2>2, <2>3, <2>4, <2>5 DEF TypeInv
<1> QED
  BY <1>1, <1>2, Constants DEF Call, Put, Delete

LEMMA OpenEntsIn ==
    ASSUME SdAssumption, TypeInv
    PROVE  OpenEnts \in Seq(Card) /\ Len(OpenEnts) <= BlockCap
BY ContentIn DEF OpenEnts, TypeInv, BuffersTyped, SdCache

\* What packed_append writes is a block's content with the call's card behind it.
LEMMA NewEntsIn ==
    ASSUME SdAssumption, TypeInv, Programming
    PROVE  /\ [key |-> op.key, val |-> op.val] \in Card
           /\ NewEnts \in Seq(Card) /\ Len(NewEnts) = Len(OpenEnts) + 1
<1>1. [key |-> op.key, val |-> op.val] \in Card
  BY DEF Programming, TypeInv, CallTyped, Calling, Putting, Card
<1> QED
  BY <1>1, OpenEntsIn, AppendIs DEF NewEnts

LEMMA AppendTypes ==
    ASSUME SdAssumption, TypeInv, AppendStep PROVE TypeInv'
<1>0. CardTyped /\ IndexTyped /\ BuffersTyped /\ CallTyped /\ HistoryTyped
  BY DEF TypeInv
<1>1. ASSUME Allocate PROVE TypeInv'
  <2>1. PICK b \in Blocks : bit' = [bit EXCEPT ![b] = TRUE] /\ open' = b
    BY <1>1 DEF Allocate
  <2>2. CardTyped'
    BY <1>0, <1>1, <2>1 DEF Allocate, CardTyped, flashVars
  <2>3. IndexTyped'
    BY <1>0, <1>1 DEF Allocate, IndexTyped, Indexed
  <2>4. BuffersTyped'
    <3>1. Cached(<<>>) \in SdCache /\ Len(Cached(<<>>).ents) = 0 /\ 0 \in 0 .. BlockCap
      BY Constants DEF Cached, SdCache
    <3> QED BY <1>0, <1>1, <2>1, <3>1 DEF Allocate, BuffersTyped
  <2>5. CallTyped'
    BY <1>0, <1>1 DEF Allocate, CallTyped, Calling, Putting, ghosts
  <2>6. HistoryTyped'
    BY <1>0, <1>1 DEF Allocate, HistoryTyped, ghosts
  <2> QED BY <2>2, <2>3, <2>4, <2>5, <2>6 DEF TypeInv
<1>2. ASSUME CardFull PROVE TypeInv'
  <2>1. CardTyped' /\ IndexTyped' /\ BuffersTyped'
    BY <1>0, <1>2 DEF CardFull, CardTyped, IndexTyped, Indexed, BuffersTyped, sdVars, flashVars,
                      ramVars, openVars
  <2>2. CallTyped'
    BY <1>2, Constants DEF CardFull, CallTyped, Calling, NoOp
  <2>3. HistoryTyped'
    BY <1>0, <1>2 DEF CardFull, HistoryTyped, ghosts, ramVars
  <2> QED BY <2>1, <2>2, <2>3 DEF TypeInv
<1>3. ASSUME WriteCard PROVE TypeInv'
  <2>0. NewEnts \in Seq(Card) /\ Len(NewEnts) <= BlockCap /\ open \in Blocks /\ op.key \in Keys
    BY <1>0, <1>3, NewEntsIn DEF WriteCard, BuffersTyped, CallTyped, Programming, Calling
  <2>1. CardTyped'
    BY <1>0, <1>3, <2>0 DEF WriteCard, CardTyped, flashVars
  <2>2. IndexTyped'
    BY <1>0, <1>3 DEF WriteCard, IndexTyped, Indexed
  <2>3. BuffersTyped'
    <3>1. Cached(NewEnts) \in SdCache /\ Cached(NewEnts).ents = NewEnts
      BY <2>0 DEF Cached, SdCache
    <3>2. NoEntries \in SdCache /\ Len(NoEntries.ents) = 0 /\ BlockCap \in Nat
      BY Constants DEF NoEntries, SdCache
    <3>3. used' \in 0 .. BlockCap
      BY <1>3, <2>0, <3>2 DEF WriteCard, Fill
    <3> QED BY <1>0, <1>3, <2>0, <3>1, <3>2, <3>3 DEF WriteCard, BuffersTyped, Invalidated
  <2>4. CallTyped'
    BY <1>0, <1>3 DEF WriteCard, CallTyped, Calling, Putting, Programming
  <2>5. HistoryTyped'
    BY <1>0, <1>3, <2>0 DEF WriteCard, HistoryTyped
  <2> QED BY <2>1, <2>2, <2>3, <2>4, <2>5 DEF TypeInv
<1>4. ASSUME WriteGarbled PROVE TypeInv'
  <2>0. open \in Blocks /\ op.key \in Keys
    BY <1>0, <1>4 DEF WriteGarbled, BuffersTyped, CallTyped, Programming, Calling
  <2>1. CardTyped'
    BY <1>0, <1>4, <2>0 DEF WriteGarbled, CardTyped, flashVars
  <2>2. IndexTyped'
    BY <1>0, <1>4 DEF WriteGarbled, IndexTyped, Indexed
  <2>3. BuffersTyped'
    <3>1. Cached(<<>>) \in SdCache /\ Len(Cached(<<>>).ents) = 0
      BY DEF Cached, SdCache
    <3>2. NoEntries \in SdCache /\ Len(NoEntries.ents) = 0 /\ BlockCap \in Nat
      BY Constants DEF NoEntries, SdCache
    <3> QED BY <1>0, <1>4, <2>0, <3>1, <3>2 DEF WriteGarbled, BuffersTyped, Invalidated
  <2>4. CallTyped'
    BY <1>0, <1>4 DEF WriteGarbled, CallTyped, Calling, Putting, Programming
  <2>5. HistoryTyped'
    BY <1>0, <1>4, <2>0 DEF WriteGarbled, HistoryTyped
  <2> QED BY <2>1, <2>2, <2>3, <2>4, <2>5 DEF TypeInv
<1>5. ASSUME Overfill PROVE TypeInv'
  <2>1. CardTyped' /\ IndexTyped' /\ BuffersTyped'
    BY <1>0, <1>5 DEF Overfill, CardTyped, IndexTyped, Indexed, BuffersTyped, sdVars, flashVars,
                      ramVars, openVars
  <2>2. CallTyped'
    BY <1>0, <1>5 DEF Overfill, CallTyped, Calling
  <2>3. HistoryTyped'
    BY <1>0, <1>5 DEF Overfill, HistoryTyped, ghosts, ramVars, Programming
  <2> QED BY <2>1, <2>2, <2>3 DEF TypeInv
<1> QED
  BY <1>1, <1>2, <1>3, <1>4, <1>5 DEF AppendStep

\* The buckets a key may be in.
LEMMA CallBuckets ==
    ASSUME SdAssumption, TypeInv, Calling
    PROVE  /\ B1 \in Buckets /\ B2 \in Buckets /\ op.key \in Keys
           /\ AppendTo \subseteq {B1, B2} /\ ReplaceIn \subseteq {B1, B2}
           /\ \A b \in AppendTo : Room(b)
           /\ \A b \in ReplaceIn : Holds(b)
<1>1. B1 \in Buckets /\ B2 \in Buckets /\ op.key \in Keys
  BY Constants DEF TypeInv, CallTyped, B1, B2
<1>2. AppendTo \subseteq {B1, B2} /\ \A b \in AppendTo : Room(b)
  BY DEF AppendTo
<1>3. ReplaceIn \subseteq {B1, B2} /\ \A b \in ReplaceIn : Holds(b)
  BY DEF ReplaceIn
<1> QED BY <1>1, <1>2, <1>3

LEMMA HashTypes ==
    ASSUME SdAssumption, TypeInv, HashStep PROVE TypeInv'
<1>0. CardTyped /\ IndexTyped /\ BuffersTyped /\ CallTyped /\ HistoryTyped
  BY DEF TypeInv
<1>1. ASSUME Calling, UNCHANGED <<sb, bit, head, blk, flashVars, openVars, openCache, dataCache>>,
             ht' \in [Buckets -> Seq(HtEntry)], \A b \in Buckets : Len(ht'[b]) <= BucketCap
      PROVE  CardTyped' /\ (UNCHANGED dirty => BuffersTyped')
  BY <1>0, <1>1 DEF CardTyped, BuffersTyped, flashVars, openVars
<1>2. ASSUME HashAdd PROVE TypeInv'
  <2>0. /\ Calling /\ pc = "hash" /\ op.key \in Keys /\ op.drop = {} /\ open \in Blocks
        /\ AppendTo \subseteq {B1, B2} /\ ReplaceIn \subseteq {B1, B2}
        /\ \A b \in {B1, B2} : b \in Buckets /\ ht[b] \in Seq(HtEntry)
        /\ ht \in [Buckets -> Seq(HtEntry)] /\ \A b \in Buckets : Len(ht[b]) <= BucketCap
    BY <1>0, <1>2, CallBuckets DEF HashAdd, Calling, CallTyped, CardTyped, BuffersTyped
  <2>1. ASSUME NEW b \in AppendTo,
               ht' = [ht EXCEPT ![b] = Hashed(b, [key |-> op.key, blk |-> open])],
               op' = [op EXCEPT !.drop = {c \in {B1, B2} \ {b} : Holds(c)}],
               UNCHANGED excused
        PROVE  /\ ht' \in [Buckets -> Seq(HtEntry)] /\ \A c \in Buckets : Len(ht'[c]) <= BucketCap
               /\ CallTyped' /\ HistoryTyped'
    <3>1. [key |-> op.key, blk |-> open] \in HtEntry
      BY <2>0 DEF HtEntry
    <3> DEFINE e == [key |-> op.key, blk |-> open]
    <3> HIDE DEF e
    <3>0. b \in Buckets /\ ht[b] \in Seq(HtEntry) /\ e \in HtEntry
      BY <2>0, <2>1, <3>1 DEF e
    <3>2. /\ Hashed(b, e) \in Seq(HtEntry) /\ Len(Hashed(b, e)) = Len(ht[b]) + 1
      BY <3>0, AppendIs DEF Hashed
    <3>3. Len(ht[b]) < BucketCap /\ Len(ht[b]) \in Nat /\ BucketCap \in Nat
      BY <2>0, <2>1, CallBuckets, Constants DEF Room, TypeInv
    <3>4. /\ ht' \in [Buckets -> Seq(HtEntry)] /\ \A c \in Buckets : Len(ht'[c]) <= BucketCap
      <4>1. ht' = [ht EXCEPT ![b] = Hashed(b, e)]
        BY <2>1 DEF e
      <4> QED BY <2>0, <3>0, <3>2, <3>3, <4>1
    <3>5. CallTyped'
      <4>1. op'.drop # {} => \E c \in Buckets : op'.drop = {c} /\ c # b /\ Holds(c)
        <5>1. op'.drop = {c \in {B1, B2} \ {b} : Holds(c)}
          BY <1>0, <2>1 DEF CallTyped
        <5> QED BY <2>0, <2>1, <5>1
      <4>2. op'.drop # {} => \E c \in Buckets : op'.drop = {c} /\ Holds(c)'
        <5>1. op'.key = op.key
          BY <1>0, <2>1 DEF CallTyped
        <5>2. \A c \in Buckets : c # b => ht'[c] = ht[c]
          BY <2>0, <2>1
        <5> QED BY <4>1, <5>1, <5>2 DEF Holds
      <4>3. pc' = IF op'.drop = {} THEN "index" ELSE "rehash"
        BY <1>2 DEF HashAdd
      <4>4. /\ op' \in [key : Keys \cup {0}, val : Vals \cup {Gone}, old : Places, drop : SUBSET Buckets]
            /\ op'.key = op.key /\ op'.val = op.val
        BY <1>0, <2>0, <2>1 DEF CallTyped
      <4> QED BY <1>0, <1>2, <2>0, <4>2, <4>3, <4>4 DEF CallTyped, Calling, Putting, HashAdd
    <3>6. HistoryTyped'
      BY <1>0, <1>2, <2>1 DEF HistoryTyped, HashAdd
    <3> QED BY <3>4, <3>5, <3>6
  <2>2. ASSUME NEW b \in ReplaceIn, ht' = [ht EXCEPT ![b][First(ht[b], op.key)].blk = open],
               UNCHANGED <<op, excused>>
        PROVE  /\ ht' \in [Buckets -> Seq(HtEntry)] /\ \A c \in Buckets : Len(ht'[c]) <= BucketCap
               /\ CallTyped' /\ HistoryTyped'
    <3> DEFINE new == [ht[b] EXCEPT ![First(ht[b], op.key)].blk = open]
    <3>1. ht' = [ht EXCEPT ![b] = new]
      BY <2>2
    <3>2. new \in Seq(HtEntry) /\ Len(new) = Len(ht[b])
      BY <2>0, <2>2, CallBuckets, ReplacedIs DEF Holds
    <3> HIDE DEF new
    <3>3. /\ ht' \in [Buckets -> Seq(HtEntry)] /\ \A c \in Buckets : Len(ht'[c]) <= BucketCap
      BY <2>0, <3>1, <3>2
    <3>4. CallTyped'
      BY <1>0, <1>2, <2>0, <2>2 DEF CallTyped, Calling, Putting, HashAdd
    <3>5. HistoryTyped'
      BY <1>0, <1>2, <2>2 DEF HistoryTyped, HashAdd
    <3> QED BY <3>3, <3>4, <3>5
  <2>3. ASSUME excused' = excused \cup {op.key}, UNCHANGED <<ht, op>>
        PROVE  /\ ht' \in [Buckets -> Seq(HtEntry)] /\ \A c \in Buckets : Len(ht'[c]) <= BucketCap
               /\ CallTyped' /\ HistoryTyped'
    <3>1. CallTyped'
      BY <1>0, <1>2, <2>0, <2>3 DEF CallTyped, Calling, Putting, HashAdd
    <3>2. HistoryTyped'
      BY <1>0, <1>2, <2>0, <2>3 DEF HistoryTyped, HashAdd
    <3> QED BY <2>0, <2>3, <3>1, <3>2
  <2>4. /\ ht' \in [Buckets -> Seq(HtEntry)] /\ \A c \in Buckets : Len(ht'[c]) <= BucketCap
        /\ CallTyped' /\ HistoryTyped'
    BY <1>2, <2>1, <2>2, <2>3 DEF HashAdd
  <2>5. IndexTyped'
    BY <1>0, <1>2 DEF HashAdd, IndexTyped, Indexed, ramVars
  <2> QED BY <1>1, <1>2, <2>0, <2>4, <2>5 DEF TypeInv, HashAdd, ramVars
<1>3. ASSUME HashDrop PROVE TypeInv'
  <2>1. PICK b \in op.drop : ht' = [ht EXCEPT ![b] = Swapped(@, op.key)]
    BY <1>3 DEF HashDrop
  <2>2. b \in Buckets /\ Holds(b) /\ Calling
    BY <1>0, <1>3, <2>1 DEF HashDrop, CallTyped, Calling
  <2>3. /\ ht \in [Buckets -> Seq(HtEntry)] /\ \A c \in Buckets : Len(ht[c]) <= BucketCap
    BY <1>0 DEF CardTyped
  <2>4. Swapped(ht[b], op.key) \in Seq(HtEntry) /\ Len(Swapped(ht[b], op.key)) = Len(ht[b]) - 1
    BY <2>2, <2>3, SwappedIs DEF Holds
  <2>5. /\ ht' \in [Buckets -> Seq(HtEntry)] /\ \A c \in Buckets : Len(ht'[c]) <= BucketCap
    BY <2>1, <2>2, <2>3, <2>4, Constants
  <2>6. CallTyped' /\ HistoryTyped'
    BY <1>0, <1>3 DEF CallTyped, Calling, Putting, HashDrop, HistoryTyped, ghosts
  <2>7. IndexTyped'
    BY <1>0, <1>3 DEF HashDrop, IndexTyped, Indexed, ramVars
  <2> QED BY <1>1, <1>3, <2>2, <2>5, <2>6, <2>7 DEF TypeInv, HashDrop, ramVars
<1>4. ASSUME Unhash PROVE TypeInv'
  <2>0. /\ Calling /\ B1 \in Buckets /\ B2 \in Buckets /\ op.key \in Keys
        /\ op.val \in Vals \cup {Gone}
    BY <1>0, <1>4, CallBuckets DEF Unhash, Calling, CallTyped
  <2>1. /\ ht \in [Buckets -> Seq(HtEntry)] /\ \A c \in Buckets : Len(ht[c]) <= BucketCap
    BY <1>0 DEF CardTyped
  <2>2. /\ ht' \in [Buckets -> Seq(HtEntry)] /\ \A c \in Buckets : Len(ht'[c]) <= BucketCap
    <3>1. ASSUME NEW b \in {B1, B2}, Holds(b), ht' = [ht EXCEPT ![b] = Swapped(@, op.key)]
          PROVE  /\ ht' \in [Buckets -> Seq(HtEntry)] /\ \A c \in Buckets : Len(ht'[c]) <= BucketCap
      <4>1. /\ Swapped(ht[b], op.key) \in Seq(HtEntry)
            /\ Len(Swapped(ht[b], op.key)) = Len(ht[b]) - 1
        BY <2>0, <2>1, <3>1, SwappedIs DEF Holds
      <4> QED BY <2>0, <2>1, <3>1, <4>1, Constants
    <3> QED BY <1>4, <2>1, <3>1 DEF Unhash
  <2>3. CallTyped'
    BY <1>4, Constants DEF Unhash, Answer, CallTyped, NoOp, Calling
  <2>4. HistoryTyped'
    BY <1>0, <1>4, <2>0 DEF Unhash, Answer, HistoryTyped
  <2>5. IndexTyped'
    <3>1. idx' = [idx EXCEPT ![op.key] = None] /\ fidxLive' = fidxLive
      BY <1>4 DEF Unhash
    <3>2. Indexed' \subseteq Indexed /\ Indexed \subseteq Keys
      BY <1>0, <2>0, <3>1 DEF Indexed, IndexTyped
    <3>3. IsFiniteSet(Indexed)
      BY <3>2, Constants, FS_Subset
    <3>4. Cardinality(Indexed') <= Cardinality(Indexed) /\ Cardinality(Indexed) \in Nat
          /\ Cardinality(Indexed') \in Nat
      BY <3>2, <3>3, FS_Subset, FS_CardinalityType
    <3>5. None \in Places /\ IndexMax \in Nat
      BY Constants
    <3>6. Cardinality(Indexed) <= IndexMax /\ idx' \in [Keys -> Places] /\ fidxLive' \in BOOLEAN
      BY <1>0, <3>1, <3>5 DEF IndexTyped
    <3> QED BY <3>4, <3>5, <3>6 DEF IndexTyped
  <2>6. BuffersTyped'
    BY <1>0, <1>4 DEF Unhash, Answer, BuffersTyped, openVars
  <2> QED BY <1>1, <1>4, <2>0, <2>2, <2>3, <2>4, <2>5, <2>6 DEF TypeInv, Unhash
<1> QED BY <1>2, <1>3, <1>4 DEF HashStep

LEMMA EndTypes ==
    ASSUME SdAssumption, TypeInv, EndStep PROVE TypeInv'
<1>0. CardTyped /\ IndexTyped /\ BuffersTyped /\ CallTyped /\ HistoryTyped
  BY DEF TypeInv
<1>1. /\ op.key \in Keys /\ op.val \in Vals \cup {Gone} /\ op.old \in Places
      /\ pc \in {"index", "remove", "free"} /\ (pc # "index" => op.old \in Blocks)
  BY <1>0 DEF EndStep, IndexPut, RemoveNothing, RemoveOld, FreeBlock, CallTyped, Calling
\* How a call ends or goes on.
<1>2. ASSUME UNCHANGED <<touched, excused, behind, ops, cuts>>,
             \/ Answer
             \/ GoOn("unhash") /\ ~Putting
             \/ GoOn("remove") /\ pc = "index" /\ op.old \notin {None, open} /\ UNCHANGED open
             \/ GoOn("free") /\ pc = "remove" /\ blk'[op.old] = <<>> /\ UNCHANGED open
      PROVE  CallTyped' /\ HistoryTyped' /\ dirty' \in BOOLEAN
  <2>1. CASE Answer
    <3>1. CallTyped'
      BY <2>1, Constants DEF Answer, CallTyped, NoOp, Calling
    <3>2. HistoryTyped' /\ dirty' \in BOOLEAN
      BY <1>0, <1>1, <1>2, <2>1 DEF Answer, HistoryTyped
    <3> QED BY <3>1, <3>2
  <2>2. CASE ~Answer
    <3>1. CallTyped'
      BY <1>0, <1>1, <1>2, <2>2, Constants DEF GoOn, CallTyped, Putting, Calling
    <3>2. HistoryTyped' /\ dirty' \in BOOLEAN
      BY <1>0, <1>1, <1>2, <2>2 DEF GoOn, HistoryTyped, BuffersTyped
    <3> QED BY <3>1, <3>2
  <2> QED BY <2>1, <2>2
<1>3. ASSUME UNCHANGED <<idx, fidxLive>> PROVE IndexTyped'
  BY <1>0, <1>3 DEF IndexTyped, Indexed
<1>4. ASSUME IndexPut PROVE TypeInv'
  <2>1. CallTyped' /\ HistoryTyped' /\ dirty' \in BOOLEAN
    BY <1>2, <1>4 DEF IndexPut, openVars
  <2>2. IndexTyped'
    <3>1. open \in Places
      BY <1>0, Constants DEF BuffersTyped
    <3>2. idx' = IndexInsert(op.key, open) /\ fidxLive' = FALSE
      BY <1>4 DEF IndexPut, FidxAfterPut
    <3> DEFINE new == IndexInsert(op.key, open)
    <3>3. new \in [Keys -> Places] /\ Cardinality({j \in Keys : new[j] # None}) <= IndexMax
      <4>1. idx \in [Keys -> Places] /\ Cardinality(Indexed) <= IndexMax
        BY <1>0 DEF IndexTyped
      <4>2. \A k \in Keys, b \in Places :
               /\ IndexInsert(k, b) \in [Keys -> Places]
               /\ Cardinality({j \in Keys : IndexInsert(k, b)[j] # None}) <= IndexMax
        BY <4>1, InsertIs
      <4> QED BY <1>1, <3>1, <4>2
    <3> HIDE DEF new
    <3>4. idx' = new
      BY <3>2 DEF new
    <3> QED BY <3>2, <3>3, <3>4 DEF IndexTyped, Indexed
  <2>3. CardTyped' /\ BuffersTyped'
    BY <1>0, <1>4, <2>1 DEF IndexPut, CardTyped, BuffersTyped, sdVars, flashVars, openVars
  <2> QED BY <2>1, <2>2, <2>3 DEF TypeInv
<1>5. ASSUME RemoveNothing PROVE TypeInv'
  <2>1. CallTyped' /\ HistoryTyped' /\ dirty' \in BOOLEAN
    BY <1>2, <1>5 DEF RemoveNothing, AfterRemoval, Putting
  <2>2. CardTyped' /\ IndexTyped'
    BY <1>0, <1>3, <1>5 DEF RemoveNothing, CardTyped, sdVars, flashVars
  <2>3. BuffersTyped'
    BY <1>0, <1>1, <1>5, <2>1, CacheInsertIs DEF RemoveNothing, BuffersTyped, openVars
  <2> QED BY <2>1, <2>2, <2>3 DEF TypeInv
<1>6. ASSUME RemoveOld PROVE TypeInv'
  <2> DEFINE ents == Without(Content(op.old), op.key)
  <2>0. op.old \in Blocks /\ Content(op.old) \in Seq(Card) /\ Len(Content(op.old)) <= BlockCap
    BY <1>0, <1>1, <1>6, ContentIn DEF RemoveOld
  <2>1. ents \in Seq(Card) /\ Len(ents) = Len(Content(op.old)) - 1
    BY <1>6, <2>0, WithoutIs DEF RemoveOld
  <2>2. blk' = [blk EXCEPT ![op.old] = ents]
        /\ IF ents = <<>> THEN GoOn("free") ELSE AfterRemoval
    BY <1>6 DEF RemoveOld
  <2> HIDE DEF ents
  <2>3. blk' \in [Blocks -> Seq(Card)] /\ (\A b \in Blocks : Len(blk'[b]) <= BlockCap)
        /\ blk'[op.old] = ents
    BY <1>0, <2>0, <2>1, <2>2, Constants DEF CardTyped
  <2>4. CallTyped' /\ HistoryTyped' /\ dirty' \in BOOLEAN
    BY <1>2, <1>6, <2>2, <2>3 DEF RemoveOld, AfterRemoval, Putting, openVars
  <2>5. CardTyped' /\ IndexTyped'
    BY <1>0, <1>3, <1>6, <2>3 DEF RemoveOld, CardTyped, flashVars
  <2>6. BuffersTyped'
    <3>1. NoEntries \in SdCache /\ Len(NoEntries.ents) = 0 /\ BlockCap \in Nat
      BY Constants DEF NoEntries, SdCache
    <3> QED BY <1>0, <1>6, <2>0, <2>4, <3>1 DEF RemoveOld, BuffersTyped, openVars, Invalidated
  <2> QED BY <2>4, <2>5, <2>6 DEF TypeInv
<1>7. ASSUME FreeBlock PROVE TypeInv'
  <2>1. CallTyped' /\ HistoryTyped' /\ dirty' \in BOOLEAN
    BY <1>2, <1>7 DEF FreeBlock, AfterRemoval, Putting
  <2>2. CardTyped' /\ IndexTyped'
    BY <1>0, <1>1, <1>3, <1>7 DEF FreeBlock, CardTyped, flashVars
  <2>3. BuffersTyped'
    BY <1>0, <1>1, <1>7, <2>1, Constants DEF FreeBlock, BuffersTyped
  <2> QED BY <2>1, <2>2, <2>3 DEF TypeInv
<1> QED BY <1>4, <1>5, <1>6, <1>7 DEF EndStep

LEMMA FlushTypes ==
    ASSUME SdAssumption, TypeInv, FlushStep PROVE TypeInv'
<1>0. CardTyped /\ IndexTyped /\ BuffersTyped /\ CallTyped /\ HistoryTyped
  BY DEF TypeInv
<1>1. ASSUME FlushSuper PROVE TypeInv'
  <2>1. CardTyped' /\ IndexTyped' /\ BuffersTyped'
    BY <1>0, <1>1, Constants DEF FlushSuper, CardTyped, IndexTyped, Indexed, BuffersTyped, flashVars,
                                 openVars
  <2>2. CallTyped' /\ HistoryTyped'
    BY <1>0, <1>1 DEF FlushSuper, CallTyped, Calling, HistoryTyped, ghosts
  <2> QED BY <2>1, <2>2 DEF TypeInv
<1>2. ASSUME FlushErase PROVE TypeInv'
  <2>1. CardTyped' /\ IndexTyped' /\ BuffersTyped'
    BY <1>0, <1>2 DEF FlushErase, CardTyped, IndexTyped, Indexed, BuffersTyped, sdVars,
                                 openVars, ramVars
  <2>2. CallTyped' /\ HistoryTyped'
    BY <1>0, <1>2 DEF FlushErase, CallTyped, Calling, HistoryTyped, ramVars
  <2> QED BY <2>1, <2>2 DEF TypeInv
<1>3. ASSUME FlushSeal PROVE TypeInv'
  <2>1. CardTyped' /\ IndexTyped' /\ BuffersTyped'
    BY <1>0, <1>3 DEF FlushSeal, CardTyped, IndexTyped, Indexed, BuffersTyped, sdVars,
                                 openVars
  <2>2. CallTyped' /\ HistoryTyped'
    BY <1>0, <1>3 DEF FlushSeal, CallTyped, Calling, HistoryTyped, ghosts
  <2> QED BY <2>1, <2>2 DEF TypeInv
<1> QED BY <1>1, <1>2, <1>3 DEF FlushStep

\* A power cut leaves nothing in SRAM.
LEMMA CutIs ==
    ASSUME SdAssumption, TypeInv, NEW torn \in SUBSET Keys, PowerCut(torn)
    PROVE  IndexTyped' /\ BuffersTyped' /\ CallTyped' /\ HistoryTyped'
<1>0. CardTyped /\ IndexTyped /\ BuffersTyped /\ CallTyped /\ HistoryTyped
  BY DEF TypeInv
<1>1. IndexTyped'
  <2>1. Indexed' = {}
    BY DEF PowerCut, Indexed
  <2>2. Cardinality(Indexed') = 0
    BY <2>1, FS_EmptySet
  <2>3. None \in Places /\ 0 <= IndexMax
    BY Constants
  <2>4. idx' \in [Keys -> Places] /\ fidxLive' \in BOOLEAN
    BY <2>3 DEF PowerCut
  <2> QED BY <2>2, <2>3, <2>4 DEF IndexTyped
<1>2. BuffersTyped'
  <2>1. NoEntries \in SdCache /\ Len(NoEntries.ents) = 0 /\ BlockCap \in Nat
    BY Constants DEF NoEntries, SdCache
  <2>2. 0 \in Blocks /\ 0 \in 0 .. BlockCap
    BY <2>1, Constants
  <2>3. open' = 0 /\ used' = 0 /\ dirty' = FALSE /\ openCache' = NoEntries
        /\ dataCache' = [b \in Blocks |-> NoEntries]
    BY DEF PowerCut
  <2>4. /\ openCache' \in SdCache /\ Len(openCache'.ents) <= BlockCap
        /\ dataCache' \in [Blocks -> SdCache]
        /\ \A b \in Blocks : Len(dataCache'[b].ents) <= BlockCap
    BY <2>1, <2>3
  <2>5. open' \in Blocks /\ used' \in 0 .. BlockCap /\ dirty' \in BOOLEAN
    BY <2>2, <2>3
  <2> QED BY <2>4, <2>5 DEF BuffersTyped
<1>3. CallTyped'
  BY Constants DEF PowerCut, CallTyped, NoOp, Calling
<1>4. HistoryTyped'
  <2>1. /\ pc' = "off" /\ touched' = {} /\ fidxLive' = FALSE /\ openCache' = NoEntries
        /\ dataCache' = [b \in Blocks |-> NoEntries] /\ idx' = [k \in Keys |-> None]
        /\ val' = val /\ ops' = ops /\ behind' = behind \cup touched
    BY DEF PowerCut
  <2>2. excused' \subseteq Keys
    BY <1>0 DEF PowerCut, HistoryTyped, CallTyped
  <2>3. cuts' \in 0 .. MaxCuts
    BY <1>0, Constants DEF PowerCut, HistoryTyped
  <2> QED BY <1>0, <2>1, <2>2, <2>3 DEF HistoryTyped, NoEntries
<1> QED BY <1>1, <1>2, <1>3, <1>4

LEMMA KeysOfIn ==
    /\ \A s \in Seq(Card) : KeysOf(s) \subseteq Keys
    /\ \A s \in Seq(HtEntry) : KeysOf(s) \subseteq Keys
<1>1. ASSUME NEW s \in Seq(Card) PROVE KeysOf(s) \subseteq Keys
  <2>1. \A i \in DOMAIN s : s[i] \in Card
    OBVIOUS
  <2> QED BY <2>1 DEF KeysOf, Card
<1>2. ASSUME NEW s \in Seq(HtEntry) PROVE KeysOf(s) \subseteq Keys
  <2>1. \A i \in DOMAIN s : s[i] \in HtEntry
    OBVIOUS
  <2> QED BY <2>1 DEF KeysOf, HtEntry
<1> QED BY <1>1, <1>2

\* The bucket or block a cut may tear.
TornBuckets ==
    CASE pc = "hash" -> AppendTo \cup ReplaceIn
      [] pc = "rehash" -> op.drop
      [] pc = "unhash" -> {c \in {B1, B2} : Holds(c)}
      [] OTHER -> {}
TornBlocks == CASE Programming -> {open} [] pc = "remove" -> {op.old} [] OTHER -> {}

LEMMA TornIs ==
    ASSUME SdAssumption, TypeInv
    PROVE  /\ TornBuckets \subseteq Buckets /\ (TornBuckets # {} => Calling)
           /\ TornBlocks \subseteq Blocks /\ (TornBlocks # {} => Calling)
<1>1. TornBuckets \subseteq Buckets /\ (TornBuckets # {} => Calling)
  <2>1. CASE pc = "hash"
    BY <2>1, CallBuckets DEF TornBuckets, Calling
  <2>2. CASE pc = "rehash"
    BY <2>2 DEF TornBuckets, Calling, TypeInv, CallTyped
  <2>3. CASE pc = "unhash"
    BY <2>3, CallBuckets DEF TornBuckets, Calling
  <2>4. CASE pc \notin {"hash", "rehash", "unhash"}
    BY <2>4 DEF TornBuckets
  <2> QED BY <2>1, <2>2, <2>3, <2>4
<1>2. TornBlocks \subseteq Blocks /\ (TornBlocks # {} => Calling)
  <2>1. CASE Programming
    BY <2>1 DEF TornBlocks, Programming, Calling, TypeInv, BuffersTyped
  <2>2. CASE ~Programming /\ pc = "remove"
    BY <2>2 DEF TornBlocks, Programming, Calling, TypeInv, CallTyped
  <2>3. CASE ~Programming /\ pc # "remove"
    BY <2>3 DEF TornBlocks
  <2> QED BY <2>1, <2>2, <2>3
<1> QED BY <1>1, <1>2

\* A power cut in three forms.
LEMMA CutForms ==
    ASSUME CutStep
    PROVE  \/ PowerCut({}) /\ UNCHANGED <<ht, head, blk>>
           \/ \E b \in TornBuckets : /\ PowerCut(KeysOf(ht[b])) /\ ht' = [ht EXCEPT ![b] = <<>>]
                                     /\ UNCHANGED <<head, blk>>
           \/ \E b \in TornBlocks : /\ PowerCut(KeysOf(blk[b])) /\ blk' = [blk EXCEPT ![b] = <<>>]
                                    /\ UNCHANGED <<ht, head>>
BY DEF CutStep, CutClean, CutBucket, CutBlock, TornBuckets, TornBlocks

LEMMA CutTypes ==
    ASSUME SdAssumption, TypeInv, CutStep PROVE TypeInv'
<1>0. CardTyped
  BY DEF TypeInv
<1>1. <<>> \in Seq(Card) /\ <<>> \in Seq(HtEntry) /\ Len(<<>>) = 0 /\ BlockCap \in Nat
      /\ BucketCap \in Nat
  BY Constants
<1>2. ASSUME NEW torn, PowerCut(torn), torn \subseteq Keys, CardTyped' PROVE TypeInv'
  BY <1>2, CutIs DEF TypeInv
<1>3. ASSUME NEW torn, PowerCut(torn) PROVE UNCHANGED <<sb, bit, fidx, sealed>>
  BY <1>3 DEF PowerCut, flashVars
<1>4. CASE PowerCut({}) /\ UNCHANGED <<ht, head, blk>>
  <2>1. CardTyped'
    BY <1>0, <1>3, <1>4 DEF CardTyped
  <2> QED BY <1>2, <1>4, <2>1
<1>5. ASSUME NEW b \in TornBuckets, PowerCut(KeysOf(ht[b])), ht' = [ht EXCEPT ![b] = <<>>],
             UNCHANGED <<head, blk>>
      PROVE  TypeInv'
  <2>1. b \in Buckets /\ KeysOf(ht[b]) \subseteq Keys
    BY <1>0, <1>5, TornIs, KeysOfIn DEF CardTyped
  <2>2. CardTyped'
    BY <1>0, <1>1, <1>3, <1>5, <2>1 DEF CardTyped
  <2> QED BY <1>2, <1>5, <2>1, <2>2
<1>6. ASSUME NEW b \in TornBlocks, PowerCut(KeysOf(blk[b])), blk' = [blk EXCEPT ![b] = <<>>],
             UNCHANGED <<ht, head>>
      PROVE  TypeInv'
  <2>1. b \in Blocks /\ KeysOf(blk[b]) \subseteq Keys
    BY <1>0, <1>6, TornIs, KeysOfIn DEF CardTyped
  <2>2. CardTyped'
    BY <1>0, <1>1, <1>3, <1>6, <2>1 DEF CardTyped
  <2> QED BY <1>2, <1>6, <2>1, <2>2
<1> QED BY <1>4, <1>5, <1>6, CutForms

LEMMA BootTypes ==
    ASSUME SdAssumption, TypeInv, BootStep PROVE TypeInv'
<1>0. CardTyped /\ IndexTyped /\ BuffersTyped /\ CallTyped /\ HistoryTyped
  BY DEF TypeInv
<1>1. ASSUME Format PROVE TypeInv'
  <2>1. CardTyped'
    BY <1>0, <1>1, Constants DEF Format, CardTyped, flashVars
  <2>2. IndexTyped' /\ BuffersTyped'
    BY <1>0, <1>1 DEF Format, CardTyped, IndexTyped, Indexed, BuffersTyped, openVars
  <2>3. CallTyped' /\ HistoryTyped'
    BY <1>0, <1>1 DEF Format, CallTyped, Calling, HistoryTyped, ghosts
  <2> QED BY <2>1, <2>2, <2>3 DEF TypeInv
<1>2. ASSUME Boot PROVE TypeInv'
  <2>0. sb.open \in Blocks /\ sb.used \in 0 .. BlockCap
    BY <1>0, <1>2, Constants DEF Boot, CardTyped
  <2>1. CardTyped'
    BY <1>0, <1>2 DEF Boot, CardTyped, sdVars, flashVars
  <2>2. IndexTyped' /\ BuffersTyped'
    BY <1>0, <1>2, <2>0 DEF Boot, CardTyped, IndexTyped, Indexed, BuffersTyped, openVars
  <2>3. CallTyped' /\ HistoryTyped'
    BY <1>0, <1>2 DEF Boot, CallTyped, Calling, HistoryTyped, ghosts
  <2> QED BY <2>1, <2>2, <2>3 DEF TypeInv
<1> QED BY <1>1, <1>2 DEF BootStep

LEMMA TypeStep ==
    ASSUME SdAssumption, TypeInv, [Next]_vars PROVE TypeInv'
<1>1. CASE UNCHANGED vars
  BY <1>1 DEF TypeInv, CardTyped, IndexTyped, Indexed, BuffersTyped, CallTyped, Calling, Putting, Holds,
              HistoryTyped, vars, sdVars, flashVars, openVars, ramVars, ghosts
<1> QED
  BY <1>1, CallTypes, AppendTypes, HashTypes, EndTypes, FlushTypes, CutTypes, BootTypes DEF Next

-----------------------------------------------------------------------------
(* Buffers and fill levels.                                                *)

LEMMA ContentIs ==
    ASSUME CachesCoherent, NEW b \in Blocks PROVE Content(b) = blk[b]
BY DEF CachesCoherent, Content

LEMMA OpenEntsAre ==
    ASSUME SdAssumption, TypeInv, BufferInv
    PROVE  OpenEnts = IF pc = "program" THEN <<>> ELSE blk[open]
<1>1. CASE pc = "program"
  BY <1>1 DEF OpenEnts, BufferInv, HeadersTrue, Cached
<1>2. CASE pc # "program"
  <2>1. Content(open) = blk[open]
    BY ContentIs DEF BufferInv, TypeInv, BuffersTyped
  <2> QED BY <1>2, <2>1 DEF OpenEnts, BufferInv, CachesCoherent
<1> QED BY <1>1, <1>2

LEMMA BufferInit == SdAssumption /\ Init => BufferInv
<1> SUFFICES ASSUME SdAssumption, Init PROVE BufferInv
  OBVIOUS
<1>1. pc = "off" /\ sb.open = None /\ open = 0 /\ used = 0 /\ (\A b \in Blocks : blk[b] = <<>>)
      /\ openCache = NoEntries /\ (\A b \in Blocks : dataCache[b] = NoEntries)
  BY DEF Init
<1> QED BY <1>1 DEF BufferInv, CachesCoherent, HeadersTrue, FillTrue, NoOverfill, NoEntries, Calling

\* Steps that leave blocks, headers, superblock and fill level alone.
LEMMA BufferKept ==
    ASSUME TypeInv, BufferInv, UNCHANGED <<sb, head, blk, open, used, openCache, behind>>,
           \A b \in Blocks : dataCache'[b].valid => dataCache'[b].ents = blk[b],
           pc \notin {"off", "program", "overfull"},
           pc' \notin {"off", "program", "overfull"}, pc' \in {"erase", "seal"} => pc' = pc,
           touched' # {} \/ (UNCHANGED <<touched, op>> /\ pc' = pc)
    PROVE  BufferInv'
<1>1. CachesCoherent' /\ HeadersTrue' /\ NoOverfill'
  BY DEF BufferInv, CachesCoherent, HeadersTrue, NoOverfill
<1>2. FillTrue'
  BY DEF BufferInv, FillTrue, Calling
<1> QED BY <1>1, <1>2 DEF BufferInv

LEMMA BufferAppend ==
    ASSUME SdAssumption, TypeInv, BufferInv, AppendStep PROVE BufferInv'
<1>0. /\ open \in Blocks /\ op.key \in touched /\ sb.open # None /\ pc \in {"append", "program"}
      /\ Calling /\ blk \in [Blocks -> Seq(Card)] /\ dataCache \in [Blocks -> SdCache]
      /\ head \in [Blocks -> {"ok", "zero", "garbled"}] /\ used \in 0 .. BlockCap
      /\ BlockCap \in Nat \ {0} /\ openCache \in SdCache
      /\ \A b \in Blocks : Len(blk[b]) \in Nat
  BY Constants DEF AppendStep, Allocate, CardFull, WriteCard, WriteGarbled, Overfill, Programming,
     Calling, TypeInv, BuffersTyped, CallTyped, CardTyped, BufferInv, FillTrue
<1>1. CASE Allocate
  <2>1. PICK b \in Blocks : open' = b
    BY <1>1 DEF Allocate
  <2>2. CachesCoherent' /\ HeadersTrue' /\ NoOverfill'
    BY <1>1 DEF Allocate, BufferInv, CachesCoherent, HeadersTrue, NoOverfill
  <2>3. FillTrue'
    BY <1>0, <1>1 DEF Allocate, BufferInv, FillTrue, ghosts
  <2> QED BY <2>2, <2>3 DEF BufferInv
<1>2. CASE CardFull
  BY <1>0, <1>2, BufferKept DEF CardFull, sdVars, ramVars, openVars, ghosts, BufferInv, CachesCoherent
<1>3. CASE WriteCard
  <2>1. /\ NewEnts \in Seq(Card) /\ blk' = [blk EXCEPT ![open] = NewEnts]
        /\ openCache' = Cached(NewEnts) /\ used' = Len(NewEnts) /\ pc' = "hash"
        /\ dataCache' = [dataCache EXCEPT ![open] = NoEntries] /\ head' = [head EXCEPT ![open] = "ok"]
        /\ UNCHANGED <<sb, open, touched, behind, op>>
    BY <1>3, NewEntsIn DEF WriteCard, Fill, Invalidated
  <2>2. CachesCoherent'
    BY <1>0, <2>1 DEF BufferInv, CachesCoherent, Cached, NoEntries
  <2>3. HeadersTrue' /\ NoOverfill'
    BY <1>0, <2>1 DEF BufferInv, HeadersTrue, NoOverfill
  <2>4. FillTrue'
    BY <1>0, <2>1 DEF FillTrue
  <2> QED BY <2>2, <2>3, <2>4 DEF BufferInv
<1>4. CASE WriteGarbled
  <2>1. /\ openCache' = Cached(<<>>) /\ used' \in 1 .. BlockCap /\ pc' = "hash"
        /\ dataCache' = [dataCache EXCEPT ![open] = NoEntries]
        /\ head' = [head EXCEPT ![open] = "garbled"]
        /\ UNCHANGED <<sb, blk, open, touched, behind, op>>
    BY <1>4 DEF WriteGarbled, Invalidated
  <2>2. blk[open] = <<>> /\ Len(blk[open]) = 0
    BY <1>0, <1>4 DEF WriteGarbled, Sound, BufferInv, HeadersTrue
  <2>3. CachesCoherent'
    BY <1>0, <2>1, <2>2 DEF BufferInv, CachesCoherent, Cached, NoEntries
  <2>4. HeadersTrue' /\ NoOverfill'
    BY <1>0, <2>1, <2>2 DEF BufferInv, HeadersTrue, NoOverfill
  <2>5. FillTrue'
    BY <1>0, <2>1, <2>2 DEF FillTrue
  <2> QED BY <2>3, <2>4, <2>5 DEF BufferInv
<1>5. CASE Overfill
  <2>1. /\ pc' = "overfull" /\ Len(NewEnts) > BlockCap /\ Programming
        /\ UNCHANGED <<sb, head, blk, open, used, openCache, dataCache, behind, touched, op>>
    BY <1>5 DEF Overfill, sdVars, ramVars, openVars, ghosts
  <2>2. Len(NewEnts) = Len(OpenEnts) + 1
    BY <2>1, NewEntsIn
  <2>3. pc = "append" /\ used < BlockCap /\ OpenEnts = blk[open]
    BY <1>0, <2>1, <2>2, OpenEntsAre DEF Programming, Fits
  <2>4. behind # {}
    BY <1>0, <2>1, <2>2, <2>3 DEF BufferInv, FillTrue
  <2>5. CachesCoherent' /\ HeadersTrue' /\ NoOverfill'
    BY <1>0, <2>1, <2>3, <2>4 DEF BufferInv, CachesCoherent, HeadersTrue, NoOverfill
  <2>6. FillTrue'
    BY <1>0, <2>1, <2>4 DEF FillTrue
  <2> QED BY <2>5, <2>6 DEF BufferInv
<1> QED BY <1>1, <1>2, <1>3, <1>4, <1>5 DEF AppendStep

LEMMA BufferEnd ==
    ASSUME SdAssumption, TypeInv, BufferInv, EndStep PROVE BufferInv'
<1>0. /\ open \in Blocks /\ op.key \in touched /\ sb.open # None /\ Calling
      /\ pc \in {"index", "remove", "free"} /\ (pc # "index" => op.old \in Blocks)
      /\ blk \in [Blocks -> Seq(Card)] /\ dataCache \in [Blocks -> SdCache]
      /\ \A b \in Blocks : Len(blk[b]) \in Nat
      /\ used \in Nat
  BY DEF EndStep, IndexPut, RemoveNothing, RemoveOld, FreeBlock, Calling, TypeInv, BuffersTyped,
     CallTyped, CardTyped, BufferInv, FillTrue
<1>1. UNCHANGED <<touched, behind, sb, head, open>>
      /\ pc' \in {"idle", "remove", "free", "unhash"}
  BY DEF EndStep, IndexPut, RemoveNothing, RemoveOld, FreeBlock, AfterRemoval, Answer, GoOn,
     sdVars, openVars
<1>2. CASE IndexPut
  BY <1>0, <1>1, <1>2, BufferKept DEF IndexPut, sdVars, openVars, BufferInv, CachesCoherent
<1>3. CASE RemoveNothing
  <2>1. \A c \in Blocks : dataCache'[c].valid => dataCache'[c].ents = blk[c]
    BY <1>0, <1>3, CacheInsertIs, ContentIs DEF RemoveNothing, TypeInv, BufferInv
  <2> QED BY <1>0, <1>1, <1>3, <2>1, BufferKept DEF RemoveNothing, sdVars, openVars
<1>4. CASE RemoveOld
  <2> DEFINE ents == Without(blk[op.old], op.key)
  <2>1. Content(op.old) = blk[op.old] /\ op.old \in Blocks /\ HasKey(blk[op.old], op.key)
    BY <1>0, <1>4, ContentIs DEF RemoveOld, BufferInv
  <2>2. ents \in Seq(Card) /\ Len(ents) = Len(blk[op.old]) - 1 /\ blk[op.old] # <<>>
    BY <1>0, <2>1, WithoutIs, FirstIs
  <2>3. /\ blk' = [blk EXCEPT ![op.old] = ents] /\ used' = used
        /\ dataCache' = [dataCache EXCEPT ![op.old] = NoEntries]
        /\ openCache' = IF op.old = open THEN NoEntries ELSE openCache
    BY <1>4, <2>1 DEF RemoveOld, openVars, Invalidated
  <2> HIDE DEF ents
  <2>4. CachesCoherent'
    BY <1>0, <1>1, <2>1, <2>3 DEF BufferInv, CachesCoherent, NoEntries
  <2>5. HeadersTrue' /\ NoOverfill'
    BY <1>0, <1>1, <2>1, <2>2, <2>3 DEF BufferInv, HeadersTrue, NoOverfill
  <2>6. Len(blk'[open]) <= Len(blk[open])
    BY <1>0, <2>1, <2>2, <2>3
  <2>7. FillTrue'
    BY <1>0, <1>1, <2>2, <2>3, <2>6 DEF BufferInv, FillTrue
  <2> QED BY <2>4, <2>5, <2>7 DEF BufferInv
<1>5. CASE FreeBlock
  <2>1. /\ UNCHANGED <<blk, dataCache, openCache>> /\ blk[op.old] = <<>>
        /\ used' = IF op.old = open THEN 0 ELSE used
    BY <1>5 DEF FreeBlock, TypeInv, CallTyped
  <2>2. CachesCoherent' /\ HeadersTrue' /\ NoOverfill'
    BY <1>0, <1>1, <2>1 DEF BufferInv, CachesCoherent, HeadersTrue, NoOverfill
  <2>3. FillTrue'
    BY <1>0, <1>1, <2>1 DEF BufferInv, FillTrue
  <2> QED BY <2>2, <2>3 DEF BufferInv
<1> QED BY <1>2, <1>3, <1>4, <1>5 DEF EndStep

LEMMA BufferStep ==
    ASSUME SdAssumption, TypeInv, BufferInv, [Next]_vars PROVE BufferInv'
<1>1. CASE Call
  <2>1. \A b \in Blocks : dataCache'[b].valid => dataCache'[b].ents = blk[b]
    <3>1. ASSUME NEW k \in Keys, Get(k) PROVE \A b \in Blocks : dataCache'[b].valid => dataCache'[b].ents = blk[b]
      <4>1. FindSlot(k) \in Blocks
        BY <3>1, LookupIn, Constants DEF Get, TypeInv
      <4> QED BY <3>1, <4>1, CacheInsertIs, ContentIs DEF Get, TypeInv, BufferInv, CachesCoherent
    <3> QED BY <1>1, <3>1 DEF Call, Put, Delete, Begin, BufferInv, CachesCoherent
  <2>2. /\ UNCHANGED <<sb, head, blk, open, used, openCache, behind>> /\ pc = "idle"
        /\ pc' \in {"idle", "append", "remove"}
        /\ touched' # {} \/ (UNCHANGED <<touched, op>> /\ pc' = pc)
    BY <1>1 DEF Call, Put, Delete, Get, Begin, sdVars, openVars, ghosts
  <2> QED BY <2>1, <2>2, BufferKept
<1>2. CASE HashStep
  <2>1. /\ UNCHANGED <<sb, head, blk, open, used, openCache, behind, touched, dataCache>>
        /\ Calling /\ pc \in {"hash", "rehash", "unhash"}
        /\ pc' \in {"rehash", "index", "idle"}
    BY <1>2 DEF HashStep, HashAdd, HashDrop, Unhash, Answer, Calling, ramVars, openVars, ghosts
  <2>2. op.key \in touched
    BY <2>1 DEF TypeInv, CallTyped
  <2> QED BY <2>1, <2>2, BufferKept DEF BufferInv, CachesCoherent
<1>3. CASE FlushStep
  <2>1. /\ UNCHANGED <<head, blk, open, used, openCache, behind, dataCache>>
        /\ pc \in {"idle", "erase", "seal"} /\ pc' \in {"erase", "seal", "idle"}
    BY <1>3 DEF FlushStep, FlushSuper, FlushErase, FlushSeal, sdVars, ramVars, openVars, ghosts
  <2>2. CachesCoherent' /\ HeadersTrue' /\ NoOverfill'
    BY <2>1 DEF BufferInv, CachesCoherent, HeadersTrue, NoOverfill
  <2>3. FillTrue'
    <3>1. sb'.open = open /\ sb'.used = used
      BY <1>3 DEF FlushStep, FlushSuper, FlushErase, FlushSeal, sdVars, BufferInv, FillTrue
    <3>2. open # None
      BY Constants DEF TypeInv, BuffersTyped
    <3> QED BY <2>1, <3>1, <3>2 DEF BufferInv, FillTrue, Calling
  <2> QED BY <2>2, <2>3 DEF BufferInv
<1>4. CASE CutStep
  <2>1. /\ pc' = "off" /\ openCache' = NoEntries /\ dataCache' = [b \in Blocks |-> NoEntries]
        /\ UNCHANGED sb /\ open' = 0 /\ used' = 0 /\ behind' = behind \cup touched /\ touched' = {}
        /\ pc # "off"
    BY <1>4 DEF CutStep, CutClean, CutBucket, CutBlock, PowerCut
  <2>2. /\ head' = head
        /\ blk' = blk \/ (Calling /\ \E b \in Blocks : blk' = [blk EXCEPT ![b] = <<>>])
    BY <1>4, CutForms, TornIs
  <2>3. blk \in [Blocks -> Seq(Card)] /\ (Calling => touched # {})
    BY DEF TypeInv, CardTyped, CallTyped
  <2>4. CachesCoherent' /\ HeadersTrue' /\ NoOverfill'
    BY <2>1, <2>2, <2>3 DEF BufferInv, CachesCoherent, HeadersTrue, NoOverfill, NoEntries
  <2>5. FillTrue'
    BY <2>1, <2>2, <2>3 DEF BufferInv, FillTrue, Calling
  <2> QED BY <2>4, <2>5 DEF BufferInv
<1>5. CASE BootStep
  <2>1. /\ pc = "off" /\ pc' = "idle" /\ touched = {} /\ open = 0 /\ used = 0
        /\ ~openCache.valid
        /\ UNCHANGED <<head, blk, openCache, dataCache, behind, touched>>
    BY <1>5 DEF BootStep, Format, Boot, sdVars, ghosts, TypeInv, HistoryTyped, BufferInv, FillTrue
  <2>2. CachesCoherent' /\ HeadersTrue' /\ NoOverfill'
    BY <2>1 DEF BufferInv, CachesCoherent, HeadersTrue, NoOverfill
  <2>3. CASE Format
    <3>1. sb'.open = 0 /\ sb'.used = 0 /\ open' = 0 /\ used' = 0 /\ blk[0] = <<>> /\ None # 0
      BY <2>1, <2>3, Constants DEF Format, openVars, BufferInv, FillTrue
    <3>2. FillTrue'
      BY <2>1, <3>1 DEF FillTrue, Calling
    <3> QED BY <2>2, <3>2 DEF BufferInv
  <2>4. CASE Boot
    <3>1. FillTrue'
      BY <2>1, <2>4 DEF Boot, sdVars, BufferInv, FillTrue, Calling
    <3> QED BY <2>2, <3>1 DEF BufferInv
  <2> QED BY <1>5, <2>3, <2>4 DEF BootStep
<1>6. CASE UNCHANGED vars
  BY <1>6 DEF BufferInv, CachesCoherent, HeadersTrue, FillTrue, NoOverfill, Calling,
              vars, sdVars, flashVars, openVars, ramVars, ghosts
<1> QED
  BY <1>1, <1>2, <1>3, <1>4, <1>5, <1>6, BufferAppend, BufferEnd DEF Next

-----------------------------------------------------------------------------
(* The card.  A step is steady for a key when it changes nothing a reader  *)
(* of the key would see on the card.                                       *)

Steady(k) ==
    /\ \A c \in Buckets : SameFor(ht[c], ht'[c], k)
    /\ \A b \in Blocks : SameFor(blk[b], blk'[b], k)
    /\ \A b \in Blocks : HasKey(blk[b], k) => bit'[b] /\ ~(pc' = "program" /\ b = open')
    /\ val'[k] = val[k]

LEMMA SameIsSame == \A s, k : SameFor(s, s, k)
BY DEF SameFor

\* Where the hash table has the key.
LEMMA LookupIs ==
    ASSUME SdAssumption, CardTyped, NEW k \in Keys
    PROVE  /\ BucketsOf(k) = {} => HtLookup(k) = None
           /\ \A c \in Buckets, b \in Blocks :
                 BucketsOf(k) = {c} /\ Hashes(c, k, b) => HtLookup(k) = b
           /\ \A c, d \in Buckets, b, e \in Blocks :
                 BucketsOf(k) = {c, d} /\ Hashes(c, k, b) /\ Hashes(d, k, e) =>
                     HtLookup(k) \in {b, e}
<1>1. Hash1[k] \in Buckets /\ Hash2[k] \in Buckets
  BY Constants
<1>2. HtLookup(k) = IF HasKey(ht[Hash1[k]], k) THEN Of(ht[Hash1[k]], k).blk
                    ELSE IF HasKey(ht[Hash2[k]], k) THEN Of(ht[Hash2[k]], k).blk ELSE None
  BY DEF HtLookup, Of
<1> QED BY <1>1, <1>2 DEF BucketsOf, Hashes

LEMMA SteadyKeeps ==
    ASSUME SdAssumption, NEW k \in Keys, KeyTrue(k), Steady(k)
    PROVE  /\ \A c \in Buckets : Once(ht[c], k)'
           /\ \A b \in Blocks : Once(blk[b], k)'
           /\ InUse(k)' /\ BucketsOf(k)' = BucketsOf(k) /\ HtLookup(k)' = HtLookup(k)
           /\ \A c \in BucketsOf(k), b \in Blocks : Hashes(c, k, b)' <=> Hashes(c, k, b)
           /\ \A b \in Blocks : HasKey(blk'[b], k) <=> HasKey(blk[b], k)
           /\ \A b \in Blocks, v \in Vals \cup {Gone} : Stored(k, b, v) => Stored(k, b, v)'
           /\ Settled(k) => Settled(k)'
<1>1. /\ \A c \in Buckets : Once(ht'[c], k) /\ (HasKey(ht'[c], k) <=> HasKey(ht[c], k))
                            /\ (HasKey(ht[c], k) => Of(ht'[c], k) = Of(ht[c], k))
      /\ \A b \in Blocks : Once(blk'[b], k) /\ (HasKey(blk'[b], k) <=> HasKey(blk[b], k))
                            /\ (HasKey(blk[b], k) => Of(blk'[b], k) = Of(blk[b], k))
  BY DEF KeyTrue, Steady, SameFor
<1>2. Hash1[k] \in Buckets /\ Hash2[k] \in Buckets
  BY Constants
<1>3. BucketsOf(k)' = BucketsOf(k) /\ BucketsOf(k) \subseteq Buckets
  BY <1>1, <1>2 DEF BucketsOf
<1>4. HtLookup(k)' = HtLookup(k)
  <2>1. HtLookup(k) = IF HasKey(ht[Hash1[k]], k) THEN Of(ht[Hash1[k]], k).blk
                      ELSE IF HasKey(ht[Hash2[k]], k) THEN Of(ht[Hash2[k]], k).blk ELSE None
    BY DEF HtLookup, Of
  <2>2. HtLookup(k)' = IF HasKey(ht'[Hash1[k]], k) THEN Of(ht'[Hash1[k]], k).blk
                       ELSE IF HasKey(ht'[Hash2[k]], k) THEN Of(ht'[Hash2[k]], k).blk ELSE None
    BY DEF HtLookup, Of
  <2> QED BY <1>1, <1>2, <2>1, <2>2
<1>5. InUse(k)'
  BY <1>1 DEF Steady, InUse
<1>6. \A c \in BucketsOf(k), b \in Blocks : Hashes(c, k, b)' <=> Hashes(c, k, b)
  BY <1>1, <1>3 DEF Hashes
<1>7. \A b \in Blocks, v \in Vals \cup {Gone} : Stored(k, b, v) => Stored(k, b, v)'
  BY <1>1 DEF Stored
<1>8. Settled(k) => Settled(k)'
  <2>1. val'[k] = val[k]
    BY DEF Steady
  <2>2. ASSUME val[k] # Gone, NEW c \in Buckets, NEW b \in Blocks, BucketsOf(k) = {c},
               Hashes(c, k, b), Stored(k, b, val[k])
        PROVE  BucketsOf(k)' = {c} /\ Hashes(c, k, b)' /\ Stored(k, b, val[k])'
    BY <1>1, <1>3, <1>6, <2>1, <2>2 DEF Stored
  <2> QED BY <1>3, <2>1, <2>2 DEF Settled
<1> QED BY <1>1, <1>3, <1>4, <1>5, <1>6, <1>7, <1>8

\* A call's first step, and every step of another key's call.
LEMMA SettledStep ==
    ASSUME SdAssumption, NEW k \in Keys, KeyTrue(k), Steady(k), ~Changing(k),
           Changing(k)' => ~Putting'
    PROVE  KeyTrue(k)'
<1>1. Settled(k)
  BY DEF KeyTrue
<1>2. Settled(k)' /\ InUse(k)' /\ (\A c \in Buckets : Once(ht[c], k)')
      /\ \A b \in Blocks : Once(blk[b], k)'
  BY <1>1, SteadyKeeps
<1>3. DeleteTrue(k)'
  <2>1. CASE val'[k] = Gone
    BY <1>2, <2>1 DEF Settled, DeleteTrue
  <2>2. CASE val'[k] # Gone
    BY <1>2, <2>2 DEF Settled, DeleteTrue
  <2> QED BY <2>1, <2>2
<1> QED BY <1>2, <1>3 DEF KeyTrue

\* Steps that write no card and no entry of the hash table, and power cuts.
QuietStep ==
    \/ Call \/ Allocate \/ CardFull \/ WriteGarbled \/ Overfill \/ FlushStep \/ CutStep \/ BootStep

LEMMA QuietSteady ==
    ASSUME SdAssumption, TypeInv, BufferInv, QuietStep, NEW k \in Keys \ excused', KeyTrue(k)
    PROVE  Steady(k)
<1>0. /\ blk \in [Blocks -> Seq(Card)] /\ ht \in [Buckets -> Seq(HtEntry)] /\ open \in Blocks
      /\ bit \in [Blocks -> BOOLEAN] /\ val \in [Keys -> Vals \cup {Gone}]
  BY DEF TypeInv, CardTyped, BuffersTyped, HistoryTyped
<1>1. ASSUME UNCHANGED <<ht, blk, val>>,
             \A b \in Blocks : HasKey(blk[b], k) => bit'[b] /\ ~(pc' = "program" /\ b = open')
      PROVE  Steady(k)
  BY <1>1, SameIsSame DEF Steady
<1>2. ASSUME UNCHANGED bit, pc' # "program"
      PROVE  \A b \in Blocks : HasKey(blk[b], k) => bit'[b] /\ ~(pc' = "program" /\ b = open')
  BY <1>2 DEF KeyTrue, InUse
<1>3. CASE Call \/ FlushStep \/ BootStep \/ CardFull \/ WriteGarbled \/ Overfill
  <2>1. UNCHANGED <<ht, blk, val>> /\ pc' # "program"
    BY <1>3 DEF Call, Put, Delete, Get, Begin, FlushStep, FlushSuper, FlushErase, FlushSeal,
       BootStep, Format, Boot, CardFull, WriteGarbled, Overfill, sdVars, ghosts
  <2>2. \A b \in Blocks : bit[b] => bit'[b]
    BY <1>0, <1>3 DEF Call, Put, Delete, Get, Begin, FlushStep, FlushSuper, FlushErase, FlushSeal,
       BootStep, Format, Boot, CardFull, WriteGarbled, Overfill, sdVars
  <2> QED BY <1>1, <2>1, <2>2 DEF KeyTrue, InUse
<1>4. CASE Allocate
  <2>1. PICK b \in Blocks : IsFree(b) /\ bit' = [bit EXCEPT ![b] = TRUE] /\ open' = b
    BY <1>4 DEF Allocate
  <2>2. UNCHANGED <<ht, blk, val>>
    BY <1>4 DEF Allocate, ghosts
  <2>3. \A c \in Blocks : HasKey(blk[c], k) => bit[c] /\ c # b
    BY <2>1 DEF IsFree, KeyTrue, InUse
  <2> QED BY <1>0, <1>1, <2>1, <2>2, <2>3
<1>5. CASE CutStep
  <2>1. UNCHANGED <<val, bit>> /\ pc' # "program"
    BY <1>5 DEF CutStep, CutClean, CutBucket, CutBlock, PowerCut
  <2>2. CASE UNCHANGED <<ht, blk>>
    BY <1>2, <2>1, <2>2, SameIsSame DEF Steady
  <2>3. ASSUME NEW s, k \notin KeysOf(s) PROVE SameFor(s, <<>>, k)
    BY <2>3 DEF SameFor, KeysOf, HasKey, Once
  <2>4. ASSUME NEW b \in TornBuckets, PowerCut(KeysOf(ht[b])), ht' = [ht EXCEPT ![b] = <<>>],
               UNCHANGED blk
        PROVE  Steady(k)
    <3>1. k \notin KeysOf(ht[b])
      BY <2>4 DEF PowerCut
    <3>2. \A c \in Buckets : SameFor(ht[c], ht'[c], k)
      BY <1>0, <2>3, <2>4, <3>1, SameIsSame
    <3> QED BY <1>2, <2>1, <2>4, <3>2, SameIsSame DEF Steady
  <2>5. ASSUME NEW b \in TornBlocks, PowerCut(KeysOf(blk[b])), blk' = [blk EXCEPT ![b] = <<>>],
               UNCHANGED ht
        PROVE  Steady(k)
    <3>1. k \notin KeysOf(blk[b])
      BY <2>5 DEF PowerCut
    <3>2. \A c \in Blocks : SameFor(blk[c], blk'[c], k)
      BY <1>0, <2>3, <2>5, <3>1, SameIsSame
    <3> QED BY <1>2, <2>1, <2>5, <3>2, SameIsSame DEF Steady
  <2> QED BY <1>5, <2>2, <2>4, <2>5, CutForms
<1> QED
  BY <1>3, <1>4, <1>5 DEF QuietStep

\* Steps of append, hash and removal, seen by another key.
LEMMA OthersSteady ==
    ASSUME SdAssumption, TypeInv, BufferInv, Next,
           NEW k \in Keys \ excused', KeyTrue(k), Calling => op.key # k
    PROVE  Steady(k)
<1>0. /\ blk \in [Blocks -> Seq(Card)] /\ ht \in [Buckets -> Seq(HtEntry)] /\ open \in Blocks
      /\ bit \in [Blocks -> BOOLEAN] /\ val \in [Keys -> Vals \cup {Gone}]
  BY DEF TypeInv, CardTyped, BuffersTyped, HistoryTyped
<1>1. ASSUME UNCHANGED <<ht, blk, val>>,
             \A b \in Blocks : HasKey(blk[b], k) => bit'[b] /\ ~(pc' = "program" /\ b = open')
      PROVE  Steady(k)
  BY <1>1, SameIsSame DEF Steady
<1>2. ASSUME UNCHANGED bit, pc' # "program"
      PROVE  \A b \in Blocks : HasKey(blk[b], k) => bit'[b] /\ ~(pc' = "program" /\ b = open')
  BY <1>2 DEF KeyTrue, InUse
<1>3. CASE QuietStep
  BY <1>3, QuietSteady
<1>5. CASE WriteCard
  <2>1. /\ UNCHANGED <<ht, val, bit>> /\ pc' = "hash" /\ blk' = [blk EXCEPT ![open] = NewEnts]
        /\ op.key # k
    BY <1>5 DEF WriteCard, Programming, Calling
  <2>2. [key |-> op.key, val |-> op.val] \in Card /\ OpenEnts \in Seq(Card)
    BY <1>5, NewEntsIn, OpenEntsIn DEF WriteCard
  <2>3. SameFor(OpenEnts, NewEnts, k)
    <3> DEFINE e == [key |-> op.key, val |-> op.val]
    <3>1. e \in Card /\ e.key = op.key /\ NewEnts = Append(OpenEnts, e)
      BY <2>2 DEF NewEnts
    <3> HIDE DEF e
    <3> QED BY <2>1, <2>2, <3>1, AppendIs
  <2>4. SameFor(blk[open], NewEnts, k)
    <3>1. CASE pc # "program"
      BY <2>3, <3>1, OpenEntsAre
    <3>2. CASE pc = "program"
      <4>1. OpenEnts = <<>> /\ ~HasKey(blk[open], k)
        BY <1>0, <3>2, OpenEntsAre DEF KeyTrue, InUse
      <4>2. Once(<<>>, k) /\ ~HasKey(<<>>, k)
        BY DEF Once, HasKey
      <4> QED BY <2>3, <4>1, <4>2 DEF SameFor
    <3> QED BY <3>1, <3>2
  <2>5. \A b \in Blocks : SameFor(blk[b], blk'[b], k)
    BY <1>0, <2>1, <2>4, SameIsSame
  <2> QED BY <1>2, <2>1, <2>5, SameIsSame DEF Steady
<1>6. ASSUME UNCHANGED <<blk, bit>>, pc' # "program", val'[k] = val[k],
             NEW b \in Buckets, NEW new \in Seq(HtEntry),
             ht' = [ht EXCEPT ![b] = new], SameFor(ht[b], new, k)
      PROVE  Steady(k)
  BY <1>0, <1>2, <1>6, SameIsSame DEF Steady
<1>7. CASE HashStep
  <2>0. /\ Calling /\ op.key # k /\ op.key \in Keys /\ UNCHANGED <<blk, bit>> /\ pc' # "program"
        /\ val'[k] = val[k] /\ B1 \in Buckets /\ B2 \in Buckets
        /\ AppendTo \subseteq {B1, B2} /\ ReplaceIn \subseteq {B1, B2}
    <3>1. Calling
      BY <1>7 DEF HashStep, HashAdd, HashDrop, Unhash, Calling
    <3> QED
    BY <1>0, <1>7, <3>1, CallBuckets DEF HashStep, HashAdd, HashDrop, Unhash, Answer, ghosts
  <2>1. ASSUME NEW b \in AppendTo,
               ht' = [ht EXCEPT ![b] = Hashed(b, [key |-> op.key, blk |-> open])]
        PROVE  Steady(k)
    <3> DEFINE e == [key |-> op.key, blk |-> open]
    <3>1. e \in HtEntry /\ e.key = op.key /\ b \in Buckets /\ ht[b] \in Seq(HtEntry)
      BY <1>0, <2>0, <2>1 DEF HtEntry
    <3>2. ht' = [ht EXCEPT ![b] = Hashed(b, e)]
      BY <2>1
    <3> HIDE DEF e
    <3>3. Hashed(b, e) = Append(ht[b], e) /\ Append(ht[b], e) \in Seq(HtEntry)
      BY <3>1, AppendIs DEF Hashed
    <3>4. k # e.key
      BY <2>0, <3>1
    <3>5. SameFor(ht[b], Append(ht[b], e), k)
      BY <3>1, <3>4, AppendIs
    <3> QED BY <1>6, <2>0, <3>1, <3>2, <3>3, <3>5
  <2>2. ASSUME NEW b \in ReplaceIn, ht' = [ht EXCEPT ![b][First(ht[b], op.key)].blk = open]
        PROVE  Steady(k)
    <3> DEFINE new == [ht[b] EXCEPT ![First(ht[b], op.key)].blk = open]
    <3>1. ht' = [ht EXCEPT ![b] = new] /\ b \in Buckets
      BY <2>0, <2>2
    <3>2. HasKey(ht[b], op.key) /\ ht[b] \in Seq(HtEntry)
      BY <1>0, <2>0, <2>2, CallBuckets DEF Holds
    <3>3. new \in Seq(HtEntry) /\ SameFor(ht[b], new, k)
      BY <1>0, <2>0, <3>2, ReplacedIs
    <3> HIDE DEF new
    <3> QED BY <1>6, <2>0, <3>1, <3>3
  <2>3. ASSUME NEW b \in Buckets, Holds(b), ht' = [ht EXCEPT ![b] = Swapped(@, op.key)]
        PROVE  Steady(k)
    <3>1. Swapped(ht[b], op.key) \in Seq(HtEntry) /\ SameFor(ht[b], Swapped(ht[b], op.key), k)
      BY <1>0, <2>0, <2>3, SwappedIs DEF Holds
    <3>2. ht' = [ht EXCEPT ![b] = Swapped(ht[b], op.key)]
      BY <2>3
    <3> QED BY <1>6, <2>0, <3>1, <3>2
  <2>4. CASE ht' = ht
    BY <1>2, <2>0, <2>4, SameIsSame DEF Steady
  <2>5. CASE HashAdd
    BY <2>1, <2>2, <2>4, <2>5 DEF HashAdd
  <2>6. CASE HashDrop
    <3>1. \A b \in op.drop : b \in Buckets /\ Holds(b)
      BY <2>6 DEF HashDrop, TypeInv, CallTyped
    <3> QED BY <2>3, <2>6, <3>1 DEF HashDrop
  <2>7. CASE Unhash
    BY <2>0, <2>3, <2>4, <2>7 DEF Unhash
  <2> QED BY <1>7, <2>5, <2>6, <2>7 DEF HashStep
<1>8. CASE EndStep
  <2>0. /\ Calling /\ op.key # k /\ UNCHANGED ht /\ pc' # "program" /\ val'[k] = val[k]
        /\ pc # "program" /\ (pc # "index" => op.old \in Blocks)
    BY <1>0, <1>8 DEF EndStep, IndexPut, RemoveNothing, RemoveOld, FreeBlock, AfterRemoval, Answer,
       GoOn, Calling, sdVars, TypeInv, CallTyped
  <2>1. CASE IndexPut \/ RemoveNothing
    <3>1. UNCHANGED <<blk, bit>>
      BY <2>1 DEF IndexPut, RemoveNothing, sdVars
    <3> QED BY <1>2, <2>0, <3>1, SameIsSame DEF Steady
  <2>2. CASE RemoveOld
    <3>1. op.old \in Blocks /\ Content(op.old) = blk[op.old] /\ HasKey(blk[op.old], op.key)
      BY <2>0, <2>2, ContentIs DEF RemoveOld, BufferInv
    <3>2. SameFor(blk[op.old], Without(blk[op.old], op.key), k)
      BY <1>0, <2>0, <3>1, WithoutIs
    <3>3. UNCHANGED bit /\ blk' = [blk EXCEPT ![op.old] = Without(blk[op.old], op.key)]
      BY <2>2, <3>1 DEF RemoveOld
    <3>4. \A b \in Blocks : SameFor(blk[b], blk'[b], k)
      BY <1>0, <3>1, <3>2, <3>3, SameIsSame
    <3> QED BY <1>2, <2>0, <3>3, <3>4, SameIsSame DEF Steady
  <2>3. CASE FreeBlock
    <3>1. blk[op.old] = <<>> /\ bit' = [bit EXCEPT ![op.old] = FALSE] /\ blk' = blk
      BY <2>3 DEF FreeBlock, TypeInv, CallTyped
    <3>2. ~HasKey(blk[op.old], k)
      BY <3>1 DEF HasKey
    <3>3. \A b \in Blocks : HasKey(blk[b], k) => bit'[b] /\ ~(pc' = "program" /\ b = open')
      BY <1>0, <2>0, <3>1, <3>2 DEF KeyTrue, InUse
    <3> QED BY <2>0, <3>1, <3>3, SameIsSame DEF Steady
  <2> QED BY <1>8, <2>1, <2>2, <2>3 DEF EndStep
<1> QED
  BY <1>3, <1>5, <1>7, <1>8 DEF Next, QuietStep, AppendStep

-----------------------------------------------------------------------------
(* The card holds its invariant.                                           *)

LEMMA CardInit == SdAssumption /\ Init => CardInv
<1> SUFFICES ASSUME SdAssumption, Init, NEW k \in Keys PROVE KeyTrue(k)
  BY DEF CardInv
<1>1. Hash1[k] \in Buckets /\ Hash2[k] \in Buckets
  BY Constants
<1>2. (\A c \in Buckets : ht[c] = <<>>) /\ (\A b \in Blocks : blk[b] = <<>>) /\ val[k] = Gone
      /\ pc = "off"
  BY DEF Init
<1>3. ~HasKey(<<>>, k) /\ Once(<<>>, k)
  BY DEF HasKey, Once
<1>4. BucketsOf(k) = {}
  BY <1>1, <1>2, <1>3 DEF BucketsOf
<1> QED BY <1>2, <1>3, <1>4 DEF KeyTrue, InUse, Changing, Settled

\* A key keeps its place on the card as long as no call on it changes something.
LEMMA OthersKeep ==
    ASSUME SdAssumption, TypeInv, BufferInv, Next,
           NEW k \in Keys \ excused', KeyTrue(k), Calling => op.key # k
    PROVE  KeyTrue(k)'
<1>1. Steady(k) /\ ~Changing(k)
  BY OthersSteady DEF Changing, Calling
<1>2. Changing(k)' => ~Putting'
  <2>1. CASE Call
    BY <2>1 DEF Call, Put, Delete, Get, Begin, Changing, Putting
  <2>2. CASE FlushStep \/ CutStep \/ BootStep
    BY <2>2 DEF FlushStep, FlushSuper, FlushErase, FlushSeal, CutStep, CutClean, CutBucket, CutBlock,
                PowerCut, BootStep, Format, Boot, Changing
  <2>3. CASE AppendStep \/ HashStep \/ EndStep
    <3>1. op.key # k
      BY <2>3 DEF AppendStep, Allocate, CardFull, WriteCard, WriteGarbled, Overfill, Programming,
         HashStep, HashAdd, HashDrop, Unhash, EndStep, IndexPut, RemoveNothing, RemoveOld, FreeBlock,
         Calling
    <3>2. op'.key = op.key \/ pc' = "idle"
      <4>1. CASE AppendStep
        BY <4>1 DEF AppendStep, Allocate, CardFull, WriteCard, WriteGarbled, Overfill
      <4>2. CASE HashStep
        <5>1. op \in [key : Keys \cup {0}, val : Vals \cup {Gone}, old : Places, drop : SUBSET Buckets]
          BY DEF TypeInv, CallTyped
        <5> QED BY <4>2, <5>1 DEF HashStep, HashAdd, HashDrop, Unhash, Answer, ghosts
      <4>3. CASE EndStep
        BY <4>3 DEF EndStep, IndexPut, RemoveNothing, RemoveOld, FreeBlock, AfterRemoval, Answer, GoOn
      <4> QED BY <2>3, <4>1, <4>2, <4>3
    <3> QED BY <3>1, <3>2 DEF Changing
  <2> QED BY <2>1, <2>2, <2>3 DEF Next
<1> QED BY <1>1, <1>2, SettledStep

\* packed_append, for the key of the call.
LEMMA AppendKeeps ==
    ASSUME SdAssumption, TypeInv, BufferInv, AppendStep,
           NEW k \in Keys \ excused', KeyTrue(k), op.key = k
    PROVE  KeyTrue(k)'
<1>0. /\ ~Changing(k) /\ Settled(k) /\ Putting /\ open \in Blocks
      /\ blk \in [Blocks -> Seq(Card)] /\ ht \in [Buckets -> Seq(HtEntry)]
  BY DEF AppendStep, Allocate, CardFull, WriteCard, WriteGarbled, Overfill, Programming, Changing,
     KeyTrue, TypeInv, CallTyped, CardTyped, BuffersTyped
<1>1. CASE Allocate \/ CardFull \/ Overfill
  <2>1. Steady(k)
    BY <1>1, QuietSteady DEF QuietStep
  <2>2. ~Changing(k)'
    BY <1>1 DEF Allocate, CardFull, Overfill, Changing
  <2> QED BY <1>0, <2>1, <2>2, SettledStep
<1>2. CASE WriteCard
  <2> DEFINE e == [key |-> op.key, val |-> op.val]
  <2>1. /\ UNCHANGED <<ht, val, bit, op, open>> /\ pc' = "hash" /\ blk' = [blk EXCEPT ![open] = NewEnts]
        /\ ~HasKey(OpenEnts, k) /\ bit[open] /\ Programming
    BY <1>2 DEF WriteCard
  <2>2. e \in Card /\ OpenEnts \in Seq(Card) /\ NewEnts = Append(OpenEnts, e) /\ e.key = k
        /\ e.val = op.val
    BY <2>1, NewEntsIn, OpenEntsIn DEF NewEnts
  <2> HIDE DEF e
  <2>3. Once(NewEnts, k) /\ HasKey(NewEnts, k) /\ Of(NewEnts, k).val = op.val
    BY <2>1, <2>2, AppendIs
  <2>4. ~HasKey(blk[open], k)
    <3>1. CASE pc = "program"
      BY <1>0, <3>1 DEF KeyTrue, InUse
    <3>2. CASE pc # "program"
      BY <2>1, <3>2, OpenEntsAre
    <3> QED BY <3>1, <3>2
  <2>5. /\ blk'[open] = NewEnts
        /\ \A b \in Blocks : b # open => blk'[b] = blk[b]
    BY <1>0, <2>1
  <2>6. Stored(k, open, op.val)'
    BY <1>0, <2>1, <2>3, <2>5 DEF Stored
  <2>7. InUse(k)' /\ (\A c \in Buckets : Once(ht[c], k)') /\ (\A b \in Blocks : Once(blk[b], k)')
    BY <1>0, <2>1, <2>3, <2>5 DEF KeyTrue, InUse
  <2>8. BucketsOf(k)' = BucketsOf(k) /\ (\A c \in Buckets : \A b : Hashes(c, k, b)' <=> Hashes(c, k, b))
    BY <2>1 DEF BucketsOf, Hashes
  <2>9. ASSUME NEW c \in Buckets, NEW b \in Blocks, val[k] # Gone, BucketsOf(k) = {c},
               Hashes(c, k, b), Stored(k, b, val[k])
        PROVE  Settled(k)' /\ \A d \in BucketsOf(k)' : ~Hashes(d, k, open)'
    <3>1. b # open
      BY <2>4, <2>9 DEF Stored
    <3>2. Stored(k, b, val[k])' /\ val'[k] = val[k]
      BY <2>1, <2>5, <2>9, <3>1 DEF Stored
    <3>3. ~Hashes(c, k, open)'
      BY <2>1, <2>9, <3>1 DEF Hashes
    <3> QED BY <2>8, <2>9, <3>2, <3>3 DEF Settled
  <2>10. ASSUME val[k] = Gone
         PROVE  Settled(k)' /\ BucketsOf(k)' = {}
    BY <1>0, <2>1, <2>8, <2>10 DEF Settled
  <2>11. Settled(k)' /\ \A d \in BucketsOf(k)' : ~Hashes(d, k, open)'
    BY <1>0, <2>9, <2>10 DEF Settled
  <2>12. PutTrue(k)'
    BY <2>1, <2>6, <2>11 DEF PutTrue
  <2>13. Changing(k)' /\ Putting'
    BY <1>0, <2>1 DEF Changing, Putting
  <2> QED BY <2>7, <2>12, <2>13 DEF KeyTrue
<1>3. CASE WriteGarbled
  BY <1>3 DEF WriteGarbled
<1> QED BY <1>1, <1>2, <1>3 DEF AppendStep

\* ht_insert and ht_remove, for the key of the call.
LEMMA HashKeeps ==
    ASSUME SdAssumption, TypeInv, BufferInv, HashStep,
           NEW k \in Keys \ excused', KeyTrue(k), op.key = k
    PROVE  KeyTrue(k)'
<1>0. /\ Calling /\ Changing(k) /\ open \in Blocks /\ B1 \in Buckets /\ B2 \in Buckets
      /\ blk \in [Blocks -> Seq(Card)] /\ ht \in [Buckets -> Seq(HtEntry)]
      /\ op \in [key : Keys \cup {0}, val : Vals \cup {Gone}, old : Places, drop : SUBSET Buckets]
      /\ val \in [Keys -> Vals \cup {Gone}]
      /\ UNCHANGED <<blk, bit, open>> /\ pc' \in {"index", "rehash", "idle"}
      /\ op.key \in Keys
  <2>1. Calling /\ Changing(k)
    BY DEF HashStep, HashAdd, HashDrop, Unhash, Calling, Changing
  <2> QED
    BY <2>1, CallBuckets DEF HashStep, HashAdd, HashDrop, Unhash, Answer, openVars, ramVars,
       TypeInv, CallTyped, CardTyped, BuffersTyped, HistoryTyped
<1>1. BucketsOf(k) = {c \in {B1, B2} : Holds(c)} /\ BucketsOf(k)' = {c \in {B1, B2} : HasKey(ht'[c], k)}
  BY DEF BucketsOf, B1, B2, Holds
<1>2. InUse(k)' /\ (\A b \in Blocks : Once(blk[b], k)')
  BY <1>0 DEF KeyTrue, InUse
<1>3. \A b \in Blocks : \A v : Stored(k, b, v)' <=> Stored(k, b, v)
  BY <1>0 DEF Stored
<1>4. CASE HashAdd
  <2>0. pc = "hash" /\ Putting /\ op.drop = {} /\ UNCHANGED val
    BY <1>4 DEF HashAdd, TypeInv, CallTyped
  <2>1. /\ Settled(k) /\ Stored(k, open, op.val)
        /\ \A c \in BucketsOf(k) : ~Hashes(c, k, open)
    BY <1>0, <2>0 DEF KeyTrue, PutTrue
  <2>2. \A c, d \in BucketsOf(k) : c = d
    BY <2>1 DEF Settled
  <2>3. ASSUME NEW b \in AppendTo,
               ht' = [ht EXCEPT ![b] = Hashed(b, [key |-> op.key, blk |-> open])],
               op' = [op EXCEPT !.drop = {c \in {B1, B2} \ {b} : Holds(c)}]
        PROVE  KeyTrue(k)'
    <3> DEFINE e == [key |-> op.key, blk |-> open]
    <3>1. ~Holds(b) /\ b \in {B1, B2}
      <4>1. ~(Holds(B1) /\ Holds(B2) /\ B1 # B2)
        BY <1>1, <2>2
      <4> QED BY <2>3, <4>1 DEF AppendTo
    <3>2. e \in HtEntry /\ e.key = k /\ e.blk = open /\ b \in Buckets /\ ht[b] \in Seq(HtEntry)
      BY <1>0, <3>1 DEF HtEntry
    <3>3. ht' = [ht EXCEPT ![b] = Hashed(b, e)]
      BY <2>3
    <3> HIDE DEF e
    <3>4. Hashed(b, e) = Append(ht[b], e)
      BY <3>2, AppendIs DEF Hashed
    <3>5. ~HasKey(ht[b], k)
      BY <3>1 DEF Holds
    <3>6. Once(ht'[b], k) /\ HasKey(ht'[b], k) /\ Of(ht'[b], k).blk = open
      <4>1. ht'[b] = Append(ht[b], e)
        BY <1>0, <3>2, <3>3, <3>4
      <4> QED BY <3>2, <3>5, <4>1, AppendIs
    <3>7. \A c \in Buckets : c # b => ht'[c] = ht[c]
      BY <1>0, <3>3
    <3>8. \A c \in Buckets : Once(ht[c], k)'
      BY <3>6, <3>7 DEF KeyTrue
    <3>9. BucketsOf(k)' = BucketsOf(k) \cup {b} /\ b \notin BucketsOf(k) /\ BucketsOf(k) \subseteq Buckets
      BY <1>0, <1>1, <3>1, <3>6, <3>7 DEF Holds
    <3>10. op'.drop = BucketsOf(k) /\ op'.key = k /\ op'.val = op.val
      <4>1. op'.drop = {c \in {B1, B2} \ {b} : Holds(c)} /\ op'.key = op.key /\ op'.val = op.val
        BY <1>0, <2>3
      <4> QED BY <1>1, <3>1, <4>1
    <3>11. Hashes(b, k, open)'
      BY <1>0, <3>6 DEF Hashes
    <3>12. CASE BucketsOf(k) = {}
      <4>1. pc' = "index"
        BY <1>4, <3>10, <3>12 DEF HashAdd
      <4>2. Moved(k)'
        <5>1. BucketsOf(k)' = {b}
          BY <3>9, <3>12
        <5>2. Stored(k, open, op.val)'
          BY <1>0, <2>1, <3>10 DEF Stored
        <5> QED BY <3>2, <3>11, <5>1, <5>2 DEF Moved
      <4>3. PutTrue(k)' /\ Putting'
        BY <2>0, <3>10, <4>1, <4>2 DEF PutTrue, Putting
      <4>4. Changing(k)'
        BY <3>10, <4>1 DEF Changing
      <4> QED BY <1>2, <3>8, <4>3, <4>4 DEF KeyTrue
    <3>13. CASE BucketsOf(k) # {}
      <4>1. pc' = "rehash"
        BY <1>4, <3>10, <3>13 DEF HashAdd
      <4>2. PICK c \in Buckets, b2 \in Blocks :
                BucketsOf(k) = {c} /\ Hashes(c, k, b2) /\ Stored(k, b2, val[k])
        BY <2>1, <3>13 DEF Settled
      <4>3. op'.drop = {c} /\ c # b /\ BucketsOf(k)' = {c, b}
        BY <3>9, <3>10, <4>2
      <4>4. Hashes(c, k, b2)' /\ Stored(k, b2, val[k])'
        BY <1>0, <2>0, <3>7, <4>2, <4>3 DEF Hashes, Stored
      <4>5. Stored(k, open, op.val)'
        BY <1>0, <2>1, <3>10 DEF Stored
      <4>6. PutTrue(k)' /\ Putting'
        BY <2>0, <3>2, <3>10, <3>11, <4>1, <4>3, <4>4, <4>5 DEF PutTrue, Putting
      <4>7. Changing(k)'
        BY <3>10, <4>1 DEF Changing
      <4> QED BY <1>2, <3>8, <4>6, <4>7 DEF KeyTrue
    <3> QED BY <3>12, <3>13
  <2>4. ASSUME NEW b \in ReplaceIn, ht' = [ht EXCEPT ![b][First(ht[b], op.key)].blk = open],
               UNCHANGED op
        PROVE  KeyTrue(k)'
    <3> DEFINE new == [ht[b] EXCEPT ![First(ht[b], op.key)].blk = open]
    <3>1. Holds(b) /\ b \in {B1, B2} /\ b \in Buckets
      BY <1>0, <2>4, CallBuckets
    <3>2. HasKey(ht[b], op.key) /\ ht[b] \in Seq(HtEntry)
      BY <1>0, <3>1 DEF Holds
    <3>3. new \in Seq(HtEntry) /\ (Once(ht[b], k) => Once(new, k) /\ HasKey(new, k) /\ Of(new, k).blk = open)
      <4>1. ht[b] \in Seq(HtEntry) /\ HasKey(ht[b], k) /\ open \in Blocks /\ op.key = k
        BY <1>0, <3>2
      <4> QED BY <4>1, ReplacedIs
    <3>4. ht' = [ht EXCEPT ![b] = new]
      BY <2>4
    <3> HIDE DEF new
    <3>5. Once(ht'[b], k) /\ HasKey(ht'[b], k) /\ Of(ht'[b], k).blk = open
      BY <1>0, <3>1, <3>3, <3>4 DEF KeyTrue
    <3>6. \A c \in Buckets : c # b => ht'[c] = ht[c]
      BY <1>0, <3>4
    <3>7. \A c \in Buckets : Once(ht[c], k)'
      BY <3>5, <3>6 DEF KeyTrue
    <3>8. BucketsOf(k)' = {b}
      <4>1. \A c \in {B1, B2} : Holds(c) => c = b
        BY <1>1, <2>2, <3>1
      <4> QED BY <1>0, <1>1, <3>1, <3>5, <3>6, <4>1 DEF Holds
    <3>9. Hashes(b, k, open)'
      BY <1>0, <3>5 DEF Hashes
    <3>10. pc' = "index"
      BY <1>4, <2>0, <2>4 DEF HashAdd
    <3>11. Stored(k, open, op.val)'
      BY <1>0, <2>1, <2>4 DEF Stored
    <3>12. Moved(k)'
      BY <3>1, <3>8, <3>9, <3>11 DEF Moved
    <3>13. PutTrue(k)' /\ Putting' /\ Changing(k)'
      BY <2>0, <2>4, <3>10, <3>12 DEF PutTrue, Putting, Changing
    <3> QED BY <1>2, <3>7, <3>13 DEF KeyTrue
  <2> QED BY <1>4, <2>3, <2>4 DEF HashAdd
<1>5. CASE HashDrop
  <2>0. pc = "rehash" /\ Putting /\ UNCHANGED <<val, op>> /\ pc' = "index"
    BY <1>5 DEF HashDrop, TypeInv, CallTyped, ghosts
  <2>1. Stored(k, open, op.val)
    BY <1>0, <2>0 DEF KeyTrue, PutTrue
  <2>2. PICK c \in Buckets, d \in Buckets, b \in Blocks :
                /\ op.drop = {c} /\ c # d /\ BucketsOf(k) = {c, d}
                /\ Hashes(c, k, b) /\ Stored(k, b, val[k]) /\ Hashes(d, k, open)
    BY <1>0, <2>0 DEF KeyTrue, PutTrue
  <2>3. ht' = [ht EXCEPT ![c] = Swapped(@, k)]
    BY <1>5, <2>2 DEF HashDrop
  <2>4. HasKey(ht[c], k) /\ ht[c] \in Seq(HtEntry) /\ Once(ht[c], k)
    BY <1>0, <2>2 DEF Hashes, KeyTrue
  <2>5. ~HasKey(Swapped(ht[c], k), k)
    BY <2>4, SwappedIs
  <2>6. ht'[c] = Swapped(ht[c], k) /\ \A x \in Buckets : x # c => ht'[x] = ht[x]
    BY <1>0, <2>3
  <2>7. ~HasKey(ht'[c], k) /\ Once(ht'[c], k)
    BY <2>5, <2>6 DEF Once, HasKey
  <2>8. \A x \in Buckets : Once(ht[x], k)'
    BY <2>6, <2>7 DEF KeyTrue
  <2>9. BucketsOf(k)' = {d}
    <3>1. \A x \in {B1, B2} : HasKey(ht'[x], k) <=> x = d
      <4>1. \A x \in {B1, B2} : Holds(x) <=> (x = c \/ x = d)
        BY <1>1, <2>2
      <4> QED BY <1>0, <2>2, <2>6, <2>7, <4>1 DEF Holds
    <3>2. d \in {B1, B2}
      BY <1>1, <2>2
    <3> QED BY <1>1, <3>1, <3>2
  <2>10. Hashes(d, k, open)'
    BY <1>0, <2>2, <2>6 DEF Hashes
  <2>11. Stored(k, open, op.val)'
    BY <1>0, <2>0, <2>1 DEF Stored
  <2>12. Moved(k)'
    BY <2>9, <2>10, <2>11 DEF Moved
  <2>13. PutTrue(k)' /\ Putting' /\ Changing(k)'
    BY <2>0, <2>12 DEF PutTrue, Putting, Changing
  <2> QED BY <1>2, <2>8, <2>13 DEF KeyTrue
<1>6. CASE Unhash
  <2>0. pc = "unhash" /\ op.val = Gone /\ val'[k] = Gone /\ pc' = "idle"
    BY <1>0, <1>6 DEF Unhash, Answer, TypeInv, CallTyped, Putting
  <2>1. DeleteTrue(k)
    BY <1>0, <2>0 DEF KeyTrue, Putting
  <2>2. \A c, d \in BucketsOf(k) : c = d
    BY <2>1 DEF DeleteTrue
  <2>3. ASSUME NEW c \in {B1, B2}, Holds(c), ht' = [ht EXCEPT ![c] = Swapped(@, k)]
        PROVE  BucketsOf(k)' = {} /\ \A x \in Buckets : Once(ht[x], k)'
    <3>1. HasKey(ht[c], k) /\ ht[c] \in Seq(HtEntry) /\ Once(ht[c], k) /\ c \in Buckets
      BY <1>0, <2>3 DEF Holds, KeyTrue
    <3>2. ~HasKey(Swapped(ht[c], k), k)
      BY <3>1, SwappedIs
    <3>3. ht'[c] = Swapped(ht[c], k) /\ \A x \in Buckets : x # c => ht'[x] = ht[x]
      BY <1>0, <2>3, <3>1
    <3>4. ~HasKey(ht'[c], k) /\ Once(ht'[c], k)
      BY <3>2, <3>3 DEF Once, HasKey
    <3>5. \A x \in {B1, B2} : x # c => ~HasKey(ht[x], k)
      BY <1>1, <2>2, <2>3 DEF Holds
    <3> QED BY <1>0, <1>1, <3>3, <3>4, <3>5 DEF KeyTrue
  <2>4. ASSUME ~Holds(B1), ~Holds(B2), ht' = ht
        PROVE  BucketsOf(k)' = {} /\ \A x \in Buckets : Once(ht[x], k)'
    BY <1>1, <2>4 DEF Holds, KeyTrue
  <2>5. BucketsOf(k)' = {} /\ \A x \in Buckets : Once(ht[x], k)'
    BY <1>6, <2>3, <2>4 DEF Unhash
  <2>6. Settled(k)'
    BY <2>0, <2>5 DEF Settled
  <2>7. ~Changing(k)'
    BY <2>0 DEF Changing
  <2> QED BY <1>2, <2>5, <2>6, <2>7 DEF KeyTrue
<1> QED BY <1>4, <1>5, <1>6 DEF HashStep

\* The removal of the old version, for the key of the call.
LEMMA EndKeeps ==
    ASSUME SdAssumption, TypeInv, BufferInv, EndStep,
           NEW k \in Keys \ excused', KeyTrue(k), op.key = k
    PROVE  KeyTrue(k)'
<1>0. /\ Changing(k) /\ open \in Blocks /\ op.key \in Keys
      /\ blk \in [Blocks -> Seq(Card)] /\ bit \in [Blocks -> BOOLEAN]
      /\ val \in [Keys -> Vals \cup {Gone}]
      /\ UNCHANGED <<ht, open>> /\ pc' \in {"idle", "remove", "free", "unhash"}
      /\ pc \in {"index", "remove", "free"} /\ (pc # "index" => op.old \in Blocks)
      /\ (pc # "index" /\ Putting => op.old # open) /\ (pc = "index" => Putting)
  BY DEF EndStep, IndexPut, RemoveNothing, RemoveOld, FreeBlock, AfterRemoval, Answer, GoOn,
       openVars, ramVars, sdVars, Changing, Calling,
       TypeInv, CallTyped, CardTyped, BuffersTyped, HistoryTyped
\* How the call ends or goes on.
<1>1. \/ Answer /\ Putting
      \/ GoOn("remove") /\ Putting
      \/ GoOn("free")
      \/ GoOn("unhash") /\ ~Putting
  BY <1>0 DEF EndStep, IndexPut, RemoveNothing, RemoveOld, FreeBlock, AfterRemoval, Putting
<1>2. \A c \in Buckets : Once(ht[c], k)'
  BY <1>0 DEF KeyTrue
<1>3. BucketsOf(k)' = BucketsOf(k) /\ (\A c \in Buckets : \A b : Hashes(c, k, b)' <=> Hashes(c, k, b))
  BY <1>0 DEF BucketsOf, Hashes
<1>4. ASSUME InUse(k)', \A b \in Blocks : Once(blk[b], k)',
             Putting => Stored(k, open, op.val) /\ blk'[open] = blk[open],
             ~Putting => \A b \in Blocks : HasKey(blk'[b], k) => blk'[b] = blk[b]
      PROVE  KeyTrue(k)'
  <2>1. CASE Putting
    <3>1. Moved(k)
      BY <1>0, <2>1 DEF KeyTrue, PutTrue
    <3>2. HasKey(blk'[open], k) /\ Of(blk'[open], k).val = op.val
      BY <1>4, <2>1 DEF Stored
    <3>3. CASE Answer
      <4>1. Stored(k, open, val[k])' /\ val'[k] = op.val
        BY <1>0, <3>2, <3>3 DEF Stored, Answer
      <4>2. PICK c \in Buckets : BucketsOf(k) = {c} /\ Hashes(c, k, open)
        BY <3>1 DEF Moved
      <4>3. BucketsOf(k)' = {c} /\ Hashes(c, k, open)' /\ val'[k] # Gone
        BY <1>0, <1>3, <2>1, <4>1, <4>2 DEF Putting, Hashes
      <4>4. Settled(k)'
        <5>1. \E c1 \in Buckets, b \in Blocks :
                 BucketsOf(k)' = {c1} /\ Hashes(c1, k, b)' /\ Stored(k, b, val[k])'
          BY <1>0, <4>1, <4>3 DEF Hashes, Stored
        <5> QED BY <4>3, <5>1 DEF Settled
      <4>5. ~Changing(k)'
        BY <3>3 DEF Answer, Changing
      <4> QED BY <1>2, <1>4, <4>4, <4>5 DEF KeyTrue
    <3>4. CASE GoOn("remove") \/ GoOn("free")
      <4>1. pc' \in {"remove", "free"} /\ op' = op
        BY <3>4 DEF GoOn
      <4>2. Stored(k, open, op.val)'
        BY <1>0, <3>2, <4>1 DEF Stored
      <4>3. Moved(k)'
        <5>1. PICK c \in Buckets : BucketsOf(k) = {c} /\ Hashes(c, k, open)
          BY <3>1 DEF Moved
        <5>2. BucketsOf(k)' = {c} /\ Hashes(c, k, open)'
          BY <1>0, <1>3, <5>1 DEF Hashes
        <5> QED BY <4>2, <5>2 DEF Moved
      <4>4. PutTrue(k)' /\ Putting' /\ Changing(k)'
        BY <2>1, <4>1, <4>3 DEF PutTrue, Putting, Changing
      <4> QED BY <1>2, <1>4, <4>4 DEF KeyTrue
    <3> QED BY <1>1, <2>1, <3>3, <3>4
  <2>2. CASE ~Putting
    <3>1. DeleteTrue(k)
      BY <1>0, <2>2 DEF KeyTrue
    <3>2. pc' \in {"free", "unhash"} /\ UNCHANGED <<op, val>>
      BY <1>0, <1>1, <2>2 DEF GoOn, EndStep, IndexPut
    <3>3. DeleteTrue(k)'
      <4>1. CASE BucketsOf(k) = {}
        BY <1>3, <4>1 DEF DeleteTrue
      <4>2. ASSUME NEW c \in Buckets, NEW b \in Blocks, BucketsOf(k) = {c}, Hashes(c, k, b),
                   HasKey(blk[b], k) => Stored(k, b, val[k])
            PROVE  DeleteTrue(k)'
        <5>1. HasKey(blk'[b], k) => Stored(k, b, val[k])'
          BY <1>4, <2>2, <3>2, <4>2 DEF Stored
        <5>2. BucketsOf(k)' = {c} /\ Hashes(c, k, b)'
          BY <1>3, <4>2
        <5> QED BY <5>1, <5>2 DEF DeleteTrue
      <4> QED BY <3>1, <4>1, <4>2 DEF DeleteTrue
    <3>4. ~Putting' /\ Changing(k)'
      BY <2>2, <3>2 DEF Putting, Changing
    <3> QED BY <1>2, <1>4, <3>3, <3>4 DEF KeyTrue
  <2> QED BY <2>1, <2>2
<1>5. Putting => Stored(k, open, op.val)
  BY <1>0 DEF KeyTrue, PutTrue, Moved
<1>6. CASE IndexPut \/ RemoveNothing
  <2>1. UNCHANGED <<blk, bit>>
    BY <1>6 DEF IndexPut, RemoveNothing, sdVars
  <2>2. InUse(k)' /\ \A b \in Blocks : Once(blk[b], k)'
    BY <1>0, <2>1 DEF KeyTrue, InUse
  <2> QED BY <1>4, <1>5, <2>1, <2>2
<1>7. CASE RemoveOld
  <2>1. op.old \in Blocks /\ Content(op.old) = blk[op.old] /\ HasKey(blk[op.old], k) /\ UNCHANGED bit
    BY <1>0, <1>7, ContentIs DEF RemoveOld, BufferInv
  <2>2. blk' = [blk EXCEPT ![op.old] = Without(blk[op.old], k)]
    BY <1>7, <2>1 DEF RemoveOld
  <2>3. ~HasKey(Without(blk[op.old], k), k)
    BY <1>0, <2>1, WithoutIs DEF KeyTrue
  <2>4. ~HasKey(blk'[op.old], k) /\ \A b \in Blocks : b # op.old => blk'[b] = blk[b]
    BY <1>0, <2>1, <2>2, <2>3
  <2>5. InUse(k)' /\ \A b \in Blocks : Once(blk[b], k)'
    <3>1. Once(blk'[op.old], k)
      BY <2>4 DEF Once, HasKey
    <3> QED BY <1>0, <2>1, <2>4, <3>1 DEF KeyTrue, InUse
  <2>6. Putting => op.old # open
    BY <1>0, <1>7 DEF RemoveOld
  <2> QED BY <1>0, <1>4, <1>5, <2>4, <2>5, <2>6
<1>8. CASE FreeBlock
  <2>1. blk' = blk /\ bit' = [bit EXCEPT ![op.old] = FALSE] /\ blk[op.old] = <<>>
    BY <1>8 DEF FreeBlock, TypeInv, CallTyped
  <2>2. ~HasKey(blk[op.old], k)
    BY <2>1 DEF HasKey
  <2>3. InUse(k)' /\ \A b \in Blocks : Once(blk[b], k)'
    BY <1>0, <2>1, <2>2 DEF KeyTrue, InUse
  <2> QED BY <1>4, <1>5, <2>1, <2>3
<1> QED BY <1>6, <1>7, <1>8 DEF EndStep

LEMMA CardStep ==
    ASSUME SdAssumption, TypeInv, BufferInv, CardInv, [Next]_vars PROVE CardInv'
<1>1. CASE Next
  <2> SUFFICES ASSUME NEW k \in Keys \ excused' PROVE KeyTrue(k)'
    BY <1>1 DEF CardInv
  <2>1. KeyTrue(k)
    <3>1. excused \subseteq excused'
      <4>1. CASE Call \/ FlushStep \/ BootStep \/ EndStep
        BY <4>1 DEF Call, Put, Delete, Get, Begin, FlushStep, FlushSuper, FlushErase, FlushSeal,
           BootStep, Format, Boot, EndStep, IndexPut, RemoveNothing, RemoveOld, FreeBlock, ghosts
      <4>2. CASE AppendStep \/ HashStep \/ CutStep
        BY <4>2 DEF AppendStep, Allocate, CardFull, WriteCard, WriteGarbled, Overfill, HashStep, HashAdd,
           HashDrop, Unhash, CutStep, CutClean, CutBucket, CutBlock, PowerCut, ghosts
      <4> QED BY <1>1, <4>1, <4>2 DEF Next
    <3> QED BY <3>1 DEF CardInv
  <2>2. CASE Calling => op.key # k
    BY <1>1, <2>1, <2>2, OthersKeep
  <2>3. CASE Calling /\ op.key = k
    <3>1. ~Call /\ ~FlushStep /\ ~BootStep
      BY <2>3 DEF Calling, Call, Put, Delete, Get, Begin, FlushStep, FlushSuper, FlushErase, FlushSeal,
         BootStep, Format, Boot
    <3>2. ~CutStep
      BY <2>3 DEF CutStep, CutClean, CutBucket, CutBlock, PowerCut
    <3> QED BY <1>1, <2>1, <2>3, <3>1, <3>2, AppendKeeps, HashKeeps, EndKeeps DEF Next
  <2> QED BY <2>2, <2>3
<1>2. CASE UNCHANGED vars
  BY <1>2 DEF CardInv, KeyTrue, InUse, Changing, Putting, PutTrue, DeleteTrue, Moved, Settled, BucketsOf,
              Stored, Hashes, vars, sdVars, openVars, ramVars, ghosts
<1> QED BY <1>1, <1>2

-----------------------------------------------------------------------------
(* The tiers hold their invariant.                                         *)

LEMMA TierInit == SdAssumption /\ Init => TierInv
<1> SUFFICES ASSUME SdAssumption, Init, NEW k \in Keys PROVE TiersTrue(k) /\ SnapshotTrue(k)
  BY DEF TierInv
<1>1. /\ pc = "off" /\ (\A b \in Blocks : blk[b] = <<>>) /\ val[k] = Gone /\ ~sealed
  BY DEF Init
<1>2. \A b \in Blocks : ~HasKey(blk[b], k)
  BY <1>1 DEF HasKey
<1> QED BY <1>1, <1>2 DEF TiersTrue, SnapshotTrue, Changing, Calling, InBlocks, LeadsTo

\* find_slot_for_key leads to the key's block, when any tier does.
LEMMA FindLeads ==
    ASSUME NEW k \in Keys, TiersTrue(k), ~Changing(k)
    PROVE  LeadsTo(k, FindSlot(k)) /\ (val[k] = Gone \/ FindSlot(k) = HtLookup(k))
BY DEF FindSlot, LeadsTo, TiersTrue

\* A key without a value has no card.
LEMMA GoneHasNone ==
    ASSUME SdAssumption, CardTyped, NEW k \in Keys, KeyTrue(k), TiersTrue(k), ~Changing(k),
           val[k] = Gone
    PROVE  \A b \in Blocks : ~HasKey(blk[b], k)
<1>1. HtLookup(k) = None
  BY LookupIs DEF KeyTrue, Settled
<1>2. None \notin Blocks
  BY Constants
<1> QED BY <1>1, <1>2 DEF TiersTrue, InBlocks

\* What a step does to the tiers of a key that no call is on.
LEMMA OthersTiers ==
    ASSUME SdAssumption, TypeInv, Next, NEW k \in Keys, Calling => op.key # k
    PROVE  /\ idx'[k] = FindSlot(k) \/ idx'[k] \in {None, idx[k]}
           /\ \/ ~fidxLive'
              \/ fidxLive /\ fidx' = fidx
              \/ fidx' = idx /\ pc = "seal"
              \/ pc = "off" /\ fidxLive' = sealed /\ UNCHANGED flashVars
           /\ \/ op'.key # k \/ ~Calling'
              \/ op'.old = FindSlot(k) /\ (pc' = "append" \/ (pc' = "remove" /\ ~Putting'))
<1>0. /\ CardTyped /\ IndexTyped /\ op \in [key : Keys \cup {0}, val : Vals \cup {Gone}, old : Places,
                                            drop : SUBSET Buckets]
      /\ idx \in [Keys -> Places] /\ Cardinality(Indexed) <= IndexMax /\ open \in Places
  BY DEF TypeInv, CallTyped, IndexTyped, BuffersTyped, Places, Blocks
<1>1. CASE Call
  <2>1. PICK j \in Keys : /\ idx' = Promoted(j) /\ UNCHANGED <<flashVars, fidxLive>> /\ pc = "idle"
                          /\ \/ pc' = "idle"
                             \/ /\ op'.key = j /\ op'.old = FindSlot(j)
                                /\ pc' = "append" \/ (pc' = "remove" /\ ~Putting')
    <3>1. CASE \E j \in Keys : Get(j)
      BY <3>1 DEF Get
    <3>2. CASE \E j \in Keys : Delete(j)
      BY <3>2 DEF Delete, Begin, Putting
    <3>3. CASE \E j \in Keys, v \in Vals : Put(j, v)
      BY <3>3 DEF Put, Begin
    <3> QED BY <1>1, <3>1, <3>2, <3>3 DEF Call
  <2>2. /\ idx'[j] = FindSlot(j)
        /\ \A i \in Keys : i # j => idx'[i] \in {None, idx[i]}
    BY <1>0, <2>1, PromotedIs
  <2> QED BY <2>1, <2>2 DEF flashVars, Calling
<1>2. CASE AppendStep
  <2>1. op'.key # k \/ ~Calling'
    BY <1>2 DEF AppendStep, Allocate, CardFull, WriteCard, WriteGarbled, Overfill, Programming, Calling
  <2> QED BY <1>2, <2>1 DEF AppendStep, Allocate, CardFull, WriteCard, WriteGarbled, Overfill,
       flashVars, ramVars
<1>3. CASE HashStep
  <2>1. op.key # k
    BY <1>3 DEF HashStep, HashAdd, HashDrop, Unhash, Calling
  <2>2. op'.key # k \/ ~Calling'
    BY <1>0, <1>3, <2>1 DEF HashStep, HashAdd, HashDrop, Unhash, Answer, Calling
  <2>3. idx'[k] = idx[k] /\ UNCHANGED <<fidxLive, flashVars>>
    BY <1>0, <1>3, <2>1 DEF HashStep, HashAdd, HashDrop, Unhash, ramVars
  <2> QED BY <2>2, <2>3 DEF flashVars
<1>4. CASE EndStep
  <2>1. op.key # k /\ op.key \in Keys
    BY <1>4 DEF EndStep, IndexPut, RemoveNothing, RemoveOld, FreeBlock, Calling, TypeInv, CallTyped
  <2>2. op'.key # k \/ ~Calling'
    BY <1>4, <2>1 DEF EndStep, IndexPut, RemoveNothing, RemoveOld, FreeBlock, AfterRemoval, Answer, GoOn,
       Calling
  <2>3. CASE IndexPut
    <3>1. idx' = IndexInsert(op.key, open) /\ ~fidxLive'
      BY <2>3 DEF IndexPut, FidxAfterPut
    <3>2. idx'[k] \in {None, idx[k]}
      BY <1>0, <2>1, <3>1, InsertIs
    <3> QED BY <2>2, <3>1, <3>2
  <2>4. CASE RemoveNothing \/ RemoveOld \/ FreeBlock
    BY <2>2, <2>4 DEF RemoveNothing, RemoveOld, FreeBlock, flashVars
  <2> QED BY <1>4, <2>3, <2>4 DEF EndStep
<1>5. CASE FlushStep
  BY <1>5 DEF FlushStep, FlushSuper, FlushErase, FlushSeal, flashVars, ramVars, Calling
<1>6. CASE CutStep
  <2>1. idx' = [j \in Keys |-> None] /\ fidxLive' = FALSE /\ pc' = "off"
    BY <1>6 DEF CutStep, CutClean, CutBucket, CutBlock, PowerCut
  <2> QED BY <2>1 DEF Calling
<1>7. CASE BootStep
  BY <1>7 DEF BootStep, Format, Boot, Calling, flashVars
<1> QED BY <1>1, <1>2, <1>3, <1>4, <1>5, <1>6, <1>7 DEF Next

\* The tiers of a key that no call is on, or one is about to be.
LEMMA OthersLead ==
    ASSUME SdAssumption, TypeInv, BufferInv, Next, NEW k \in Keys \ excused',
           KeyTrue(k), TiersTrue(k), SnapshotTrue(k), Calling => op.key # k
    PROVE  TiersTrue(k)'
<1>1. Steady(k) /\ ~Changing(k)
  BY OthersSteady DEF Changing, Calling
<1>2. /\ HtLookup(k)' = HtLookup(k) /\ val'[k] = val[k]
      /\ \A b \in Blocks : HasKey(blk'[b], k) <=> HasKey(blk[b], k)
  BY <1>1, SteadyKeeps DEF Steady
<1>3. \A b : LeadsTo(k, b)' <=> LeadsTo(k, b)
  BY <1>2 DEF LeadsTo
<1>4. InBlocks(k, {HtLookup(k)}) /\ LeadsTo(k, idx[k]) /\ (fidxLive => LeadsTo(k, fidx[k]))
  BY <1>1 DEF TiersTrue
<1>5. LeadsTo(k, FindSlot(k)) /\ (val[k] = Gone \/ FindSlot(k) = HtLookup(k))
  BY <1>1, FindLeads
<1>6. CASE Changing(k)'
  <2>1. pc' = "remove" /\ op'.old = FindSlot(k) /\ ~Putting'
    BY <1>6, OthersTiers DEF Changing, Calling
  <2>2. InBlocks(k, {op.old})'
    <3>1. CASE val[k] = Gone
      BY <1>1, <1>2, <3>1, GoneHasNone DEF InBlocks, TypeInv
    <3>2. CASE val[k] # Gone
      BY <1>2, <1>4, <1>5, <2>1, <3>2 DEF InBlocks
    <3> QED BY <3>1, <3>2
  <2>3. CallWhere(k)'
    BY <2>1, <2>2 DEF CallWhere, InBlocks
  <2> QED BY <1>6, <2>1, <2>3 DEF TiersTrue
<1>7. CASE ~Changing(k)'
  <2>1. InBlocks(k, {HtLookup(k)})'
    BY <1>2, <1>4 DEF InBlocks
  <2>2. LeadsTo(k, idx'[k])
    BY <1>4, <1>5, OthersTiers DEF LeadsTo
  <2>3. fidxLive' => LeadsTo(k, fidx'[k])
    <3>1. CASE fidxLive /\ fidx' = fidx
      BY <1>4, <3>1
    <3>2. CASE fidx' = idx
      BY <1>4, <3>2
    <3>3. CASE pc = "off" /\ fidxLive' = sealed /\ UNCHANGED flashVars
      BY <3>3 DEF flashVars, SnapshotTrue, TypeInv, HistoryTyped
    <3> QED BY <3>1, <3>2, <3>3, OthersTiers
  <2>4. op'.key = k /\ Calling' => val'[k] = Gone \/ op'.old = HtLookup(k)'
    BY <1>2, <1>5, OthersTiers
  <2>5. LeadsTo(k, idx[k])' /\ (fidxLive' => LeadsTo(k, fidx[k])')
    BY <1>2, <2>2, <2>3 DEF LeadsTo
  <2> QED BY <1>7, <2>1, <2>4, <2>5 DEF TiersTrue
<1> QED BY <1>6, <1>7

\* The snapshot in flash is only ever older than the calls since the last flush.
LEMMA SnapshotKeeps ==
    ASSUME SdAssumption, TypeInv, BufferInv, Next, NEW k \in Keys \ (excused' \cup behind'),
           KeyTrue(k), TiersTrue(k), SnapshotTrue(k)
    PROVE  SnapshotTrue(k)'
<1>1. \/ sealed' = FALSE
      \/ fidx' = idx /\ pc = "seal" /\ ~Calling
      \/ UNCHANGED flashVars /\ (k \notin touched' => k \notin touched)
  <2>1. CASE Call
    BY <2>1 DEF Call, Put, Delete, Get, Begin, ghosts
  <2>2. CASE AppendStep
    BY <2>2 DEF AppendStep, Allocate, CardFull, WriteCard, WriteGarbled, Overfill, ghosts
  <2>3. CASE HashStep \/ EndStep
    BY <2>3 DEF HashStep, HashAdd, HashDrop, Unhash, EndStep, IndexPut, RemoveNothing, RemoveOld,
       FreeBlock, ghosts
  <2>4. CASE FlushStep
    BY <2>4 DEF FlushStep, FlushSuper, FlushErase, FlushSeal, Calling, ghosts
  <2>5. CASE CutStep
    BY <2>5 DEF CutStep, CutClean, CutBucket, CutBlock, PowerCut
  <2>6. CASE BootStep
    BY <2>6 DEF BootStep, Format, Boot, ghosts
  <2> QED BY <2>1, <2>2, <2>3, <2>4, <2>5, <2>6 DEF Next
<1>2. ASSUME k \notin touched
      PROVE  Steady(k) /\ HtLookup(k)' = HtLookup(k) /\ val'[k] = val[k]
  <2>1. Calling => op.key # k
    BY <1>2 DEF TypeInv, CallTyped
  <2>2. Steady(k)
    BY <2>1, OthersSteady
  <2> QED BY <2>2, SteadyKeeps DEF Steady
<1>3. CASE fidx' = idx /\ pc = "seal" /\ ~Calling
  <2>1. Steady(k) /\ ~Changing(k)
    BY <1>3, OthersSteady DEF Changing
  <2>2. HtLookup(k)' = HtLookup(k) /\ val'[k] = val[k]
    BY <2>1, SteadyKeeps DEF Steady
  <2>3. LeadsTo(k, idx[k])
    BY <2>1 DEF TiersTrue
  <2> QED BY <1>3, <2>2, <2>3 DEF LeadsTo, SnapshotTrue
<1>4. CASE UNCHANGED flashVars /\ (k \notin touched' => k \notin touched)
  BY <1>2, <1>4 DEF SnapshotTrue, LeadsTo, flashVars
<1> QED BY <1>1, <1>3, <1>4 DEF SnapshotTrue

\* Where the card of the key of a call is found: packed_append writes it to the open block.
LEMMA AppendLeads ==
    ASSUME SdAssumption, TypeInv, BufferInv, AppendStep, NEW k \in Keys \ excused',
           KeyTrue(k), TiersTrue(k), op.key = k
    PROVE  TiersTrue(k)'
<1>0. /\ ~Changing(k) /\ Putting /\ open \in Blocks /\ blk \in [Blocks -> Seq(Card)]
      /\ InBlocks(k, {HtLookup(k)}) /\ LeadsTo(k, idx[k]) /\ (fidxLive => LeadsTo(k, fidx[k]))
      /\ val[k] = Gone \/ op.old = HtLookup(k)
  BY DEF AppendStep, Allocate, CardFull, WriteCard, WriteGarbled, Overfill, Programming, Changing,
     Calling, TiersTrue, TypeInv, CallTyped, CardTyped, BuffersTyped
<1>1. CASE Allocate \/ CardFull \/ Overfill
  <2>1. Steady(k)
    BY <1>1, QuietSteady DEF QuietStep
  <2>2. /\ HtLookup(k)' = HtLookup(k) /\ val'[k] = val[k]
        /\ \A b \in Blocks : HasKey(blk'[b], k) <=> HasKey(blk[b], k)
    BY <2>1, SteadyKeeps DEF Steady
  <2>3. ~Changing(k)' /\ UNCHANGED <<idx, flashVars, fidxLive>> /\ (op' = op \/ ~Calling')
    BY <1>1 DEF Allocate, CardFull, Overfill, Changing, Calling, ramVars
  <2>4. InBlocks(k, {HtLookup(k)})'
    BY <1>0, <2>2 DEF InBlocks
  <2>5. LeadsTo(k, idx[k])' /\ (fidxLive' => LeadsTo(k, fidx[k])')
    BY <1>0, <2>2, <2>3 DEF LeadsTo, flashVars
  <2> QED BY <1>0, <2>2, <2>3, <2>4, <2>5 DEF TiersTrue
<1>2. CASE WriteCard
  <2>1. /\ UNCHANGED <<op, open>> /\ pc' = "hash" /\ blk' = [blk EXCEPT ![open] = NewEnts]
    BY <1>2 DEF WriteCard
  <2>2. \A b \in Blocks : HasKey(blk[b], k) => b = op.old
    <3>1. CASE val[k] = Gone
      BY <1>0, <3>1, GoneHasNone DEF TypeInv
    <3>2. CASE val[k] # Gone
      BY <1>0, <3>2 DEF InBlocks
    <3> QED BY <3>1, <3>2
  <2>3. \A b \in Blocks : HasKey(blk'[b], k) => b = open \/ b = op.old
    BY <1>0, <2>1, <2>2
  <2>4. CallWhere(k)'
    BY <1>0, <2>1, <2>3 DEF CallWhere, InBlocks, Putting
  <2>5. Changing(k)'
    BY <2>1 DEF Changing
  <2> QED BY <2>1, <2>4, <2>5 DEF TiersTrue
<1>3. CASE WriteGarbled
  BY <1>3 DEF WriteGarbled
<1> QED BY <1>1, <1>2, <1>3 DEF AppendStep

\* ht_insert and ht_remove move no card.
LEMMA HashLeads ==
    ASSUME SdAssumption, TypeInv, HashStep, NEW k \in Keys \ excused',
           TiersTrue(k), op.key = k
    PROVE  TiersTrue(k)'
<1>0. /\ Changing(k) /\ UNCHANGED <<blk, open>> /\ CallWhere(k)
      /\ op \in [key : Keys \cup {0}, val : Vals \cup {Gone}, old : Places, drop : SUBSET Buckets]
      /\ val \in [Keys -> Vals \cup {Gone}]
  BY DEF HashStep, HashAdd, HashDrop, Unhash, Changing, TiersTrue, TypeInv, CallTyped, HistoryTyped,
         ramVars, openVars
<1>1. CASE HashAdd \/ HashDrop
  <2>1. /\ pc \in {"hash", "rehash"} /\ pc' \in {"rehash", "index"}
        /\ op'.key = op.key /\ op'.val = op.val /\ op'.old = op.old
    BY <1>0, <1>1 DEF HashAdd, HashDrop
  <2>2. Putting /\ Putting'
    BY <2>1 DEF Putting, TypeInv, CallTyped
  <2>3. CallWhere(k)'
    BY <1>0, <2>1, <2>2 DEF CallWhere, InBlocks
  <2>4. Changing(k)'
    BY <2>1 DEF Changing
  <2> QED BY <2>1, <2>3, <2>4 DEF TiersTrue
<1>2. CASE Unhash
  <2>1. pc = "unhash" /\ ~Putting /\ val'[k] = Gone /\ pc' = "idle"
    BY <1>0, <1>2 DEF Unhash, Answer, TypeInv, CallTyped, Putting
  <2>2. \A b \in Blocks : ~HasKey(blk'[b], k)
    BY <1>0, <2>1 DEF CallWhere, InBlocks
  <2> QED BY <2>1, <2>2 DEF TiersTrue, Changing, Calling, InBlocks, LeadsTo
<1> QED BY <1>1, <1>2 DEF HashStep

\* index_insert, and the removal of the old version.
LEMMA EndLeads ==
    ASSUME SdAssumption, TypeInv, BufferInv, EndStep, NEW k \in Keys \ excused',
           KeyTrue(k), TiersTrue(k), op.key = k
    PROVE  TiersTrue(k)'
<1>0. /\ Changing(k) /\ CallWhere(k) /\ UNCHANGED <<ht, open>> /\ open \in Blocks
      /\ CardTyped /\ IndexTyped /\ op.old \in Places /\ None \notin Blocks
      /\ blk \in [Blocks -> Seq(Card)] /\ Places = Blocks \cup {None}
      /\ pc \in {"index", "remove", "free"} /\ (pc # "index" => op.old \in Blocks)
      /\ (pc = "index" => Putting) /\ (pc # "index" /\ Putting => op.old # open)
  BY Constants DEF EndStep, IndexPut, RemoveNothing, RemoveOld, FreeBlock, Changing,
     TiersTrue, TypeInv, CallTyped, BuffersTyped, CardTyped, sdVars, openVars
\* How the call ends or goes on.
<1>1. \/ Answer /\ Putting
      \/ GoOn("remove") /\ pc = "index"
      \/ GoOn("free")
      \/ GoOn("unhash") /\ ~Putting
  BY <1>0 DEF EndStep, IndexPut, RemoveNothing, RemoveOld, FreeBlock, AfterRemoval, Putting
\* The SRAM index leads to the new version of a put.
<1>2. Putting => idx'[k] \in {None, open} /\ ~fidxLive'
  <2>1. CASE IndexPut
    <3>1. idx' = IndexInsert(op.key, open) /\ ~fidxLive'
      BY <2>1 DEF IndexPut, FidxAfterPut
    <3>2. idx'[k] = open
      BY <1>0, <3>1, InsertIs DEF IndexTyped
    <3> QED BY <3>1, <3>2
  <2>2. CASE RemoveNothing \/ RemoveOld \/ FreeBlock
    <3>1. UNCHANGED <<idx, fidxLive>> /\ pc \in {"remove", "free"}
      BY <2>2 DEF RemoveNothing, RemoveOld, FreeBlock
    <3> QED BY <1>0, <3>1 DEF TiersTrue
  <2> QED BY <2>1, <2>2 DEF EndStep
<1>3. Putting => HtLookup(k)' = open
  <2>1. ASSUME Putting PROVE HtLookup(k) = open
    <3>1. Moved(k) \/ pc = "index"
      BY <1>0, <2>1 DEF KeyTrue, PutTrue
    <3>2. Moved(k)
      BY <1>0, <2>1, <3>1 DEF KeyTrue, PutTrue
    <3> QED BY <1>0, <3>2, LookupIs DEF Moved
  <2>2. HtLookup(k)' = HtLookup(k)
    BY <1>0 DEF HtLookup
  <2> QED BY <2>1, <2>2
\* It then suffices to know the blocks that have a card of the key.
<1>4. ASSUME Putting => \A b \in Blocks : HasKey(blk'[b], k) =>
                             b = open \/ (GoOn("remove") /\ b = op.old),
             ~Putting => \A b \in Blocks : ~HasKey(blk'[b], k)
      PROVE  TiersTrue(k)'
  <2>1. CASE Answer /\ Putting
    <3>1. ~Changing(k)' /\ ~Calling' /\ ~GoOn("remove")
      BY <2>1 DEF Answer, Changing, Calling, GoOn
    <3>2. \A b \in Blocks : HasKey(blk'[b], k) => b = open
      BY <1>4, <2>1, <3>1
    <3>3. InBlocks(k, {HtLookup(k)})'
      BY <1>3, <2>1, <3>2 DEF InBlocks
    <3>4. LeadsTo(k, idx[k])'
      BY <1>2, <1>3, <2>1 DEF LeadsTo
    <3> QED BY <1>2, <2>1, <3>1, <3>3, <3>4 DEF TiersTrue
  <2>2. CASE ~(Answer /\ Putting)
    <3>1. /\ op' = op /\ pc' \in {"remove", "free", "unhash"} /\ Changing(k)'
          /\ (pc' = "unhash" => ~Putting) /\ (Putting' <=> Putting)
          /\ (pc' = "remove" => pc = "index")
      BY <1>1, <2>2 DEF GoOn, Changing, Putting
    <3>2. CallWhere(k)'
      <4>1. CASE Putting
        <5>1. \A b \in Blocks : HasKey(blk'[b], k) => b \in (IF pc' = "free" THEN {open} ELSE {open, op.old})
          <6>1. pc' = "free" => ~GoOn("remove")
            BY DEF GoOn
          <6> QED BY <1>4, <4>1, <6>1
        <5> QED BY <1>0, <3>1, <4>1, <5>1 DEF CallWhere, InBlocks
      <4>2. CASE ~Putting
        BY <1>4, <3>1, <4>2 DEF CallWhere, InBlocks
      <4> QED BY <4>1, <4>2
    <3> QED BY <1>0, <1>2, <3>1, <3>2 DEF TiersTrue
  <2> QED BY <2>1, <2>2
<1>5. CASE IndexPut
  <2>1. blk' = blk /\ pc = "index" /\ Putting
    BY <1>0, <1>5 DEF IndexPut, sdVars
  <2>2. op.old \in {None, open} \/ GoOn("remove")
    BY <1>5 DEF IndexPut
  <2>3. \A b \in Blocks : HasKey(blk[b], k) => b \in {open, op.old}
    BY <1>0, <2>1 DEF CallWhere, InBlocks
  <2> QED BY <1>0, <1>4, <2>1, <2>2, <2>3
<1>6. ASSUME pc \in {"remove", "free"}, \A b \in Blocks : HasKey(blk'[b], k) => HasKey(blk[b], k),
             ~HasKey(blk'[op.old], k)
      PROVE  TiersTrue(k)'
  <2>1. Putting => \A b \in Blocks : HasKey(blk'[b], k) => b = open
    BY <1>0, <1>6 DEF CallWhere, InBlocks
  <2>2. ~Putting => \A b \in Blocks : ~HasKey(blk'[b], k)
    BY <1>0, <1>6 DEF CallWhere, InBlocks
  <2> QED BY <1>4, <2>1, <2>2
<1>7. CASE RemoveNothing
  <2>1. Content(op.old) = blk[op.old] /\ ~HasKey(blk[op.old], k) /\ pc = "remove" /\ blk' = blk
    BY <1>0, <1>7, ContentIs DEF RemoveNothing, BufferInv, sdVars
  <2> QED BY <1>6, <2>1
<1>8. CASE RemoveOld
  <2>1. pc = "remove" /\ Content(op.old) = blk[op.old] /\ HasKey(blk[op.old], k) /\ op.old \in Blocks
    BY <1>0, <1>8, ContentIs DEF RemoveOld, BufferInv
  <2>2. blk' = [blk EXCEPT ![op.old] = Without(blk[op.old], k)]
    BY <1>8, <2>1 DEF RemoveOld
  <2>3. ~HasKey(Without(blk[op.old], k), k)
    BY <1>0, <2>1, WithoutIs DEF KeyTrue
  <2>4. \A b \in Blocks : HasKey(blk'[b], k) => HasKey(blk[b], k)
    BY <1>0, <2>1, <2>2, <2>3
  <2> QED BY <1>0, <1>6, <2>1, <2>2, <2>3, <2>4
<1>9. CASE FreeBlock
  <2>1. pc = "free" /\ blk' = blk /\ blk[op.old] = <<>>
    BY <1>9 DEF FreeBlock, TypeInv, CallTyped
  <2>2. ~HasKey(blk[op.old], k)
    BY <2>1 DEF HasKey
  <2> QED BY <1>6, <2>1, <2>2
<1> QED BY <1>5, <1>7, <1>8, <1>9 DEF EndStep

LEMMA TierStep ==
    ASSUME SdAssumption, TypeInv, BufferInv, CardInv, TierInv, [Next]_vars PROVE TierInv'
<1>1. CASE Next
  <2> SUFFICES ASSUME NEW k \in Keys \ (excused' \cup behind') PROVE TiersTrue(k)' /\ SnapshotTrue(k)'
    BY <1>1 DEF TierInv
  <2>1. excused \subseteq excused' /\ behind \subseteq behind'
    <3>1. CASE Call \/ FlushStep \/ BootStep \/ EndStep
      BY <3>1 DEF Call, Put, Delete, Get, Begin, FlushStep, FlushSuper, FlushErase, FlushSeal,
         BootStep, Format, Boot, EndStep, IndexPut, RemoveNothing, RemoveOld, FreeBlock, ghosts
    <3>2. CASE AppendStep \/ HashStep \/ CutStep
      BY <3>2 DEF AppendStep, Allocate, CardFull, WriteCard, WriteGarbled, Overfill, HashStep, HashAdd,
         HashDrop, Unhash, CutStep, CutClean, CutBucket, CutBlock, PowerCut, ghosts
    <3> QED BY <1>1, <3>1, <3>2 DEF Next
  <2>2. KeyTrue(k) /\ TiersTrue(k) /\ SnapshotTrue(k)
    BY <2>1 DEF CardInv, TierInv
  <2>3. SnapshotTrue(k)'
    BY <1>1, <2>2, SnapshotKeeps
  <2>4. CASE Calling => op.key # k
    BY <1>1, <2>2, <2>3, <2>4, OthersLead
  <2>5. CASE Calling /\ op.key = k
    <3>1. ~Call /\ ~FlushStep /\ ~BootStep
      BY <2>5 DEF Calling, Call, Put, Delete, Get, Begin, FlushStep, FlushSuper, FlushErase, FlushSeal,
         BootStep, Format, Boot
    <3>2. ~CutStep
      BY <2>5 DEF CutStep, CutClean, CutBucket, CutBlock, PowerCut
    <3> QED BY <1>1, <2>2, <2>3, <2>5, <3>1, <3>2, AppendLeads, HashLeads, EndLeads DEF Next
  <2> QED BY <2>4, <2>5
<1>2. CASE UNCHANGED vars
  BY <1>2 DEF TierInv, TiersTrue, SnapshotTrue, Changing, Calling, Putting, CallWhere, InBlocks, LeadsTo,
              HtLookup, vars, sdVars, flashVars, openVars, ramVars, ghosts
<1> QED BY <1>1, <1>2

-----------------------------------------------------------------------------
(* What the invariant says.                                                *)

LEMMA EntsAre ==
    ASSUME SdAssumption, NEW s \in Seq(Card), Len(s) <= BlockCap PROVE s \in Ents
<1>1. Len(s) \in 0 .. BlockCap
  BY Constants
<1>2. s \in [1 .. Len(s) -> Card]
  OBVIOUS
<1>3. s \in [1 .. Len(s) -> [key : Keys, val : Vals]]
  BY <1>2 DEF Card
<1> QED BY <1>1, <1>3 DEF Ents

LEMMA TypeHolds == ASSUME SdAssumption, TypeInv PROVE TypeOK
<1>0. CardTyped /\ IndexTyped /\ BuffersTyped /\ CallTyped /\ HistoryTyped
  BY DEF TypeInv
<1>1. blk \in [Blocks -> Ents]
  BY <1>0, EntsAre DEF CardTyped
<1>2. ASSUME NEW c \in SdCache, Len(c.ents) <= BlockCap PROVE c \in Caches
  <2>1. c.ents \in Seq(Card) /\ c.valid \in BOOLEAN /\ c = [valid |-> c.valid, ents |-> c.ents]
    BY DEF SdCache
  <2>2. c.ents \in Ents
    BY <1>2, <2>1, EntsAre
  <2> QED BY <2>1, <2>2 DEF Caches
<1>3. openCache \in Caches /\ dataCache \in [Blocks -> Caches]
  BY <1>0, <1>2 DEF BuffersTyped
<1>4. \A b \in Buckets : ht[b] \in Seq([key : Keys, blk : Blocks]) /\ Len(ht[b]) <= BucketCap
  BY <1>0 DEF CardTyped, HtEntry
<1>5. /\ sb \in [open : Places, used : 0 .. BlockCap]
      /\ bit \in [Blocks -> BOOLEAN] /\ head \in [Blocks -> {"ok", "zero", "garbled"}]
      /\ fidx \in [Keys -> Places] /\ sealed \in BOOLEAN
  BY <1>0 DEF CardTyped
<1>6. /\ open \in Blocks /\ used \in 0 .. BlockCap /\ dirty \in BOOLEAN
      /\ idx \in [Keys -> Places] /\ Cardinality(Indexed) <= IndexMax /\ fidxLive \in BOOLEAN
  BY <1>0 DEF BuffersTyped, IndexTyped
<1>7. /\ pc \in {"off", "idle", "append", "program", "hash", "rehash", "index", "remove",
                 "free", "unhash", "erase", "seal", "overfull"}
      /\ op \in [key : Keys \cup {0}, val : Vals \cup {Gone}, old : Places, drop : SUBSET Buckets]
      /\ val \in [Keys -> Vals \cup {Gone}] /\ touched \subseteq Keys /\ excused \subseteq Keys
      /\ behind \subseteq Keys /\ ops \in 0 .. MaxOps /\ cuts \in 0 .. MaxCuts
  BY <1>0 DEF CallTyped, HistoryTyped
<1> QED BY <1>1, <1>3, <1>4, <1>5, <1>6, <1>7 DEF TypeOK

\* What the card answers for a key with its value, or the value of a put, in the one place.
LEMMA SettledReads ==
    ASSUME SdAssumption, CardTyped, NEW k \in Keys, Settled(k)
    PROVE  /\ ReadCard(k) = val[k]
           /\ val[k] # Gone => HtLookup(k) \in Blocks /\ Stored(k, HtLookup(k), val[k])
<1>1. CASE val[k] = Gone
  BY <1>1, LookupIs DEF Settled, ReadCard
<1>2. CASE val[k] # Gone
  <2>1. PICK c \in Buckets, b \in Blocks :
            BucketsOf(k) = {c} /\ Hashes(c, k, b) /\ Stored(k, b, val[k])
    BY <1>2 DEF Settled
  <2>2. HtLookup(k) = b /\ b # None
    BY <2>1, LookupIs, Constants
  <2> QED BY <2>1, <2>2 DEF ReadCard, Stored, Of
<1> QED BY <1>1, <1>2

LEMMA CardReads ==
    ASSUME SdAssumption, TypeInv, CardInv PROVE CopyOnWrite
<1> SUFFICES ASSUME NEW k \in Keys \ excused
             PROVE  ReadCard(k) = val[k] \/ (Calling /\ op.key = k /\ ReadCard(k) = op.val)
  BY DEF CopyOnWrite
<1>0. KeyTrue(k) /\ CardTyped /\ open \in Blocks /\ None \notin Blocks
  BY Constants DEF CardInv, TypeInv, BuffersTyped
<1>1. ASSUME NEW b \in Blocks, NEW v, HtLookup(k) = b, Stored(k, b, v) PROVE ReadCard(k) = v
  BY <1>0, <1>1 DEF ReadCard, Stored, Of
<1>2. CASE ~Changing(k)
  BY <1>0, <1>2, SettledReads DEF KeyTrue
<1>3. CASE Changing(k) /\ Putting
  <2>1. PutTrue(k) /\ Calling /\ op.key = k
    BY <1>0, <1>3 DEF KeyTrue, Changing, Calling
  <2>2. CASE pc = "hash"
    BY <1>0, <2>1, <2>2, SettledReads DEF PutTrue
  <2>3. CASE pc = "rehash"
    <3>1. PICK c \in Buckets, d \in Buckets, b \in Blocks :
              BucketsOf(k) = {c, d} /\ Hashes(c, k, b) /\ Stored(k, b, val[k]) /\ Hashes(d, k, open)
      BY <2>1, <2>3 DEF PutTrue
    <3>2. HtLookup(k) \in {b, open} /\ Stored(k, open, op.val)
      BY <1>0, <2>1, <2>3, <3>1, LookupIs DEF PutTrue
    <3> QED BY <1>0, <1>1, <2>1, <3>1, <3>2
  <2>4. CASE pc \in {"index", "remove", "free"}
    <3>1. Moved(k)
      BY <2>1, <2>4 DEF PutTrue
    <3>2. HtLookup(k) = open /\ Stored(k, open, op.val)
      BY <1>0, <3>1, LookupIs DEF Moved
    <3> QED BY <1>0, <1>1, <2>1, <3>2
  <2>5. pc # "unhash"
    BY <1>3 DEF TypeInv, CallTyped
  <2> QED BY <1>3, <2>2, <2>3, <2>4, <2>5 DEF Changing
<1>4. CASE Changing(k) /\ ~Putting
  <2>1. DeleteTrue(k) /\ Calling /\ op.key = k /\ op.val = Gone
    BY <1>0, <1>4 DEF KeyTrue, Changing, Calling, Putting
  <2>2. CASE BucketsOf(k) = {}
    BY <1>0, <2>1, <2>2, LookupIs DEF ReadCard
  <2>3. ASSUME NEW c \in Buckets, NEW b \in Blocks, BucketsOf(k) = {c}, Hashes(c, k, b),
               HasKey(blk[b], k) => Stored(k, b, val[k])
        PROVE  ReadCard(k) \in {val[k], Gone}
    <3>1. HtLookup(k) = b
      BY <1>0, <2>3, LookupIs
    <3> QED BY <1>1, <2>3, <3>1 DEF ReadCard
  <2> QED BY <2>1, <2>2, <2>3 DEF DeleteTrue
<1> QED BY <1>2, <1>3, <1>4

LEMMA TiersRead ==
    ASSUME SdAssumption, SdInv PROVE AcknowledgedIsReadable
<1> SUFFICES ASSUME pc = "idle", NEW k \in Keys \ (excused \cup behind) PROVE Read(k) = val[k]
  BY DEF AcknowledgedIsReadable
<1>1. /\ KeyTrue(k) /\ TiersTrue(k) /\ ~Changing(k) /\ CardTyped /\ IndexTyped
      /\ Places = Blocks \cup {None} /\ None \notin Blocks
  BY Constants DEF SdInv, TypeInv, CardInv, TierInv, Changing
<1>2. FindSlot(k) \in Places
  BY <1>1, LookupIn
<1>3. \A b \in Blocks : Content(b) = blk[b]
  BY ContentIs DEF SdInv, BufferInv
<1>4. CASE val[k] = Gone
  <2>1. \A b \in Blocks : ~HasKey(blk[b], k)
    BY <1>1, <1>4, GoneHasNone
  <2> QED BY <1>1, <1>2, <1>3, <1>4, <2>1 DEF Read, ReadAt
<1>5. CASE val[k] # Gone
  <2>1. HtLookup(k) \in Blocks /\ Stored(k, HtLookup(k), val[k])
    BY <1>1, <1>5, SettledReads DEF KeyTrue
  <2>2. FindSlot(k) = HtLookup(k)
    BY <1>1, <1>5, FindLeads
  <2> QED BY <1>1, <1>3, <2>1, <2>2 DEF Read, ReadAt, Stored, Of
<1> QED BY <1>4, <1>5

-----------------------------------------------------------------------------
(* The theorems.                                                           *)

\* The store keeps its invariant through every call, flush, power cut and boot.
LEMMA SdInductive == Spec => []SdInv
<1>1. Init => SdInv
  BY SdAssumption, TypeInit, BufferInit, CardInit, TierInit DEF SdInv
<1>2. SdInv /\ [Next]_vars => SdInv'
  BY SdAssumption, TypeStep, BufferStep, CardStep, TierStep DEF SdInv
<1> QED BY <1>1, <1>2, PTL DEF Spec

\* packed_append, ht_insert and index_insert never hold more than a block, a bucket or the
\* SRAM index has room for, whatever the keys hash to.
THEOREM SdTyped == Spec => []TypeOK
<1>1. SdInv => TypeOK
  BY SdAssumption, TypeHolds DEF SdInv
<1> QED BY <1>1, SdInductive, PTL

\* The open block's buffer and the block cache are never older than the card: every write
\* of packed_append and packed_remove_card updates or drops the copies.
THEOREM CachesAreTrue == Spec => []CachesCoherent
<1>1. SdInv => CachesCoherent
  BY DEF SdInv, BufferInv
<1> QED BY <1>1, SdInductive, PTL

\* packed_append copies no card beyond the block's 504 bytes as long as no power cut came
\* between a call and the next kvsd_flush.
THEOREM FillIsTrue == Spec => []NoOverfill
<1>1. SdInv => NoOverfill
  BY DEF SdInv, BufferInv
<1> QED BY <1>1, SdInductive, PTL

\* kvsd_put, ht_insert and kvsd_delete write the new before they remove the old: cut at any
\* write, the card alone still answers with the old or the new version of a card.
THEOREM CardAnswers == Spec => []CopyOnWrite
<1>1. SdInv => CopyOnWrite
  BY SdAssumption, CardReads DEF SdInv
<1> QED BY <1>1, SdInductive, PTL

\* kvsd_get returns the last acknowledged version through all the tiers of the index, and
\* through evictions, promotions, block moves, flushes, power cuts and boots.
THEOREM TiersAnswer == Spec => []AcknowledgedIsReadable
<1>1. SdInv => AcknowledgedIsReadable
  BY SdAssumption, TiersRead
<1> QED BY <1>1, SdInductive, PTL
=============================================================================
