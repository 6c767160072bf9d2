--------------------------------- MODULE KvSd ---------------------------------
(***************************************************************************)
(* The SD card store of packs 2 and up (src/kv_sd.c).  Cards are appended  *)
(* to the "open block", several to a 512-byte block; a bitmap tells which  *)
(* blocks are in use, and a hash table with two candidate buckets per key  *)
(* which block holds a key.  Above the hash table are a sorted index in    *)
(* SRAM, which forgets its lowest key when full, and a snapshot of it in   *)
(* flash.  A superblock remembers the open block and how full it is.       *)
(*                                                                         *)
(* One call runs at a time, split at every SD and flash write, so that     *)
(* power can fail before each of them or tear the one in progress.  All    *)
(* cards have the same size, BlockCap of them fill a block; the hash       *)
(* table's own cache is written through and left out.  The operators named *)
(* Mut... are seeded bugs that show that a property notices.               *)
(***************************************************************************)
EXTENDS Naturals, Sequences, FiniteSets

CONSTANTS
    Keys,                 \* numbers: the SRAM index is sorted by key
    Vals,
    NumBlocks,            \* data blocks, one bitmap block's worth at most
    BlockCap,             \* cards of a block (504 bytes, 60 cards)
    Buckets, Hash1, Hash2, BucketCap,
    IndexMax,             \* KVSD_INDEX_MAX
    CacheSlots,           \* DATA_CACHE_SLOTS
    MaxOps, MaxCuts       \* bounds of the model: calls begun, power cuts

Gone == "gone"            \* what a reader of an absent key gets, what a delete stores

ASSUME SdAssumption ==
    /\ Keys \subseteq Nat \ {0} /\ IsFiniteSet(Keys) /\ Gone \notin Vals
    /\ NumBlocks \in Nat \ {0} /\ BlockCap \in Nat \ {0}
    /\ Hash1 \in [Keys -> Buckets] /\ Hash2 \in [Keys -> Buckets] /\ BucketCap \in Nat \ {0}
    /\ IndexMax \in Nat \ {0} /\ CacheSlots \in Nat \ {0}
    /\ MaxOps \in Nat /\ MaxCuts \in Nat

Blocks == 0 .. NumBlocks - 1
None   == NumBlocks       \* no block

VARIABLES
    \* on the SD card
    sb,        \* the superblock's open_block and open_used
    bit,       \* the bitmap
    ht,        \* bucket -> sequence of [key, blk]
    head,      \* block -> its header: "ok", "zero" (never written), "garbled"
    blk,       \* block -> sequence of [key, val]
    \* in flash
    fidx, sealed,     \* key -> block, and whether the header is there
    \* in SRAM
    open, used,       \* g_sb.open_block, g_sb.open_used
    dirty,            \* g_sb.dirty
    idx,              \* g_index, g_slots: key -> block
    fidxLive,         \* g_fidx_count is not 0
    openCache,        \* [valid, ents]: g_open_cached, g_open_blk
    dataCache,        \* block -> [valid, ents]
    \* the call in progress
    pc, op,
    \* what the callers were told, and the bounds
    val,       \* key -> what the last acknowledged call on it stored
    touched,   \* the keys of calls begun since the last flush
    excused,   \* the keys something known to lose cards has happened to
    behind,    \* the keys of calls not flushed when a power cut came
    ops, cuts

sdVars    == <<sb, bit, ht, head, blk>>
flashVars == <<fidx, sealed>>
openVars  == <<open, used>>
ramVars   == <<openVars, dirty, idx, fidxLive, openCache, dataCache>>
ghosts    == <<val, touched, excused, behind>>
vars == <<sdVars, flashVars, ramVars, pc, op, ghosts, ops, cuts>>

-----------------------------------------------------------------------------
(* Entries of blocks and buckets.                                          *)

HasKey(s, k) == \E i \in DOMAIN s : s[i].key = k
\* packed_find and ht_bucket_find: the first match counts.
First(s, k) == CHOOSE i \in DOMAIN s : s[i].key = k /\ \A j \in 1 .. i - 1 : s[j].key # k
KeysOf(s) == {s[i].key : i \in DOMAIN s}

\* packed_remove_card closes the gap; a bucket's last entry takes the gap's place.
Without(s, k) ==
    LET n == First(s, k) IN SubSeq(s, 1, n - 1) \o SubSeq(s, n + 1, Len(s))
Swapped(s, k) ==
    SubSeq([s EXCEPT ![First(s, k)] = s[Len(s)]], 1, Len(s) - 1)

NoEntries == [valid |-> FALSE, ents |-> <<>>]
Cached(ents) == [valid |-> TRUE, ents |-> ents]

\* packed_read: a block as the store sees it (the cache first, a bad header as empty).
Content(b) == IF dataCache[b].valid THEN dataCache[b].ents ELSE blk[b]

\* data_cache_insert: into a free slot if there is one, else in place of another block.
CacheInsert(b) ==
    LET full == {c \in Blocks : dataCache[c].valid}
        entry == Cached(Content(b))
    IN  IF dataCache[b].valid THEN UNCHANGED dataCache
        ELSE IF Cardinality(full) < CacheSlots THEN dataCache' = [dataCache EXCEPT ![b] = entry]
        ELSE \E c \in full :
                dataCache' = [dataCache EXCEPT ![b] = entry, ![c] = NoEntries]

\* Seeded bug: a block shrinks and its cached copy stays.
MutInvalidated(b) == IF op.val = Gone THEN dataCache ELSE [dataCache EXCEPT ![b] = NoEntries]
Invalidated(b) == [dataCache EXCEPT ![b] = NoEntries]

-----------------------------------------------------------------------------
(* The three index tiers.                                                  *)

HtLookup(k) ==
    IF HasKey(ht[Hash1[k]], k) THEN ht[Hash1[k]][First(ht[Hash1[k]], k)].blk
    ELSE IF HasKey(ht[Hash2[k]], k) THEN ht[Hash2[k]][First(ht[Hash2[k]], k)].blk
    ELSE None

\* find_slot_for_key
FindSlot(k) ==
    IF idx[k] # None THEN idx[k]
    ELSE IF fidxLive /\ fidx[k] # None THEN fidx[k]
    ELSE HtLookup(k)

Indexed == {k \in Keys : idx[k] # None}

\* Seeded bug: a full index grows.
MutIndexInsert(k, b) == [idx EXCEPT ![k] = b]

\* index_insert: a full index forgets its lowest key first.
IndexInsert(k, b) ==
    IF idx[k] # None \/ Cardinality(Indexed) < IndexMax THEN [idx EXCEPT ![k] = b]
    ELSE [j \in Keys |-> IF j = k THEN b
                         ELSE IF \A i \in Indexed : j <= i THEN None ELSE idx[j]]

\* A key found in a lower tier is promoted to the SRAM index.
Promoted(k) == IF FindSlot(k) = None THEN idx ELSE IndexInsert(k, FindSlot(k))

\* What kvsd_get returns, and what it would return from the card alone.
ReadAt(b, k) ==
    IF b # None /\ HasKey(Content(b), k) THEN Content(b)[First(Content(b), k)].val ELSE Gone
Read(k) == ReadAt(FindSlot(k), k)
ReadCard(k) ==
    LET b == HtLookup(k)
    IN  IF b # None /\ HasKey(blk[b], k) THEN blk[b][First(blk[b], k)].val ELSE Gone

-----------------------------------------------------------------------------
(* Calls.                                                                  *)

NoOp == [key |-> 0, val |-> Gone, old |-> None, drop |-> {}]

Begin(k, v) ==
    /\ pc = "idle" /\ ops < MaxOps
    /\ ops' = ops + 1
    /\ idx' = Promoted(k)
    /\ op' = [key |-> k, val |-> v, old |-> FindSlot(k), drop |-> {}]
    /\ UNCHANGED <<sdVars, flashVars, openVars, dirty, fidxLive, openCache, dataCache,
                   val, excused, behind, cuts>>

Put(k, v) ==
    /\ Begin(k, v)
    /\ pc' = "append" /\ touched' = touched \cup {k}

\* An absent key is refused.
Delete(k) ==
    /\ FindSlot(k) # None
    /\ Begin(k, Gone)
    /\ pc' = "remove" /\ touched' = touched \cup {k}

\* kvsd_get, and without a block read kvsd_exists or a put that is refused because its
\* card does not compress.
Get(k) ==
    /\ pc = "idle" /\ FindSlot(k) # None
    /\ idx' = Promoted(k)
    /\ CacheInsert(FindSlot(k)) \/ UNCHANGED dataCache
    /\ UNCHANGED <<sdVars, flashVars, openVars, dirty, fidxLive, openCache, pc, op,
                   ghosts, ops, cuts>>

-----------------------------------------------------------------------------
(* packed_append.                                                          *)

Fits == used < BlockCap

\* alloc_slot: the scan of a bitmap block starts at its first bit.
IsFree(b) == ~bit[b] /\ \A c \in 0 .. b - 1 : bit[c]

\* The bit is written before the block is.
Allocate ==
    /\ pc = "append" /\ ~Fits
    /\ \E b \in Blocks :
         /\ IsFree(b)
         /\ bit' = [bit EXCEPT ![b] = TRUE]
         /\ open' = b
    /\ used' = 0 /\ openCache' = Cached(<<>>)
    /\ pc' = "program"
    /\ UNCHANGED <<sb, ht, head, blk, flashVars, dirty, idx, fidxLive, dataCache, op,
                   ghosts, ops, cuts>>

CardFull ==
    /\ pc = "append" /\ ~Fits /\ \A b \in Blocks : bit[b]
    /\ pc' = "idle" /\ op' = NoOp
    /\ UNCHANGED <<sdVars, flashVars, ramVars, ghosts, ops, cuts>>

\* What the open block's buffer holds before the card is added.
OpenEnts == IF openCache.valid THEN openCache.ents ELSE Content(open)
Programming == pc = "program" \/ (pc = "append" /\ Fits)
\* A block that was allocated gets a header of its own; so may a garbled one when it is
\* read again, if its header is now out of range.
Sound == pc = "program" \/ head[open] = "ok"
Repaired == head[open] = "garbled" /\ ~openCache.valid

\* Seeded bug: the buffer's new fill is not noted in the superblock.
MutFill(ents) == IF pc = "program" THEN Len(ents) ELSE used
Fill(ents) == Len(ents)

NewEnts == Append(OpenEnts, [key |-> op.key, val |-> op.val])

\* The card is written behind the others.  Its key is excused when the block already
\* holds the key (an update within the open block: the old version is found first), and
\* when the bitmap calls the block free.
WriteCard ==
    /\ Programming /\ (Sound \/ Repaired) /\ Len(NewEnts) <= BlockCap
    /\ blk' = [blk EXCEPT ![open] = NewEnts]
    /\ openCache' = Cached(NewEnts) /\ dataCache' = Invalidated(open)
    /\ used' = Fill(NewEnts)
    /\ excused' = IF HasKey(OpenEnts, op.key) \/ ~bit[open]
                  THEN excused \cup {op.key} ELSE excused
    /\ head' = [head EXCEPT ![open] = "ok"]
    /\ pc' = "hash"
    /\ UNCHANGED <<sb, bit, ht, flashVars, open, dirty, idx, fidxLive, op,
                   val, touched, behind, ops, cuts>>

\* format_sd leaves block 0 as it was.  On a card of zeros its header says that 0 bytes
\* are used, the card is written over the header, and neither it nor the ones behind it
\* are found; how full the block then looks depends on the key's bits.
WriteGarbled ==
    /\ Programming /\ ~Sound
    /\ head' = [head EXCEPT ![open] = "garbled"]
    /\ used' \in 1 .. BlockCap
    /\ openCache' = Cached(<<>>) /\ dataCache' = Invalidated(open)
    /\ excused' = excused \cup {op.key}
    /\ pc' = "hash"
    /\ UNCHANGED <<sb, bit, ht, blk, flashVars, open, dirty, idx, fidxLive, op,
                   val, touched, behind, ops, cuts>>

\* The superblock says there is room and the block is full: the card is copied beyond
\* the buffer.  The model stops there.
Overfill ==
    /\ Programming /\ Sound /\ Len(NewEnts) > BlockCap
    /\ pc' = "overfull"
    /\ UNCHANGED <<sdVars, flashVars, ramVars, op, ghosts, ops, cuts>>

-----------------------------------------------------------------------------
(* ht_insert: the new entry is written first, into the bucket that does not *)
(* hold the old one if it has room, then the old one is removed.           *)

Room(b) == Len(ht[b]) < BucketCap
Holds(b) == HasKey(ht[b], op.key)
B1 == Hash1[op.key]
B2 == Hash2[op.key]

\* The bucket to append to, the bucket to replace the entry in, or neither.
AppendTo ==
    IF B1 # B2 /\ Holds(B1) /\ Room(B2) THEN {B2}
    ELSE IF B1 # B2 /\ Holds(B2) /\ Room(B1) THEN {B1}
    ELSE IF Holds(B1) THEN {}
    ELSE IF Room(B1) THEN {B1}
    ELSE IF ~Holds(B2) /\ Room(B2) THEN {B2} ELSE {}
ReplaceIn ==
    IF AppendTo # {} THEN {} ELSE IF Holds(B1) THEN {B1} ELSE IF Holds(B2) THEN {B2} ELSE {}

\* Seeded bug: the old entry is removed first.
MutHashed(b, e) == IF \E c \in {B1, B2} \ {b} : Holds(c) THEN ht[b] ELSE ht[b] \o <<e>>
Hashed(b, e) == ht[b] \o <<e>>

HashAdd ==
    /\ pc = "hash"
    /\ \/ \E b \in AppendTo :
            /\ ht' = [ht EXCEPT ![b] = Hashed(b, [key |-> op.key, blk |-> open])]
            /\ op' = [op EXCEPT !.drop = {c \in {B1, B2} \ {b} : Holds(c)}]
            /\ UNCHANGED excused
       \/ \E b \in ReplaceIn :
            /\ ht' = [ht EXCEPT ![b][First(ht[b], op.key)].blk = open]
            /\ UNCHANGED <<op, excused>>
       \/ \* both buckets are full: kvsd_put goes on, with the card in the SRAM index only
          /\ AppendTo = {} /\ ReplaceIn = {}
          /\ excused' = excused \cup {op.key}
          /\ UNCHANGED <<ht, op>>
    /\ pc' = IF op'.drop = {} THEN "index" ELSE "rehash"
    /\ UNCHANGED <<sb, bit, head, blk, flashVars, ramVars, val, touched, behind, ops, cuts>>

HashDrop ==
    /\ pc = "rehash"
    /\ \E b \in op.drop : ht' = [ht EXCEPT ![b] = Swapped(@, op.key)]
    /\ pc' = "index"
    /\ UNCHANGED <<sb, bit, head, blk, flashVars, ramVars, op, ghosts, ops, cuts>>

-----------------------------------------------------------------------------
(* The end of a call: the SRAM index, the old version, the caller's answer. *)

Answer ==
    /\ pc' = "idle" /\ op' = NoOp
    /\ val' = [val EXCEPT ![op.key] = op.val]
    /\ dirty' = TRUE

GoOn(next) == pc' = next /\ UNCHANGED <<op, val, dirty>>

\* Seeded bug: the flash tier is still believed.
MutFidxAfterPut == fidxLive
\* The flash tier is switched off until the next flush.
FidxAfterPut == FALSE

IndexPut ==
    /\ pc = "index"
    /\ idx' = IndexInsert(op.key, open) /\ fidxLive' = FidxAfterPut
    /\ IF op.old \in {None, open} THEN Answer ELSE GoOn("remove")
    /\ UNCHANGED <<sdVars, flashVars, openVars, openCache, dataCache,
                   touched, excused, behind, ops, cuts>>

AfterRemoval == IF op.val = Gone THEN GoOn("unhash") ELSE Answer

\* packed_remove_card finds nothing to remove.
RemoveNothing ==
    /\ pc = "remove" /\ ~HasKey(Content(op.old), op.key)
    /\ CacheInsert(op.old)
    /\ AfterRemoval
    /\ UNCHANGED <<sdVars, flashVars, openVars, idx, fidxLive, openCache,
                   touched, excused, behind, ops, cuts>>

RemoveOld ==
    /\ pc = "remove" /\ HasKey(Content(op.old), op.key)
    /\ LET ents == Without(Content(op.old), op.key)
       IN  /\ blk' = [blk EXCEPT ![op.old] = ents]
           /\ IF ents = <<>> THEN GoOn("free") ELSE AfterRemoval
    /\ dataCache' = Invalidated(op.old)
    /\ openCache' = IF op.old = open THEN NoEntries ELSE openCache
    /\ UNCHANGED <<sb, bit, ht, head, flashVars, openVars, idx, fidxLive,
                   touched, excused, behind, ops, cuts>>

\* Also when the block is the open one, which goes on being appended to.
FreeBlock ==
    /\ pc = "free"
    /\ bit' = [bit EXCEPT ![op.old] = FALSE]
    /\ used' = IF op.old = open THEN 0 ELSE used
    /\ AfterRemoval
    /\ UNCHANGED <<sb, ht, head, blk, flashVars, open, idx, fidxLive, openCache, dataCache,
                   touched, excused, behind, ops, cuts>>

\* kvsd_delete's last step; the key stays in the flash tier.
Unhash ==
    /\ pc = "unhash"
    /\ ht' = IF Holds(B1) THEN [ht EXCEPT ![B1] = Swapped(@, op.key)]
             ELSE IF Holds(B2) THEN [ht EXCEPT ![B2] = Swapped(@, op.key)] ELSE ht
    /\ idx' = [idx EXCEPT ![op.key] = None]
    /\ Answer
    /\ UNCHANGED <<sb, bit, head, blk, flashVars, openVars, fidxLive, openCache, dataCache,
                   touched, excused, behind, ops, cuts>>

-----------------------------------------------------------------------------
(* kvsd_flush, which net_core_run calls when the store is dirty: the        *)
(* superblock, then the flash tier, erased header first and sealed last.    *)

FlushSuper ==
    /\ pc = "idle" /\ dirty
    /\ dirty' = FALSE
    /\ sb' = [open |-> open, used |-> used]
    /\ pc' = "erase"
    /\ UNCHANGED <<bit, ht, head, blk, flashVars, openVars, idx, fidxLive, openCache,
                   dataCache, op, ghosts, ops, cuts>>

FlushErase ==
    /\ pc = "erase"
    /\ sealed' = FALSE
    /\ pc' = "seal"
    /\ touched' = {}
    /\ UNCHANGED <<sdVars, fidx, ramVars, op, val, excused, behind, ops, cuts>>

FlushSeal ==
    /\ pc = "seal"
    /\ fidx' = idx /\ sealed' = TRUE /\ fidxLive' = TRUE
    /\ pc' = "idle"
    /\ UNCHANGED <<sdVars, openVars, dirty, idx, openCache, dataCache, op, ghosts, ops, cuts>>

-----------------------------------------------------------------------------
(* Power cuts and kvsd_init.                                               *)

Calling == pc \in {"append", "program", "hash", "rehash", "index", "remove", "free", "unhash"}

\* A cut call's key is excused, it may hold either value from now on and its old entries
\* may stay.  Keys of calls since the last flush are behind: the flash tier, believed
\* before the hash table, and the superblock know nothing of these calls.
PowerCut(torn) ==
    /\ pc \notin {"off", "overfull"} /\ cuts < MaxCuts
    /\ cuts' = cuts + 1
    /\ pc' = "off" /\ op' = NoOp
    /\ open' = 0 /\ used' = 0 /\ dirty' = FALSE
    /\ idx' = [k \in Keys |-> None] /\ fidxLive' = FALSE
    /\ openCache' = NoEntries /\ dataCache' = [b \in Blocks |-> NoEntries]
    /\ excused' = excused \cup torn \cup (IF Calling THEN {op.key} ELSE {})
    /\ behind' = behind \cup touched /\ touched' = {}
    /\ UNCHANGED <<sb, bit, flashVars, val, ops>>

CutClean == PowerCut({}) /\ UNCHANGED <<ht, head, blk>>

\* A torn bucket has a bad CRC and reads as empty.
CutBucket ==
    \E b \in CASE pc = "hash" -> AppendTo \cup ReplaceIn
              [] pc = "rehash" -> op.drop
              [] pc = "unhash" -> {c \in {B1, B2} : Holds(c)}
              [] OTHER -> {} :
        /\ PowerCut(KeysOf(ht[b]))
        /\ ht' = [ht EXCEPT ![b] = <<>>]
        /\ UNCHANGED <<head, blk>>

\* A torn block reads as empty, or its cards do not decompress.
CutBlock ==
    \E b \in CASE Programming -> {open} [] pc = "remove" -> {op.old} [] OTHER -> {} :
        /\ PowerCut(KeysOf(blk[b]))
        /\ blk' = [blk EXCEPT ![b] = <<>>]
        /\ UNCHANGED <<ht, head>>

\* format_sd on a card without a superblock: the bitmap and the data are as found.
Format ==
    /\ pc = "off" /\ sb.open = None
    /\ bit' = [bit EXCEPT ![0] = TRUE]
    /\ sb' = [open |-> 0, used |-> 0]
    /\ pc' = "idle"
    /\ fidxLive' = sealed
    /\ UNCHANGED <<ht, head, blk, flashVars, openVars, dirty, idx, openCache, dataCache, op,
                   ghosts, ops, cuts>>

Boot ==
    /\ pc = "off" /\ sb.open # None
    /\ open' = sb.open /\ used' = sb.used
    /\ fidxLive' = sealed
    /\ pc' = "idle"
    /\ UNCHANGED <<sdVars, flashVars, dirty, idx, openCache, dataCache, op, ghosts, ops, cuts>>

-----------------------------------------------------------------------------
\* A card with a clear bitmap, whose blocks are zeros or have headers that are rejected.
Init ==
    /\ sb = [open |-> None, used |-> 0]
    /\ bit = [b \in Blocks |-> FALSE] /\ ht = [b \in Buckets |-> <<>>]
    /\ \E h \in {"ok", "zero"} : head = [b \in Blocks |-> h]
    /\ blk = [b \in Blocks |-> <<>>]
    /\ fidx = [k \in Keys |-> None] /\ sealed = FALSE
    /\ open = 0 /\ used = 0 /\ dirty = FALSE
    /\ idx = [k \in Keys |-> None] /\ fidxLive = FALSE
    /\ openCache = NoEntries /\ dataCache = [b \in Blocks |-> NoEntries]
    /\ pc = "off" /\ op = NoOp
    /\ val = [k \in Keys |-> Gone] /\ touched = {} /\ excused = {} /\ behind = {}
    /\ ops = 0 /\ cuts = 0

Call == \E k \in Keys : Delete(k) \/ Get(k) \/ \E v \in Vals : Put(k, v)
AppendStep == Allocate \/ CardFull \/ WriteCard \/ WriteGarbled \/ Overfill
HashStep == HashAdd \/ HashDrop \/ Unhash
EndStep == IndexPut \/ RemoveNothing \/ RemoveOld \/ FreeBlock
FlushStep == FlushSuper \/ FlushErase \/ FlushSeal
CutStep == CutClean \/ CutBucket \/ CutBlock
BootStep == Format \/ Boot

Next == Call \/ AppendStep \/ HashStep \/ EndStep \/ FlushStep \/ CutStep \/ BootStep

Spec == Init /\ [][Next]_vars

-----------------------------------------------------------------------------
(* Properties.                                                             *)

Ents == UNION {[1 .. n -> [key : Keys, val : Vals]] : n \in 0 .. BlockCap}
Places == 0 .. NumBlocks
Caches == [valid : BOOLEAN, ents : Ents]

\* Every variable keeps to its range: blocks and buckets never hold more than they can,
\* and the SRAM index never more than its capacity.
TypeOK ==
    /\ sb \in [open : Places, used : 0 .. BlockCap]
    /\ bit \in [Blocks -> BOOLEAN] /\ head \in [Blocks -> {"ok", "zero", "garbled"}]
    /\ blk \in [Blocks -> Ents]
    /\ \A b \in Buckets : /\ ht[b] \in Seq([key : Keys, blk : Blocks])
                          /\ Len(ht[b]) <= BucketCap
    /\ fidx \in [Keys -> Places] /\ sealed \in BOOLEAN
    /\ open \in Blocks /\ used \in 0 .. BlockCap /\ dirty \in BOOLEAN
    /\ idx \in [Keys -> Places] /\ Cardinality(Indexed) <= IndexMax
    /\ fidxLive \in BOOLEAN /\ openCache \in Caches /\ dataCache \in [Blocks -> Caches]
    /\ pc \in {"off", "idle", "append", "program", "hash", "rehash", "index", "remove",
               "free", "unhash", "erase", "seal", "overfull"}
    /\ op \in [key : Keys \cup {0}, val : Vals \cup {Gone}, old : Places,
               drop : SUBSET Buckets]
    /\ val \in [Keys -> Vals \cup {Gone}] /\ touched \subseteq Keys /\ excused \subseteq Keys
    /\ behind \subseteq Keys /\ ops \in 0 .. MaxOps /\ cuts \in 0 .. MaxCuts

\* The open block's buffer and the block cache hold what the card holds, through every
\* append, removal, allocation and reboot: a removal behind the buffer's back would let
\* the next append write removed cards back.
CachesCoherent ==
    /\ openCache.valid /\ pc # "program" => openCache.ents = blk[open]
    /\ \A b \in Blocks : dataCache[b].valid => dataCache[b].ents = blk[b]

\* kv_sd.h gives a block 504 bytes: a card is only copied beyond them after a power cut
\* with unflushed calls, when the superblock's open_used is older than the open block.
NoOverfill == pc = "overfull" => behind # {}

\* Between calls a reader gets what the last acknowledged call on the key stored, through
\* all three tiers, promotions, evictions, block moves, flushes and power cuts, for every
\* key that none of the excused events happened to and that no power cut left behind.
AcknowledgedIsReadable ==
    pc = "idle" => \A k \in Keys \ (excused \cup behind) : Read(k) = val[k]

\* kvsd_put and ht_insert are copy-on-write: at every moment and after every power cut the
\* card alone, without the SRAM and the flash tier, answers with what the last
\* acknowledged call on the key stored, or with what the call in progress stores.
CopyOnWrite ==
    \A k \in Keys \ excused :
        ReadCard(k) = val[k] \/ (Calling /\ op.key = k /\ ReadCard(k) = op.val)

\* kvsd_put: "append new version to open block, then remove old": without power cuts a
\* reader who finds a card finds the last version.
NoOldVersion ==
    pc = "idle" /\ cuts = 0 => \A k \in Keys : Read(k) \in {val[k], Gone}

=============================================================================
