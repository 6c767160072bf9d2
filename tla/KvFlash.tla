------------------------------- MODULE KvFlash -------------------------------
(***************************************************************************)
(* The flash key-value store of packs 0 and 1 (src/kv_flash.c): a log of   *)
(* records on NOR sectors ("pages"), an SRAM index from keys to records,   *)
(* per-page reference counts, and a dead log that tells the compactor      *)
(* which pages may have lost their last live record.                       *)
(*                                                                         *)
(* One call runs at a time; it is split at every flash operation so that   *)
(* power can fail between two of them, or tear the one in progress.  A     *)
(* reboot loses the SRAM and replays kv_init's scan, one cell per step.    *)
(*                                                                         *)
(* A page is a header and PageCells cells.  A record takes one cell and    *)
(* its commit marker the next one; the byte sizes, the compression and the *)
(* checksums of the code are abstracted to whether a cell reads as blank,  *)
(* as an intact record, as a record with a bad payload CRC, as a commit    *)
(* marker, or as garbage.  The last Slack cells of a page are the tail no  *)
(* record fits in (Slack = 0: records can end exactly at the sector end).  *)
(*                                                                         *)
(* The operators named Mut... are seeded bugs: each stands in for the      *)
(* definition after it to show that a property notices.                    *)
(***************************************************************************)
EXTENDS Naturals, FiniteSets

CONSTANTS
    Keys, Vals,      \* the keys and values of the calls
    BigVals,         \* values whose record can exceed the program buffer
    NumPages,        \* KV_SECTOR_COUNT
    PageCells,       \* cells of a page
    Slack,           \* cells at the end of a page that no record fits in
    MaxVersion,      \* 0xFFFE, the version after which kv_put restarts at 1
    RefMax,          \* 255, where a page's reference count saturates
    IndexCapacity,   \* KV_INDEX_CAPACITY
    DeadSectors,     \* KV_DEADLOG_SECTORS
    DeadEntries,     \* entries of one dead-log sector
    Tears,           \* the flash operations a power cut can tear
    MaxOps, MaxCuts  \* bounds of the model: calls begun, power cuts

ASSUME FlashAssumption ==
    /\ NumPages \in Nat \ {0} /\ PageCells \in Nat /\ Slack \in Nat
    /\ 2 + Slack <= PageCells      \* a record and its marker fit in an empty page
    /\ MaxVersion \in Nat \ {0} /\ RefMax \in Nat \ {0}
    /\ IndexCapacity \in Nat \ {0}
    /\ DeadSectors \in Nat \ {0} /\ DeadEntries \in Nat \ {0}
    /\ MaxOps \in Nat /\ MaxCuts \in Nat
    /\ IsFiniteSet(Keys) /\ BigVals \subseteq Vals
    /\ Tears \subseteq {"header", "payload", "record", "commit", "erase", "dead"}

Gone == "gone"       \* what a tombstone stores, and what a reader of an absent key gets

ASSUME GoneAssumption == Gone \notin Keys \cup Vals

Pages     == 0 .. NumPages - 1
NoPage    == NumPages          \* no location
Junk      == NumPages          \* a dead-log entry that names no page
Unwritten == NumPages + 1      \* a dead-log entry still 0xFFFF
DeadPages == 0 .. DeadSectors - 1

VARIABLES
    \* flash
    hdr,      \* page -> "free" (erased), "v2" (valid), "v2bad" (magic only), "bad"
    seq,      \* page -> sequence number in its header
    cell,     \* page -> cell number -> what the cell holds
    dead,     \* dead-log sector -> its header and its entries
    \* SRAM
    idx,      \* g_keys, g_locs, g_versions: key -> location and version
    ref,      \* g_page_ref_count
    gseq, gmg,              \* g_page_sequence, g_mutation_group
    wpage, woff,            \* g_write_page, g_write_off
    dwp, dwo, drp, dro,     \* the dead log's write and read cursors
    \* the call in progress, and kv_init's scan
    pc, op, scan,
    \* what the callers were told, and the bounds
    store,    \* key -> what the last durable call on it stored (for a fuzzy key, or
              \* what the last recovery found)
    fuzzy,    \* the keys deleted, or caught by an unfinished wipe
    ops, cuts

flashVars == <<hdr, seq, cell, dead>>
logVars   == <<gseq, gmg, wpage, woff>>
deadVars  == <<dwp, dwo, drp, dro>>
ramVars   == <<idx, ref, logVars, deadVars>>
ghosts    == <<store, fuzzy>>
vars == <<flashVars, ramVars, pc, op, scan, ghosts, ops, cuts>>

-----------------------------------------------------------------------------
(* Cells, index entries and the scan's pending record.                     *)

Blank      == [kind |-> "blank"]
Torn       == [kind |-> "torn"]       \* non-blank, no magic: the scan stops here
BadRec     == [kind |-> "badrec"]     \* the header reads, the payload CRC fails
Rec(k, v, n, g) == [kind |-> "rec", key |-> k, val |-> v, ver |-> n, mg |-> g]
Commit(g)  == [kind |-> "commit", mg |-> g]
BadCommit  == Commit(0)               \* its CRC fails: it commits no group, the scan goes on

\* Only a tombstone carries the version after MaxVersion.
Records == {r \in [kind : {"rec"}, key : Keys, val : Vals \cup {Gone},
                   ver : 0 .. MaxVersion + 1, mg : Nat] :
               r.ver > MaxVersion => r.val = Gone}
Cells == {Blank, Torn, BadRec} \cup [kind : {"commit"}, mg : Nat] \cup Records

\* Programming NOR flash ANDs bits in: over anything but a blank cell it leaves garbage.
Program(old, new) == IF new = Blank THEN old ELSE IF old = Blank THEN new ELSE Torn

\* A page after programming a record at cell i and its commit marker behind it.
Programmed(page, i, record, marker) ==
    [j \in 1 .. PageCells |->
        Program(page[j], IF j = i THEN record ELSE IF j = i + 1 THEN marker ELSE Blank)]

Entries == [page : 0 .. NumPages, off : 1 .. PageCells, ver : 0 .. MaxVersion]
Absent  == [page |-> NoPage, off |-> 1, ver |-> 0]
Indexed(k) == idx[k].page # NoPage
Live(p) == {k \in Keys : idx[k].page = p}
IndexSize == Cardinality({k \in Keys : Indexed(k)})

NoOp == [key |-> Gone, val |-> Gone, ver |-> 0, mg |-> 0,
         old |-> NoPage, page |-> NoPage, off |-> 1]
NoScan == [page |-> 0, off |-> 1, pend |-> NoOp, last |-> NoPage, end |-> 1]

\* kv_get_copy and read_record: what a reader of k gets.
Get(k) ==
    LET c == cell[idx[k].page][idx[k].off]
    IN  IF Indexed(k) /\ c.kind = "rec" /\ c.key = k THEN c.val ELSE Gone

-----------------------------------------------------------------------------
(* The index and its reference counts.                                     *)

\* Seeded bug: a saturated count is decremented.
MutDec(n) == IF n > 0 THEN n - 1 ELSE n
Dec(n) == IF n > 0 /\ n < RefMax THEN n - 1 ELSE n
Inc(n) == IF n < RefMax THEN n + 1 ELSE n

IdxRemove(k) ==
    /\ idx' = [idx EXCEPT ![k] = Absent]
    /\ ref' = [p \in Pages |-> IF p = idx[k].page THEN Dec(ref[p]) ELSE ref[p]]

HasRoom(k) == Indexed(k) \/ IndexSize < IndexCapacity

IdxSet(k, p, o, n) ==
    /\ idx' = [idx EXCEPT ![k] = [page |-> p, off |-> o, ver |-> n]]
    /\ ref' = [q \in Pages |->
                 LET r == IF q = idx[k].page THEN Dec(ref[q]) ELSE ref[q]
                 IN  IF q = p THEN Inc(r) ELSE r]

-----------------------------------------------------------------------------
(* Choosing the page to append to.                                         *)

\* Seeded bug: a valid header is taken for a prepared page without looking behind it.
MutPreparedEmpty(p) == hdr[p] \in {"v2", "v2bad"}
PreparedEmpty(p) == hdr[p] \in {"v2", "v2bad"} /\ cell[p][1] = Blank
Appendable(p) == hdr[p] \in {"free", "bad"} \/ PreparedEmpty(p)

Steps(p, q) == IF q > p THEN q - p ELSE q + NumPages - p
NextAppend(p, q) ==
    /\ Appendable(q)
    /\ \A r \in Pages : Appendable(r) => Steps(p, q) <= Steps(p, r)

\* Seeded bug: the room for the commit marker is forgotten.
MutWritePageFits == woff <= PageCells /\ hdr[wpage] \in {"v2", "v2bad", "free"}

WritePageFits ==
    woff + 1 + Slack <= PageCells /\ hdr[wpage] \in {"v2", "v2bad", "free"}

\* A call that has taken a mutation group and goes on to append_record.  When no
\* page can be appended to it returns false, keeping only the group number.
BeginAppend(k, v, n) ==
    /\ pc = "idle" /\ ops < MaxOps
    /\ ops' = ops + 1
    /\ gmg' = gmg + 1
    /\ \/ /\ WritePageFits
          /\ UNCHANGED <<wpage, woff>>
          /\ pc' = "ready"
       \/ /\ ~WritePageFits
          /\ \E p \in Pages : NextAppend(wpage, p) /\ wpage' = p
          /\ woff' = 1
          /\ pc' = "ready"
       \/ /\ ~WritePageFits /\ \A p \in Pages : ~Appendable(p)
          /\ UNCHANGED <<wpage, woff, pc>>
    /\ op' = IF pc' = "ready"
             THEN [key |-> k, val |-> v, ver |-> n, mg |-> gmg',
                   old |-> idx[k].page, page |-> NoPage, off |-> 1]
             ELSE NoOp
    /\ UNCHANGED <<flashVars, idx, ref, gseq, deadVars, scan, store, cuts>>

\* Seeded bug: the version does not advance.
MutSameVersion(n) == IF n = 0 THEN 1 ELSE n
NextVersion(n) == IF n >= MaxVersion THEN 1 ELSE n + 1

\* kv_put and kv_put_if_version, once the expected version has been found current
\* (a stale one returns false before anything changes).
Put(k, v) ==
    /\ BeginAppend(k, v, NextVersion(idx[k].ver))
    /\ UNCHANGED fuzzy

\* kv_delete: appends a tombstone.
Delete(k) ==
    /\ Indexed(k)
    /\ BeginAppend(k, Gone, idx[k].ver + 1)
    /\ fuzzy' = IF pc' = "ready" THEN fuzzy \cup {k} ELSE fuzzy

-----------------------------------------------------------------------------
(* append_record, one flash operation per step.                            *)

ErasePage(p) ==
    /\ hdr' = [hdr EXCEPT ![p] = "free"]
    /\ seq' = [seq EXCEPT ![p] = 0]
    /\ cell' = [cell EXCEPT ![p] = [i \in 1 .. PageCells |-> Blank]]

\* Only the header cells are programmed, the rest of the page is left as found.
WriteHeader(p) ==
    /\ gseq' = gseq + 1
    /\ hdr' = [hdr EXCEPT ![p] = "v2"]
    /\ seq' = [seq EXCEPT ![p] = gseq + 1]
    /\ UNCHANGED cell

EnsureErased ==
    /\ pc = "ready" /\ hdr[wpage] \in {"bad", "v2bad"}
    /\ ErasePage(wpage)
    /\ UNCHANGED <<dead, ramVars, pc, op, scan, ghosts, ops, cuts>>

EnsureHeader ==
    /\ pc = "ready" /\ hdr[wpage] = "free"
    /\ WriteHeader(wpage)
    /\ pc' = "program"
    /\ UNCHANGED <<dead, idx, ref, gmg, wpage, woff, deadVars, op, scan, ghosts, ops, cuts>>

EnsureReady ==
    /\ pc = "ready" /\ hdr[wpage] = "v2"
    /\ pc' = "program"
    /\ UNCHANGED <<flashVars, ramVars, op, scan, ghosts, ops, cuts>>

NewRecord == Rec(op.key, op.val, op.ver, op.mg)

\* flash_program_aligned returns without programming when the record, its commit
\* marker and the offset of the first one in its 256-byte flash page exceed the
\* 768-byte buffer.  At the start of a sector they never do.
Skipped == op.val \in BigVals /\ woff > 1

\* The call is durable from here: store is what a reboot should find.
AppendRecord ==
    /\ pc = "program"
    /\ \/ cell' = [cell EXCEPT ![wpage] = Programmed(@, woff, NewRecord, Commit(op.mg))]
       \/ Skipped /\ UNCHANGED cell
    /\ op' = [op EXCEPT !.page = wpage, !.off = woff]
    /\ woff' = woff + 2
    /\ store' = IF HasRoom(op.key) THEN [store EXCEPT ![op.key] = op.val] ELSE store
    /\ pc' = "prewarm"
    /\ UNCHANGED <<hdr, seq, dead, idx, ref, gseq, gmg, wpage, deadVars, scan, fuzzy,
                   ops, cuts>>

PrewarmTarget(p) == p # wpage /\ NextAppend(wpage, p) /\ hdr[p] = "free"

Prewarm ==
    /\ pc = "prewarm"
    /\ \/ \E p \in Pages : PrewarmTarget(p) /\ WriteHeader(p)
       \/ /\ \A p \in Pages : ~PrewarmTarget(p)
          /\ UNCHANGED <<hdr, seq, cell, gseq>>
    /\ pc' = "index"
    /\ UNCHANGED <<dead, idx, ref, gmg, wpage, woff, deadVars, op, scan, ghosts, ops, cuts>>

\* The caller is told of the write, or goes on to the dead log if it superseded one.
EndOrDeadlog ==
    /\ pc' = IF op.old = NoPage THEN "idle" ELSE "deadlog"
    /\ op' = IF op.old = NoPage THEN NoOp ELSE op

IndexPut ==
    /\ pc = "index" /\ op.val # Gone /\ HasRoom(op.key)
    /\ IdxSet(op.key, op.page, op.off, op.ver)
    /\ EndOrDeadlog
    /\ UNCHANGED <<flashVars, logVars, deadVars, scan, ghosts, ops, cuts>>

\* kv_put returns false here, its record already committed on flash.
IndexFull ==
    /\ pc = "index" /\ op.val # Gone /\ ~HasRoom(op.key)
    /\ pc' = "idle" /\ op' = NoOp
    /\ UNCHANGED <<flashVars, ramVars, scan, ghosts, ops, cuts>>

IndexDelete ==
    /\ pc = "index" /\ op.val = Gone
    /\ IdxRemove(op.key)
    /\ EndOrDeadlog
    /\ UNCHANGED <<flashVars, logVars, deadVars, scan, ghosts, ops, cuts>>

-----------------------------------------------------------------------------
(* The dead log and the compactor.                                         *)

Around(p, n) == (p + n) % DeadSectors

\* The entry deadlog_append would fill on sector p: the first unwritten one from
\* the write cursor on.
Slot(p, e) ==
    LET from == IF p = dwp THEN dwo ELSE 1
        Free(i) == i >= from /\ dead[p].ent[i] = Unwritten
    IN  dead[p].hdr # "bad" /\ Free(e) /\ \A i \in 1 .. e - 1 : ~Free(i)

HasSlot(p) == \E e \in 1 .. DeadEntries : Slot(p, e)

DeadTarget(p, e) ==
    /\ Slot(p, e)
    /\ \E n \in 0 .. DeadSectors - 1 :
          p = Around(dwp, n) /\ \A m \in 0 .. n - 1 : ~HasSlot(Around(dwp, m))

\* The write cursor's sector gets its header even when its entries are then found full.
Opened == [p \in DeadPages |->
             IF p = dwp /\ dead[p].hdr = "free" THEN [dead[p] EXCEPT !.hdr = "ok"] ELSE dead[p]]

EmptySector == [hdr |-> "free", ent |-> [e \in 1 .. DeadEntries |-> Unwritten]]

\* deadlog_append; with no unwritten entry left it erases the sector it was
\* writing, with the entries the compactor has not read yet.
DeadlogAppend ==
    /\ pc = "deadlog"
    /\ \/ \E p \in DeadPages, e \in 1 .. DeadEntries :
            /\ DeadTarget(p, e)
            /\ dead' = [Opened EXCEPT ![p] = [hdr |-> "ok", ent |-> [@.ent EXCEPT ![e] = op.old]]]
            /\ dwp' = p /\ dwo' = e + 1
       \/ /\ \A p \in DeadPages : ~HasSlot(p)
          /\ dead' = [dead EXCEPT ![dwp] =
                        [hdr |-> "ok",
                         ent |-> [e \in 1 .. DeadEntries |->
                                    IF e = 1 THEN op.old ELSE Unwritten]]]
          /\ dwo' = 2
          /\ UNCHANGED dwp
    /\ pc' = "idle" /\ op' = NoOp
    /\ UNCHANGED <<hdr, seq, cell, idx, ref, logVars, drp, dro, scan, ghosts, ops, cuts>>

\* The entry kv_compact_step reads: the first sector with one at its cursor.
Readable(p, e) ==
    /\ dead[p].hdr = "ok"
    /\ e = (IF p = drp THEN dro ELSE 1) /\ e <= DeadEntries
    /\ dead[p].ent[e] # Unwritten

ReadTarget(p, e) ==
    /\ Readable(p, e)
    /\ \E n \in 0 .. DeadSectors - 1 :
          /\ p = Around(drp, n)
          /\ \A m \in 0 .. n - 1, i \in 1 .. DeadEntries : ~Readable(Around(drp, m), i)

Reclaimable(p) == p \in Pages /\ p # wpage /\ ref[p] = 0 /\ hdr[p] # "free"

\* kv_compact_step consumes one entry, whether or not its page can be erased.
Compact ==
    /\ pc = "idle"
    /\ \E p \in DeadPages, e \in 1 .. DeadEntries :
         /\ ReadTarget(p, e)
         /\ drp' = p /\ dro' = e + 1
         /\ IF Reclaimable(dead[p].ent[e])
            THEN pc' = "reclaim" /\ op' = [NoOp EXCEPT !.old = dead[p].ent[e]]
            ELSE UNCHANGED <<pc, op>>
    /\ UNCHANGED <<flashVars, idx, ref, logVars, dwp, dwo, scan, ghosts, ops, cuts>>

Reclaim ==
    /\ pc = "reclaim"
    /\ ErasePage(op.old)
    /\ pc' = "idle" /\ op' = NoOp
    /\ UNCHANGED <<dead, ramVars, scan, ghosts, ops, cuts>>

-----------------------------------------------------------------------------
(* kv_wipe erases the pages in order, then the dead log, then the index.    *)
(* It leaves the dead log's cursors where they were.                        *)

WipeBegin ==
    /\ pc = "idle" /\ ops < MaxOps
    /\ ops' = ops + 1
    /\ pc' = "wipe" /\ op' = [NoOp EXCEPT !.old = 0]
    /\ store' = [k \in Keys |-> Gone] /\ fuzzy' = Keys
    /\ UNCHANGED <<flashVars, ramVars, scan, cuts>>

WipePage ==
    /\ pc = "wipe" /\ op.old \in Pages
    /\ ErasePage(op.old)
    /\ op' = [op EXCEPT !.old = @ + 1]
    /\ UNCHANGED <<dead, ramVars, pc, scan, ghosts, ops, cuts>>

WipeDead ==
    /\ pc = "wipe" /\ op.old - NumPages \in DeadPages
    /\ dead' = [dead EXCEPT ![op.old - NumPages] = EmptySector]
    /\ op' = [op EXCEPT !.old = @ + 1]
    /\ UNCHANGED <<hdr, seq, cell, ramVars, pc, scan, ghosts, ops, cuts>>

WipeEnd ==
    /\ pc = "wipe" /\ op.old = NumPages + DeadSectors
    /\ idx' = [k \in Keys |-> Absent] /\ ref' = [p \in Pages |-> 0]
    /\ wpage' = 0 /\ woff' = 1 /\ gseq' = 0 /\ gmg' = 0
    /\ pc' = "idle" /\ op' = NoOp
    /\ fuzzy' = {}
    /\ UNCHANGED <<flashVars, deadVars, scan, store, ops, cuts>>

-----------------------------------------------------------------------------
(* Power cuts: the SRAM is lost, and the flash operation of the current     *)
(* step may have happened in part.                                          *)

PowerCut ==
    /\ pc # "off" /\ cuts < MaxCuts
    /\ cuts' = cuts + 1
    /\ pc' = "off" /\ op' = NoOp /\ scan' = NoScan
    /\ idx' = [k \in Keys |-> Absent] /\ ref' = [p \in Pages |-> 0]
    /\ gseq' = 0 /\ gmg' = 0 /\ wpage' = 0 /\ woff' = 1
    /\ dwp' = 0 /\ dwo' = 1 /\ drp' = 0 /\ dro' = 1
    /\ UNCHANGED <<ghosts, ops>>

CutClean == PowerCut /\ UNCHANGED flashVars

CutHeader ==
    /\ "header" \in Tears
    /\ \E p \in Pages, h \in {"bad", "v2bad"} :
         /\ \/ pc = "ready" /\ p = wpage /\ hdr[p] = "free"
            \/ pc = "prewarm" /\ PrewarmTarget(p)
         /\ hdr' = [hdr EXCEPT ![p] = h]
    /\ PowerCut
    /\ UNCHANGED <<seq, cell, dead>>

\* The record's flash pages are programmed in order: the record can be whole and
\* its commit marker missing even when no single program is torn.
CutRecord ==
    /\ pc = "program"
    /\ \E first \in {NewRecord} \cup (IF "payload" \in Tears THEN {BadRec} ELSE {})
                    \cup (IF "record" \in Tears THEN {Torn} ELSE {}),
          second \in {Blank} \cup (IF "commit" \in Tears THEN {Torn, BadCommit} ELSE {}) :
         /\ second # Blank => first = NewRecord
         /\ cell' = [cell EXCEPT ![wpage] = Programmed(@, woff, first, second)]
    /\ PowerCut
    /\ UNCHANGED <<hdr, seq, dead>>

CutErase ==
    /\ "erase" \in Tears
    /\ \E p \in Pages, h \in {"free", "v2", "bad", "v2bad"} :
         /\ \/ pc = "ready" /\ p = wpage /\ hdr[p] \in {"bad", "v2bad"}
            \/ pc \in {"reclaim", "wipe"} /\ p = op.old
         /\ h = "v2" => hdr[p] = "v2"
         /\ hdr' = [hdr EXCEPT ![p] = h]
         /\ seq' = [seq EXCEPT ![p] = IF h = "v2" THEN @ ELSE 0]
         /\ \/ UNCHANGED cell
            \/ cell' = [cell EXCEPT ![p] = [i \in 1 .. PageCells |-> Torn]]
    /\ PowerCut
    /\ UNCHANGED dead

CutDeadlog ==
    /\ "dead" \in Tears
    /\ \/ /\ pc = "deadlog"
          /\ \E p \in DeadPages, e \in 1 .. DeadEntries, x \in Pages \cup {Junk, Unwritten} :
               /\ DeadTarget(p, e)
               /\ dead' = [Opened EXCEPT ![p] = [hdr |-> "ok", ent |-> [@.ent EXCEPT ![e] = x]]]
       \/ \E p \in DeadPages, h \in {"free", "bad"} :
            /\ \/ pc = "deadlog" /\ p = dwp /\ dead[p].hdr = "free"
               \/ pc = "deadlog" /\ p = dwp /\ \A q \in DeadPages : ~HasSlot(q)
               \/ pc = "wipe" /\ p = op.old - NumPages
            /\ dead' = [dead EXCEPT ![p] = [hdr |-> h, ent |-> EmptySector.ent]]
    /\ PowerCut
    /\ UNCHANGED <<hdr, seq, cell>>

-----------------------------------------------------------------------------
(* kv_init: one cell per step.                                             *)

Boot ==
    /\ pc = "off"
    /\ pc' = "scan"
    /\ UNCHANGED <<flashVars, ramVars, op, scan, ghosts, ops, cuts>>

Scanning == pc = "scan" /\ scan.page \in Pages
AtCell(kinds) ==
    /\ Scanning /\ hdr[scan.page] = "v2" /\ scan.off <= PageCells
    /\ cell[scan.page][scan.off].kind \in kinds

\* A data record waits for its commit marker; one with a bad payload is passed
\* over and leaves an earlier pending record pending.
ScanRecord ==
    /\ AtCell({"rec", "badrec"})
    /\ LET c == cell[scan.page][scan.off]
       IN  scan' = [scan EXCEPT
             !.off = @ + 1,
             !.pend = IF c.kind = "badrec" THEN @
                      ELSE [key |-> c.key, val |-> c.val, ver |-> c.ver, mg |-> c.mg,
                            old |-> NoPage, page |-> scan.page, off |-> scan.off]]
    /\ UNCHANGED <<flashVars, ramVars, pc, op, ghosts, ops, cuts>>

\* Seeded bug: recovery keeps the first committed record of a key.
MutNewest(r) == ~Indexed(r.key)
Newest(r) == ~Indexed(r.key) \/ r.ver >= idx[r.key].ver
Committed(r) ==
    /\ r.page # NoPage /\ r.mg = cell[scan.page][scan.off].mg
    /\ Newest(r)

ScanCommit ==
    /\ AtCell({"commit"})
    /\ LET r == scan.pend IN
         \/ Committed(r) /\ r.val = Gone /\ Indexed(r.key) /\ IdxRemove(r.key)
         \/ Committed(r) /\ r.val # Gone /\ HasRoom(r.key)
              /\ IdxSet(r.key, r.page, r.off, r.ver)
         \/ /\ ~(Committed(r) /\ IF r.val = Gone THEN Indexed(r.key) ELSE HasRoom(r.key))
            /\ UNCHANGED <<idx, ref>>
    /\ scan' = [scan EXCEPT !.off = @ + 1, !.pend = NoOp]
    /\ UNCHANGED <<flashVars, logVars, deadVars, pc, op, ghosts, ops, cuts>>

\* A blank or unreadable cell, the end of the page, or a page without a valid header.
ScanPageEnd ==
    /\ Scanning /\ ~AtCell({"rec", "badrec", "commit"})
    /\ gseq' = IF hdr[scan.page] = "v2" /\ seq[scan.page] > gseq THEN seq[scan.page] ELSE gseq
    /\ scan' = [page |-> scan.page + 1, off |-> 1, pend |-> NoOp,
                last |-> IF scan.off > 1 THEN scan.page ELSE scan.last,
                end  |-> IF scan.off > 1 THEN scan.off ELSE scan.end]
    /\ UNCHANGED <<flashVars, idx, ref, gmg, wpage, woff, deadVars, pc, op, ghosts, ops, cuts>>

\* The dead log's write cursor: after the entries of the last sector with a header.
DeadEnd(p, e) ==
    /\ \A i \in 1 .. e - 1 : dead[p].ent[i] # Unwritten
    /\ e <= DeadEntries => dead[p].ent[e] = Unwritten

RecoverDeadCursors ==
    LET used == {p \in DeadPages : dead[p].hdr = "ok"}
    IN  /\ \/ used = {} /\ dwp' = 0 /\ dwo' = 1
           \/ \E p \in used, e \in 1 .. DeadEntries + 1 :
                /\ \A q \in used : q <= p
                /\ DeadEnd(p, e)
                /\ dwp' = p /\ dwo' = e
        /\ drp' = 0 /\ dro' = 1

\* Appending resumes after the scanned cells of the physically last page with data;
\* when they fill the sector to its last byte, at the start of the page after it;
\* without data (last = NumPages, end = 1) at the start of page 0.
ScanDone ==
    /\ pc = "scan" /\ scan.page = NumPages
    /\ gmg' = gseq + 1
    /\ IF scan.end <= PageCells
       THEN wpage' = (IF scan.last = NoPage THEN 0 ELSE scan.last) /\ woff' = scan.end
       ELSE wpage' = (scan.last + 1) % NumPages /\ woff' = 1
    /\ RecoverDeadCursors
    /\ pc' = "idle" /\ scan' = NoScan
    /\ store' = [k \in Keys |-> IF k \in fuzzy THEN Get(k) ELSE store[k]]
    /\ UNCHANGED <<flashVars, idx, ref, gseq, op, fuzzy, ops, cuts>>

-----------------------------------------------------------------------------
\* A device whose KV region has just been erased.
Init ==
    /\ hdr = [p \in Pages |-> "free"] /\ seq = [p \in Pages |-> 0]
    /\ cell = [p \in Pages |-> [i \in 1 .. PageCells |-> Blank]]
    /\ dead = [p \in DeadPages |-> EmptySector]
    /\ idx = [k \in Keys |-> Absent] /\ ref = [p \in Pages |-> 0]
    /\ gseq = 0 /\ gmg = 0 /\ wpage = 0 /\ woff = 1
    /\ dwp = 0 /\ dwo = 1 /\ drp = 0 /\ dro = 1
    /\ pc = "off" /\ op = NoOp /\ scan = NoScan
    /\ store = [k \in Keys |-> Gone] /\ fuzzy = {}
    /\ ops = 0 /\ cuts = 0

Call == (\E k \in Keys : Delete(k) \/ \E v \in Vals : Put(k, v)) \/ WipeBegin
AppendStep == EnsureErased \/ EnsureHeader \/ EnsureReady \/ AppendRecord \/ Prewarm
IndexStep == IndexPut \/ IndexFull \/ IndexDelete \/ DeadlogAppend
CompactStep == Compact \/ Reclaim
WipeStep == WipePage \/ WipeDead \/ WipeEnd
CutStep == CutClean \/ CutHeader \/ CutRecord \/ CutErase \/ CutDeadlog
ScanStep == Boot \/ ScanRecord \/ ScanCommit \/ ScanPageEnd \/ ScanDone

Next == Call \/ AppendStep \/ IndexStep \/ CompactStep \/ WipeStep \/ CutStep \/ ScanStep

Spec == Init /\ [][Next]_vars

-----------------------------------------------------------------------------
(* Properties.                                                             *)

Ops == [key : Keys \cup {Gone}, val : Vals \cup {Gone}, ver : 0 .. MaxVersion + 1,
        mg : Nat, old : 0 .. NumPages + DeadSectors, page : 0 .. NumPages, off : 1 .. PageCells]
Scans == [page : 0 .. NumPages, off : 1 .. PageCells + 1, pend : Ops,
          last : 0 .. NumPages, end : 1 .. PageCells + 1]

FlashType ==
    /\ hdr \in [Pages -> {"free", "v2", "v2bad", "bad"}]
    /\ seq \in [Pages -> Nat]
    /\ cell \in [Pages -> [1 .. PageCells -> Cells]]
    /\ dead \in [DeadPages -> [hdr : {"free", "ok", "bad"},
                               ent : [1 .. DeadEntries -> 0 .. NumPages + 1]]]
IndexType ==
    /\ idx \in [Keys -> Entries] /\ ref \in [Pages -> 0 .. RefMax]
CursorType ==
    /\ gseq \in Nat /\ gmg \in Nat
    /\ wpage \in Pages /\ woff \in 1 .. PageCells + 1
    /\ dwp \in DeadPages /\ dwo \in 1 .. DeadEntries + 1
    /\ drp \in DeadPages /\ dro \in 1 .. DeadEntries + 1
CallType ==
    /\ pc \in {"off", "scan", "idle", "ready", "program", "prewarm", "index", "deadlog",
               "reclaim", "wipe"}
    /\ op \in Ops /\ scan \in Scans
    /\ store \in [Keys -> Vals \cup {Gone}] /\ fuzzy \subseteq Keys
    /\ ops \in 0 .. MaxOps /\ cuts \in 0 .. MaxCuts

\* Every field keeps to its range; in particular an index entry's 16-bit version stays
\* at or below kv_put's last one, so that kv_delete's version + 1 cannot wrap to 0.
TypeOK == FlashType /\ IndexType /\ CursorType /\ CallType

\* Below its saturation point a page's reference count is the number of index
\* entries on the page, so a count of zero proves that no live record is there:
\* what page_has_live_refs needs, through every put, delete, recovery and wipe.
RefCountsExact ==
    \A p \in Pages : ref[p] < RefMax => ref[p] = Cardinality(Live(p))

\* While an index entry stays where it is, the record it points to is never
\* programmed over and its page never erased: append_record is copy-on-write, the
\* compactor takes only dead pages, and recovery resumes behind the live data.
\* (kv_wipe erases the pages first and drops the index last.)
KeepsLiveRecords ==
    \A k \in Keys :
        Indexed(k) /\ idx'[k] = idx[k] /\ pc # "wipe"
        => cell'[idx[k].page][idx[k].off] = cell[idx[k].page][idx[k].off]
LiveRecordsKept == [][KeepsLiveRecords]_vars

\* Between any two calls a reader gets what the last durable call on the key stored,
\* also after power cuts (when a key that was ever deleted may have come back, and
\* stays what recovery found).
AcknowledgedIsReadable ==
    pc = "idle" => \A k \in Keys : Get(k) = store[k]

=============================================================================
