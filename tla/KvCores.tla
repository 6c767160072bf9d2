------------------------------- MODULE KvCores -------------------------------
(***************************************************************************)
(* The flash store with both cores in it (src/kv_flash.c behind            *)
(* src/kv_store.h).  Core 1 appends, deletes and compacts for the ring;    *)
(* Core 0 reads cards for HTTP, UDP and the login, and writes them too.    *)
(* Nothing is locked, so a call is split where the other core can see a    *)
(* difference: at each move of an index element, each use of the append    *)
(* cursor and of the static program buffer, and each flash operation.      *)
(*                                                                         *)
(* What a call does to one core alone, power cuts included, is KvFlash.    *)
(* Here a record with its marker is one cell, versions, mutation groups    *)
(* and the cursors of the dead log are left out, and the index is never    *)
(* full.  Writers are the cores that write.                                *)
(*                                                                         *)
(* The operators named Mut... are seeded bugs, as in KvFlash.              *)
(***************************************************************************)
EXTENDS Naturals, Sequences

CONSTANTS
    Keys,             \* the keys, numbers: the index is sorted by them
    NumPages,         \* KV_SECTOR_COUNT
    PageCells,        \* records a page has room for
    Writers,          \* the cores that call kv_put and kv_delete
    MaxCalls          \* bound of the model: calls that write

ASSUME CoresAssumption ==
    /\ Keys \subseteq Nat \ {0}
    /\ NumPages \in Nat \ {0} /\ PageCells \in Nat \ {0}
    /\ Writers \subseteq {0, 1} /\ MaxCalls \in Nat

Pages    == 0 .. NumPages - 1
Capacity == MaxCalls
Places   == 1 .. Capacity

VARIABLES
    hdr, cell,        \* flash: page -> it has a header; page -> its cells
    gkeys, glocs, n,  \* g_keys, g_locs, g_count
    ref,              \* g_page_ref_count
    wpage, woff,      \* g_write_page, g_write_off
    buf,              \* the static buffer of append_record
    dead,             \* the entries of the dead log not yet read
    w,                \* core -> its call in progress
    gc,               \* the page kv_compact_step is about to erase, or NumPages
    rd,               \* Core 0's kv_get_copy in progress, or the last one with its answer
    now,              \* key -> the write whose record the index gives it, or 0
    seen, during,     \* what now gave or a write gave rd.key since the read began, and what happened
    calls

flash  == <<hdr, cell>>
index  == <<gkeys, glocs, n, ref>>
cursor == <<wpage, woff>>
vars   == <<flash, index, cursor, buf, dead, w, gc, rd, now, seen, during, calls>>

-----------------------------------------------------------------------------
(* Records and pages.                                                      *)

\* A record is its key and the number of the call that wrote it; 0: a tombstone.
Rec(k, t) == [key |-> k, tok |-> t]
Blank   == Rec(0, 0)
Garbage == MaxCalls + 1
Junk    == Rec(0, Garbage)    \* programmed twice: no record
Cells   == {Blank, Junk} \cup [key : Keys, tok : 0 .. MaxCalls]

NoLoc == <<NumPages, 1>>

At(l) == IF l[2] <= PageCells THEN cell[l[1]][l[2]] ELSE Blank

\* Seeded bug: any page will do.
MutEmpty(p) == TRUE
Empty(p) == ~hdr[p] \/ cell[p][1] = Blank

\* find_next_append_page: the nearest page behind p with no header or no record, if any.
NextPages(p) ==
    {q \in Pages : \E i \in 1 .. NumPages :
        /\ q = (p + i) % NumPages /\ Empty(q)
        /\ \A j \in 1 .. i - 1 : ~Empty((p + j) % NumPages)}

-----------------------------------------------------------------------------
(* Searching and watching.                                                 *)

\* Seeded bug: the search goes one entry too far.
MutFound(k) == \E i \in 1 .. n + 1 : gkeys[i] = k

\* idx_find_linear by a core that no other disturbs: whether k is there, where it is or is to go.
Found(k) == \E i \in 1 .. n : gkeys[i] = k
Place(k) ==
    CHOOSE i \in 1 .. n + 1 : /\ i <= n => gkeys[i] >= k
                              /\ \A j \in 1 .. i - 1 : gkeys[j] < k

Idle   == [pc |-> "idle", key |-> 0, tok |-> 0, old |-> NoLoc, loc |-> NoLoc, pos |-> 0, i |-> 0]
Goes(c, to) == w' = [w EXCEPT ![c].pc = to]
Ends(c) == w' = [w EXCEPT ![c] = Idle]
Deletes(c) == w[c].tok = 0
Moving(c) == w[c].pc \in {"keys", "locs", "where", "count"}
Programmed(c) == w[c].pc \in {"advance", "index"} \/ Moving(c)
Written(c) == {w[c].tok} \ {0}

\* A read in progress remembers what happened to its key.
Reading == rd.pc # "done"
Happens(events) == during' = IF Reading THEN during \cup events ELSE during
Becomes(k, t) ==
    /\ now' = [now EXCEPT ![k] = t]
    /\ seen' = IF Reading THEN seen \cup {now'[rd.key]} ELSE seen
Unseen == UNCHANGED <<rd, now, seen, during>>

-----------------------------------------------------------------------------
(* kv_put and kv_delete on core c.                                         *)

\* A core does one thing at a time: Core 0 does not write while it reads, and Core 1 is
\* not called while it compacts.
Free(c) == w[c].pc = "idle" /\ (c = 0 => ~Reading) /\ (c = 1 => gc = NumPages)

\* idx_get.  Core 0 reaches here through kv_store.h, for packs 0 and 1 and for all packs
\* while the SD store is not ready.
Call(c, k, t) ==
    /\ Free(c) /\ calls < MaxCalls /\ calls' = calls + 1
    /\ t \in {0, calls'} /\ (t = 0 => Found(k))
    /\ w' = [w EXCEPT ![c] = [Idle EXCEPT !.pc = "select", !.key = k, !.tok = t,
                                !.old = IF Found(k) THEN glocs[Place(k)] ELSE NoLoc]]
    /\ UNCHANGED <<flash, index, cursor, buf, dead, gc, now, seen, during, rd>>

\* select_append_page; with no page left the call is refused.
Room == woff <= PageCells
Select(c) ==
    /\ w[c].pc = "select"
    /\ \/ Room /\ Goes(c, "ready") /\ UNCHANGED cursor
       \/ ~Room /\ NextPages(wpage) # {} /\ Goes(c, "ready")
          /\ wpage' \in NextPages(wpage) /\ woff' = 1
       \/ ~Room /\ NextPages(wpage) = {} /\ Ends(c) /\ UNCHANGED cursor
    /\ UNCHANGED <<flash, index, buf, dead, gc, calls>> /\ Unseen

\* ensure_page_ready.
Ready(c) ==
    /\ w[c].pc = "ready" /\ Goes(c, "fill")
    /\ hdr' = [hdr EXCEPT ![wpage] = TRUE]
    /\ UNCHANGED <<cell, index, cursor, buf, dead, gc, calls>> /\ Unseen

\* append_record takes the address from the cursor and puts the record into the buffer,
Fill(c) ==
    /\ w[c].pc = "fill"
    /\ w' = [w EXCEPT ![c].pc = "program", ![c].loc = <<wpage, woff>>]
    /\ buf' = Rec(w[c].key, w[c].tok)
    /\ UNCHANGED <<flash, index, cursor, dead, gc, calls>> /\ Unseen

\* programs the buffer there (past the page's end, which takes two writers, the model
\* stops),
Program(c) ==
    LET p == w[c].loc[1]  o == w[c].loc[2]
    IN  /\ w[c].pc = "program" /\ o <= PageCells /\ Goes(c, "advance")
        /\ cell' = [cell EXCEPT ![p][o] = IF @ = Blank THEN buf ELSE Junk]
        /\ seen' = IF Reading /\ w[c].key = rd.key THEN seen \cup Written(c) ELSE seen
        /\ UNCHANGED <<hdr, index, cursor, buf, dead, gc, rd, now, during, calls>>

\* and takes the record's location from the cursor before moving it on; the next page to
\* append to is given its header (prewarm_next_append_page).
Advance(c) ==
    /\ w[c].pc = "advance"
    /\ w' = [w EXCEPT ![c].pc = "index", ![c].loc = <<wpage, woff>>]
    /\ woff' = woff + 1
    /\ hdr' = [p \in Pages |-> hdr[p] \/ p \in NextPages(wpage)]
    /\ UNCHANGED <<cell, index, wpage, buf, dead, gc, calls>> /\ Unseen

Loses(l) == [ref EXCEPT ![l[1]] = IF @ > 0 THEN @ - 1 ELSE @]
Buries(l) == dead' = IF l = NoLoc THEN dead ELSE Append(dead, l[1])

\* idx_set on a key the index has: one store to g_locs.
Replace(c) ==
    LET s == w[c]  f == Place(s.key)
    IN  /\ s.pc = "index" /\ ~Deletes(c) /\ Found(s.key)
        /\ glocs' = [glocs EXCEPT ![f] = s.loc]
        /\ ref' = [Loses(glocs[f]) EXCEPT ![s.loc[1]] = @ + 1]
        /\ Buries(s.old) /\ Ends(c)
        /\ Becomes(s.key, s.tok) /\ Happens({})
        /\ UNCHANGED <<flash, gkeys, n, cursor, buf, gc, rd, calls>>

\* idx_set on a new key and idx_remove: the arrays are moved one after the other, up from
\* the end or down from the key's place.
Search(c) ==
    LET s == w[c]
    IN  /\ s.pc = "index" /\ (Deletes(c) <=> Found(s.key))
        /\ w' = [w EXCEPT ![c].pc = "keys", ![c].pos = Place(s.key),
                          ![c].i = IF Deletes(c) THEN Place(s.key) ELSE n]
        /\ ref' = IF Deletes(c) THEN Loses(glocs[Place(s.key)]) ELSE ref
        /\ Happens({"moved"})
        /\ UNCHANGED <<flash, gkeys, glocs, n, cursor, buf, dead, gc, rd, now, seen, calls>>

More(s) == IF s.tok = 0 THEN s.i < n ELSE s.i >= s.pos
Shifted(s, a) ==
    IF s.tok = 0 THEN [a EXCEPT ![s.i] = a[s.i + 1]] ELSE [a EXCEPT ![s.i + 1] = a[s.i]]
Onward(s) == IF s.tok = 0 THEN s.i + 1 ELSE s.i - 1

MoveKey(c) ==
    /\ w[c].pc = "keys" /\ More(w[c])
    /\ gkeys' = Shifted(w[c], gkeys)
    /\ w' = [w EXCEPT ![c].i = Onward(w[c])]
    /\ UNCHANGED <<flash, glocs, n, ref, cursor, buf, dead, gc, calls>> /\ Unseen

KeysMoved(c) ==
    /\ w[c].pc = "keys" /\ ~More(w[c])
    /\ w' = [w EXCEPT ![c].pc = "locs", ![c].i = IF Deletes(c) THEN w[c].pos ELSE n]
    /\ UNCHANGED <<flash, index, cursor, buf, dead, gc, calls>> /\ Unseen

MoveLoc(c) ==
    /\ w[c].pc = "locs" /\ More(w[c])
    /\ glocs' = Shifted(w[c], glocs)
    /\ w' = [w EXCEPT ![c].i = Onward(w[c])]
    /\ UNCHANGED <<flash, gkeys, n, ref, cursor, buf, dead, gc, calls>> /\ Unseen

\* A deletion is done with one entry less.
Shrink(c) ==
    /\ w[c].pc = "locs" /\ ~More(w[c]) /\ Deletes(c)
    /\ n' = n - 1 /\ Ends(c) /\ Buries(w[c].old)
    /\ Becomes(w[c].key, 0) /\ Happens({})
    /\ UNCHANGED <<flash, gkeys, glocs, ref, cursor, buf, gc, rd, calls>>

\* An insertion stores the key, its location, and counts it.
StoreKey(c) ==
    /\ w[c].pc = "locs" /\ ~More(w[c]) /\ ~Deletes(c) /\ Goes(c, "where")
    /\ gkeys' = [gkeys EXCEPT ![w[c].pos] = w[c].key]
    /\ UNCHANGED <<flash, glocs, n, ref, cursor, buf, dead, gc, calls>> /\ Unseen

StoreLoc(c) ==
    /\ w[c].pc = "where" /\ Goes(c, "count")
    /\ glocs' = [glocs EXCEPT ![w[c].pos] = w[c].loc]
    /\ Becomes(w[c].key, w[c].tok) /\ Happens({})
    /\ UNCHANGED <<flash, gkeys, n, ref, cursor, buf, dead, gc, rd, calls>>

Grow(c) ==
    /\ w[c].pc = "count" /\ Ends(c)
    /\ n' = n + 1
    /\ ref' = [ref EXCEPT ![w[c].loc[1]] = @ + 1]
    /\ UNCHANGED <<flash, gkeys, glocs, cursor, buf, dead, gc, calls>> /\ Unseen

-----------------------------------------------------------------------------
(* kv_compact_step on Core 1, between two requests.                        *)

\* Seeded bug: pages with live records are erased.
MutDoomed(p) == p # wpage /\ hdr[p]
Doomed(p) == p # wpage /\ ref[p] = 0 /\ hdr[p]

Compact ==
    /\ (1 \in Writers => Free(1)) /\ gc = NumPages /\ dead # <<>>
    /\ gc' = IF Doomed(Head(dead)) THEN Head(dead) ELSE NumPages
    /\ dead' = Tail(dead)
    /\ UNCHANGED <<flash, index, cursor, buf, w, calls>> /\ Unseen

\* A read that holds a location in the page loses what it was to read.
Erase ==
    /\ gc # NumPages /\ gc' = NumPages
    /\ hdr' = [hdr EXCEPT ![gc] = FALSE]
    /\ cell' = [cell EXCEPT ![gc] = [i \in 1 .. PageCells |-> Blank]]
    /\ Happens(IF rd.loc[1] = gc THEN {"erased"} ELSE {})
    /\ UNCHANGED <<index, cursor, buf, dead, w, rd, now, seen, calls>>

-----------------------------------------------------------------------------
(* kv_get_copy on Core 0.                                                  *)

Get(k) ==
    /\ ~Reading /\ (0 \in Writers => Free(0))
    /\ rd' = [pc |-> "probe", key |-> k, lo |-> 1, hi |-> n, loc |-> NoLoc, ans |-> 0]
    /\ seen' = {now[k]} \cup UNION {Written(c) : c \in {d \in Writers : w[d].key = k /\ Programmed(d)}}
    /\ during' = IF \E c \in Writers : Moving(c) THEN {"moved"} ELSE {}
    /\ UNCHANGED <<flash, index, cursor, buf, dead, w, gc, now, calls>>

Watched == UNCHANGED <<flash, index, cursor, buf, dead, w, gc, now, seen, during, calls>>
Answers(t) == rd' = [rd EXCEPT !.pc = "done", !.ans = t]

\* idx_find_linear: one probe.
Mid == (rd.lo + rd.hi) \div 2
Probe ==
    /\ rd.pc = "probe" /\ rd.lo <= rd.hi
    /\ \/ gkeys[Mid] = rd.key /\ rd' = [rd EXCEPT !.pc = "loc", !.lo = Mid]
       \/ gkeys[Mid] < rd.key /\ rd' = [rd EXCEPT !.lo = Mid + 1]
       \/ gkeys[Mid] > rd.key /\ rd' = [rd EXCEPT !.hi = Mid - 1]
    /\ Watched

Absent == rd.pc = "probe" /\ rd.lo > rd.hi /\ Answers(0) /\ Watched

ReadLoc ==
    /\ rd.pc = "loc" /\ rd' = [rd EXCEPT !.pc = "check", !.loc = glocs[rd.lo]]
    /\ Watched

\* Seeded bug: any intact record is taken.
MutIsRecord(r, k) == r.tok \in 1 .. MaxCalls
IsRecord(r, k) == r.key = k /\ r.tok \in 1 .. MaxCalls

\* read_record checks the record's key and checksum,
Check ==
    /\ rd.pc = "check"
    /\ \/ IsRecord(At(rd.loc), rd.key) /\ rd' = [rd EXCEPT !.pc = "copy"]
       \/ ~IsRecord(At(rd.loc), rd.key) /\ Answers(0)
    /\ Watched

\* and its value.
Copy ==
    /\ rd.pc = "copy"
    /\ LET r == At(rd.loc) IN Answers(IF r.tok = 0 THEN Garbage ELSE r.tok)
    /\ Watched

-----------------------------------------------------------------------------
\* kv_init on erased flash.
Init ==
    /\ hdr = [p \in Pages |-> FALSE]
    /\ cell = [p \in Pages |-> [i \in 1 .. PageCells |-> Blank]]
    /\ gkeys = [i \in Places |-> 0] /\ glocs = [i \in Places |-> <<0, 1>>] /\ n = 0
    /\ ref = [p \in Pages |-> 0]
    /\ wpage = 0 /\ woff = 1 /\ buf = Blank /\ dead = <<>>
    /\ w = [c \in Writers |-> Idle] /\ gc = NumPages
    /\ rd = [pc |-> "done", key |-> 0, lo |-> 1, hi |-> 0, loc |-> NoLoc, ans |-> 0]
    /\ now = [k \in Keys |-> 0] /\ seen = {0} /\ during = {} /\ calls = 0

Writes(c) ==
    \/ \E k \in Keys, t \in 0 .. MaxCalls : Call(c, k, t)
    \/ Select(c) \/ Ready(c) \/ Fill(c) \/ Program(c) \/ Advance(c) \/ Replace(c)
    \/ Search(c) \/ MoveKey(c) \/ KeysMoved(c) \/ MoveLoc(c)
    \/ Shrink(c) \/ StoreKey(c) \/ StoreLoc(c) \/ Grow(c)

Reads ==
    \/ \E k \in Keys : Get(k)
    \/ Probe \/ Absent \/ ReadLoc \/ Check \/ Copy

Next == (\E c \in Writers : Writes(c)) \/ Compact \/ Erase \/ Reads

Spec == Init /\ [][Next]_vars

-----------------------------------------------------------------------------
\* With one writer the append offset never passes the page's end by more than one cell,
\* the index counts what it holds, and a location it gives lies in a page.
TypeOK ==
    /\ hdr \in [Pages -> BOOLEAN] /\ cell \in [Pages -> [1 .. PageCells -> Cells]]
    /\ gkeys \in [Places -> Keys \cup {0}] /\ glocs \in [Places -> Pages \X (1 .. PageCells)]
    /\ n \in 0 .. Capacity /\ ref \in [Pages -> 0 .. Capacity + 1]
    /\ wpage \in Pages /\ woff \in 1 .. PageCells + 1
    /\ buf \in Cells /\ dead \in Seq(Pages) /\ gc \in 0 .. NumPages
    /\ rd.ans \in 0 .. Garbage /\ now \in [Keys -> 0 .. MaxCalls]

\* append_record, "CoW - never overwrites existing page data": a cell that holds something
\* changes only when its page is erased.
CopyOnWrite ==
    [][\A p \in Pages, i \in 1 .. PageCells :
         cell[p][i] # Blank => cell'[p][i] \in {cell[p][i], Blank}]_vars

\* kv_get_copy searches an index that is being moved under it, yet what it gives is a value
\* the key had, or was being given, while it ran: a location that belongs to another key is
\* found out by the key in the record.  Only the compactor can take the record away after
\* the checks.
AnswerIsTrue ==
    ~Reading /\ rd.ans # 0 /\ "erased" \notin during => rd.ans \in seen

\* A key is reported missing only if it was, or while entries were moved to insert or remove
\* a key: replacing a value, of this key or another, hides nothing.
MissingIsTrue ==
    ~Reading /\ rd.ans = 0 /\ during = {} => 0 \in seen

=============================================================================
