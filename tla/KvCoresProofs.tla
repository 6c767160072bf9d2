---------------------------- MODULE KvCoresProofs ----------------------------
(***************************************************************************)
(* The invariants of KvCores proved for every flash, every set of keys and *)
(* any number of calls, when Core 1 alone writes: the rule append_record   *)
(* relies on, and which nothing in the code enforces.                      *)
(*   - CopyOnWrite: where the next record goes is blank;                   *)
(*   - TypeOK: an index that is moved one element at a time stays typed;   *)
(*   - AnswerIsTrue, MissingIsTrue: what the lock-free search of Core 0    *)
(*     gives, whatever it runs into.                                       *)
(***************************************************************************)
EXTENDS KvCores, FiniteSets, FiniteSetTheorems, TLAPS

OneWriter == Writers = {1}

Blanks(p) == \A i \in 1 .. PageCells : cell[p][i] = Blank

-----------------------------------------------------------------------------
(* The invariant.  CopyOnWrite alone says nothing of where the next record *)
(* goes; that the place is blank rests on all that follows.                *)

PlacesTyped ==
    /\ DOMAIN hdr = Pages /\ DOMAIN cell = Pages
    /\ \A p \in Pages : DOMAIN cell[p] = 1 .. PageCells
    /\ wpage \in Pages /\ woff \in Nat \ {0}

\* The call in progress has a page with room, a key, and, from Fill to Advance, the
\* address the cursor gives.
CallHasPlace ==
    /\ DOMAIN w = {1} /\ {"pc", "key", "loc"} \subseteq DOMAIN w[1]
    /\ w[1].pc # "idle" => w[1].key \in Keys
    /\ w[1].pc \in {"fill", "program", "advance"} => hdr[wpage]
    /\ w[1].pc = "program" => w[1].loc = <<wpage, woff>> /\ buf # Blank

\* On the write page nothing is written behind the cursor, and it is written from its
\* first cell on.
CursorAtEnd ==
    /\ \A i \in 1 .. PageCells :
          i > woff \/ (i = woff /\ w[1].pc # "advance") => cell[wpage][i] = Blank
    /\ woff > 1 \/ w[1].pc = "advance" => cell[wpage][1] # Blank /\ hdr[wpage]

\* A page that looks empty is: what select_append_page believes after one look.
EmptyIsBlank == \A p \in Pages : Empty(p) => Blanks(p)

\* Core 1 compacts only between two calls, and never the write page.
ErasesBetween == gc # NumPages => w[1].pc = "idle" /\ gc # wpage

WriterInv == PlacesTyped /\ CallHasPlace /\ CursorAtEnd /\ EmptyIsBlank /\ ErasesBetween

\* kv_init leaves erased flash, no call, and the cursor on the first cell.
LEMMA WriterInit == CoresAssumption /\ OneWriter /\ Init => WriterInv
BY DEF CoresAssumption, OneWriter, Init, Idle, Pages, Blanks, WriterInv, PlacesTyped,
       CallHasPlace, CursorAtEnd, EmptyIsBlank, ErasesBetween

\* The pages find_next_append_page may give look empty.
LEMMA NextIsEmpty == \A p \in Pages : \A q \in NextPages(p) : q \in Pages /\ Empty(q)
BY DEF NextPages

\* A record that is filled in has a key, and so is not blank.
LEMMA RecordIsNotBlank ==
    ASSUME CoresAssumption, NEW k \in Keys, NEW t PROVE Rec(k, t) # Blank
BY DEF CoresAssumption, Rec, Blank

\* Steps of the call that touch neither flash nor the cursor, and do not append.
LEMMA QuietStep ==
    ASSUME WriterInv, UNCHANGED <<hdr, cell, wpage, woff, buf, gc>>,
           DOMAIN w' = {1}, {"pc", "key", "loc"} \subseteq DOMAIN w'[1],
           w'[1].pc # "idle" => w'[1].key \in Keys,
           w'[1].pc \notin {"fill", "program", "advance"}, w[1].pc # "advance",
           gc # NumPages => w'[1].pc = "idle"
    PROVE  WriterInv'
BY DEF WriterInv, PlacesTyped, CallHasPlace, CursorAtEnd, EmptyIsBlank, Empty, Blanks,
       ErasesBetween

\* A call begins, is refused or finds its page.
LEMMA BeginStep ==
    ASSUME CoresAssumption, OneWriter, WriterInv,
           (\E k \in Keys, t \in 0 .. MaxCalls : Call(1, k, t)) \/ Select(1)
    PROVE  WriterInv'
<1>1. ASSUME NEW k \in Keys, NEW t \in 0 .. MaxCalls, Call(1, k, t) PROVE WriterInv'
  <2>1. w'[1].pc = "select" /\ w'[1].key = k /\ DOMAIN w' = {1}
        /\ {"pc", "key", "loc"} \subseteq DOMAIN w'[1]
    BY <1>1 DEF Call, WriterInv, CallHasPlace, Idle
  <2>2. w[1].pc = "idle" /\ gc = NumPages
    BY <1>1 DEF Call, Free
  <2> QED
    BY <1>1, <2>1, <2>2, QuietStep DEF Call, flash, index, cursor
<1>2. CASE Select(1)
  <2>1. w[1].pc = "select" /\ UNCHANGED <<hdr, cell, buf, gc>> /\ gc = NumPages
    BY <1>2 DEF Select, flash, WriterInv, ErasesBetween
  <2>2. CASE Ends(1) /\ UNCHANGED cursor
    <3>1. w'[1] = Idle /\ DOMAIN w' = {1}
      BY <2>2 DEF Ends, WriterInv, CallHasPlace
    <3> QED
      BY <2>1, <2>2, <3>1, QuietStep DEF Idle, cursor
  <2>3. CASE Goes(1, "ready")
    <3>1. w'[1].pc = "ready" /\ w'[1].key = w[1].key /\ DOMAIN w' = {1}
          /\ {"pc", "key", "loc"} \subseteq DOMAIN w'[1]
      BY <2>3 DEF Goes, WriterInv, CallHasPlace
    <3>2. CASE UNCHANGED cursor
      BY <2>1, <3>1, <3>2, QuietStep DEF cursor, WriterInv, CallHasPlace
    <3>3. CASE wpage' \in NextPages(wpage) /\ woff' = 1
      <4>1. wpage' \in Pages /\ Blanks(wpage')
        BY <3>3, NextIsEmpty DEF WriterInv, PlacesTyped, EmptyIsBlank
      <4>2. PlacesTyped' /\ CallHasPlace' /\ EmptyIsBlank' /\ ErasesBetween'
        BY <2>1, <3>1, <3>3, <4>1
        DEF WriterInv, PlacesTyped, CallHasPlace, EmptyIsBlank, Empty, Blanks, ErasesBetween
      <4>3. CursorAtEnd'
        BY <2>1, <3>1, <3>3, <4>1 DEF CursorAtEnd, Blanks
      <4> QED
        BY <4>2, <4>3 DEF WriterInv
    <3> QED
      BY <1>2, <2>1, <3>1, <3>2, <3>3 DEF Select, Goes, Ends
  <2> QED
    BY <1>2, <2>2, <2>3 DEF Select
<1> QED
  BY <1>1, <1>2

\* append_record up to the programming.
LEMMA PrepareStep ==
    ASSUME CoresAssumption, OneWriter, WriterInv, Ready(1) \/ Fill(1)
    PROVE  WriterInv'
<1>1. CASE Ready(1)
  <2>1. w'[1].pc = "fill" /\ w'[1].key = w[1].key /\ DOMAIN w' = {1}
        /\ {"pc", "key", "loc"} \subseteq DOMAIN w'[1] /\ w[1].pc = "ready"
    BY <1>1 DEF Ready, Goes, WriterInv, CallHasPlace
  <2>2. UNCHANGED <<cell, wpage, woff, buf, gc>> /\ hdr' = [hdr EXCEPT ![wpage] = TRUE]
    BY <1>1 DEF Ready, cursor
  <2>3. hdr'[wpage] /\ DOMAIN hdr' = Pages /\ \A p \in Pages : Empty(p)' => Empty(p)
    BY <2>2 DEF WriterInv, PlacesTyped, Empty
  <2> QED
    BY <2>1, <2>2, <2>3 DEF WriterInv, PlacesTyped, CallHasPlace, CursorAtEnd, EmptyIsBlank,
                            Blanks, ErasesBetween
<1>2. CASE Fill(1)
  <2>1. w'[1].pc = "program" /\ w'[1].loc = <<wpage, woff>> /\ w'[1].key = w[1].key
        /\ DOMAIN w' = {1} /\ {"pc", "key", "loc"} \subseteq DOMAIN w'[1] /\ w[1].pc = "fill"
    BY <1>2 DEF Fill, WriterInv, CallHasPlace
  <2>2. UNCHANGED <<hdr, cell, wpage, woff, gc>> /\ buf' # Blank
    BY <1>2, RecordIsNotBlank DEF Fill, flash, cursor, WriterInv, CallHasPlace
  <2> QED
    BY <2>1, <2>2 DEF WriterInv, PlacesTyped, CallHasPlace, CursorAtEnd, EmptyIsBlank,
                      Empty, Blanks, ErasesBetween
<1> QED
  BY <1>1, <1>2

\* The programming finds its cell blank.
LEMMA ProgramsBlank ==
    ASSUME CoresAssumption, WriterInv, Program(1)
    PROVE  /\ woff \in 1 .. PageCells /\ cell[wpage][woff] = Blank /\ buf # Blank
           /\ cell' = [cell EXCEPT ![wpage][woff] = buf]
<1>1. w[1].pc = "program" /\ w[1].loc = <<wpage, woff>> /\ buf # Blank
  BY DEF Program, WriterInv, CallHasPlace
<1>2. woff \in 1 .. PageCells /\ cell[wpage][woff] = Blank
  BY <1>1 DEF CoresAssumption, Program, WriterInv, PlacesTyped, CursorAtEnd
<1>3. cell' = [cell EXCEPT ![wpage][woff] = IF @ = Blank THEN buf ELSE Junk]
  BY <1>1 DEF Program
<1> QED
  BY <1>1, <1>2, <1>3

LEMMA ProgramStep ==
    ASSUME CoresAssumption, OneWriter, WriterInv, Program(1)
    PROVE  WriterInv'
<1>1. w'[1].pc = "advance" /\ w'[1].key = w[1].key /\ DOMAIN w' = {1}
      /\ {"pc", "key", "loc"} \subseteq DOMAIN w'[1] /\ w[1].pc = "program"
  BY DEF Program, Goes, WriterInv, CallHasPlace
<1>2. UNCHANGED <<hdr, wpage, woff, buf, gc>> /\ hdr[wpage] /\ wpage \in Pages
  BY <1>1 DEF Program, cursor, WriterInv, CallHasPlace, PlacesTyped
<1>3. /\ DOMAIN cell' = Pages /\ \A p \in Pages : DOMAIN cell'[p] = 1 .. PageCells
      /\ \A p \in Pages \ {wpage} : cell'[p] = cell[p]
      /\ \A i \in 1 .. PageCells : i # woff => cell'[wpage][i] = cell[wpage][i]
      /\ cell'[wpage][woff] # Blank
  BY <1>2, ProgramsBlank DEF WriterInv, PlacesTyped
<1>4. cell'[wpage][1] # Blank
  BY <1>2, <1>3, ProgramsBlank DEF CoresAssumption, WriterInv, PlacesTyped, CursorAtEnd
<1>5. CursorAtEnd'
  BY <1>1, <1>2, <1>3, <1>4 DEF WriterInv, CursorAtEnd, PlacesTyped
<1>6. EmptyIsBlank'
  BY <1>2, <1>3, <1>4 DEF WriterInv, EmptyIsBlank, Empty, Blanks
<1> QED
  BY <1>1, <1>2, <1>3, <1>5, <1>6 DEF WriterInv, PlacesTyped, CallHasPlace, ErasesBetween

\* The cursor moves behind the record; the next page is given its header.
LEMMA AdvanceStep ==
    ASSUME CoresAssumption, OneWriter, WriterInv, Advance(1)
    PROVE  WriterInv'
<1>1. w'[1].pc = "index" /\ w'[1].key = w[1].key /\ DOMAIN w' = {1}
      /\ {"pc", "key", "loc"} \subseteq DOMAIN w'[1] /\ w[1].pc = "advance"
  BY DEF Advance, WriterInv, CallHasPlace
<1>2. UNCHANGED <<cell, wpage, buf, gc>> /\ woff' = woff + 1
  BY DEF Advance
<1>3. DOMAIN hdr' = Pages /\ \A p \in Pages : hdr[p] => hdr'[p]
  BY DEF Advance
<1>4. \A p \in Pages : Empty(p)' => Empty(p)
  BY <1>2, <1>3 DEF Empty
<1>5. CursorAtEnd'
  BY <1>1, <1>2, <1>3 DEF CoresAssumption, WriterInv, CursorAtEnd, PlacesTyped
<1> QED
  BY <1>1, <1>2, <1>3, <1>4, <1>5
  DEF WriterInv, PlacesTyped, CallHasPlace, EmptyIsBlank, Blanks, ErasesBetween

\* The index steps leave flash, cursor and buffer alone, and the call ends or goes on.
IndexSteps(c) ==
    Replace(c) \/ Search(c) \/ MoveKey(c) \/ KeysMoved(c) \/ MoveLoc(c)
    \/ Shrink(c) \/ StoreKey(c) \/ StoreLoc(c) \/ Grow(c)

LEMMA IndexStep ==
    ASSUME CoresAssumption, OneWriter, WriterInv, IndexSteps(1)
    PROVE  WriterInv'
<1>1. UNCHANGED <<hdr, cell, wpage, woff, buf, gc>>
  BY DEF IndexSteps, Replace, Search, MoveKey, KeysMoved, MoveLoc, Shrink, StoreKey, StoreLoc,
         Grow, flash, cursor
<1>2. w[1].pc \in {"index", "keys", "locs", "where", "count"}
  BY DEF IndexSteps, Replace, Search, MoveKey, KeysMoved, MoveLoc, Shrink, StoreKey, StoreLoc, Grow
<1>3. gc = NumPages
  BY <1>2 DEF WriterInv, ErasesBetween
<1>4. CASE Ends(1)
  <2>1. w'[1] = Idle /\ DOMAIN w' = {1}
    BY <1>4 DEF Ends, WriterInv, CallHasPlace
  <2> QED
    BY <1>1, <1>2, <1>3, <2>1, QuietStep DEF Idle
<1>5. CASE ~Ends(1)
  <2>1. w'[1].pc \in {"index", "keys", "locs", "where", "count"} /\ w'[1].key = w[1].key
        /\ DOMAIN w' = {1} /\ {"pc", "key", "loc"} \subseteq DOMAIN w'[1]
    <3>1. CASE Search(1)
      BY <3>1 DEF Search, WriterInv, CallHasPlace
    <3>2. CASE MoveKey(1) \/ KeysMoved(1) \/ MoveLoc(1)
      BY <3>2 DEF MoveKey, KeysMoved, MoveLoc, WriterInv, CallHasPlace
    <3>3. CASE StoreKey(1) \/ StoreLoc(1)
      BY <3>3 DEF StoreKey, StoreLoc, Goes, WriterInv, CallHasPlace
    <3> QED
      BY <1>5, <3>1, <3>2, <3>3 DEF IndexSteps, Replace, Shrink, Grow
  <2>2. w[1].key \in Keys
    BY <1>2 DEF WriterInv, CallHasPlace
  <2> QED
    BY <1>1, <1>2, <1>3, <2>1, <2>2, QuietStep
<1> QED
  BY <1>4, <1>5

\* kv_compact_step takes a page that is not the write page, between two calls.
LEMMA CompactStep ==
    ASSUME CoresAssumption, OneWriter, WriterInv, Compact
    PROVE  WriterInv'
<1>1. w[1].pc = "idle" /\ UNCHANGED <<hdr, cell, wpage, woff, buf, w>>
  BY DEF Compact, Free, OneWriter, flash, cursor
<1>2. CASE gc' = NumPages
  BY <1>1, <1>2 DEF CoresAssumption, WriterInv, PlacesTyped, CallHasPlace, CursorAtEnd,
                    EmptyIsBlank, Empty, Blanks, ErasesBetween
<1>3. CASE gc' = Head(dead) /\ Doomed(Head(dead))
  <2>1. gc' # wpage
    BY <1>3 DEF Doomed, Compact
  <2> QED
    BY <1>1, <2>1 DEF CoresAssumption, Pages, WriterInv, PlacesTyped, CallHasPlace, CursorAtEnd,
                      EmptyIsBlank, Empty, Blanks, ErasesBetween
<1> QED
  BY <1>2, <1>3 DEF Compact

LEMMA EraseStep ==
    ASSUME CoresAssumption, OneWriter, WriterInv, Erase
    PROVE  WriterInv'
<1>1. gc # NumPages /\ gc' = NumPages /\ UNCHANGED <<wpage, woff, buf, w>>
      /\ w[1].pc = "idle" /\ gc # wpage
  BY DEF Erase, cursor, WriterInv, ErasesBetween
<1>2. /\ hdr' = [hdr EXCEPT ![gc] = FALSE]
      /\ cell' = [cell EXCEPT ![gc] = [i \in 1 .. PageCells |-> Blank]]
  BY DEF Erase
<1>3. PlacesTyped'
  BY <1>1, <1>2 DEF CoresAssumption, WriterInv, PlacesTyped
<1>4. /\ hdr'[wpage] = hdr[wpage] /\ cell'[wpage] = cell[wpage]
      /\ \A p \in Pages \ {gc} : hdr'[p] = hdr[p] /\ cell'[p] = cell[p]
      /\ gc \in Pages => \A i \in 1 .. PageCells : cell'[gc][i] = Blank
  BY <1>1, <1>2 DEF WriterInv, PlacesTyped
<1>5. EmptyIsBlank'
  BY <1>4 DEF WriterInv, EmptyIsBlank, Empty, Blanks
<1> QED
  BY <1>1, <1>3, <1>4, <1>5 DEF WriterInv, CallHasPlace, CursorAtEnd, ErasesBetween

\* Every step preserves the invariant; a reader's steps change nothing it speaks of.
LEMMA WriterStep ==
    CoresAssumption /\ OneWriter /\ WriterInv /\ [Next]_vars => WriterInv'
<1> SUFFICES ASSUME CoresAssumption, OneWriter, WriterInv, [Next]_vars PROVE WriterInv'
  OBVIOUS
<1>1. CASE Writes(1)
  BY <1>1, BeginStep, PrepareStep, ProgramStep, AdvanceStep, IndexStep DEF Writes, IndexSteps
<1>2. CASE Compact
  BY <1>2, CompactStep
<1>3. CASE Erase
  BY <1>3, EraseStep
<1>4. CASE Reads \/ UNCHANGED vars
  <2>1. UNCHANGED <<hdr, cell, wpage, woff, buf, w, gc>>
    BY <1>4 DEF Reads, Get, Probe, Absent, ReadLoc, Check, Copy, Watched, vars, flash, cursor
  <2> QED
    BY <2>1 DEF WriterInv, PlacesTyped, CallHasPlace, CursorAtEnd, EmptyIsBlank, Empty, Blanks,
                ErasesBetween
<1> QED
  BY <1>1, <1>2, <1>3, <1>4 DEF Next, OneWriter

\* What CopyOnWrite says of one step.
Copies ==
    \A p \in Pages, i \in 1 .. PageCells :
        cell[p][i] # Blank => cell'[p][i] \in {cell[p][i], Blank}

\* Only programming and erasing touch cells.
LEMMA StepCopies ==
    CoresAssumption /\ OneWriter /\ WriterInv /\ [Next]_vars => Copies
<1> SUFFICES ASSUME CoresAssumption, OneWriter, WriterInv, [Next]_vars PROVE Copies
  OBVIOUS
<1>1. CASE Program(1)
  BY <1>1, ProgramsBlank DEF Copies, WriterInv, PlacesTyped
<1>2. CASE Erase
  BY <1>2 DEF Erase, Copies, WriterInv, PlacesTyped
<1>3. CASE UNCHANGED cell
  BY <1>3 DEF Copies
<1>4. Writes(1) => Program(1) \/ UNCHANGED cell
  BY DEF Writes, Call, Select, Ready, Fill, Advance, Replace, Search, MoveKey, KeysMoved,
         MoveLoc, Shrink, StoreKey, StoreLoc, Grow, flash
<1>5. Compact \/ Reads \/ UNCHANGED vars => UNCHANGED cell
  BY DEF Compact, Reads, Get, Probe, Absent, ReadLoc, Check, Copy, Watched, vars, flash
<1> QED
  BY <1>1, <1>2, <1>3, <1>4, <1>5 DEF Next, OneWriter

\* With Core 1 as the only writer append_record never programs over anything, whatever
\* Core 0 reads meanwhile: the promise of its comment, under the rule that Core 0 leaves
\* the flash store to Core 1.
THEOREM OneWriterCopies == OneWriter /\ Spec => CopyOnWrite
<1>1. CoresAssumption
  BY CoresAssumption
<1>2. OneWriter /\ Init => WriterInv
  BY <1>1, WriterInit
<1>3. OneWriter /\ WriterInv /\ [Next]_vars => WriterInv'
  BY <1>1, WriterStep
<1>4. OneWriter /\ WriterInv /\ [Next]_vars => [Copies]_vars
  BY <1>1, StepCopies
<1>5. OneWriter => OneWriter'
  BY DEF OneWriter
<1>6. CopyOnWrite <=> [][Copies]_vars
  BY DEF CopyOnWrite, Copies
<1> QED
  BY <1>2, <1>3, <1>4, <1>5, <1>6, PTL DEF Spec

-----------------------------------------------------------------------------
(* What the core's call may hold, and the ranges of all that is indexed.   *)

Locs == Pages \X (1 .. PageCells)
Pcs  == {"idle", "select", "ready", "fill", "program", "advance", "index",
         "keys", "locs", "where", "count"}
Calling == w[1].pc # "idle"

Call1 == [pc : Pcs, key : Keys \cup {0}, tok : 0 .. MaxCalls, old : Locs \cup {NoLoc},
          loc : (Pages \X Nat) \cup {NoLoc}, pos : Nat, i : Nat]

CallTyped ==
    /\ w \in [{1} -> Call1]
    /\ w[1].pc \in {"ready", "fill", "program", "advance"} => woff <= PageCells
    /\ w[1].pc = "index" \/ Moving(1) => w[1].loc \in Locs

\* Every call in progress may still add one entry and one reference.
IndexTyped ==
    /\ gkeys \in [Places -> Keys \cup {0}] /\ glocs \in [Places -> Locs]
    /\ n \in Nat /\ calls \in 0 .. MaxCalls /\ n <= calls /\ (Calling => n < calls)
    /\ ref \in [Pages -> Nat]
    /\ \A p \in Pages : ref[p] <= calls /\ (Calling => ref[p] < calls)

\* While entries are moved, the place moved up to lies among them.
MoveInRange ==
    /\ Moving(1) => /\ w[1].pos \in 1 .. n + 1
                    /\ IF Deletes(1) THEN w[1].pos <= n /\ w[1].i \in w[1].pos .. n
                       ELSE w[1].i \in w[1].pos - 1 .. n
    /\ w[1].pc \in {"where", "count"} => ~Deletes(1)

FlashTyped ==
    /\ hdr \in [Pages -> BOOLEAN] /\ cell \in [Pages -> [1 .. PageCells -> Cells]]
    /\ woff \in 1 .. PageCells + 1 /\ buf \in Cells /\ dead \in Seq(Pages)
    /\ gc \in 0 .. NumPages

WatchTyped == rd.ans \in 0 .. Garbage /\ now \in [Keys -> 0 .. MaxCalls]

TypeInv == CallTyped /\ IndexTyped /\ MoveInRange /\ FlashTyped /\ WatchTyped

-----------------------------------------------------------------------------
(* The index while it is moved.  A move leaves one element of g_keys and   *)
(* one of g_locs that does not count, the hole; the entries are what is    *)
(* left, and a deletion's own entry is gone once it is the hole.           *)

KeyHole ==
    IF w[1].pc = "keys" THEN IF Deletes(1) THEN w[1].i ELSE w[1].i + 1
    ELSE IF Moving(1) THEN IF Deletes(1) THEN n ELSE w[1].pos
    ELSE n + 1
LocHole ==
    IF w[1].pc = "keys" THEN IF Deletes(1) THEN w[1].pos ELSE n + 1
    ELSE IF w[1].pc = "locs" THEN IF Deletes(1) THEN w[1].i ELSE w[1].i + 1
    ELSE IF Moving(1) THEN w[1].pos
    ELSE n + 1
Count == IF Moving(1) /\ Deletes(1) THEN n - 1 ELSE n

Past(h, j) == IF j < h THEN j ELSE j + 1
KeyAt(j) == gkeys[Past(KeyHole, j)]
LocAt(j) == glocs[Past(LocHole, j)]

\* An entry's location has the record of the last write to its key.
Cell(l) == cell[l[1]][l[2]]
LocTrue(l) == Cell(l).key \in Keys /\ Cell(l).tok # 0 /\ Cell(l).tok = now[Cell(l).key]

\* The entries are in the order of their keys, and each has its key's record.
EntriesTrue ==
    /\ \A j \in 1 .. Count : KeyAt(j) \in Keys /\ LocTrue(LocAt(j)) /\ Cell(LocAt(j)).key = KeyAt(j)
    /\ \A i, j \in 1 .. Count : i < j => KeyAt(i) < KeyAt(j)

\* The key of the call that moves entries is not among them and goes between two.
CallApart ==
    Moving(1) => \A j \in 1 .. Count : IF j < w[1].pos THEN KeyAt(j) < w[1].key ELSE KeyAt(j) > w[1].key

\* The hole in g_locs still gives a record that counts.
HoleTrue == Moving(1) /\ LocHole \in 1 .. n => LocTrue(glocs[LocHole])

\* A key that has a value has an entry, unless it is being inserted or removed.
Indexed ==
    \A k \in Keys : now[k] # 0 => \/ \E j \in 1 .. Count : KeyAt(j) = k
                                  \/ Moving(1) /\ k = w[1].key

\* The call in progress: its record, on its way into flash and into the index.
CallTrue ==
    /\ w[1].pc = "program" => buf = Rec(w[1].key, w[1].tok)
    /\ w[1].pc = "advance" => cell[wpage][woff] = Rec(w[1].key, w[1].tok)
    /\ w[1].pc = "index" \/ Moving(1) =>
          Cell(w[1].loc) = Rec(w[1].key, w[1].tok)
    /\ w[1].pc \in {"where", "count"} => gkeys[w[1].pos] = w[1].key
    /\ w[1].pc = "count" => glocs[w[1].pos] = w[1].loc /\ now[w[1].key] = w[1].tok

\* g_page_ref_count is the number of entries in the page.
LiveIn(p) == {i \in 1 .. PageCells : \E j \in 1 .. Count : LocAt(j) = <<p, i>>}
RefsExact == \A p \in Pages : ref[p] = Cardinality(LiveIn(p))

\* The page about to be erased has no entry.
ErasesDead == gc # NumPages => ref[gc] = 0

IndexInv == EntriesTrue /\ CallApart /\ HoleTrue /\ Indexed /\ CallTrue /\ RefsExact /\ ErasesDead

-----------------------------------------------------------------------------
(* The read in progress.                                                   *)

\* A record of the key at l would be a true answer.
SeenAt(l) == Cell(l).key = rd.key /\ Cell(l).tok # 0 => Cell(l).tok \in seen

ReadTyped ==
    /\ rd \in [pc : {"probe", "loc", "check", "copy", "done"}, key : Keys \cup {0},
               lo : Nat \ {0}, hi : Nat, loc : Locs \cup {NoLoc}, ans : 0 .. Garbage]
    /\ rd.hi <= Capacity
    /\ Reading => rd.key \in Keys
    /\ rd.pc = "loc" => rd.lo <= Capacity
    /\ rd.pc \in {"check", "copy"} => rd.loc \in Locs

\* What has been written or is being written is remembered.
SeesNow ==
    Reading => /\ now[rd.key] \in seen
               /\ Programmed(1) /\ w[1].key = rd.key /\ ~Deletes(1) => w[1].tok \in seen

\* Whatever the search can still find, and what it found, is a true answer.
SearchTrue ==
    /\ rd.pc = "probe" => \A i \in 1 .. rd.hi : SeenAt(glocs[i])
    /\ rd.pc = "loc" => SeenAt(glocs[rd.lo])
    /\ rd.pc \in {"check", "copy"} => SeenAt(rd.loc)
    /\ rd.pc = "copy" /\ "erased" \notin during => IsRecord(Cell(rd.loc), rd.key)

\* With nothing moved or erased, the search closes in on the key.
SearchComplete ==
    Reading /\ during = {} =>
        /\ ~Moving(1) /\ (rd.pc = "probe" => rd.hi <= n)
        /\ \/ 0 \in seen
           \/ rd.pc = "probe" /\ \E f \in 1 .. n : gkeys[f] = rd.key /\ rd.lo <= f /\ f <= rd.hi
           \/ rd.pc = "loc" /\ rd.lo \in 1 .. n /\ gkeys[rd.lo] = rd.key
           \/ rd.pc \in {"check", "copy"} /\ IsRecord(Cell(rd.loc), rd.key)

ReadInv == ReadTyped /\ SeesNow /\ SearchTrue /\ SearchComplete /\ AnswerIsTrue /\ MissingIsTrue

-----------------------------------------------------------------------------
(* Ranges.                                                                 *)

\* The first place that does not go before k: where idx_find_linear ends.
LEMMA PlaceIs ==
    ASSUME n \in Nat, NEW k \in Nat, \A i \in 1 .. n : gkeys[i] \in Nat
    PROVE  /\ Place(k) \in 1 .. n + 1 /\ (Place(k) <= n => gkeys[Place(k)] >= k)
           /\ \A j \in 1 .. Place(k) - 1 : gkeys[j] < k
<1> DEFINE S == {i \in 1 .. n + 1 : i <= n => gkeys[i] >= k}
<1>1. S \subseteq Nat /\ n + 1 \in S
  OBVIOUS
<1>2. PICK i \in S : \A j \in S : ~(<<j, i>> \in OpToRel(<, Nat))
  <2>1. S # {}
    BY <1>1
  <2> HIDE DEF S
  <2> QED
    BY <1>1, <2>1, NatLessThanWellFounded, WFMin
<1>3. \A j \in S : ~(j < i)
  BY <1>1, <1>2 DEF OpToRel
<1>4. i \in 1 .. n + 1 /\ (i <= n => gkeys[i] >= k)
  BY <1>2
<1>5. \A j \in 1 .. i - 1 : gkeys[j] < k
  <2> SUFFICES ASSUME NEW j \in 1 .. i - 1 PROVE gkeys[j] < k
    OBVIOUS
  <2>1. j \in 1 .. n /\ j < i
    BY <1>4
  <2>2. j \notin S
    BY <1>3, <2>1
  <2> QED
    BY <2>1, <2>2
<1> QED
  BY <1>4, <1>5 DEF Place

LEMMA Ranges ==
    ASSUME CoresAssumption
    PROVE  /\ Keys \subseteq Nat \ {0} /\ NumPages \in Nat \ {0} /\ PageCells \in Nat \ {0}
           /\ MaxCalls \in Nat /\ NumPages \notin Pages /\ NoLoc \notin Locs
           /\ Blank \in Cells /\ Junk \in Cells
           /\ \A k \in Keys, t \in 0 .. MaxCalls : Rec(k, t) \in Cells
BY DEF CoresAssumption, Pages, Locs, NoLoc, Cells, Rec

LEMMA TypeInit == CoresAssumption /\ OneWriter /\ Init => TypeInv
<1> SUFFICES ASSUME CoresAssumption, OneWriter, Init PROVE TypeInv
  OBVIOUS
<1>1. CallTyped /\ WatchTyped
  BY Ranges DEF CallTyped, Call1, WatchTyped, Init, OneWriter, Idle, Pcs, Garbage, Moving
<1>2. IndexTyped
  BY Ranges DEF IndexTyped, Init, OneWriter, Calling, Idle, Places, Capacity, Pages, Locs
<1>3. FlashTyped
  BY Ranges DEF FlashTyped, Init, Pages
<1>4. MoveInRange
  BY DEF MoveInRange, Moving, Init, OneWriter, Idle
<1> QED
  BY <1>1, <1>2, <1>3, <1>4 DEF TypeInv

\* A key the index has is found among its entries.
LEMMA FoundPlace ==
    ASSUME CoresAssumption, TypeInv, NEW k \in Keys
    PROVE  Place(k) \in 1 .. n + 1 /\ (Found(k) => Place(k) \in 1 .. n)
<1>1. k \in Nat /\ n \in Nat /\ \A i \in 1 .. n : gkeys[i] \in Nat
  <2>1. n \in Nat /\ n <= MaxCalls /\ gkeys \in [1 .. MaxCalls -> Keys \cup {0}]
    BY Ranges DEF TypeInv, IndexTyped, Places, Capacity
  <2>2. k \in Nat /\ Keys \cup {0} \subseteq Nat /\ 1 .. n \subseteq 1 .. MaxCalls
    BY <2>1, Ranges
  <2> QED
    BY <2>1, <2>2
<1>2. Place(k) \in 1 .. n + 1 /\ \A j \in 1 .. Place(k) - 1 : gkeys[j] < k
  BY <1>1, PlaceIs
<1> QED
  BY <1>1, <1>2 DEF Found

\* idx_set and idx_remove take a page's count down by one, and never below zero.
LEMMA LosesOne ==
    ASSUME ref \in [Pages -> Nat], NEW l \in Locs
    PROVE  Loses(l) \in [Pages -> Nat] /\ \A p \in Pages : Loses(l)[p] <= ref[p]
<1>1. PICK q \in Pages : q = l[1]
  BY DEF Locs
<1>2. PICK c \in Nat : c = (IF ref[q] > 0 THEN ref[q] - 1 ELSE ref[q]) /\ c <= ref[q]
  BY <1>1
<1>3. Loses(l) = [ref EXCEPT ![q] = c]
  BY <1>1, <1>2 DEF Loses
<1> QED
  BY <1>1, <1>2, <1>3

\* An idle call has nothing to say.
LEMMA IdleTyped ==
    CoresAssumption => Idle \in Call1
BY Ranges DEF Idle, Call1, Pcs

\* A call that goes on.
LEMMA CallGoes ==
    ASSUME NEW s \in Call1, NEW to \in Pcs
    PROVE  /\ [s EXCEPT !.pc = to] \in Call1
           /\ \A l \in (Pages \X Nat) \cup {NoLoc} : [s EXCEPT !.pc = to, !.loc = l] \in Call1
           /\ \A a, b \in Nat : [s EXCEPT !.pc = to, !.pos = a, !.i = b] \in Call1
           /\ \A b \in Nat : [s EXCEPT !.pc = to, !.i = b] \in Call1
           /\ \A b \in Nat : [s EXCEPT !.i = b] \in Call1
BY DEF Call1

\* Steps that touch neither the index nor flash, cursor and buffer.
LEMMA QuietTypes ==
    ASSUME CoresAssumption, TypeInv, UNCHANGED <<flash, cursor, buf, rd, now>>
    PROVE  /\ FlashTyped /\ gc' \in 0 .. NumPages /\ dead' \in Seq(Pages) => FlashTyped'
           /\ WatchTyped'
BY DEF TypeInv, FlashTyped, WatchTyped, flash, cursor

\* What a call in progress is.
LEMMA CallFields ==
    ASSUME CallTyped
    PROVE  /\ w[1] \in Call1 /\ DOMAIN w = {1} /\ w = [c \in {1} |-> w[c]]
           /\ DOMAIN w[1] = {"pc", "key", "tok", "old", "loc", "pos", "i"}
           /\ w[1].pc \in Pcs /\ w[1].key \in Keys \cup {0} /\ w[1].tok \in 0 .. MaxCalls
           /\ w[1].old \in Locs \cup {NoLoc} /\ w[1].loc \in (Pages \X Nat) \cup {NoLoc}
           /\ w[1].pos \in Nat /\ w[1].i \in Nat
BY DEF CallTyped, Call1

LEMMA CallTypes ==
    ASSUME CoresAssumption, OneWriter, TypeInv, NEW k \in Keys, NEW t \in 0 .. MaxCalls, Call(1, k, t)
    PROVE  TypeInv'
<1>1. FlashTyped' /\ WatchTyped'
  BY DEF TypeInv, FlashTyped, WatchTyped, Call, flash, cursor
<1>2. Found(k) => glocs[Place(k)] \in Locs
  BY FoundPlace, Ranges DEF TypeInv, IndexTyped, Places, Capacity
<1>3. CallTyped'
  <2>1. LET old == IF Found(k) THEN glocs[Place(k)] ELSE NoLoc
        IN  [Idle EXCEPT !.pc = "select", !.key = k, !.tok = t, !.old = old] \in Call1
    BY <1>2, IdleTyped DEF Call1, Pcs
  <2> QED
    BY <2>1, CallFields DEF TypeInv, CallTyped, Call, Idle, Moving
<1>4. w[1].pc = "idle" /\ w'[1].pc = "select"
  BY DEF TypeInv, CallTyped, Call, Free
<1>5. IndexTyped'
  BY <1>4, Ranges DEF TypeInv, IndexTyped, Call, Calling, index
<1>6. MoveInRange'
  BY <1>4 DEF MoveInRange, Moving
<1> QED
  BY <1>1, <1>3, <1>5, <1>6 DEF TypeInv

\* append_record and what comes before it.
LEMMA AppendTypes ==
    ASSUME CoresAssumption, OneWriter, WriterInv, TypeInv,
           Select(1) \/ Ready(1) \/ Fill(1) \/ Program(1) \/ Advance(1)
    PROVE  TypeInv'
<1>1. /\ w[1].pc \in {"select", "ready", "fill", "program", "advance"}
      /\ w'[1].pc \in {"idle", "ready", "fill", "program", "advance", "index"}
  BY CallFields DEF TypeInv, Select, Ready, Fill, Program, Advance, Goes, Ends, Idle
<1>2. CallTyped'
  <2>1. w[1] \in Call1 /\ DOMAIN w = {1} /\ w = [c \in {1} |-> w[c]]
    BY DEF TypeInv, CallTyped
  <2>2. CASE Select(1)
    <3>1. [w[1] EXCEPT !.pc = "ready"] \in Call1 /\ Idle \in Call1
      BY <2>1, CallGoes, IdleTyped DEF Pcs
    <3>2. w' \in [{1} -> Call1]
      BY <2>1, <2>2, <3>1 DEF Select, Goes, Ends
    <3>3. w'[1].pc = "ready" => woff' <= PageCells
      BY <2>1, <2>2, Ranges DEF Select, Goes, Ends, Room, cursor, Idle
    <3> QED
      BY <1>1, <2>1, <2>2, <3>2, <3>3, CallFields DEF TypeInv, CallTyped, Select, Goes, Ends, Idle, Moving
  <2>3. CASE Ready(1)
    <3>1. [w[1] EXCEPT !.pc = "fill"] \in Call1
      BY <2>1, CallGoes DEF Pcs
    <3> QED
      BY <2>1, <2>3, <3>1, CallFields DEF Ready, TypeInv, CallTyped, Goes, cursor, Moving
  <2>4. CASE Fill(1)
    <3>1. <<wpage, woff>> \in Pages \X Nat
      BY DEF WriterInv, PlacesTyped
    <3>2. [w[1] EXCEPT !.pc = "program", !.loc = <<wpage, woff>>] \in Call1
      BY <2>1, <3>1, CallGoes DEF Pcs
    <3>3. w' \in [{1} -> Call1]
      BY <2>1, <2>4, <3>2 DEF Fill
    <3> QED
      BY <2>4, <3>3, CallFields DEF Fill, TypeInv, CallTyped, cursor, Moving
  <2>5. CASE Program(1)
    <3>1. [w[1] EXCEPT !.pc = "advance"] \in Call1
      BY <2>1, CallGoes DEF Pcs
    <3> QED
      BY <2>1, <2>5, <3>1, CallFields DEF Program, TypeInv, CallTyped, Goes, cursor, Moving
  <2>6. CASE Advance(1)
    <3>1. <<wpage, woff>> \in Pages \X Nat
      BY DEF WriterInv, PlacesTyped
    <3>2. [w[1] EXCEPT !.pc = "index", !.loc = <<wpage, woff>>] \in Call1
      BY <2>1, <3>1, CallGoes DEF Pcs
    <3>3. w' \in [{1} -> Call1]
      BY <2>1, <2>6, <3>2 DEF Advance
    <3>4. <<wpage, woff>> \in Locs
      BY <2>1, <2>6, <3>1, Ranges DEF Advance, TypeInv, CallTyped, FlashTyped, Locs
    <3> QED
      BY <2>1, <2>6, <3>3, <3>4, CallFields DEF TypeInv, Advance, CallTyped
  <2> QED
    BY <2>2, <2>3, <2>4, <2>5, <2>6
<1>3. IndexTyped' /\ MoveInRange'
  BY <1>1 DEF Select, Ready, Fill, Program, Advance, TypeInv, IndexTyped, Calling, MoveInRange, Moving, index
<1>4. WatchTyped'
  BY DEF Select, Ready, Fill, Program, Advance, Unseen, TypeInv, WatchTyped
<1>5. FlashTyped'
  <2>1. CASE Select(1)
    BY <2>1, Ranges DEF Select, TypeInv, FlashTyped, flash, cursor
  <2>2. CASE Ready(1)
    BY <2>2 DEF Ready, TypeInv, FlashTyped, cursor
  <2>3. CASE Fill(1)
    <3>1. w[1].key \in Keys /\ w[1].tok \in 0 .. MaxCalls
      BY <1>1, CallFields DEF WriterInv, CallHasPlace, TypeInv
    <3> QED
      BY <2>3, <3>1, Ranges DEF Fill, TypeInv, FlashTyped, flash, cursor
  <2>4. CASE Program(1)
    <3>1. cell' = [cell EXCEPT ![wpage][woff] = buf] /\ wpage \in Pages /\ woff \in 1 .. PageCells
      BY <2>4, ProgramsBlank DEF WriterInv, PlacesTyped
    <3>2. cell' \in [Pages -> [1 .. PageCells -> Cells]]
      BY <3>1 DEF TypeInv, FlashTyped
    <3> QED
      BY <2>4, <3>2 DEF Program, TypeInv, FlashTyped, cursor
  <2>5. CASE Advance(1)
    <3>1. woff <= PageCells
      BY <2>5 DEF Advance, TypeInv, CallTyped
    <3>2. hdr' \in [Pages -> BOOLEAN]
      BY <2>5 DEF Advance, TypeInv, FlashTyped
    <3> QED
      BY <2>5, <3>1, <3>2, Ranges DEF Advance, TypeInv, FlashTyped
  <2> QED
    BY <2>1, <2>2, <2>3, <2>4, <2>5
<1> QED
  BY <1>2, <1>3, <1>4, <1>5 DEF TypeInv

\* One element moves up or down.
LEMMA ShiftTyped ==
    ASSUME CoresAssumption, TypeInv, w[1].pc \in {"keys", "locs"}, More(w[1]), NEW S,
           NEW a \in [Places -> S]
    PROVE  /\ Shifted(w[1], a) \in [Places -> S]
           /\ Deletes(1) => w[1].i \in 1 .. n /\ w[1].i + 1 \in 1 .. n
           /\ ~Deletes(1) => w[1].i \in 1 .. n /\ w[1].i + 1 \in Places /\ w[1].i >= w[1].pos
           /\ 1 .. n \subseteq Places /\ n \in Nat /\ w[1].i \in Nat /\ w[1].pos \in 1 .. n + 1
<1>1. n \in Nat /\ n < MaxCalls /\ w[1].i \in Nat /\ w[1].pos \in 1 .. n + 1 /\ MaxCalls \in Nat
  BY CallFields, Ranges DEF TypeInv, IndexTyped, Calling, MoveInRange, Moving
<1>2. CASE Deletes(1)
  <2>1. w[1].i \in 1 .. n /\ w[1].i + 1 \in 1 .. n
    BY <1>1, <1>2 DEF More, Deletes, TypeInv, MoveInRange, Moving
  <2> QED
    BY <1>1, <1>2, <2>1 DEF Shifted, Deletes, Places, Capacity
<1>3. CASE ~Deletes(1)
  <2>1. w[1].i \in 1 .. n /\ w[1].i >= w[1].pos
    BY <1>1, <1>3 DEF More, Deletes, TypeInv, MoveInRange, Moving
  <2> QED
    BY <1>1, <1>3, <2>1 DEF Shifted, Deletes, Places, Capacity
<1> QED
  BY <1>2, <1>3

\* The entries move one by one, or the move begins or goes on.
LEMMA MoveTypes ==
    ASSUME CoresAssumption, OneWriter, WriterInv, TypeInv,
           Search(1) \/ MoveKey(1) \/ KeysMoved(1) \/ MoveLoc(1) \/ StoreKey(1) \/ StoreLoc(1)
    PROVE  TypeInv'
<1>1. /\ w[1].pc \in {"index", "keys", "locs", "where"}
      /\ w'[1].pc \in {"keys", "locs", "where", "count"}
      /\ w'[1].tok = w[1].tok /\ Calling /\ Calling'
  BY CallFields DEF TypeInv, Search, MoveKey, KeysMoved, MoveLoc, StoreKey, StoreLoc, Goes, Calling
<1>2. n \in Nat /\ n < MaxCalls /\ n + 1 \in Places /\ 1 .. n \subseteq Places /\ w[1].key \in Keys
  BY <1>1, Ranges DEF TypeInv, IndexTyped, Calling, Places, Capacity, WriterInv, CallHasPlace
<1>3. FlashTyped'
  BY DEF Search, MoveKey, KeysMoved, MoveLoc, StoreKey, StoreLoc, TypeInv, FlashTyped, flash, cursor
<1>4. WatchTyped'
  BY <1>2, CallFields DEF Search, MoveKey, KeysMoved, MoveLoc, StoreKey, StoreLoc, TypeInv, WatchTyped, Unseen, Becomes
<1>5. CASE Search(1)
  <2>1. Place(w[1].key) \in 1 .. n + 1 /\ (Deletes(1) => Place(w[1].key) \in 1 .. n)
    BY <1>2, <1>5, FoundPlace DEF Search
  <2>2. CallTyped' /\ w'[1].pos = Place(w[1].key)
        /\ w'[1].i = IF Deletes(1) THEN Place(w[1].key) ELSE n
    <3>4. Place(w[1].key) \in Nat /\ (IF Deletes(1) THEN Place(w[1].key) ELSE n) \in Nat
      BY <1>2, <2>1
    <3>5. PICK a \in Nat, b \in Nat : a = Place(w[1].key) /\ b = IF Deletes(1) THEN Place(w[1].key) ELSE n
      BY <3>4
    <3>1. w' = [w EXCEPT ![1].pc = "keys", ![1].pos = a, ![1].i = b]
      BY <1>5, <3>5 DEF Search
    <3>2. [w[1] EXCEPT !.pc = "keys", !.pos = a, !.i = b] \in Call1
      BY CallFields, CallGoes DEF TypeInv, Pcs
    <3>3. w[1].loc \in Locs
      BY <1>5 DEF Search, TypeInv, CallTyped
    <3> QED
      BY <3>5, <3>1, <3>2, <3>3, CallFields DEF TypeInv, CallTyped
  <2>3. MoveInRange'
    BY <1>1, <1>2, <1>5, <2>1, <2>2, CallFields DEF Search, MoveInRange, Deletes, TypeInv, index
  <2>4. IndexTyped'
    <3>1. ref' \in [Pages -> Nat] /\ \A p \in Pages : ref'[p] <= ref[p]
      <4>1. CASE Deletes(1)
        <5>1. ref' = Loses(glocs[Place(w[1].key)]) /\ glocs[Place(w[1].key)] \in Locs
          BY <1>2, <1>5, <2>1, <4>1 DEF Search, TypeInv, IndexTyped
        <5> QED
          BY <5>1, LosesOne DEF TypeInv, IndexTyped
      <4>2. CASE ~Deletes(1)
        BY <1>5, <4>2 DEF Search, TypeInv, IndexTyped
      <4> QED
        BY <4>1, <4>2
    <3>2. UNCHANGED <<gkeys, glocs, n, calls>> /\ Calling
      BY <1>5 DEF Search, Calling
    <3> QED
      BY <3>1, <3>2 DEF TypeInv, IndexTyped
  <2> QED
    BY <1>3, <1>4, <2>2, <2>3, <2>4 DEF TypeInv
<1>6. CASE MoveKey(1) \/ MoveLoc(1)
  <2>1. w[1].pc \in {"keys", "locs"} /\ More(w[1]) /\ w' = [w EXCEPT ![1].i = Onward(w[1])]
    BY <1>6 DEF MoveKey, MoveLoc
  <2>2. Onward(w[1]) \in Nat /\ w[1].pos \in 1 .. n + 1
        /\ IF Deletes(1) THEN w[1].pos <= n /\ Onward(w[1]) \in w[1].pos .. n
           ELSE Onward(w[1]) \in w[1].pos - 1 .. n
    BY <1>2, <2>1, CallFields, ShiftTyped DEF Onward, More, Deletes, TypeInv, MoveInRange, Moving
  <2>3. [w[1] EXCEPT !.i = Onward(w[1])] \in Call1 /\ w[1].loc \in Locs
    BY <2>1, <2>2, CallFields, CallGoes DEF TypeInv, CallTyped, Moving
  <2>6. CallTyped' /\ w'[1].pc = w[1].pc /\ w'[1].pos = w[1].pos /\ w'[1].i = Onward(w[1])
    BY <2>1, <2>3, CallFields DEF TypeInv, CallTyped, Moving
  <2>7. n' = n
    BY <1>6 DEF MoveKey, MoveLoc
  <2>8. MoveInRange'
    BY <1>1, <2>1, <2>2, <2>6, <2>7 DEF MoveInRange, Deletes
  <2>4. /\ gkeys \in [Places -> Keys \cup {0}] => Shifted(w[1], gkeys) \in [Places -> Keys \cup {0}]
        /\ glocs \in [Places -> Locs] => Shifted(w[1], glocs) \in [Places -> Locs]
    BY <2>1, ShiftTyped
  <2>5. IndexTyped'
    BY <1>1, <1>6, <2>1, <2>4 DEF MoveKey, MoveLoc, TypeInv, IndexTyped
  <2> QED
    BY <1>3, <1>4, <2>5, <2>6, <2>8 DEF TypeInv
<1>7. CASE KeysMoved(1)
  <2>1. w[1].pos \in 1 .. n + 1 /\ (Deletes(1) => w[1].pos <= n)
    BY <1>7 DEF KeysMoved, TypeInv, MoveInRange, Moving
  <2>2. CallTyped' /\ w'[1].pos = w[1].pos /\ w'[1].i = IF Deletes(1) THEN w[1].pos ELSE n
    <3>5. PICK b \in Nat : b = IF Deletes(1) THEN w[1].pos ELSE n
      BY <1>2, <2>1
    <3>1. w' = [w EXCEPT ![1].pc = "locs", ![1].i = b]
      BY <1>7, <3>5 DEF KeysMoved
    <3>2. [w[1] EXCEPT !.pc = "locs", !.i = b] \in Call1
      BY CallFields, CallGoes DEF TypeInv, Pcs
    <3>3. w[1].loc \in Locs
      BY <1>7 DEF KeysMoved, TypeInv, CallTyped, Moving
    <3> QED
      BY <3>5, <3>1, <3>2, <3>3, CallFields DEF TypeInv, CallTyped
  <2>3. MoveInRange' /\ IndexTyped'
    BY <1>1, <1>2, <1>7, <2>1, <2>2, CallFields DEF KeysMoved, TypeInv, IndexTyped, MoveInRange, Deletes, index
  <2> QED
    BY <1>3, <1>4, <2>2, <2>3 DEF TypeInv
<1>8. CASE StoreKey(1) \/ StoreLoc(1)
  <2>1. ~Deletes(1) /\ w[1].pos \in 1 .. n + 1 /\ w[1].i \in w[1].pos - 1 .. n
    BY <1>1, <1>8 DEF StoreKey, StoreLoc, TypeInv, MoveInRange, Moving
  <2>2. CallTyped' /\ w'[1].pos = w[1].pos /\ w'[1].i = w[1].i
    <3>1. w[1].pc \in {"locs", "where"} /\ w[1].loc \in Locs
      BY <1>8 DEF StoreKey, StoreLoc, TypeInv, CallTyped, Moving
    <3>2. [w[1] EXCEPT !.pc = "where"] \in Call1 /\ [w[1] EXCEPT !.pc = "count"] \in Call1
      BY CallFields, CallGoes DEF TypeInv, Pcs
    <3> QED
      BY <1>8, <3>1, <3>2, CallFields DEF StoreKey, StoreLoc, Goes, TypeInv, CallTyped
  <2>3. MoveInRange'
    BY <1>1, <1>8, <2>1, <2>2 DEF MoveInRange, StoreKey, StoreLoc, Deletes
  <2>4. StoreLoc(1) => IndexTyped'
    BY <1>1, <1>2, <1>8, <2>1 DEF StoreLoc, TypeInv, CallTyped, Moving, IndexTyped
  <2>5. StoreKey(1) => IndexTyped'
    BY <1>1, <1>2, <1>8, <2>1 DEF StoreKey, TypeInv, IndexTyped
  <2> QED
    BY <1>3, <1>4, <1>8, <2>2, <2>3, <2>4, <2>5 DEF TypeInv
<1> QED
  BY <1>5, <1>6, <1>7, <1>8

\* A call ends, or the page it buried is taken up and erased.
LEMMA EndTypes ==
    ASSUME CoresAssumption, OneWriter, WriterInv, TypeInv, Replace(1) \/ Shrink(1) \/ Grow(1)
    PROVE  TypeInv'
<1>1. /\ w[1].pc \in {"index", "locs", "count"} /\ Calling /\ w' = [w EXCEPT ![1] = Idle]
      /\ w'[1] = Idle /\ ~Calling' /\ ~Moving(1)'
  BY CallFields DEF TypeInv, Replace, Shrink, Grow, Ends, Calling, Idle, Moving
<1>2. n \in Nat /\ n < calls /\ calls <= MaxCalls /\ 1 .. n \subseteq Places /\ w[1].key \in Keys /\ MaxCalls \in Nat
  BY <1>1, Ranges DEF TypeInv, IndexTyped, Calling, Places, Capacity, WriterInv, CallHasPlace
<1>3. CallTyped' /\ MoveInRange'
  BY <1>1, IdleTyped, CallFields DEF TypeInv, CallTyped, MoveInRange, Idle
<1>4. FlashTyped'
  <2>1. w[1].old # NoLoc => w[1].old[1] \in Pages
    BY CallFields DEF TypeInv, Locs
  <2>2. dead' \in Seq(Pages)
    <3>1. dead' = dead \/ (w[1].old # NoLoc /\ dead' = Append(dead, w[1].old[1]))
      BY DEF Replace, Shrink, Grow, Buries
    <3>2. dead \in Seq(Pages)
      BY DEF TypeInv, FlashTyped
    <3> QED
      BY <2>1, <3>1, <3>2
  <2> QED
    BY <2>2 DEF Replace, Shrink, Grow, TypeInv, FlashTyped, flash, cursor
<1>5. WatchTyped'
  BY <1>2, CallFields DEF Replace, Shrink, Grow, TypeInv, WatchTyped, Unseen, Becomes
<1>6. w[1].pc \in {"index", "count"} => w[1].loc \in Locs
  BY DEF TypeInv, CallTyped, Moving
<1>7. IndexTyped'
  <2>1. CASE Replace(1)
    <3>1. Place(w[1].key) \in 1 .. n
      BY <1>2, <2>1, FoundPlace DEF Replace
    <3>2. glocs' \in [Places -> Locs]
      BY <1>2, <1>6, <2>1, <3>1 DEF Replace, TypeInv, IndexTyped
    <3>3. ref' \in [Pages -> Nat] /\ \A p \in Pages : ref'[p] <= calls
      <4>1. ref \in [Pages -> Nat] /\ (\A p \in Pages : ref[p] < calls) /\ calls \in Nat
        BY <1>1 DEF TypeInv, IndexTyped
      <4>2. glocs[Place(w[1].key)] \in Locs /\ w[1].loc[1] \in Pages
        BY <1>2, <1>6, <2>1, <3>1 DEF Replace, TypeInv, IndexTyped, Locs
      <4>3. PICK r : r = Loses(glocs[Place(w[1].key)]) /\ ref' = [r EXCEPT ![w[1].loc[1]] = @ + 1]
        BY <2>1 DEF Replace
      <4>4. r \in [Pages -> Nat] /\ \A p \in Pages : r[p] <= ref[p]
        BY <4>1, <4>2, <4>3, LosesOne
      <4>5. \A p \in Pages : ref'[p] = IF p = w[1].loc[1] THEN r[p] + 1 ELSE r[p]
        BY <4>2, <4>3, <4>4
      <4>6. ref' \in [Pages -> Nat]
        BY <4>2, <4>3, <4>4
      <4> QED
        BY <4>1, <4>4, <4>5, <4>6
    <3> QED
      BY <1>1, <2>1, <3>2, <3>3 DEF Replace, TypeInv, IndexTyped
  <2>2. CASE Shrink(1)
    <3>1. n >= 1
      BY <1>2, <2>2, CallFields DEF Shrink, TypeInv, MoveInRange, Moving
    <3> QED
      BY <1>1, <1>2, <2>2, <3>1 DEF Shrink, TypeInv, IndexTyped
  <2>3. CASE Grow(1)
    BY <1>1, <1>2, <1>6, <2>3 DEF Grow, TypeInv, IndexTyped, Locs
  <2> QED
    BY <2>1, <2>2, <2>3
<1> QED
  BY <1>3, <1>4, <1>5, <1>7 DEF TypeInv

LEMMA CompactTypes ==
    ASSUME CoresAssumption, OneWriter, WriterInv, TypeInv, Compact \/ Erase
    PROVE  TypeInv'
<1>1. UNCHANGED <<w, gkeys, glocs, n, ref, wpage, woff, buf, rd, now, calls>>
  BY DEF Compact, Erase, Unseen, index, cursor
<1>2. CallTyped' /\ IndexTyped' /\ MoveInRange' /\ WatchTyped'
  BY <1>1 DEF TypeInv, CallTyped, IndexTyped, MoveInRange, WatchTyped, Calling, Moving, Deletes
<1>3. CASE Compact
  <2>1. Head(dead) \in Pages /\ Tail(dead) \in Seq(Pages)
    BY <1>3 DEF Compact, TypeInv, FlashTyped
  <2>2. gc' \in 0 .. NumPages
    BY <1>3, <2>1, Ranges DEF Compact, Pages
  <2> QED
    BY <1>1, <1>2, <1>3, <2>1, <2>2 DEF Compact, flash, TypeInv, FlashTyped
<1>4. CASE Erase
  <2>1. /\ hdr' = [hdr EXCEPT ![gc] = FALSE] /\ gc' = NumPages /\ dead' = dead
        /\ cell' = [cell EXCEPT ![gc] = [i \in 1 .. PageCells |-> Blank]]
    BY <1>4 DEF Erase
  <2>2. hdr' \in [Pages -> BOOLEAN] /\ cell' \in [Pages -> [1 .. PageCells -> Cells]]
    BY <2>1, Ranges DEF TypeInv, FlashTyped
  <2> QED
    BY <1>1, <1>2, <2>1, <2>2, Ranges DEF TypeInv, FlashTyped
<1> QED
  BY <1>3, <1>4

\* A read answers with what a record holds.
LEMMA ReadTypes ==
    ASSUME CoresAssumption, OneWriter, WriterInv, TypeInv, ReadTyped, Reads
    PROVE  TypeInv'
<1>1. UNCHANGED <<hdr, cell, w, gkeys, glocs, n, ref, wpage, woff, buf, dead, gc, now, calls>>
  BY DEF Reads, Get, Probe, Absent, ReadLoc, Check, Copy, Watched, flash, index, cursor
<1>2. CallTyped' /\ IndexTyped' /\ MoveInRange' /\ FlashTyped'
  BY <1>1 DEF TypeInv, CallTyped, IndexTyped, MoveInRange, FlashTyped, Calling, Moving, Deletes
<1>3. rd'.ans \in 0 .. Garbage
  <2>1. rd.ans \in 0 .. Garbage /\ DOMAIN rd = {"pc", "key", "lo", "hi", "loc", "ans"}
    BY DEF TypeInv, WatchTyped, ReadTyped
  <2>2. 0 \in 0 .. Garbage /\ MaxCalls \in Nat
    BY Ranges DEF Garbage
  <2>3. CASE ~Copy
    <3>1. CASE \E k \in Keys : Get(k)
      BY <2>2, <3>1 DEF Get
    <3>2. CASE Probe
      BY <2>1, <3>2 DEF Probe
    <3>3. CASE Absent \/ Check
      BY <2>1, <2>2, <3>3 DEF Absent, Check, Answers
    <3>4. CASE ReadLoc
      BY <2>1, <3>4 DEF ReadLoc
    <3> QED
      BY <2>3, <3>1, <3>2, <3>3, <3>4 DEF Reads
  <2>4. CASE Copy
    <3>1. rd.loc \in Locs
      BY <2>4 DEF Copy, ReadTyped
    <3>2. At(rd.loc) \in Cells
      BY <3>1 DEF At, Locs, TypeInv, FlashTyped
    <3>3. At(rd.loc).tok \in 0 .. Garbage
      BY <2>2, <3>2 DEF Cells, Blank, Junk, Rec, Garbage
    <3> QED
      BY <2>1, <2>2, <2>4, <3>3 DEF Copy, Answers, Garbage
  <2> QED
    BY <2>3, <2>4
<1> QED
  BY <1>1, <1>2, <1>3 DEF TypeInv, WatchTyped

LEMMA TypeStep ==
    CoresAssumption /\ OneWriter /\ WriterInv /\ TypeInv /\ ReadTyped /\ [Next]_vars => TypeInv'
<1> SUFFICES ASSUME CoresAssumption, OneWriter, WriterInv, TypeInv, ReadTyped, [Next]_vars
             PROVE  TypeInv'
  OBVIOUS
<1>1. CASE Writes(1)
  BY <1>1, CallTypes, AppendTypes, MoveTypes, EndTypes DEF Writes
<1>2. CASE Compact \/ Erase
  BY <1>2, CompactTypes
<1>3. CASE Reads
  BY <1>3, ReadTypes
<1>4. CASE UNCHANGED vars
  BY <1>4 DEF vars, flash, index, cursor, TypeInv, CallTyped, IndexTyped, MoveInRange, FlashTyped,
              WatchTyped, Calling, Moving, Deletes
<1> QED
  BY <1>1, <1>2, <1>3, <1>4 DEF Next, OneWriter

LEMMA TypeInvImplies == CoresAssumption /\ WriterInv /\ TypeInv => TypeOK
<1> SUFFICES ASSUME CoresAssumption, WriterInv, TypeInv PROVE TypeOK
  OBVIOUS
<1>1. n \in 0 .. Capacity /\ ref \in [Pages -> 0 .. Capacity + 1]
  BY Ranges DEF TypeInv, IndexTyped, Capacity
<1> QED
  BY <1>1 DEF TypeInv, IndexTyped, FlashTyped, WatchTyped, WriterInv, PlacesTyped, TypeOK, Locs

-----------------------------------------------------------------------------
(* The index.                                                              *)

\* Between the moves there is no hole.
LEMMA Still ==
    ASSUME n \in Nat, ~Moving(1)
    PROVE  /\ KeyHole = n + 1 /\ LocHole = n + 1 /\ Count = n
           /\ \A j \in 1 .. n : KeyAt(j) = gkeys[j] /\ LocAt(j) = glocs[j]
BY DEF KeyHole, LocHole, Count, KeyAt, LocAt, Past, Moving

\* Every entry lies in the arrays.
LEMMA EntryRange ==
    ASSUME CoresAssumption, TypeInv
    PROVE  /\ n \in Nat /\ Count \in Nat /\ Count <= n /\ 1 .. n \subseteq Places
           /\ (Calling => n + 1 \in Places)
           /\ \A j \in 1 .. Count : LocAt(j) \in Locs
<1>1. n \in Nat /\ n <= MaxCalls /\ MaxCalls \in Nat /\ (Calling => n + 1 <= MaxCalls)
  BY Ranges DEF TypeInv, IndexTyped
<1>2. Count \in Nat /\ Count <= n
  BY <1>1, CallFields DEF Count, TypeInv, MoveInRange
<1>3. \A j \in 1 .. Count : Past(LocHole, j) \in Places
  <2> SUFFICES ASSUME NEW j \in 1 .. Count PROVE Past(LocHole, j) \in Places
    OBVIOUS
  <2>1. CASE ~Moving(1)
    BY <1>1, <1>2, <2>1, Still DEF Past, Places, Capacity
  <2>2. CASE Moving(1)
    BY <1>1, <1>2, <2>2 DEF Past, Places, Capacity, Calling, Moving
  <2> QED
    BY <2>1, <2>2
<1> QED
  BY <1>1, <1>2, <1>3 DEF LocAt, TypeInv, IndexTyped, Places, Capacity

\* A step that leaves the entries and their records alone.
LEMMA SameEntries ==
    ASSUME IndexInv, Count' = Count,
           \A j \in 1 .. Count : KeyAt(j)' = KeyAt(j) /\ LocAt(j)' = LocAt(j),
           \A j \in 1 .. Count : now'[KeyAt(j)] = now[KeyAt(j)],
           \A j \in 1 .. Count : Cell(LocAt(j))' = Cell(LocAt(j))
    PROVE  EntriesTrue' /\ (ref' = ref => RefsExact')
<1>1. EntriesTrue'
  BY DEF IndexInv, EntriesTrue, LocTrue
<1>2. \A p \in Pages : LiveIn(p)' = LiveIn(p)
  BY DEF LiveIn
<1> QED
  BY <1>1, <1>2 DEF IndexInv, RefsExact

\* Different entries have records of different keys, and so lie apart.
LEMMA EntriesApart ==
    ASSUME CoresAssumption, TypeInv, IndexInv, NEW i \in 1 .. Count, NEW j \in 1 .. Count, i # j
    PROVE  KeyAt(i) # KeyAt(j) /\ LocAt(i) # LocAt(j)
<1>1. i \in Nat /\ j \in Nat /\ KeyAt(i) \in Nat /\ KeyAt(j) \in Nat
  <2>1. KeyAt(i) \in Keys /\ KeyAt(j) \in Keys
    BY DEF IndexInv, EntriesTrue
  <2>2. Count \in Nat
    BY EntryRange
  <2>3. i \in Nat /\ j \in Nat
    BY <2>2
  <2>4. \A k \in Keys : k \in Nat
    BY Ranges
  <2>5. KeyAt(i) \in Nat /\ KeyAt(j) \in Nat
    BY <2>1, <2>4
  <2> QED
    BY <2>3, <2>5
<1>2. KeyAt(i) # KeyAt(j)
  BY <1>1 DEF IndexInv, EntriesTrue
<1> QED
  BY <1>2 DEF IndexInv, EntriesTrue

\* Everything idx_find_linear can look up gives a record that counts.
LEMMA AllTrue ==
    ASSUME CoresAssumption, TypeInv, IndexInv, NEW i \in 1 .. n
    PROVE  LocTrue(glocs[i])
<1>1. n \in Nat /\ i \in Nat
  BY EntryRange
<1>2. CASE ~Moving(1)
  BY <1>1, <1>2, Still DEF IndexInv, EntriesTrue
<1>3. CASE Moving(1)
  <2>1. LocHole \in 1 .. n + 1 /\ Count = IF Deletes(1) THEN n - 1 ELSE n
    BY <1>1, <1>3, CallFields DEF LocHole, Count, TypeInv, MoveInRange, Moving
  <2>2. CASE i = LocHole
    BY <1>3, <2>2 DEF IndexInv, HoleTrue
  <2>3. CASE i < LocHole /\ i <= Count
    BY <2>3 DEF IndexInv, EntriesTrue, LocAt, Past
  <2>4. CASE i > LocHole
    <3>1. i - 1 \in 1 .. Count /\ ~(i - 1 < LocHole) /\ i = (i - 1) + 1
      BY <1>1, <2>1, <2>4
    <3> QED
      BY <3>1 DEF IndexInv, EntriesTrue, LocAt, Past
  <2>5. CASE i < LocHole /\ i > Count
    <3>1. Deletes(1) /\ i = n /\ LocHole = n + 1
      BY <1>1, <2>1, <2>5
    <3> QED
      BY <1>1, <1>3, <3>1, CallFields DEF LocHole, TypeInv, MoveInRange, Moving
  <2> QED
    BY <1>1, <2>1, <2>2, <2>3, <2>4, <2>5
<1> QED
  BY <1>2, <1>3

LEMMA IndexInit == CoresAssumption /\ OneWriter /\ Init => IndexInv
<1> SUFFICES ASSUME CoresAssumption, OneWriter, Init PROVE IndexInv
  OBVIOUS
<1>1. ~Moving(1) /\ Count = 0 /\ w[1].pc = "idle" /\ gc = NumPages
  BY DEF Init, OneWriter, Idle, Moving, Count
<1>2. EntriesTrue /\ CallApart /\ HoleTrue /\ CallTrue /\ ErasesDead
  BY <1>1 DEF EntriesTrue, CallApart, HoleTrue, CallTrue, ErasesDead
<1>3. Indexed
  BY DEF Init, Indexed
<1>4. RefsExact
  <2> SUFFICES ASSUME NEW p \in Pages PROVE ref[p] = Cardinality(LiveIn(p))
    BY DEF RefsExact
  <2>1. LiveIn(p) = {} /\ ref[p] = 0
    BY <1>1 DEF Init, LiveIn
  <2> QED
    BY <2>1, FS_EmptySet
<1> QED
  BY <1>2, <1>3, <1>4 DEF IndexInv

\* Between the moves, a step that leaves the index, its records and now alone.
LEMMA StillStep ==
    ASSUME CoresAssumption, TypeInv, IndexInv, ~Moving(1), ~Moving(1)', index' = index, now' = now,
           \A j \in 1 .. n : Cell(glocs[j])' = Cell(glocs[j])
    PROVE  EntriesTrue' /\ CallApart' /\ HoleTrue' /\ Indexed' /\ RefsExact'
<1>1. n \in Nat /\ n' = n /\ gkeys' = gkeys /\ glocs' = glocs /\ ref' = ref
  BY EntryRange DEF index
<1>2. /\ Count' = Count /\ Count = n
      /\ \A j \in 1 .. n : /\ KeyAt(j)' = KeyAt(j) /\ LocAt(j)' = LocAt(j)
                           /\ KeyAt(j) = gkeys[j] /\ LocAt(j) = glocs[j]
  BY <1>1, Still DEF Count, KeyHole, LocHole, KeyAt, LocAt, Past, Moving
<1>3. EntriesTrue' /\ RefsExact'
  BY <1>1, <1>2, SameEntries
<1>4. Indexed'
  BY <1>2 DEF IndexInv, Indexed
<1> QED
  BY <1>3, <1>4 DEF CallApart, HoleTrue

\* What comes before the index is touched.
LEMMA BeforeIndex ==
    ASSUME CoresAssumption, OneWriter, WriterInv, TypeInv, IndexInv,
           (\E k \in Keys, t \in 0 .. MaxCalls : Call(1, k, t))
           \/ Select(1) \/ Ready(1) \/ Fill(1) \/ Program(1) \/ Advance(1)
    PROVE  IndexInv'
<1>1. /\ w[1].pc \in {"idle", "select", "ready", "fill", "program", "advance"}
      /\ w'[1].pc \in {"idle", "select", "ready", "fill", "program", "advance", "index"}
      /\ DOMAIN w = {1} /\ DOMAIN w[1] = {"pc", "key", "tok", "old", "loc", "pos", "i"}
  <2>1. DOMAIN w = {1} /\ DOMAIN w[1] = {"pc", "key", "tok", "old", "loc", "pos", "i"}
    BY CallFields DEF TypeInv
  <2>2. CASE \E k \in Keys, t \in 0 .. MaxCalls : Call(1, k, t)
    <3>1. PICK k \in Keys, t \in 0 .. MaxCalls : Call(1, k, t)
      BY <2>2
    <3>2. w[1].pc = "idle" /\ w'[1].pc = "select"
      BY <2>1, <3>1 DEF Call, Free, Idle
    <3> QED
      BY <2>1, <3>2
  <2>3. CASE Select(1)
    BY <2>1, <2>3 DEF Select, Goes, Ends, Idle
  <2>4. CASE Ready(1) \/ Fill(1) \/ Program(1) \/ Advance(1)
    BY <2>1, <2>4 DEF Ready, Fill, Program, Advance, Goes
  <2> QED
    BY <2>1, <2>2, <2>3, <2>4
<1>2. UNCHANGED <<index, now, gc>> /\ ~Moving(1) /\ ~Moving(1)'
  BY <1>1 DEF Call, Select, Ready, Fill, Program, Advance, Unseen, Moving
<1>3. n \in Nat /\ \A j \in 1 .. n : glocs[j] \in Locs /\ LocTrue(glocs[j])
  <2>1. \A j \in 1 .. n : LocTrue(glocs[j])
    BY AllTrue
  <2>2. \A j \in 1 .. n : glocs[j] \in Locs
    BY <1>2, EntryRange, Still
  <2> QED
    BY <2>1, <2>2, EntryRange
<1>4. \A j \in 1 .. n : Cell(glocs[j])' = Cell(glocs[j])
  <2>1. CASE cell' = cell
    BY <1>2, <2>1 DEF Cell, index
  <2>2. CASE Program(1)
    <3>1. SUFFICES ASSUME NEW j \in 1 .. n PROVE Cell(glocs[j])' = Cell(glocs[j])
      OBVIOUS
    <3>2. /\ cell[wpage][woff] = Blank /\ cell' = [cell EXCEPT ![wpage][woff] = buf]
          /\ woff \in 1 .. PageCells /\ wpage \in Pages
      BY <2>2, ProgramsBlank DEF WriterInv, PlacesTyped
    <3>3. Cell(glocs[j]) # Blank
      BY <1>3, Ranges DEF LocTrue, Blank, Rec
    <3>4. PICK p \in Pages, i \in 1 .. PageCells : glocs[j] = <<p, i>>
      BY <1>3 DEF Locs
    <3>5. cell'[p][i] = cell[p][i]
      BY <3>2, <3>3, <3>4 DEF Cell, TypeInv, FlashTyped
    <3> QED
      BY <1>2, <3>4, <3>5 DEF Cell, index
  <2> QED
    BY <2>1, <2>2 DEF Call, Select, Ready, Fill, Advance, flash
<1>5. CallTrue'
  <2>1. CASE Fill(1)
    BY <1>1, <2>1 DEF Fill, CallTrue, Moving
  <2>2. CASE Program(1)
    <3>1. w'[1].pc = "advance" /\ w'[1].key = w[1].key /\ w'[1].tok = w[1].tok /\ w[1].pc = "program"
      BY <1>1, <2>2 DEF Program, Goes
    <3>2. /\ cell' = [cell EXCEPT ![wpage][woff] = buf] /\ wpage' = wpage /\ woff' = woff
          /\ woff \in 1 .. PageCells /\ wpage \in Pages
      BY <2>2, ProgramsBlank DEF Program, cursor, WriterInv, PlacesTyped
    <3>3. cell'[wpage][woff] = buf /\ buf = Rec(w[1].key, w[1].tok)
      BY <3>1, <3>2 DEF TypeInv, FlashTyped, IndexInv, CallTrue
    <3> QED
      BY <3>1, <3>2, <3>3 DEF CallTrue, Moving
  <2>3. CASE Advance(1)
    <3>1. /\ w'[1].pc = "index" /\ w'[1].key = w[1].key /\ w'[1].tok = w[1].tok
          /\ w'[1].loc = <<wpage, woff>> /\ cell' = cell /\ w[1].pc = "advance"
      BY <1>1, <2>3 DEF Advance
    <3> QED
      BY <3>1 DEF IndexInv, CallTrue, Cell, Moving
  <2>4. CASE w'[1].pc \in {"idle", "select", "ready", "fill"}
    BY <2>4 DEF CallTrue, Moving
  <2>5. Select(1) \/ Ready(1) \/ (\E k \in Keys, t \in 0 .. MaxCalls : Call(1, k, t))
           => w'[1].pc \in {"idle", "select", "ready", "fill"}
    <3>1. Select(1) \/ Ready(1) => w'[1].pc \in {"idle", "select", "ready", "fill"}
      BY <1>1 DEF Select, Ready, Goes, Ends, Idle
    <3>2. (\E k \in Keys, t \in 0 .. MaxCalls : Call(1, k, t)) => w'[1].pc = "select"
      <4> SUFFICES ASSUME NEW k \in Keys, NEW t \in 0 .. MaxCalls, Call(1, k, t) PROVE w'[1].pc = "select"
        OBVIOUS
      <4> QED
        BY <1>1 DEF Call, Idle
    <3> QED
      BY <3>1, <3>2
  <2> QED
    BY <2>1, <2>2, <2>3, <2>4, <2>5
<1>6. ErasesDead'
  BY <1>2 DEF IndexInv, ErasesDead, index
<1> QED
  BY <1>2, <1>4, <1>5, <1>6, StillStep DEF IndexInv

\* kv_compact_step takes up a page without entries, and erases it.
LEMMA CompactIndex ==
    ASSUME CoresAssumption, OneWriter, WriterInv, TypeInv, IndexInv, Compact \/ Erase
    PROVE  IndexInv'
<1>1. w[1].pc = "idle" /\ UNCHANGED <<index, now, w>> /\ ~Moving(1) /\ ~Moving(1)'
  BY DEF Compact, Erase, Free, OneWriter, Unseen, WriterInv, ErasesBetween, Moving
<1>2. CallTrue'
  BY <1>1 DEF CallTrue, Moving
<1>3. CASE Compact
  <2>1. cell' = cell /\ (gc' # NumPages => ref[gc'] = 0)
    BY <1>3 DEF Compact, Doomed, flash
  <2>2. \A j \in 1 .. n : Cell(glocs[j])' = Cell(glocs[j])
    BY <1>1, <2>1 DEF Cell, index
  <2> QED
    BY <1>1, <1>2, <2>1, <2>2, StillStep DEF IndexInv, ErasesDead, index
<1>4. CASE Erase
  <2>1. /\ gc \in Pages /\ ref[gc] = 0 /\ gc' = NumPages
        /\ cell' = [cell EXCEPT ![gc] = [i \in 1 .. PageCells |-> Blank]]
    BY <1>4, Ranges DEF Erase, IndexInv, ErasesDead, TypeInv, FlashTyped, Pages
  <2>2. LiveIn(gc) = {}
    <3>1. LiveIn(gc) \subseteq 1 .. PageCells /\ IsFiniteSet(1 .. PageCells)
      BY FS_Interval, Ranges DEF LiveIn
    <3>2. IsFiniteSet(LiveIn(gc))
      BY <3>1, FS_Subset
    <3>3. Cardinality(LiveIn(gc)) = 0
      BY <2>1 DEF IndexInv, RefsExact
    <3> QED
      BY <3>2, <3>3, FS_EmptySet
  <2>3. \A j \in 1 .. n : Cell(glocs[j])' = Cell(glocs[j])
    <3> SUFFICES ASSUME NEW j \in 1 .. n PROVE Cell(glocs[j])' = Cell(glocs[j])
      OBVIOUS
    <3>1. n \in Nat /\ Count = n /\ LocAt(j) = glocs[j] /\ glocs[j] \in Locs
      BY <1>1, EntryRange, Still
    <3>2. PICK p \in Pages, i \in 1 .. PageCells : glocs[j] = <<p, i>>
      BY <3>1 DEF Locs
    <3>3. p # gc
      BY <2>2, <3>1, <3>2 DEF LiveIn
    <3> QED
      BY <1>1, <2>1, <3>2, <3>3 DEF Cell, index, TypeInv, FlashTyped
  <2> QED
    BY <1>1, <1>2, <2>1, <2>3, StillStep DEF IndexInv, ErasesDead
<1> QED
  BY <1>3, <1>4

\* The move of g_keys or of g_locs: the entries stay what they are.
LEMMA MoveIndex ==
    ASSUME CoresAssumption, OneWriter, WriterInv, TypeInv, IndexInv,
           MoveKey(1) \/ KeysMoved(1) \/ MoveLoc(1) \/ StoreKey(1)
    PROVE  IndexInv'
<1>1. /\ w[1].pc \in {"keys", "locs"} /\ w'[1].pc \in {"keys", "locs", "where"}
      /\ w'[1].key = w[1].key /\ w'[1].tok = w[1].tok /\ w'[1].pos = w[1].pos /\ w'[1].loc = w[1].loc
      /\ UNCHANGED <<n, now, ref, cell, gc>> /\ Moving(1) /\ Moving(1)' /\ (Deletes(1)' <=> Deletes(1))
  <2>1. DOMAIN w = {1} /\ DOMAIN w[1] = {"pc", "key", "tok", "old", "loc", "pos", "i"}
    BY CallFields DEF TypeInv
  <2>2. UNCHANGED <<n, now, ref, cell, gc>>
    BY DEF MoveKey, KeysMoved, MoveLoc, StoreKey, Unseen, flash, index
  <2>3. CASE MoveKey(1) \/ MoveLoc(1)
    BY <2>1, <2>2, <2>3 DEF MoveKey, MoveLoc, Moving, Deletes
  <2>4. CASE KeysMoved(1)
    BY <2>1, <2>2, <2>4 DEF KeysMoved, Moving, Deletes
  <2>5. CASE StoreKey(1)
    BY <2>1, <2>2, <2>5 DEF StoreKey, Goes, Moving, Deletes
  <2> QED
    BY <2>3, <2>4, <2>5
<1>2. /\ n \in Nat /\ 1 .. n + 1 \subseteq Places /\ w[1].pos \in 1 .. n + 1 /\ w[1].i \in Nat
      /\ IF Deletes(1) THEN w[1].pos <= n /\ w[1].i \in w[1].pos .. n ELSE w[1].i \in w[1].pos - 1 .. n
      /\ DOMAIN gkeys = Places /\ DOMAIN glocs = Places
      /\ Count = IF Deletes(1) THEN n - 1 ELSE n
      /\ Count' = Count
  BY <1>1, CallFields, EntryRange DEF TypeInv, IndexTyped, MoveInRange, Count, Calling, Moving, Places, Capacity
<1>3. \A j \in 1 .. Count : KeyAt(j)' = KeyAt(j) /\ LocAt(j)' = LocAt(j)
  <2> SUFFICES ASSUME NEW j \in 1 .. Count PROVE KeyAt(j)' = KeyAt(j) /\ LocAt(j)' = LocAt(j)
    OBVIOUS
  <2>1. j \in 1 .. n /\ (Deletes(1) => j <= n - 1)
    BY <1>2
  <2>2. CASE MoveKey(1)
    <3>1. /\ w[1].pc = "keys" /\ w'[1].pc = "keys" /\ More(w[1]) /\ w'[1].i = Onward(w[1])
          /\ gkeys' = Shifted(w[1], gkeys) /\ glocs' = glocs
      BY <1>1, <2>2, CallFields DEF TypeInv, MoveKey
    <3>2. LocAt(j)' = LocAt(j)
      BY <1>1, <3>1 DEF LocAt, LocHole, Past
    <3>3. CASE Deletes(1)
      <4>1. KeyHole = w[1].i /\ KeyHole' = w[1].i + 1 /\ w[1].i < n
            /\ gkeys' = [gkeys EXCEPT ![w[1].i] = gkeys[w[1].i + 1]]
        BY <1>1, <3>1, <3>3 DEF KeyHole, More, Onward, Shifted, Deletes
      <4>2. KeyAt(j)' = KeyAt(j)
        BY <1>2, <2>1, <4>1 DEF KeyAt, Past
      <4> QED
        BY <3>2, <4>2
    <3>4. CASE ~Deletes(1)
      <4>1. KeyHole = w[1].i + 1 /\ KeyHole' = w[1].i /\ w[1].i >= w[1].pos
            /\ gkeys' = [gkeys EXCEPT ![w[1].i + 1] = gkeys[w[1].i]]
        BY <1>1, <1>2, <3>1, <3>4 DEF KeyHole, More, Onward, Shifted, Deletes
      <4>2. KeyAt(j)' = KeyAt(j)
        BY <1>2, <2>1, <4>1, <3>4 DEF KeyAt, Past
      <4> QED
        BY <3>2, <4>2
    <3> QED
      BY <3>3, <3>4
  <2>3. CASE KeysMoved(1)
    <3>1. /\ w[1].pc = "keys" /\ w'[1].pc = "locs" /\ ~More(w[1])
          /\ w'[1].i = IF Deletes(1) THEN w[1].pos ELSE n
          /\ gkeys' = gkeys /\ glocs' = glocs
      BY <1>1, <2>3, CallFields DEF TypeInv, KeysMoved, index
    <3>2. KeyHole' = KeyHole /\ LocHole' = LocHole
      BY <1>1, <1>2, <3>1 DEF KeyHole, LocHole, More, Deletes
    <3> QED
      BY <3>1, <3>2 DEF KeyAt, LocAt
  <2>4. CASE MoveLoc(1)
    <3>1. /\ w[1].pc = "locs" /\ w'[1].pc = "locs" /\ More(w[1]) /\ w'[1].i = Onward(w[1])
          /\ glocs' = Shifted(w[1], glocs) /\ gkeys' = gkeys
      BY <1>1, <2>4, CallFields DEF TypeInv, MoveLoc
    <3>2. KeyAt(j)' = KeyAt(j)
      BY <1>1, <3>1 DEF KeyAt, KeyHole, Past
    <3>3. CASE Deletes(1)
      <4>1. LocHole = w[1].i /\ LocHole' = w[1].i + 1 /\ w[1].i < n
            /\ glocs' = [glocs EXCEPT ![w[1].i] = glocs[w[1].i + 1]]
        BY <1>1, <3>1, <3>3 DEF LocHole, More, Onward, Shifted, Deletes
      <4>2. LocAt(j)' = LocAt(j)
        BY <1>2, <2>1, <4>1 DEF LocAt, Past
      <4> QED
        BY <3>2, <4>2
    <3>4. CASE ~Deletes(1)
      <4>1. LocHole = w[1].i + 1 /\ LocHole' = w[1].i /\ w[1].i >= w[1].pos
            /\ glocs' = [glocs EXCEPT ![w[1].i + 1] = glocs[w[1].i]]
        BY <1>1, <1>2, <3>1, <3>4 DEF LocHole, More, Onward, Shifted, Deletes
      <4>2. LocAt(j)' = LocAt(j)
        BY <1>2, <2>1, <4>1, <3>4 DEF LocAt, Past
      <4> QED
        BY <3>2, <4>2
    <3> QED
      BY <3>3, <3>4
  <2>5. CASE StoreKey(1)
    <3>1. /\ w[1].pc = "locs" /\ w'[1].pc = "where" /\ ~More(w[1]) /\ ~Deletes(1)
          /\ gkeys' = [gkeys EXCEPT ![w[1].pos] = w[1].key] /\ glocs' = glocs
      BY <1>1, <2>5, CallFields DEF TypeInv, StoreKey, Goes
    <3>2. w[1].i = w[1].pos - 1
      BY <1>2, <3>1 DEF More, Deletes
    <3>3. KeyHole = w[1].pos /\ KeyHole' = w[1].pos /\ LocHole = w[1].pos /\ LocHole' = w[1].pos
      BY <1>1, <1>2, <3>1, <3>2 DEF KeyHole, LocHole
    <3>4. KeyAt(j)' = KeyAt(j)
      BY <1>2, <2>1, <3>1, <3>3 DEF KeyAt, Past
    <3> QED
      BY <3>1, <3>3, <3>4 DEF LocAt
  <2> QED
    BY <2>2, <2>3, <2>4, <2>5
<1>4. EntriesTrue' /\ RefsExact'
  <2>1. \A j \in 1 .. Count : Cell(LocAt(j))' = Cell(LocAt(j))
    BY <1>1, <1>3 DEF Cell
  <2> QED
    BY <1>1, <1>2, <1>3, <2>1, SameEntries
<1>5. CallApart' /\ Indexed'
  BY <1>1, <1>2, <1>3 DEF IndexInv, CallApart, Indexed
<1>6. CallTrue'
  <2>1. Cell(w[1].loc) = Rec(w[1].key, w[1].tok)
    BY <1>1 DEF IndexInv, CallTrue
  <2>2. w'[1].pc = "where" => gkeys'[w[1].pos] = w[1].key
    <3>1. StoreKey(1) => gkeys' = [gkeys EXCEPT ![w[1].pos] = w[1].key]
      BY DEF StoreKey
    <3>2. ~StoreKey(1) => w'[1].pc \in {"keys", "locs"}
      BY <1>1, CallFields DEF TypeInv, MoveKey, KeysMoved, MoveLoc
    <3> QED
      BY <1>2, <3>1, <3>2
  <2> QED
    BY <1>1, <2>1, <2>2 DEF CallTrue, Cell
<1>7. HoleTrue'
  <2>1. \A i \in 1 .. n : LocTrue(glocs[i])
    BY AllTrue
  <2>2. \A i \in 1 .. n : \E k \in 1 .. n : glocs'[i] = glocs[k]
    <3>1. CASE MoveLoc(1)
      <4>1. w[1].pc = "locs" /\ More(w[1]) /\ glocs' = Shifted(w[1], glocs)
        BY <3>1 DEF MoveLoc
      <4>2. \E k \in 1 .. n, a \in Places : glocs' = [glocs EXCEPT ![a] = glocs[k]]
        <5>1. CASE Deletes(1)
          <6>1. w[1].i + 1 \in 1 .. n /\ w[1].i \in Places
            BY <1>2, <4>1, <5>1 DEF More, Deletes
          <6>2. glocs' = [glocs EXCEPT ![w[1].i] = glocs[w[1].i + 1]]
            BY <4>1, <5>1 DEF Shifted, Deletes
          <6> QED
            BY <6>1, <6>2
        <5>2. CASE ~Deletes(1)
          <6>1. w[1].i \in 1 .. n /\ w[1].i + 1 \in Places
            BY <1>2, <4>1, <5>2 DEF More, Deletes
          <6>2. glocs' = [glocs EXCEPT ![w[1].i + 1] = glocs[w[1].i]]
            BY <4>1, <5>2 DEF Shifted, Deletes
          <6> QED
            BY <6>1, <6>2
        <5> QED
          BY <5>1, <5>2
      <4> QED
        BY <1>2, <4>2
    <3>2. ~MoveLoc(1) => glocs' = glocs
      BY DEF MoveKey, KeysMoved, StoreKey, index
    <3> QED
      BY <3>1, <3>2
  <2>3. \A i \in 1 .. n : LocTrue(glocs[i])'
    BY <1>1, <2>1, <2>2 DEF LocTrue, Cell
  <2> QED
    BY <1>1, <2>3 DEF HoleTrue
<1>8. ErasesDead'
  BY <1>1 DEF IndexInv, ErasesDead
<1> QED
  BY <1>4, <1>5, <1>6, <1>7, <1>8 DEF IndexInv

\* What g_page_ref_count loses and gains with an entry.
LEMMA LiveFinite ==
    ASSUME CoresAssumption, NEW p
    PROVE  IsFiniteSet(LiveIn(p)) /\ Cardinality(LiveIn(p)) \in Nat
<1>1. LiveIn(p) \subseteq 1 .. PageCells /\ IsFiniteSet(1 .. PageCells)
  BY FS_Interval, Ranges DEF LiveIn
<1>2. IsFiniteSet(LiveIn(p))
  BY <1>1, FS_Subset
<1> QED
  BY <1>2, FS_CardinalityType

LEMMA OneLess ==
    ASSUME CoresAssumption, TypeInv, IndexInv, NEW j \in 1 .. Count, NEW p \in Pages
    PROVE  Loses(LocAt(j))[p] =
             Cardinality(IF p = LocAt(j)[1] THEN LiveIn(p) \ {LocAt(j)[2]} ELSE LiveIn(p))
<1>1. PICK q \in Pages, i \in 1 .. PageCells : LocAt(j) = <<q, i>>
  BY EntryRange DEF Locs
<1>2. ref[p] = Cardinality(LiveIn(p)) /\ DOMAIN ref = Pages
  BY DEF IndexInv, RefsExact, TypeInv, IndexTyped
<1>3. CASE p # q
  BY <1>1, <1>2, <1>3 DEF Loses
<1>4. CASE p = q
  <2>1. i \in LiveIn(p)
    BY <1>1, <1>4 DEF LiveIn
  <2>2. Cardinality(LiveIn(p) \ {i}) = Cardinality(LiveIn(p)) - 1 /\ Cardinality(LiveIn(p)) \in Nat
    BY <2>1, LiveFinite, FS_RemoveElement
  <2>3. Cardinality(LiveIn(p)) # 0
    BY <2>1, LiveFinite, FS_EmptySet
  <2>4. Loses(LocAt(j))[p] = Cardinality(LiveIn(p)) - 1
    BY <1>1, <1>2, <1>4, <2>2, <2>3 DEF Loses
  <2> QED
    BY <1>1, <1>4, <2>2, <2>4
<1> QED
  BY <1>3, <1>4

\* Where a key the index has is found.
LEMMA FoundAt ==
    ASSUME CoresAssumption, TypeInv, IndexInv, ~Moving(1), NEW k \in Keys, Found(k)
    PROVE  Place(k) \in 1 .. n /\ gkeys[Place(k)] = k
<1>1. n \in Nat /\ Place(k) \in 1 .. n
  BY FoundPlace, EntryRange
<1>2. PICK i \in 1 .. n : gkeys[i] = k
  BY DEF Found
<1>3. \A j \in 1 .. n : KeyAt(j) = gkeys[j]
  BY <1>1, Still
<1>4. /\ Count = n /\ \A j \in 1 .. n : gkeys[j] \in Keys
      /\ \A a, b \in 1 .. n : a < b => gkeys[a] < gkeys[b]
  BY <1>1, <1>3, Still DEF IndexInv, EntriesTrue
<1>5. k \in Nat /\ \A j \in 1 .. n : gkeys[j] \in Nat
  BY <1>4, Ranges
<1>6. gkeys[Place(k)] >= k /\ \A j \in 1 .. Place(k) - 1 : gkeys[j] < k
  BY <1>1, <1>5, PlaceIs
<1>7. ~(i < Place(k))
  BY <1>1, <1>2, <1>5, <1>6
<1>8. CASE i = Place(k)
  BY <1>1, <1>2, <1>8
<1>9. CASE Place(k) < i
  BY <1>1, <1>2, <1>4, <1>5, <1>6, <1>9
<1> QED
  BY <1>1, <1>7, <1>8, <1>9

\* idx_set on a key the index has.
LEMMA ReplaceIndex ==
    ASSUME CoresAssumption, OneWriter, WriterInv, TypeInv, IndexInv, Replace(1)
    PROVE  IndexInv'
<1> DEFINE f == Place(w[1].key)
<1>1. w[1].pc = "index" /\ w[1].key \in Keys /\ Found(w[1].key) /\ ~Deletes(1) /\ ~Moving(1)
  BY DEF Replace, WriterInv, CallHasPlace, Moving
<1>2. n \in Nat /\ f \in 1 .. n /\ gkeys[f] = w[1].key /\ 1 .. n \subseteq Places
  BY <1>1, FoundAt, EntryRange
<1>3. w'[1].pc = "idle" /\ ~Moving(1)'
  BY CallFields DEF TypeInv, Replace, Ends, Idle, Moving
<1>4. /\ UNCHANGED <<cell, gkeys, n, gc>> /\ glocs' = [glocs EXCEPT ![f] = w[1].loc]
      /\ now' = [now EXCEPT ![w[1].key] = w[1].tok]
      /\ ref' = [Loses(glocs[f]) EXCEPT ![w[1].loc[1]] = @ + 1]
  BY DEF Replace, flash, Becomes
<1>5. w[1].loc \in Locs /\ Cell(w[1].loc) = Rec(w[1].key, w[1].tok) /\ w[1].tok # 0
  BY <1>1 DEF TypeInv, CallTyped, IndexInv, CallTrue, Deletes
<1> HIDE DEF f
<1>6. /\ Count = n /\ Count' = n
      /\ \A j \in 1 .. n : KeyAt(j) = gkeys[j] /\ LocAt(j) = glocs[j]
                           /\ KeyAt(j)' = gkeys[j] /\ LocAt(j)' = glocs'[j]
  <2>1. Count' = n /\ KeyHole' = n + 1 /\ LocHole' = n + 1
    BY <1>3, <1>4 DEF Count, KeyHole, LocHole, Moving
  <2>2. \A j \in 1 .. n : KeyAt(j)' = gkeys[j] /\ LocAt(j)' = glocs'[j]
    BY <1>2, <1>4, <2>1 DEF KeyAt, LocAt, Past
  <2> QED
    BY <1>1, <1>2, <2>1, <2>2, Still
<1>7. /\ \A j \in 1 .. n : j # f => glocs'[j] = glocs[j] /\ gkeys[j] # w[1].key
      /\ glocs'[f] = w[1].loc
  <2>1. \A j \in 1 .. n : j # f => gkeys[j] # w[1].key
    BY <1>2, <1>6, EntriesApart
  <2> QED
    BY <1>2, <1>4, <2>1 DEF TypeInv, IndexTyped
<1>8. EntriesTrue'
  <2>1. \A j \in 1 .. n : j # f => LocTrue(glocs[j])' /\ Cell(glocs[j])' = Cell(glocs[j]) /\ Cell(glocs[j]).key = gkeys[j]
    <3>1. \A j \in 1 .. n : LocTrue(glocs[j]) /\ Cell(glocs[j]).key = gkeys[j]
      BY <1>6 DEF IndexInv, EntriesTrue
    <3> QED
      <4> SUFFICES ASSUME NEW j \in 1 .. n, j # f
                   PROVE  /\ LocTrue(glocs[j])' /\ Cell(glocs[j])' = Cell(glocs[j])
                          /\ Cell(glocs[j]).key = gkeys[j]
        OBVIOUS
      <4>1. glocs'[j] = glocs[j] /\ cell' = cell
        BY <1>4, <1>7
      <4>2. Cell(glocs[j])' = Cell(glocs[j])
        BY <4>1 DEF Cell
      <4>3. now'[gkeys[j]] = now[gkeys[j]]
        BY <1>4, <1>7 DEF TypeInv, WatchTyped
      <4> QED
        BY <3>1, <4>2, <4>3 DEF LocTrue
  <2>2. /\ cell'[w[1].loc[1]][w[1].loc[2]] = Rec(w[1].key, w[1].tok)
        /\ now'[w[1].key] = w[1].tok /\ w[1].key \in Keys /\ w[1].tok # 0
    BY <1>1, <1>4, <1>5 DEF Cell, TypeInv, WatchTyped
  <2>3. \A j \in 1 .. n : LocTrue(LocAt(j))' /\ Cell(LocAt(j))'.key = gkeys[j]
    <3> SUFFICES ASSUME NEW j \in 1 .. n PROVE LocTrue(LocAt(j))' /\ Cell(LocAt(j))'.key = gkeys[j]
      OBVIOUS
    <3>1. LocAt(j)' = glocs'[j]
      BY <1>6
    <3>2. CASE j # f
      BY <2>1, <3>1, <3>2 DEF LocTrue, Cell
    <3>3. CASE j = f
      <4>1. Cell(LocAt(j))' = Rec(w[1].key, w[1].tok)
        BY <1>7, <2>2, <3>1, <3>3 DEF Cell
      <4>2. Rec(w[1].key, w[1].tok).key = w[1].key /\ Rec(w[1].key, w[1].tok).tok = w[1].tok
        BY DEF Rec
      <4> QED
        BY <1>2, <2>2, <3>3, <4>1, <4>2 DEF LocTrue
    <3> QED
      BY <3>2, <3>3
  <2>4. \A i, j \in 1 .. n : i < j => gkeys[i] < gkeys[j]
    BY <1>6 DEF IndexInv, EntriesTrue
  <2>5. \A j \in 1 .. n : gkeys[j] \in Keys
    BY <1>6 DEF IndexInv, EntriesTrue
  <2> QED
    BY <1>6, <2>3, <2>4, <2>5 DEF EntriesTrue
<1>9. RefsExact'
  <2> SUFFICES ASSUME NEW p \in Pages PROVE ref'[p] = Cardinality(LiveIn(p)')
    BY DEF RefsExact
  <2>1. PICK q \in Pages, i \in 1 .. PageCells : w[1].loc = <<q, i>>
    BY <1>5 DEF Locs
  <2>2. PICK r \in Pages, o \in 1 .. PageCells : glocs[f] = <<r, o>>
    BY <1>2, <1>6, EntryRange DEF Locs
  <2> DEFINE L == IF p = r THEN LiveIn(p) \ {o} ELSE LiveIn(p)
  <2>3. Loses(glocs[f])[p] = Cardinality(L) /\ DOMAIN Loses(glocs[f]) = Pages
    <3>1. Loses(glocs[f])[p] = Cardinality(L)
      <4>1. f \in 1 .. Count /\ LocAt(f) = glocs[f]
        BY <1>2, <1>6
      <4>2. Loses(LocAt(f))[p] =
              Cardinality(IF p = LocAt(f)[1] THEN LiveIn(p) \ {LocAt(f)[2]} ELSE LiveIn(p))
        BY <4>1, OneLess
      <4> QED
        BY <2>2, <4>1, <4>2
    <3> QED
      BY <3>1 DEF Loses, TypeInv, IndexTyped
  <2>4. IsFiniteSet(L) /\ Cardinality(L) \in Nat
    BY LiveFinite, FS_RemoveElement, FS_CardinalityType
  <2>5. \A x : x \in LiveIn(p)' <=> x \in 1 .. PageCells /\ \E j \in 1 .. n : glocs'[j] = <<p, x>>
    BY <1>6 DEF LiveIn
  <2>6. \A x : x \in L <=> x \in 1 .. PageCells /\ \E j \in 1 .. n : j # f /\ glocs[j] = <<p, x>>
    <3>1. \A j \in 1 .. n : j # f => glocs[j] # <<r, o>>
      BY <1>2, <1>6, <2>2, EntriesApart
    <3>2. \A x : x \in LiveIn(p) <=> x \in 1 .. PageCells /\ \E j \in 1 .. n : glocs[j] = <<p, x>>
      BY <1>6 DEF LiveIn
    <3> QED
      BY <1>2, <2>2, <3>1, <3>2
  <2>7. \A j \in 1 .. n : j # f => glocs[j] # <<q, i>>
    <3>1. Cell(w[1].loc).key = w[1].key
      BY <1>5 DEF Rec
    <3>2. \A j \in 1 .. n : Cell(glocs[j]).key = gkeys[j]
      BY <1>6 DEF IndexInv, EntriesTrue
    <3> QED
      BY <1>7, <2>1, <3>1, <3>2
  <2>8. LiveIn(p)' = IF p = q THEN L \cup {i} ELSE L
    <3> HIDE DEF L
    <3>1. \A x : x \in LiveIn(p)' <=> x \in L \/ (x \in 1 .. PageCells /\ w[1].loc = <<p, x>>)
      BY <1>2, <1>7, <2>5, <2>6
    <3>2. \A x : x \in 1 .. PageCells /\ w[1].loc = <<p, x>> <=> p = q /\ x = i
      BY <2>1
    <3>3. \A x : x \in LiveIn(p)' <=> x \in IF p = q THEN L \cup {i} ELSE L
      BY <3>1, <3>2
    <3> QED
      BY <3>3
  <2>9. p = q => i \notin L
    BY <2>6, <2>7
  <2>10. Cardinality(LiveIn(p)') = IF p = q THEN Cardinality(L) + 1 ELSE Cardinality(L)
    <3> HIDE DEF L
    <3> QED
      BY <2>4, <2>8, <2>9, FS_AddElement
  <2> QED
    BY <1>4, <2>1, <2>3, <2>10
<1>10. Indexed'
  <2>1. \A k \in Keys : k # w[1].key /\ now[k] # 0 => \E j \in 1 .. n : gkeys[j] = k
    BY <1>1, <1>6 DEF IndexInv, Indexed
  <2>2. \A k \in Keys : k # w[1].key => now'[k] = now[k]
    BY <1>4 DEF TypeInv, WatchTyped
  <2> QED
    BY <1>2, <1>6, <2>1, <2>2 DEF Indexed
<1>11. CallApart' /\ HoleTrue' /\ CallTrue'
  BY <1>3 DEF CallApart, HoleTrue, CallTrue
<1>12. ErasesDead'
  BY <1>1, <1>4 DEF WriterInv, ErasesBetween, ErasesDead
<1> QED
  BY <1>8, <1>9, <1>10, <1>11, <1>12 DEF IndexInv

\* idx_remove and idx_set on a new key find their place.
LEMMA SearchIndex ==
    ASSUME CoresAssumption, OneWriter, WriterInv, TypeInv, IndexInv, Search(1)
    PROVE  IndexInv'
<1> DEFINE f == Place(w[1].key)
<1>1. w[1].pc = "index" /\ w[1].key \in Keys /\ (Deletes(1) <=> Found(w[1].key)) /\ ~Moving(1)
  BY DEF Search, WriterInv, CallHasPlace, Moving
<1>2. n \in Nat /\ f \in 1 .. n + 1 /\ 1 .. n \subseteq Places /\ (Deletes(1) => f \in 1 .. n /\ gkeys[f] = w[1].key)
  BY <1>1, FoundAt, FoundPlace, EntryRange
<1>3. /\ w'[1].pc = "keys" /\ w'[1].key = w[1].key /\ w'[1].tok = w[1].tok /\ w'[1].loc = w[1].loc
      /\ w'[1].pos = f /\ w'[1].i = (IF Deletes(1) THEN f ELSE n)
      /\ Moving(1)' /\ (Deletes(1)' <=> Deletes(1))
  BY CallFields DEF TypeInv, Search, Moving, Deletes
<1>4. UNCHANGED <<cell, gkeys, glocs, n, gc, now>> /\ ref' = IF Deletes(1) THEN Loses(glocs[f]) ELSE ref
  BY DEF Search, flash
<1> HIDE DEF f
<1>5. /\ Count = n /\ Count' = (IF Deletes(1) THEN n - 1 ELSE n)
      /\ KeyHole' = (IF Deletes(1) THEN f ELSE n + 1) /\ LocHole' = (IF Deletes(1) THEN f ELSE n + 1)
      /\ \A j \in 1 .. n : KeyAt(j) = gkeys[j] /\ LocAt(j) = glocs[j]
  BY <1>1, <1>2, <1>3, <1>4, Still DEF Count, KeyHole, LocHole
<1>6. \A j \in 1 .. n : gkeys[j] \in Keys /\ LocTrue(glocs[j]) /\ Cell(glocs[j]).key = gkeys[j]
  BY <1>5 DEF IndexInv, EntriesTrue
<1>7. \A i, j \in 1 .. n : i < j => gkeys[i] < gkeys[j]
  BY <1>5 DEF IndexInv, EntriesTrue
<1>8. \A j \in 1 .. n : LocTrue(glocs[j])' /\ Cell(glocs[j])' = Cell(glocs[j])
  BY <1>4, <1>6 DEF LocTrue, Cell
<1>9. CallTrue' /\ ErasesDead'
  <2>1. Cell(w[1].loc) = Rec(w[1].key, w[1].tok)
    BY <1>1 DEF IndexInv, CallTrue
  <2>2. gc' = NumPages
    BY <1>1, <1>4 DEF WriterInv, ErasesBetween
  <2> QED
    BY <1>3, <1>4, <2>1, <2>2 DEF CallTrue, ErasesDead, Cell
<1>10. HoleTrue'
  BY <1>2, <1>4, <1>5, <1>8 DEF HoleTrue
<1>11. CASE Deletes(1)
  <2>1. \A j \in 1 .. n - 1 : /\ KeyAt(j)' = gkeys[IF j < f THEN j ELSE j + 1]
                              /\ LocAt(j)' = glocs[IF j < f THEN j ELSE j + 1]
    BY <1>2, <1>4, <1>5, <1>11 DEF KeyAt, LocAt, Past
  <2>2. EntriesTrue'
    <3>1. \A j \in 1 .. n - 1 : (IF j < f THEN j ELSE j + 1) \in 1 .. n
      BY <1>2
    <3>2. \A j \in 1 .. n - 1 : /\ KeyAt(j)' \in Keys /\ LocTrue(LocAt(j))'
                                /\ Cell(LocAt(j))'.key = KeyAt(j)'
      <4> SUFFICES ASSUME NEW j \in 1 .. n - 1
                   PROVE  KeyAt(j)' \in Keys /\ LocTrue(LocAt(j))' /\ Cell(LocAt(j))'.key = KeyAt(j)'
        OBVIOUS
      <4>1. PICK a \in 1 .. n : a = IF j < f THEN j ELSE j + 1
        BY <3>1
      <4>2. KeyAt(j)' = gkeys[a] /\ LocAt(j)' = glocs[a] /\ glocs' = glocs
        BY <1>4, <2>1, <4>1
      <4>3. Cell(LocAt(j))' = Cell(glocs[a])'
        BY <4>2 DEF Cell
      <4>4. LocTrue(LocAt(j))' <=> LocTrue(glocs[a])'
        BY <4>3 DEF LocTrue
      <4> QED
        BY <1>6, <1>8, <4>2, <4>3, <4>4
    <3>3. \A i, j \in 1 .. n - 1 : i < j => KeyAt(i)' < KeyAt(j)'
      <4> SUFFICES ASSUME NEW i \in 1 .. n - 1, NEW j \in 1 .. n - 1, i < j
                   PROVE  KeyAt(i)' < KeyAt(j)'
        OBVIOUS
      <4>1. PICK a \in 1 .. n, b \in 1 .. n : /\ a = (IF i < f THEN i ELSE i + 1)
                                              /\ b = (IF j < f THEN j ELSE j + 1) /\ a < b
        BY <1>2
      <4> QED
        BY <1>7, <2>1, <4>1
    <3> QED
      BY <1>5, <1>11, <3>2, <3>3 DEF EntriesTrue
  <2>3. CallApart'
    <3> SUFFICES ASSUME NEW j \in 1 .. n - 1
                 PROVE  IF j < f THEN KeyAt(j)' < w[1].key ELSE KeyAt(j)' > w[1].key
      BY <1>3, <1>5, <1>11 DEF CallApart
    <3>1. CASE j < f
      BY <1>2, <1>7, <1>11, <2>1, <3>1
    <3>2. CASE ~(j < f)
      <4>1. j + 1 \in 1 .. n /\ f < j + 1 /\ KeyAt(j)' = gkeys[j + 1]
        BY <1>2, <2>1, <3>2
      <4>2. gkeys[f] < gkeys[j + 1] /\ gkeys[f] = w[1].key /\ gkeys[j + 1] \in Nat /\ w[1].key \in Nat
        BY <1>1, <1>2, <1>6, <1>7, <1>11, <4>1, Ranges
      <4> QED
        BY <3>2, <4>1, <4>2
    <3> QED
      BY <3>1, <3>2
  <2>4. Indexed'
    <3> SUFFICES ASSUME NEW k \in Keys, now[k] # 0, k # w[1].key
                 PROVE  \E j \in 1 .. n - 1 : KeyAt(j)' = k
      BY <1>3, <1>4, <1>5, <1>11 DEF Indexed
    <3>1. PICK i \in 1 .. n : gkeys[i] = k
      BY <1>1, <1>5 DEF IndexInv, Indexed
    <3>2. i # f
      BY <1>2, <1>11, <3>1
    <3>3. CASE i < f
      <4>1. i \in 1 .. n - 1 /\ KeyAt(i)' = gkeys[i]
        BY <1>2, <1>11, <2>1, <3>3
      <4> QED
        BY <3>1, <4>1
    <3>4. CASE i > f
      <4>1. i - 1 \in 1 .. n - 1 /\ KeyAt(i - 1)' = gkeys[i]
        BY <1>2, <1>11, <2>1, <3>4
      <4> QED
        BY <3>1, <4>1
    <3> QED
      BY <1>2, <3>2, <3>3, <3>4
  <2>5. RefsExact'
    <3> SUFFICES ASSUME NEW p \in Pages PROVE ref'[p] = Cardinality(LiveIn(p)')
      BY DEF RefsExact
    <3>1. PICK r \in Pages, o \in 1 .. PageCells : glocs[f] = <<r, o>>
      BY <1>2, <1>5, <1>11, EntryRange DEF Locs
    <3>2. ref'[p] = Cardinality(IF p = r THEN LiveIn(p) \ {o} ELSE LiveIn(p))
      <4>1. f \in 1 .. Count /\ LocAt(f) = glocs[f]
        BY <1>2, <1>5, <1>11
      <4>2. Loses(LocAt(f))[p] =
              Cardinality(IF p = LocAt(f)[1] THEN LiveIn(p) \ {LocAt(f)[2]} ELSE LiveIn(p))
        BY <4>1, OneLess
      <4> QED
        BY <1>4, <1>11, <3>1, <4>1, <4>2
    <3>3. \A x : x \in LiveIn(p)' <=> x \in 1 .. PageCells /\ \E j \in 1 .. n : j # f /\ glocs[j] = <<p, x>>
      <4>1. \A j \in 1 .. n - 1 : \E i \in 1 .. n : i # f /\ LocAt(j)' = glocs[i]
        <5> SUFFICES ASSUME NEW j \in 1 .. n - 1 PROVE \E i \in 1 .. n : i # f /\ LocAt(j)' = glocs[i]
          OBVIOUS
        <5>1. PICK a \in 1 .. n : a = (IF j < f THEN j ELSE j + 1) /\ a # f
          BY <1>2
        <5> QED
          BY <2>1, <5>1
      <4>2. \A i \in 1 .. n : i # f => \E j \in 1 .. n - 1 : LocAt(j)' = glocs[i]
        <5> SUFFICES ASSUME NEW i \in 1 .. n, i # f PROVE \E j \in 1 .. n - 1 : LocAt(j)' = glocs[i]
          OBVIOUS
        <5>1. PICK j \in 1 .. n - 1 : i = (IF j < f THEN j ELSE j + 1)
          <6>1. CASE i < f
            BY <1>2, <1>11, <6>1
          <6>2. CASE i > f
            <7>1. i - 1 \in 1 .. n - 1 /\ ~(i - 1 < f) /\ i = (i - 1) + 1
              BY <1>2, <6>2
            <7> QED
              BY <7>1
          <6> QED
            BY <1>2, <6>1, <6>2
        <5> QED
          BY <2>1, <5>1
      <4> QED
        BY <1>5, <1>11, <4>1, <4>2 DEF LiveIn
    <3>4. \A j \in 1 .. n : j # f => glocs[j] # <<r, o>>
      BY <1>2, <1>5, <1>11, <3>1, EntriesApart
    <3>5. \A x : x \in LiveIn(p) <=> x \in 1 .. PageCells /\ \E j \in 1 .. n : glocs[j] = <<p, x>>
      BY <1>5 DEF LiveIn
    <3>6. \A x : x \in LiveIn(p)' <=> x \in IF p = r THEN LiveIn(p) \ {o} ELSE LiveIn(p)
      <4>1. CASE p = r
        BY <1>2, <1>11, <3>1, <3>3, <3>4, <3>5, <4>1
      <4>2. CASE p # r
        BY <1>2, <1>11, <3>1, <3>3, <3>4, <3>5, <4>2
      <4> QED
        BY <4>1, <4>2
    <3>7. LiveIn(p)' = IF p = r THEN LiveIn(p) \ {o} ELSE LiveIn(p)
      BY <3>6
    <3> QED
      BY <3>2, <3>7
  <2> QED
    BY <1>9, <1>10, <2>2, <2>3, <2>4, <2>5 DEF IndexInv
<1>12. CASE ~Deletes(1)
  <2>1. Count' = Count /\ \A j \in 1 .. Count : KeyAt(j)' = KeyAt(j) /\ LocAt(j)' = LocAt(j)
    BY <1>2, <1>4, <1>5, <1>12 DEF KeyAt, LocAt, Past
  <2>2. EntriesTrue' /\ RefsExact'
    BY <1>4, <1>5, <1>8, <1>12, <2>1, SameEntries
  <2>3. Indexed'
    BY <1>1, <1>4, <2>1 DEF IndexInv, Indexed
  <2>4. CallApart'
    <3> SUFFICES ASSUME NEW j \in 1 .. n
                 PROVE  IF j < f THEN gkeys[j] < w[1].key ELSE gkeys[j] > w[1].key
      BY <1>3, <1>5, <1>12, <2>1 DEF CallApart
    <3>1. w[1].key \in Nat /\ \A i \in 1 .. n : gkeys[i] \in Nat /\ gkeys[i] # w[1].key
      BY <1>1, <1>6, <1>12, Ranges DEF Found
    <3>2. (f <= n => gkeys[f] >= w[1].key) /\ \A i \in 1 .. f - 1 : gkeys[i] < w[1].key
      BY <1>2, <3>1, PlaceIs DEF f
    <3>3. CASE j < f
      BY <1>2, <3>2, <3>3
    <3>4. CASE j = f
      BY <1>2, <3>1, <3>2, <3>4
    <3>5. CASE f < j
      <4>1. f \in 1 .. n /\ gkeys[f] < gkeys[j]
        BY <1>2, <1>7, <3>5
      <4> QED
        BY <1>2, <3>1, <3>2, <3>5, <4>1
    <3> QED
      BY <1>2, <3>3, <3>4, <3>5
  <2> QED
    BY <1>9, <1>10, <2>2, <2>3, <2>4 DEF IndexInv
<1> QED
  BY <1>11, <1>12

\* No entry has the key of the call that moves them.
LEMMA KeyApart ==
    ASSUME CoresAssumption, OneWriter, WriterInv, TypeInv, IndexInv, Moving(1)
    PROVE  w[1].key \in Keys /\ \A j \in 1 .. Count : KeyAt(j) # w[1].key
<1>1. w[1].key \in Keys
  BY DEF Moving, WriterInv, CallHasPlace
<1>2. w[1].key \in Nat /\ \A j \in 1 .. Count : KeyAt(j) \in Nat
  BY <1>1, Ranges DEF IndexInv, EntriesTrue
<1>3. \A j \in 1 .. Count : KeyAt(j) < w[1].key \/ KeyAt(j) > w[1].key
  BY DEF IndexInv, CallApart
<1> QED
  BY <1>1, <1>2, <1>3

\* A deletion is done.
LEMMA ShrinkIndex ==
    ASSUME CoresAssumption, OneWriter, WriterInv, TypeInv, IndexInv, Shrink(1)
    PROVE  IndexInv'
<1>1. w[1].pc = "locs" /\ ~More(w[1]) /\ Deletes(1) /\ Moving(1)
  BY DEF Shrink, Moving
<1>2. n \in Nat /\ w[1].i = n /\ n >= 1
  BY <1>1, CallFields, EntryRange DEF More, Deletes, TypeInv, MoveInRange
<1>3. w'[1].pc = "idle" /\ ~Moving(1)'
  BY CallFields DEF TypeInv, Shrink, Ends, Idle, Moving
<1>4. /\ UNCHANGED <<cell, gkeys, glocs, ref, gc>> /\ n' = n - 1
      /\ now' = [now EXCEPT ![w[1].key] = 0]
  BY DEF Shrink, flash, Becomes
<1>5. Count = n - 1 /\ KeyHole = n /\ LocHole = n
  BY <1>1, <1>2 DEF Count, KeyHole, LocHole
<1>6. Count' = n - 1 /\ KeyHole' = n /\ LocHole' = n
  BY <1>2, <1>3, <1>4 DEF Count, KeyHole, LocHole, Moving
<1>7. \A j \in 1 .. Count : KeyAt(j)' = KeyAt(j) /\ LocAt(j)' = LocAt(j)
  BY <1>4, <1>5, <1>6 DEF KeyAt, LocAt
<1>8. w[1].key \in Keys /\ \A j \in 1 .. Count : KeyAt(j) \in Keys /\ KeyAt(j) # w[1].key
  BY <1>1, KeyApart DEF IndexInv, EntriesTrue
<1>9. \A k \in Keys : now'[k] = IF k = w[1].key THEN 0 ELSE now[k]
  BY <1>4 DEF TypeInv, WatchTyped
<1>10. EntriesTrue' /\ RefsExact'
  <2>1. \A j \in 1 .. Count : Cell(LocAt(j))' = Cell(LocAt(j)) /\ now'[KeyAt(j)] = now[KeyAt(j)]
    BY <1>4, <1>7, <1>8, <1>9 DEF Cell
  <2> QED
    BY <1>4, <1>5, <1>6, <1>7, <2>1, SameEntries
<1>11. Indexed'
  BY <1>1, <1>5, <1>6, <1>7, <1>9 DEF IndexInv, Indexed
<1>12. CallApart' /\ HoleTrue' /\ CallTrue'
  BY <1>3 DEF CallApart, HoleTrue, CallTrue
<1>13. ErasesDead'
  BY <1>1, <1>4 DEF WriterInv, ErasesBetween, ErasesDead
<1> QED
  BY <1>10, <1>11, <1>12, <1>13 DEF IndexInv

\* An insertion stores its location.
LEMMA StoreLocIndex ==
    ASSUME CoresAssumption, OneWriter, WriterInv, TypeInv, IndexInv, StoreLoc(1)
    PROVE  IndexInv'
<1>1. /\ w[1].pc = "where" /\ Moving(1) /\ ~Deletes(1) /\ w[1].tok # 0
      /\ w'[1].pc = "count" /\ w'[1].key = w[1].key /\ w'[1].tok = w[1].tok /\ w'[1].pos = w[1].pos
      /\ w'[1].loc = w[1].loc /\ Moving(1)' /\ ~Deletes(1)'
  BY CallFields DEF StoreLoc, Goes, Moving, Deletes, TypeInv, MoveInRange
<1>2. /\ UNCHANGED <<cell, gkeys, n, ref, gc>> /\ glocs' = [glocs EXCEPT ![w[1].pos] = w[1].loc]
      /\ now' = [now EXCEPT ![w[1].key] = w[1].tok]
  BY DEF StoreLoc, flash, Becomes
<1>3. n \in Nat /\ w[1].pos \in 1 .. n + 1 /\ 1 .. n + 1 \subseteq Places /\ DOMAIN glocs = Places
  BY <1>1, EntryRange DEF TypeInv, IndexTyped, MoveInRange, Calling, Places, Capacity
<1>4. /\ Count = n /\ Count' = n /\ KeyHole = w[1].pos /\ KeyHole' = w[1].pos
      /\ LocHole = w[1].pos /\ LocHole' = w[1].pos
  BY <1>1, <1>2 DEF Count, KeyHole, LocHole
<1>5. \A j \in 1 .. n : KeyAt(j)' = KeyAt(j) /\ LocAt(j)' = LocAt(j)
  BY <1>2, <1>3, <1>4 DEF KeyAt, LocAt, Past
<1>6. w[1].key \in Keys /\ \A j \in 1 .. n : KeyAt(j) \in Keys /\ KeyAt(j) # w[1].key
  BY <1>1, <1>4, KeyApart DEF IndexInv, EntriesTrue
<1>7. \A k \in Keys : now'[k] = IF k = w[1].key THEN w[1].tok ELSE now[k]
  BY <1>2 DEF TypeInv, WatchTyped
<1>8. EntriesTrue' /\ RefsExact'
  <2>1. \A j \in 1 .. n : Cell(LocAt(j))' = Cell(LocAt(j)) /\ now'[KeyAt(j)] = now[KeyAt(j)]
    BY <1>2, <1>5, <1>6, <1>7 DEF Cell
  <2> QED
    BY <1>2, <1>4, <1>5, <2>1, SameEntries
<1>9. CallApart' /\ Indexed'
  BY <1>1, <1>4, <1>5, <1>7 DEF IndexInv, CallApart, Indexed
<1>10. Cell(w[1].loc) = Rec(w[1].key, w[1].tok) /\ gkeys[w[1].pos] = w[1].key /\ glocs'[w[1].pos] = w[1].loc
  BY <1>1, <1>2, <1>3 DEF IndexInv, CallTrue
<1>11. HoleTrue' /\ CallTrue'
  <2>1. LocTrue(w[1].loc)'
    <3>1. cell'[w[1].loc[1]][w[1].loc[2]] = Rec(w[1].key, w[1].tok)
      BY <1>2, <1>10 DEF Cell
    <3>2. now'[w[1].key] = w[1].tok
      BY <1>6, <1>7
    <3>3. Rec(w[1].key, w[1].tok).key = w[1].key /\ Rec(w[1].key, w[1].tok).tok = w[1].tok
      BY DEF Rec
    <3> HIDE DEF Rec
    <3> QED
      BY <1>1, <1>6, <3>1, <3>2, <3>3 DEF LocTrue, Cell
  <2>2. CallTrue'
    BY <1>1, <1>2, <1>6, <1>7, <1>10 DEF CallTrue, Cell
  <2>3. HoleTrue'
    BY <1>1, <1>4, <1>10, <2>1 DEF HoleTrue, LocTrue, Cell
  <2> QED
    BY <2>2, <2>3
<1>12. ErasesDead'
  BY <1>2 DEF IndexInv, ErasesDead
<1> QED
  BY <1>8, <1>9, <1>11, <1>12 DEF IndexInv

\* An insertion counts its entry.
LEMMA GrowIndex ==
    ASSUME CoresAssumption, OneWriter, WriterInv, TypeInv, IndexInv, Grow(1)
    PROVE  IndexInv'
<1> DEFINE f == w[1].pos
<1>1. w[1].pc = "count" /\ Moving(1) /\ ~Deletes(1) /\ w'[1].pc = "idle" /\ ~Moving(1)'
  BY CallFields DEF TypeInv, MoveInRange, Grow, Ends, Idle, Moving
<1>2. UNCHANGED <<cell, gkeys, glocs, gc, now>> /\ n' = n + 1 /\ ref' = [ref EXCEPT ![w[1].loc[1]] = @ + 1]
  BY DEF Grow, flash, Unseen
<1>3. n \in Nat /\ f \in 1 .. n + 1
  BY <1>1, EntryRange DEF TypeInv, MoveInRange
<1>4. /\ Cell(w[1].loc) = Rec(w[1].key, w[1].tok) /\ gkeys[f] = w[1].key /\ glocs[f] = w[1].loc
      /\ now[w[1].key] = w[1].tok /\ w[1].tok # 0 /\ w[1].loc \in Locs
  BY <1>1 DEF IndexInv, CallTrue, Deletes, TypeInv, CallTyped
<1> HIDE DEF f
<1>5. /\ Count = n /\ KeyHole = f /\ LocHole = f
      /\ Count' = n + 1 /\ KeyHole' = n + 2 /\ LocHole' = n + 2
  BY <1>1, <1>2, <1>3 DEF Count, KeyHole, LocHole, Moving, f
<1>6. \A j \in 1 .. n + 1 : KeyAt(j)' = gkeys[j] /\ LocAt(j)' = glocs[j]
  BY <1>2, <1>3, <1>5 DEF KeyAt, LocAt, Past
<1>7. \A j \in 1 .. n : /\ KeyAt(j) = gkeys[IF j < f THEN j ELSE j + 1]
                        /\ LocAt(j) = glocs[IF j < f THEN j ELSE j + 1]
  BY <1>5 DEF KeyAt, LocAt, Past
<1>8. w[1].key \in Keys /\ \A j \in 1 .. n : KeyAt(j) # w[1].key
  BY <1>1, <1>5, KeyApart
<1>9. \A i \in 1 .. n + 1 : i # f => \E j \in 1 .. n : i = (IF j < f THEN j ELSE j + 1)
  <2> SUFFICES ASSUME NEW i \in 1 .. n + 1, i # f PROVE \E j \in 1 .. n : i = (IF j < f THEN j ELSE j + 1)
    OBVIOUS
  <2>1. CASE i < f
    <3>1. i \in 1 .. n /\ i = IF i < f THEN i ELSE i + 1
      BY <1>3, <2>1
    <3> QED
      BY <3>1
  <2>2. CASE i > f
    <3>1. i - 1 \in 1 .. n /\ i = IF i - 1 < f THEN i - 1 ELSE (i - 1) + 1
      BY <1>3, <2>2
    <3> QED
      BY <3>1
  <2> QED
    BY <1>3, <2>1, <2>2
<1>10. \A j \in 1 .. n + 1 : gkeys[j] \in Keys /\ LocTrue(glocs[j]) /\ Cell(glocs[j]).key = gkeys[j]
  <2> SUFFICES ASSUME NEW i \in 1 .. n + 1
               PROVE  gkeys[i] \in Keys /\ LocTrue(glocs[i]) /\ Cell(glocs[i]).key = gkeys[i]
    OBVIOUS
  <2>1. CASE i = f
    BY <1>4, <1>8, <2>1 DEF LocTrue, Rec
  <2>2. CASE i # f
    <3>1. PICK j \in 1 .. n : i = (IF j < f THEN j ELSE j + 1)
      BY <1>9, <2>2
    <3>2. KeyAt(j) = gkeys[i] /\ LocAt(j) = glocs[i]
      BY <1>7, <3>1
    <3> QED
      BY <1>5, <3>2 DEF IndexInv, EntriesTrue
  <2> QED
    BY <2>1, <2>2
<1>11. EntriesTrue'
  <2>1. \A j \in 1 .. n + 1 : LocTrue(glocs[j])' /\ Cell(glocs[j])' = Cell(glocs[j])
    BY <1>2, <1>10 DEF LocTrue, Cell
  <2>2. \A j \in 1 .. n + 1 : KeyAt(j)' \in Keys /\ LocTrue(LocAt(j))' /\ Cell(LocAt(j))'.key = KeyAt(j)'
    <3> SUFFICES ASSUME NEW j \in 1 .. n + 1
                 PROVE  KeyAt(j)' \in Keys /\ LocTrue(LocAt(j))' /\ Cell(LocAt(j))'.key = KeyAt(j)'
      OBVIOUS
    <3>1. KeyAt(j)' = gkeys[j] /\ LocAt(j)' = glocs[j] /\ glocs' = glocs
      BY <1>2, <1>6
    <3>2. Cell(LocAt(j))' = Cell(glocs[j])'
      BY <3>1 DEF Cell
    <3>3. LocTrue(LocAt(j))' <=> LocTrue(glocs[j])'
      BY <3>2 DEF LocTrue
    <3> QED
      BY <1>10, <2>1, <3>1, <3>2, <3>3
  <2>3. \A i, j \in 1 .. n + 1 : i < j => gkeys[i] < gkeys[j]
    <3> SUFFICES ASSUME NEW i \in 1 .. n + 1, NEW j \in 1 .. n + 1, i < j PROVE gkeys[i] < gkeys[j]
      OBVIOUS
    <3>1. \A a \in 1 .. n : IF a < f THEN KeyAt(a) < w[1].key ELSE KeyAt(a) > w[1].key
      BY <1>1, <1>5 DEF IndexInv, CallApart, f
    <3>2. \A a, b \in 1 .. n : a < b => KeyAt(a) < KeyAt(b)
      BY <1>5 DEF IndexInv, EntriesTrue
    <3>3. w[1].key \in Nat /\ \A a \in 1 .. n : KeyAt(a) \in Nat
      BY <1>5, <1>8, Ranges DEF IndexInv, EntriesTrue
    <3>4. CASE i = f
      <4>1. j - 1 \in 1 .. n /\ ~(j - 1 < f) /\ KeyAt(j - 1) = gkeys[j]
        BY <1>3, <1>7, <3>4
      <4> QED
        BY <1>4, <3>1, <3>3, <3>4, <4>1
    <3>5. CASE j = f
      <4>1. i \in 1 .. n /\ i < f /\ KeyAt(i) = gkeys[i]
        BY <1>3, <1>7, <3>5
      <4> QED
        BY <1>4, <3>1, <3>3, <3>5, <4>1
    <3>6. CASE i # f /\ j # f
      <4>1. PICK a \in 1 .. n : i = (IF a < f THEN a ELSE a + 1)
        BY <1>9, <3>6
      <4>2. PICK b \in 1 .. n : j = (IF b < f THEN b ELSE b + 1)
        BY <1>9, <3>6
      <4>3. KeyAt(a) = gkeys[i] /\ KeyAt(b) = gkeys[j] /\ a < b
        BY <1>3, <1>7, <4>1, <4>2
      <4> QED
        BY <3>2, <4>3
    <3> QED
      BY <3>4, <3>5, <3>6
  <2> QED
    BY <1>5, <1>6, <2>2, <2>3 DEF EntriesTrue
<1>12. Indexed'
  <2> SUFFICES ASSUME NEW k \in Keys, now[k] # 0 PROVE \E i \in 1 .. n + 1 : gkeys[i] = k
    BY <1>2, <1>5, <1>6 DEF Indexed
  <2>1. CASE k = w[1].key
    BY <1>3, <1>4, <2>1
  <2>2. CASE k # w[1].key
    <3>1. PICK j \in 1 .. n : KeyAt(j) = k
      BY <1>5, <2>2 DEF IndexInv, Indexed
    <3>2. (IF j < f THEN j ELSE j + 1) \in 1 .. n + 1
      BY <1>3
    <3> QED
      BY <1>7, <3>1, <3>2
  <2> QED
    BY <2>1, <2>2
<1>13. RefsExact'
  <2> SUFFICES ASSUME NEW p \in Pages PROVE ref'[p] = Cardinality(LiveIn(p)')
    BY DEF RefsExact
  <2>1. PICK q \in Pages, o \in 1 .. PageCells : w[1].loc = <<q, o>>
    BY <1>4 DEF Locs
  <2>2. \A x : x \in LiveIn(p)' <=> x \in 1 .. PageCells /\ \E i \in 1 .. n + 1 : glocs[i] = <<p, x>>
    BY <1>5, <1>6 DEF LiveIn
  <2>3. \A x : x \in LiveIn(p) <=> x \in 1 .. PageCells /\ \E i \in 1 .. n + 1 : i # f /\ glocs[i] = <<p, x>>
    <3>1. \A j \in 1 .. n : \E i \in 1 .. n + 1 : i # f /\ LocAt(j) = glocs[i]
      <4> SUFFICES ASSUME NEW j \in 1 .. n PROVE \E i \in 1 .. n + 1 : i # f /\ LocAt(j) = glocs[i]
        OBVIOUS
      <4>1. PICK a \in 1 .. n + 1 : a = (IF j < f THEN j ELSE j + 1) /\ a # f
        BY <1>3
      <4> QED
        BY <1>7, <4>1
    <3>2. \A i \in 1 .. n + 1 : i # f => \E j \in 1 .. n : LocAt(j) = glocs[i]
      BY <1>7, <1>9
    <3> QED
      BY <1>5, <3>1, <3>2 DEF LiveIn
  <2>4. \A i \in 1 .. n + 1 : i # f => glocs[i] # <<q, o>>
    <3> SUFFICES ASSUME NEW i \in 1 .. n + 1, i # f, glocs[i] = <<q, o>> PROVE FALSE
      OBVIOUS
    <3>1. PICK j \in 1 .. n : i = (IF j < f THEN j ELSE j + 1)
      BY <1>9
    <3>2. KeyAt(j) = gkeys[i]
      BY <1>7, <3>1
    <3>3. Cell(glocs[i]).key = gkeys[i] /\ Cell(w[1].loc).key = w[1].key
      BY <1>4, <1>10 DEF Rec
    <3> QED
      BY <1>8, <2>1, <3>2, <3>3
  <2>5. \A x : x \in LiveIn(p)' <=> x \in IF p = q THEN LiveIn(p) \cup {o} ELSE LiveIn(p)
    <3>1. \A x : x \in LiveIn(p)' <=> x \in LiveIn(p) \/ (x \in 1 .. PageCells /\ w[1].loc = <<p, x>>)
      BY <1>3, <1>4, <2>2, <2>3
    <3>2. \A x : x \in 1 .. PageCells /\ w[1].loc = <<p, x>> <=> p = q /\ x = o
      BY <2>1
    <3> QED
      BY <3>1, <3>2
  <2>6. LiveIn(p)' = IF p = q THEN LiveIn(p) \cup {o} ELSE LiveIn(p)
    BY <2>5
  <2>7. p = q => o \notin LiveIn(p)
    BY <2>3, <2>4
  <2>8. Cardinality(LiveIn(p)') = IF p = q THEN Cardinality(LiveIn(p)) + 1 ELSE Cardinality(LiveIn(p))
    BY <2>6, <2>7, LiveFinite, FS_AddElement
  <2>9. ref[p] = Cardinality(LiveIn(p)) /\ DOMAIN ref = Pages
    BY DEF IndexInv, RefsExact, TypeInv, IndexTyped
  <2> QED
    BY <1>2, <2>1, <2>8, <2>9
<1>14. CallApart' /\ HoleTrue' /\ CallTrue'
  BY <1>1 DEF CallApart, HoleTrue, CallTrue
<1>15. ErasesDead'
  BY <1>1, <1>2 DEF WriterInv, ErasesBetween, ErasesDead
<1> QED
  BY <1>11, <1>12, <1>13, <1>14, <1>15 DEF IndexInv

\* Steps that change nothing the index invariant speaks of.
LEMMA IndexQuiet ==
    ASSUME IndexInv, UNCHANGED <<cell, w, gkeys, glocs, n, ref, wpage, woff, buf, gc, now>>
    PROVE  IndexInv'
<1>1. Count' = Count /\ KeyHole' = KeyHole /\ LocHole' = LocHole /\ (Moving(1)' <=> Moving(1))
  BY DEF Count, KeyHole, LocHole, Moving, Deletes
<1>2. \A j : KeyAt(j)' = KeyAt(j) /\ LocAt(j)' = LocAt(j)
  BY <1>1 DEF KeyAt, LocAt
<1>3. \A l : Cell(l)' = Cell(l) /\ (LocTrue(l)' <=> LocTrue(l))
  BY DEF Cell, LocTrue
<1>4. EntriesTrue' /\ RefsExact'
  BY <1>1, <1>2, <1>3, SameEntries
<1>5. CallApart' /\ Indexed' /\ ErasesDead'
  BY <1>1, <1>2 DEF IndexInv, CallApart, Indexed, ErasesDead
<1>6. HoleTrue'
  BY <1>1, <1>3 DEF IndexInv, HoleTrue, LocTrue, Cell
<1>7. CallTrue'
  BY <1>1 DEF IndexInv, CallTrue, Cell
<1> QED
  BY <1>4, <1>5, <1>6, <1>7 DEF IndexInv

LEMMA IndexInvStep ==
    CoresAssumption /\ OneWriter /\ WriterInv /\ TypeInv /\ IndexInv /\ [Next]_vars => IndexInv'
<1> SUFFICES ASSUME CoresAssumption, OneWriter, WriterInv, TypeInv, IndexInv, [Next]_vars
             PROVE  IndexInv'
  OBVIOUS
<1>1. CASE Writes(1)
  BY <1>1, BeforeIndex, MoveIndex, ReplaceIndex, SearchIndex, ShrinkIndex, StoreLocIndex, GrowIndex
  DEF Writes
<1>2. CASE Compact \/ Erase
  BY <1>2, CompactIndex
<1>3. CASE Reads \/ UNCHANGED vars
  <2>1. UNCHANGED <<cell, w, gkeys, glocs, n, ref, wpage, woff, buf, gc, now>>
    BY <1>3 DEF Reads, Get, Probe, Absent, ReadLoc, Check, Copy, Watched, vars, flash, index, cursor
  <2> QED
    BY <2>1, IndexQuiet
<1> QED
  BY <1>1, <1>2, <1>3 DEF Next, OneWriter

-----------------------------------------------------------------------------
(* The reader.                                                             *)

LEMMA ReadInit == CoresAssumption /\ OneWriter /\ Init => ReadInv
<1> SUFFICES ASSUME CoresAssumption, OneWriter, Init PROVE ReadInv
  OBVIOUS
<1>1. ~Reading /\ rd.pc = "done"
  BY DEF Init, Reading
<1>2. ReadTyped
  BY <1>1, Ranges DEF Init, ReadTyped, Garbage, Capacity
<1>3. AnswerIsTrue /\ MissingIsTrue
  BY DEF Init, AnswerIsTrue, MissingIsTrue
<1> QED
  BY <1>1, <1>2, <1>3 DEF ReadInv, SeesNow, SearchTrue, SearchComplete

\* A record that counts is a true answer.
LEMMA TrueIsSeen ==
    ASSUME SeesNow, Reading, NEW l, LocTrue(l) PROVE SeenAt(l)
BY DEF SeesNow, LocTrue, SeenAt

\* The compactor and the writer add to what a read in progress remembers.
LEMMA WatchGrows ==
    ASSUME OneWriter, Writes(1) \/ Compact \/ Erase
    PROVE  /\ rd' = rd /\ seen \subseteq seen' /\ during \subseteq during'
           /\ ~Reading => seen' = seen /\ during' = during
<1>1. CASE Program(1)
  BY <1>1 DEF Program
<1>2. CASE Replace(1) \/ Shrink(1) \/ StoreLoc(1)
  BY <1>2 DEF Replace, Shrink, StoreLoc, Becomes, Happens
<1>3. CASE Search(1)
  BY <1>3 DEF Search, Happens
<1>4. CASE Erase
  BY <1>4 DEF Erase, Happens
<1>5. CASE UNCHANGED <<rd, seen, during>>
  BY <1>5
<1>6. \/ UNCHANGED <<rd, seen, during>> \/ Program(1) \/ Replace(1) \/ Shrink(1) \/ StoreLoc(1)
      \/ Search(1) \/ Erase
  BY DEF Writes, Call, Select, Ready, Fill, Advance, MoveKey, KeysMoved, MoveLoc, StoreKey, Grow,
         Compact, Unseen
<1> QED
  BY <1>1, <1>2, <1>3, <1>4, <1>5, <1>6

\* What a read may find true stays so: a cell is written only with a record that is noted,
\* or emptied.
LEMMA CellSeen ==
    ASSUME CoresAssumption, OneWriter, WriterInv, TypeInv, IndexInv, ReadTyped, Reading,
           Writes(1) \/ Compact \/ Erase, NEW l \in Locs
    PROVE  /\ SeenAt(l) => SeenAt(l)'
           /\ IsRecord(Cell(l), rd.key) =>
                 IsRecord(Cell(l)', rd.key) \/ (Erase /\ l[1] = gc)
<1>1. rd' = rd /\ seen \subseteq seen' /\ rd.key \in Keys
  BY WatchGrows DEF ReadTyped
<1>2. PICK p \in Pages, i \in 1 .. PageCells : l = <<p, i>>
  BY DEF Locs
<1>3. CASE cell' = cell
  BY <1>1, <1>3 DEF SeenAt, Cell
<1>4. CASE Program(1)
  <2>1. /\ cell[wpage][woff] = Blank /\ cell' = [cell EXCEPT ![wpage][woff] = buf]
        /\ woff \in 1 .. PageCells /\ wpage \in Pages
    BY <1>4, ProgramsBlank DEF WriterInv, PlacesTyped
  <2>2. buf = Rec(w[1].key, w[1].tok)
    BY <1>4 DEF Program, IndexInv, CallTrue
  <2>3. CASE p = wpage /\ i = woff
    <3>1. Cell(l)' = buf /\ Cell(l) = Blank
      BY <1>2, <2>1, <2>3 DEF Cell, TypeInv, FlashTyped
    <3>2. ~IsRecord(Cell(l), rd.key)
      BY <3>1 DEF IsRecord, Blank, Rec
    <3>3. w[1].key = rd.key /\ w[1].tok # 0 => w[1].tok \in seen'
      BY <1>4 DEF Program, Written, Reading, ReadTyped
    <3> QED
      BY <1>1, <2>2, <3>1, <3>2, <3>3 DEF SeenAt, Cell, Rec
  <2>4. CASE ~(p = wpage /\ i = woff)
    <3>1. Cell(l)' = Cell(l)
      BY <1>2, <2>1, <2>4 DEF Cell, TypeInv, FlashTyped
    <3> QED
      BY <1>1, <3>1 DEF SeenAt, Cell
  <2> QED
    BY <2>3, <2>4
<1>5. CASE Erase
  <2>1. gc \in Pages /\ cell' = [cell EXCEPT ![gc] = [a \in 1 .. PageCells |-> Blank]]
    BY <1>5, Ranges DEF Erase, TypeInv, FlashTyped, Pages
  <2>2. CASE p = gc
    <3>1. Cell(l)' = Blank
      BY <1>2, <2>1, <2>2 DEF Cell, TypeInv, FlashTyped
    <3>2. Blank.key # rd.key
      BY <1>1, Ranges DEF Blank, Rec
    <3> QED
      BY <1>1, <1>2, <1>5, <2>2, <3>1, <3>2 DEF SeenAt, Cell
  <2>3. CASE p # gc
    <3>1. Cell(l)' = Cell(l)
      BY <1>2, <2>1, <2>3 DEF Cell, TypeInv, FlashTyped
    <3> QED
      BY <1>1, <3>1 DEF SeenAt, Cell
  <2> QED
    BY <2>2, <2>3
<1>6. cell' = cell \/ Program(1) \/ Erase
  BY DEF Writes, Call, Select, Ready, Fill, Advance, Replace, Search, MoveKey, KeysMoved,
         MoveLoc, Shrink, StoreKey, StoreLoc, Grow, Compact, flash
<1> QED
  BY <1>3, <1>4, <1>5, <1>6

\* Nothing but entries is ever stored into g_locs, and the record of the call in progress.
LEMMA GlocsFrom ==
    ASSUME CoresAssumption, OneWriter, TypeInv, Writes(1) \/ Compact \/ Erase, NEW i \in Places
    PROVE  \/ glocs'[i] = glocs[i]
           \/ \E k \in 1 .. n : glocs'[i] = glocs[k]
           \/ glocs'[i] = w[1].loc /\ ~Deletes(1) /\ Programmed(1) /\ (w[1].pc = "index" \/ Moving(1))
<1>1. DOMAIN glocs = Places /\ w[1].loc \in (Pages \X Nat) \cup {NoLoc}
  BY CallFields DEF TypeInv, IndexTyped
<1>2. CASE MoveLoc(1)
  <2>1. w[1].pc = "locs" /\ More(w[1]) /\ glocs' = Shifted(w[1], glocs)
    BY <1>2 DEF MoveLoc
  <2>2. \E k \in 1 .. n, a \in Places : glocs' = [glocs EXCEPT ![a] = glocs[k]]
    <3>0. /\ Deletes(1) => w[1].i \in 1 .. n /\ w[1].i + 1 \in 1 .. n
          /\ ~Deletes(1) => w[1].i \in 1 .. n /\ w[1].i + 1 \in Places
          /\ 1 .. n \subseteq Places
      <4>1. glocs \in [Places -> Locs]
        BY DEF TypeInv, IndexTyped
      <4> QED
        BY <2>1, <4>1, ShiftTyped
    <3>1. CASE Deletes(1)
      <4>1. glocs' = [glocs EXCEPT ![w[1].i] = glocs[w[1].i + 1]]
        BY <2>1, <3>1 DEF Shifted, Deletes
      <4> QED
        BY <3>0, <3>1, <4>1
    <3>2. CASE ~Deletes(1)
      <4>1. glocs' = [glocs EXCEPT ![w[1].i + 1] = glocs[w[1].i]]
        BY <2>1, <3>2 DEF Shifted, Deletes
      <4> QED
        BY <3>0, <3>2, <4>1
    <3> QED
      BY <3>1, <3>2
  <2> QED
    BY <1>1, <2>2
<1>3. CASE Replace(1)
  BY <1>1, <1>3 DEF Replace, Programmed
<1>4. CASE StoreLoc(1)
  <2>1. ~Deletes(1) /\ Moving(1) /\ w[1].pc = "where"
    BY <1>4 DEF StoreLoc, TypeInv, MoveInRange, Moving
  <2> QED
    BY <1>1, <1>4, <2>1 DEF StoreLoc, Programmed
<1>5. glocs' = glocs \/ MoveLoc(1) \/ Replace(1) \/ StoreLoc(1)
  BY DEF Writes, Call, Select, Ready, Fill, Program, Advance, Search, MoveKey, KeysMoved, Shrink,
         StoreKey, Grow, Compact, Erase, index
<1> QED
  BY <1>2, <1>3, <1>4, <1>5

\* What a write leaves in the index and in now is remembered by a read in progress.
LEMMA SeesStep ==
    ASSUME CoresAssumption, OneWriter, WriterInv, TypeInv, IndexInv, ReadTyped, SeesNow, Reading,
           Writes(1) \/ Compact \/ Erase
    PROVE  SeesNow'
<1>1. rd' = rd /\ seen \subseteq seen' /\ rd.key \in Keys
  BY WatchGrows DEF ReadTyped
<1>2. now'[rd.key] \in seen'
  <2>1. CASE now' = now
    BY <1>1, <2>1 DEF SeesNow
  <2>2. (Replace(1) \/ Shrink(1) \/ StoreLoc(1)) => now'[rd.key] \in seen'
    BY DEF Replace, Shrink, StoreLoc, Becomes
  <2>3. now' = now \/ Replace(1) \/ Shrink(1) \/ StoreLoc(1)
    BY DEF Writes, Call, Select, Ready, Fill, Program, Advance, Search, MoveKey, KeysMoved, MoveLoc,
           StoreKey, Grow, Compact, Erase, Unseen
  <2> QED
    BY <2>1, <2>2, <2>3
<1>3. Programmed(1)' /\ w'[1].key = rd.key /\ ~Deletes(1)' => w'[1].tok \in seen'
  <2> SUFFICES ASSUME Programmed(1)', w'[1].key = rd.key, ~Deletes(1)' PROVE w'[1].tok \in seen'
    OBVIOUS
  <2>1. DOMAIN w = {1} /\ DOMAIN w[1] = {"pc", "key", "tok", "old", "loc", "pos", "i"}
    BY CallFields DEF TypeInv
  <2>2. CASE Program(1)
    <3>1. w'[1].key = w[1].key /\ w'[1].tok = w[1].tok /\ w[1].tok # 0
      BY <2>1, <2>2 DEF Program, Goes, Deletes
    <3> QED
      BY <2>2, <3>1 DEF Program, Written, Reading
  <2>3. CASE Programmed(1) /\ w'[1].key = w[1].key /\ w'[1].tok = w[1].tok
    BY <1>1, <2>3 DEF SeesNow, Deletes
  <2>4. CASE ~Program(1)
    <3>1. CASE w' = w
      BY <2>3, <3>1 DEF Programmed, Moving
    <3>2. CASE Advance(1)
      BY <2>1, <2>3, <3>2 DEF Advance, Programmed
    <3>3. CASE Search(1)
      BY <2>1, <2>3, <3>3 DEF Search, Programmed
    <3>4. CASE MoveKey(1) \/ MoveLoc(1) \/ KeysMoved(1)
      BY <2>1, <2>3, <3>4 DEF MoveKey, MoveLoc, KeysMoved, Programmed, Moving
    <3>5. CASE StoreKey(1) \/ StoreLoc(1)
      BY <2>1, <2>3, <3>5 DEF StoreKey, StoreLoc, Goes, Programmed, Moving
    <3>6. CASE Replace(1) \/ Shrink(1) \/ Grow(1)
      BY <2>1, <3>6 DEF Replace, Shrink, Grow, Ends, Idle, Programmed, Moving
    <3>7. CASE Select(1)
      BY <2>1, <3>7 DEF Select, Goes, Ends, Idle, Programmed, Moving
    <3>8. CASE Ready(1) \/ Fill(1)
      BY <2>1, <3>8 DEF Ready, Fill, Goes, Programmed, Moving
    <3>9. ASSUME NEW k \in Keys, NEW t \in 0 .. MaxCalls, Call(1, k, t) PROVE FALSE
      <4>1. w'[1].pc = "select"
        BY <2>1, <3>9 DEF Call, Idle
      <4> QED
        BY <4>1 DEF Programmed, Moving
    <3>10. Compact \/ Erase => w' = w
      BY DEF Compact, Erase
    <3> QED
      BY <2>4, <3>1, <3>2, <3>3, <3>4, <3>5, <3>6, <3>7, <3>8, <3>9, <3>10 DEF Writes
  <2> QED
    BY <2>2, <2>4
<1> QED
  BY <1>1, <1>2, <1>3 DEF SeesNow

\* No step of the writer or of the compactor makes a read's answer wrong.
LEMMA WatchStep ==
    ASSUME CoresAssumption, OneWriter, WriterInv, TypeInv, IndexInv, ReadInv,
           Writes(1) \/ Compact \/ Erase
    PROVE  ReadInv'
<1>1. rd' = rd /\ seen \subseteq seen' /\ during \subseteq during' /\ (Reading' <=> Reading)
  BY WatchGrows DEF Reading
<1>2. ReadTyped'
  BY <1>1 DEF ReadInv, ReadTyped
<1>3. CASE ~Reading
  <2>1. seen' = seen /\ during' = during /\ rd.pc = "done"
    BY <1>3, WatchGrows DEF Reading
  <2>2. AnswerIsTrue' /\ MissingIsTrue'
    BY <1>1, <2>1 DEF ReadInv, AnswerIsTrue, MissingIsTrue, Reading
  <2> QED
    BY <1>1, <1>2, <1>3, <2>1, <2>2 DEF ReadInv, SeesNow, SearchTrue, SearchComplete
<1>4. CASE Reading
  <2>1. SeesNow'
    BY <1>4, SeesStep DEF ReadInv
  <2>2. \A i \in Places : SeenAt(glocs[i]) => SeenAt(glocs[i])'
    <3> SUFFICES ASSUME NEW i \in Places, SeenAt(glocs[i]) PROVE SeenAt(glocs[i])'
      OBVIOUS
    <3>1. PICK l \in Locs : l = glocs[i]
      BY DEF TypeInv, IndexTyped
    <3>2. SeenAt(l) => SeenAt(l)'
      BY <1>4, CellSeen DEF ReadInv
    <3>3. i \in Places
      OBVIOUS
    <3>4. CASE glocs'[i] = glocs[i]
      BY <3>1, <3>2, <3>4 DEF SeenAt, Cell
    <3>5. CASE \E k \in 1 .. n : glocs'[i] = glocs[k]
      <4>1. PICK k \in 1 .. n : glocs'[i] = glocs[k]
        BY <3>5
      <4>2. PICK m \in Locs : m = glocs[k]
        BY EntryRange DEF TypeInv, IndexTyped
      <4>3. LocTrue(m)
        BY <4>2, AllTrue
      <4>4. SeenAt(m)'
        BY <1>4, <4>3, TrueIsSeen, CellSeen DEF ReadInv
      <4> QED
        BY <4>1, <4>2, <4>4 DEF SeenAt, Cell
    <3>6. CASE glocs'[i] = w[1].loc /\ ~Deletes(1) /\ Programmed(1) /\ (w[1].pc = "index" \/ Moving(1))
      <4>1. PICK m \in Locs : m = w[1].loc
        BY <3>6 DEF TypeInv, CallTyped
      <4>2. Cell(m) = Rec(w[1].key, w[1].tok)
        BY <3>6, <4>1 DEF IndexInv, CallTrue
      <4>3. SeenAt(m)
        BY <1>4, <3>6, <4>2 DEF ReadInv, SeesNow, SeenAt, Rec
      <4>4. SeenAt(m)'
        BY <1>4, <4>3, CellSeen DEF ReadInv
      <4> QED
        BY <3>6, <4>1, <4>4 DEF SeenAt, Cell
    <3> QED
      BY <3>4, <3>5, <3>6, GlocsFrom
  <2>3. Capacity \in Nat /\ rd.hi \in Nat /\ rd.hi <= Capacity /\ (rd.pc = "loc" => rd.lo \in Places)
    BY Ranges DEF ReadInv, ReadTyped, Capacity, Places
  <2>4. rd.pc \in {"check", "copy"} =>
          /\ SeenAt(rd.loc) => SeenAt(rd.loc)'
          /\ IsRecord(Cell(rd.loc), rd.key) => IsRecord(Cell(rd.loc)', rd.key) \/ (Erase /\ rd.loc[1] = gc)
    <3> SUFFICES ASSUME rd.pc \in {"check", "copy"}
                 PROVE  /\ SeenAt(rd.loc) => SeenAt(rd.loc)'
                        /\ IsRecord(Cell(rd.loc), rd.key) =>
                             IsRecord(Cell(rd.loc)', rd.key) \/ (Erase /\ rd.loc[1] = gc)
      OBVIOUS
    <3>1. PICK l \in Locs : l = rd.loc
      BY DEF ReadInv, ReadTyped
    <3>2. /\ SeenAt(l) => SeenAt(l)'
          /\ IsRecord(Cell(l), rd.key) => IsRecord(Cell(l)', rd.key) \/ (Erase /\ l[1] = gc)
      BY <1>4, CellSeen DEF ReadInv
    <3> QED
      BY <1>1, <3>1, <3>2 DEF SeenAt, Cell
  <2>5. Erase /\ rd.loc[1] = gc => "erased" \in during'
    BY <1>4 DEF Erase, Happens
  <2>6. SearchTrue'
    <3>1. rd.pc = "probe" => \A i \in 1 .. rd.hi : SeenAt(glocs[i])'
      <4> SUFFICES ASSUME rd.pc = "probe", NEW i \in 1 .. rd.hi PROVE SeenAt(glocs[i])'
        OBVIOUS
      <4>1. i \in Places /\ SeenAt(glocs[i])
        BY <2>3 DEF Places, ReadInv, SearchTrue
      <4> QED
        BY <2>2, <4>1
    <3>2. rd.pc = "loc" => SeenAt(glocs[rd.lo])'
      <4>1. rd.pc = "loc" => SeenAt(glocs[rd.lo])
        BY DEF ReadInv, SearchTrue
      <4>2. PICK i \in Places \cup {0} : rd.pc = "loc" => i = rd.lo /\ i \in Places
        BY <2>3
      <4> QED
        BY <1>1, <2>2, <4>1, <4>2 DEF SeenAt, Cell
    <3> QED
      BY <1>1, <2>4, <2>5, <3>1, <3>2 DEF ReadInv, SearchTrue, SeenAt, Cell
  <2>7. SearchComplete'
    <3> SUFFICES ASSUME during' = {} PROVE SearchComplete'
      BY DEF SearchComplete
    <3>1. during = {} /\ ~Moving(1) /\ ~Search(1)
      BY <1>1, <1>4 DEF ReadInv, SearchComplete, Search, Happens
    <3>2. UNCHANGED <<gkeys, n>> /\ ~Moving(1)'
      <4>1. DOMAIN w = {1} /\ DOMAIN w[1] = {"pc", "key", "tok", "old", "loc", "pos", "i"}
        BY CallFields DEF TypeInv
      <4>2. CASE Select(1) \/ Ready(1) \/ Fill(1) \/ Program(1) \/ Advance(1)
        BY <4>1, <4>2 DEF Select, Ready, Fill, Program, Advance, Goes, Ends, Idle, Moving, index
      <4>3. CASE Replace(1)
        BY <4>1, <4>3 DEF Replace, Ends, Idle, Moving
      <4>4. ASSUME NEW k \in Keys, NEW t \in 0 .. MaxCalls, Call(1, k, t)
            PROVE  UNCHANGED <<gkeys, n>> /\ ~Moving(1)'
        BY <4>1, <4>4 DEF Call, Idle, Moving, index
      <4>5. CASE Compact \/ Erase
        BY <3>1, <4>5 DEF Compact, Erase, Moving, index
      <4>6. ~(MoveKey(1) \/ KeysMoved(1) \/ MoveLoc(1) \/ Shrink(1) \/ StoreKey(1) \/ StoreLoc(1) \/ Grow(1))
        BY <3>1 DEF MoveKey, KeysMoved, MoveLoc, Shrink, StoreKey, StoreLoc, Grow, Moving
      <4> QED
        BY <3>1, <4>2, <4>3, <4>4, <4>5, <4>6 DEF Writes
    <3>3. rd.pc \in {"check", "copy"} /\ IsRecord(Cell(rd.loc), rd.key) => IsRecord(Cell(rd.loc)', rd.key)
      BY <2>4, <2>5
    <3> QED
      BY <1>1, <1>4, <3>1, <3>2, <3>3 DEF ReadInv, SearchComplete, Cell
  <2>8. AnswerIsTrue' /\ MissingIsTrue'
    BY <1>1, <1>4 DEF AnswerIsTrue, MissingIsTrue
  <2> QED
    BY <1>2, <2>1, <2>6, <2>7, <2>8 DEF ReadInv
<1> QED
  BY <1>3, <1>4

\* kv_get_copy begins: what it can find now counts, and without a move it will find it.
LEMMA GetStep ==
    ASSUME CoresAssumption, OneWriter, WriterInv, TypeInv, IndexInv, ReadInv, NEW k \in Keys, Get(k)
    PROVE  ReadInv'
<1>1. /\ rd' = [pc |-> "probe", key |-> k, lo |-> 1, hi |-> n, loc |-> NoLoc, ans |-> 0]
      /\ seen' = {now[k]} \cup UNION {Written(c) : c \in {d \in Writers : w[d].key = k /\ Programmed(d)}}
      /\ during' = IF \E c \in Writers : Moving(c) THEN {"moved"} ELSE {}
      /\ UNCHANGED <<cell, gkeys, glocs, n, now, w>>
  BY DEF Get, flash, index
<1>2. n \in Nat /\ n <= Capacity /\ MaxCalls \in Nat
  BY Ranges DEF TypeInv, IndexTyped, Capacity
<1>3. Reading' /\ rd'.pc = "probe" /\ rd'.key = k /\ rd'.hi = n /\ rd'.lo = 1
  BY <1>1 DEF Reading
<1>4. ReadTyped'
  BY <1>1, <1>2, <1>3 DEF ReadTyped, Garbage, Reading
<1>5. now[k] \in seen' /\ (Programmed(1) /\ w[1].key = k /\ ~Deletes(1) => w[1].tok \in seen')
  BY <1>1 DEF OneWriter, Written, Deletes
<1>6. SeesNow'
  BY <1>1, <1>3, <1>5 DEF SeesNow, Programmed, Moving, Deletes
<1>7. \A i \in 1 .. n : SeenAt(glocs[i])'
  <2>1. \A i \in 1 .. n : LocTrue(glocs[i])
    BY AllTrue
  <2> QED
    BY <1>1, <1>3, <1>5, <2>1 DEF LocTrue, SeenAt, Cell
<1>8. SearchTrue'
  BY <1>1, <1>3, <1>7 DEF SearchTrue
<1>9. SearchComplete'
  <2> SUFFICES ASSUME during' = {} PROVE SearchComplete'
    BY DEF SearchComplete
  <2>1. ~Moving(1) /\ ~Moving(1)'
    BY <1>1 DEF OneWriter, Moving
  <2>2. CASE now[k] = 0
    BY <1>1, <1>2, <1>3, <1>5, <2>1, <2>2 DEF SearchComplete
  <2>3. CASE now[k] # 0
    <3>1. PICK f \in 1 .. n : gkeys[f] = k
      BY <1>2, <2>1, <2>3, Still DEF IndexInv, Indexed
    <3> QED
      BY <1>1, <1>2, <1>3, <2>1, <3>1 DEF SearchComplete
  <2> QED
    BY <2>2, <2>3
<1>10. AnswerIsTrue' /\ MissingIsTrue'
  BY <1>3 DEF AnswerIsTrue, MissingIsTrue
<1> QED
  BY <1>4, <1>6, <1>8, <1>9, <1>10 DEF ReadInv

\* The search closes in.
LEMMA ProbeStep ==
    ASSUME CoresAssumption, OneWriter, WriterInv, TypeInv, IndexInv, ReadInv, Probe
    PROVE  ReadInv'
<1>1. /\ rd.pc = "probe" /\ rd.lo <= rd.hi /\ rd.lo \in Nat \ {0} /\ rd.hi \in Nat /\ rd.hi <= Capacity
      /\ rd.key \in Keys /\ Reading /\ Capacity \in Nat
      /\ UNCHANGED <<cell, gkeys, glocs, n, now, w, seen, during>>
  BY Ranges DEF Probe, ReadInv, ReadTyped, Reading, Watched, flash, index, Capacity
<1>2. PICK m \in Nat : m = Mid /\ rd.lo <= m /\ m <= rd.hi
  BY <1>1 DEF Mid
<1>3. DOMAIN rd = {"pc", "key", "lo", "hi", "loc", "ans"}
  BY DEF ReadInv, ReadTyped
<1>4. /\ rd'.key = rd.key /\ rd'.ans = rd.ans /\ rd'.loc = rd.loc
      /\ \/ gkeys[m] = rd.key /\ rd'.pc = "loc" /\ rd'.lo = m /\ rd'.hi = rd.hi
         \/ gkeys[m] < rd.key /\ rd'.pc = "probe" /\ rd'.lo = m + 1 /\ rd'.hi = rd.hi
         \/ gkeys[m] > rd.key /\ rd'.pc = "probe" /\ rd'.lo = rd.lo /\ rd'.hi = m - 1
  BY <1>1, <1>2, <1>3 DEF Probe
<1>5. Reading'
  BY <1>4 DEF Reading
<1>6. ReadTyped'
  <2>1. rd' \in [pc : {"probe", "loc", "check", "copy", "done"}, key : Keys \cup {0},
                 lo : Nat \ {0}, hi : Nat, loc : Locs \cup {NoLoc}, ans : 0 .. Garbage]
    <3>1. rd \in [pc : {"probe", "loc", "check", "copy", "done"}, key : Keys \cup {0},
                  lo : Nat \ {0}, hi : Nat, loc : Locs \cup {NoLoc}, ans : 0 .. Garbage]
      BY DEF ReadInv, ReadTyped
    <3>2. m \in Nat \ {0} /\ m + 1 \in Nat \ {0} /\ m - 1 \in Nat
      BY <1>1, <1>2
    <3>3. \/ rd' = [rd EXCEPT !.pc = "loc", !.lo = m] \/ rd' = [rd EXCEPT !.lo = m + 1]
          \/ rd' = [rd EXCEPT !.hi = m - 1]
      BY <1>2 DEF Probe
    <3> QED
      BY <3>1, <3>2, <3>3
  <2> QED
    BY <1>1, <1>2, <1>4, <2>1 DEF ReadTyped, Reading
<1>7. SeesNow'
  BY <1>1, <1>4, <1>5 DEF ReadInv, SeesNow, Programmed, Moving, Deletes
<1>8. SearchTrue'
  <2>1. \A i \in 1 .. rd.hi : SeenAt(glocs[i])
    BY <1>1 DEF ReadInv, SearchTrue
  <2>2. \A i \in 1 .. rd.hi : SeenAt(glocs[i])'
    BY <1>1, <1>4, <2>1 DEF SeenAt, Cell
  <2>3. m \in 1 .. rd.hi
    BY <1>1, <1>2
  <2>4. SeenAt(glocs[m])'
    BY <2>2, <2>3
  <2>5. rd'.pc = "probe" => \A i \in 1 .. rd'.hi : i \in 1 .. rd.hi
    BY <1>1, <1>2, <1>4
  <2>6. rd'.pc = "probe" => \A i \in 1 .. rd'.hi : SeenAt(glocs[i])'
    BY <2>2, <2>5
  <2>7. rd'.pc = "loc" => rd'.lo = m
    BY <1>4
  <2>8. rd'.pc = "loc" => SeenAt(glocs[rd.lo])'
    BY <2>4, <2>7 DEF SeenAt, Cell
  <2> QED
    BY <1>4, <2>6, <2>8 DEF SearchTrue
<1>9. SearchComplete'
  <2> SUFFICES ASSUME during = {}, 0 \notin seen PROVE SearchComplete'
    <3>1. CASE during # {}
      BY <1>1, <3>1 DEF SearchComplete
    <3>2. CASE during = {} /\ 0 \in seen
      <4>1. ~Moving(1) /\ rd.hi <= n
        BY <1>1, <3>2 DEF ReadInv, SearchComplete
      <4>2. ~Moving(1)' /\ n \in Nat /\ (rd'.pc = "probe" => rd'.hi <= n)
        BY <1>1, <1>2, <1>4, <4>1, EntryRange DEF Moving
      <4> QED
        BY <1>1, <3>2, <4>2 DEF SearchComplete
    <3> QED
      BY <3>1, <3>2
  <2>1. PICK f \in 1 .. n : gkeys[f] = rd.key /\ rd.lo <= f /\ f <= rd.hi
    BY <1>1 DEF ReadInv, SearchComplete
  <2>2. ~Moving(1) /\ ~Moving(1)' /\ rd.hi <= n /\ n \in Nat
    BY <1>1, EntryRange DEF ReadInv, SearchComplete, Moving
  <2>3. /\ \A j \in 1 .. n : gkeys[j] \in Keys
        /\ \A i, j \in 1 .. n : i < j => gkeys[i] < gkeys[j]
    BY <2>2, Still DEF IndexInv, EntriesTrue
  <2>4. m \in 1 .. n /\ gkeys[m] \in Nat /\ gkeys[f] \in Nat
    <3>1. m \in 1 .. n
      BY <1>1, <1>2, <2>2
    <3>2. gkeys[m] \in Keys /\ gkeys[f] \in Keys
      BY <2>1, <2>3, <3>1
    <3> QED
      BY <3>1, <3>2, Ranges
  <2>5. CASE gkeys[m] = rd.key /\ rd'.pc = "loc" /\ rd'.lo = m
    BY <1>1, <1>4, <2>2, <2>4, <2>5 DEF SearchComplete
  <2>6. CASE gkeys[m] < rd.key /\ rd'.pc = "probe" /\ rd'.lo = m + 1 /\ rd'.hi = rd.hi
    <3>1. m < f
      <4>1. m # f
        BY <2>1, <2>4, <2>6
      <4>2. ~(f < m)
        BY <2>1, <2>3, <2>4, <2>6
      <4> QED
        BY <2>2, <2>4, <4>1, <4>2
    <3>2. f \in 1 .. n /\ gkeys'[f] = rd'.key /\ rd'.lo <= f /\ f <= rd'.hi
      BY <1>1, <1>4, <2>1, <2>2, <2>4, <2>6, <3>1
    <3> QED
      BY <1>1, <2>2, <2>6, <3>2 DEF SearchComplete
  <2>7. CASE gkeys[m] > rd.key /\ rd'.pc = "probe" /\ rd'.lo = rd.lo /\ rd'.hi = m - 1
    <3>1. f < m
      <4>1. m # f
        BY <2>1, <2>4, <2>7
      <4>2. ~(m < f)
        BY <2>1, <2>3, <2>4, <2>7
      <4> QED
        BY <2>2, <2>4, <4>1, <4>2
    <3>2. f \in 1 .. n /\ gkeys'[f] = rd'.key /\ rd'.lo <= f /\ f <= rd'.hi /\ rd'.hi <= n
      BY <1>1, <1>4, <2>1, <2>2, <2>4, <2>7, <3>1
    <3> QED
      BY <1>1, <2>2, <2>7, <3>2 DEF SearchComplete
  <2> QED
    BY <1>4, <2>5, <2>6, <2>7
<1>10. AnswerIsTrue' /\ MissingIsTrue'
  BY <1>5 DEF AnswerIsTrue, MissingIsTrue
<1> QED
  BY <1>6, <1>7, <1>8, <1>9, <1>10 DEF ReadInv

\* The rest of a read: where the key's record is, whether it is one, and its value.
LEMMA AnswerStep ==
    ASSUME CoresAssumption, OneWriter, WriterInv, TypeInv, IndexInv, ReadInv,
           Absent \/ ReadLoc \/ Check \/ Copy
    PROVE  ReadInv'
<1>1. /\ UNCHANGED <<cell, gkeys, glocs, n, now, w, seen, during>>
      /\ DOMAIN rd = {"pc", "key", "lo", "hi", "loc", "ans"}
      /\ Reading /\ rd.key \in Keys
  BY DEF Absent, ReadLoc, Check, Copy, Watched, flash, index, ReadInv, ReadTyped, Reading
<1>2. rd'.key = rd.key /\ rd'.lo = rd.lo /\ rd'.hi = rd.hi
  BY <1>1 DEF Absent, ReadLoc, Check, Copy, Answers
<1>3. SeesNow'
  BY <1>1, <1>2 DEF ReadInv, SeesNow, Programmed, Moving, Deletes
<1>4. rd \in [pc : {"probe", "loc", "check", "copy", "done"}, key : Keys \cup {0},
              lo : Nat \ {0}, hi : Nat, loc : Locs \cup {NoLoc}, ans : 0 .. Garbage]
  BY DEF ReadInv, ReadTyped
<1>5. 0 \in 0 .. Garbage /\ MaxCalls \in Nat /\ rd.hi <= Capacity
  BY Ranges DEF Garbage, ReadInv, ReadTyped
<1>6. CASE Absent
  <2>1. rd' = [rd EXCEPT !.pc = "done", !.ans = 0] /\ rd.pc = "probe" /\ ~(rd.lo <= rd.hi)
    BY <1>4, <1>6 DEF Absent, Answers
  <2>2. rd'.pc = "done" /\ rd'.ans = 0 /\ ~Reading'
    BY <1>1, <2>1 DEF Reading
  <2>3. ReadTyped'
    <3>1. [rd EXCEPT !.pc = "done", !.ans = 0] \in
              [pc : {"probe", "loc", "check", "copy", "done"}, key : Keys \cup {0},
               lo : Nat \ {0}, hi : Nat, loc : Locs \cup {NoLoc}, ans : 0 .. Garbage]
      BY <1>4, <1>5
    <3> QED
      BY <1>2, <1>5, <2>1, <2>2, <3>1 DEF ReadTyped
  <2>4. MissingIsTrue'
    <3>1. during = {} => 0 \in seen
      BY <1>1, <1>4, <2>1 DEF ReadInv, SearchComplete
    <3> QED
      BY <1>1, <3>1 DEF MissingIsTrue
  <2> QED
    BY <1>3, <2>2, <2>3, <2>4 DEF ReadInv, SearchTrue, SearchComplete, AnswerIsTrue
<1>7. CASE ReadLoc
  <2>1. rd' = [rd EXCEPT !.pc = "check", !.loc = glocs[rd.lo]] /\ rd.pc = "loc"
    BY <1>7 DEF ReadLoc
  <2>2. PICK l \in Locs : l = glocs[rd.lo]
    <3>1. rd.lo \in Places
      BY <1>4, <1>5, <2>1 DEF ReadInv, ReadTyped, Places, Capacity
    <3> QED
      BY <3>1 DEF TypeInv, IndexTyped
  <2>3. rd'.pc = "check" /\ rd'.loc = l /\ Reading'
    BY <1>1, <2>1, <2>2 DEF Reading
  <2>4. ReadTyped'
    <3>1. [rd EXCEPT !.pc = "check", !.loc = l] \in
              [pc : {"probe", "loc", "check", "copy", "done"}, key : Keys \cup {0},
               lo : Nat \ {0}, hi : Nat, loc : Locs \cup {NoLoc}, ans : 0 .. Garbage]
      BY <1>4
    <3> QED
      BY <1>1, <1>2, <1>5, <2>1, <2>2, <2>3, <3>1 DEF ReadTyped
  <2>5. SearchTrue'
    <3>1. SeenAt(l)
      BY <2>1, <2>2 DEF ReadInv, SearchTrue
    <3> QED
      BY <1>1, <1>2, <2>3, <3>1 DEF SearchTrue, SeenAt, Cell
  <2>6. SearchComplete'
    <3> SUFFICES ASSUME during = {} PROVE SearchComplete'
      BY <1>1 DEF SearchComplete
    <3>1. ~Moving(1) /\ ~Moving(1)' /\ (0 \in seen \/ (rd.lo \in 1 .. n /\ gkeys[rd.lo] = rd.key))
      BY <1>1, <2>1 DEF ReadInv, SearchComplete, Moving
    <3>2. ASSUME rd.lo \in 1 .. n, gkeys[rd.lo] = rd.key PROVE IsRecord(Cell(l), rd.key)
      <4>1. n \in Nat
        BY EntryRange
      <4>2. LocTrue(l) /\ Cell(l).key = rd.key
        BY <2>2, <3>1, <3>2, <4>1, Still DEF IndexInv, EntriesTrue
      <4>3. now[rd.key] \in 0 .. MaxCalls
        BY <1>1 DEF TypeInv, WatchTyped
      <4> QED
        BY <1>5, <4>2, <4>3 DEF LocTrue, IsRecord
    <3> QED
      BY <1>1, <1>2, <2>3, <3>1, <3>2 DEF SearchComplete, Cell
  <2> QED
    BY <1>3, <2>3, <2>4, <2>5, <2>6 DEF ReadInv, AnswerIsTrue, MissingIsTrue
<1>8. CASE Check \/ Copy
  <2>1. rd.pc \in {"check", "copy"} /\ rd.loc \in Locs
    BY <1>8 DEF Check, Copy, ReadInv, ReadTyped
  <2>2. At(rd.loc) = Cell(rd.loc)
    BY <2>1 DEF At, Cell, Locs
  <2>3. Cell(rd.loc).tok \in 0 .. Garbage
    <3>1. Cell(rd.loc) \in Cells
      BY <2>1 DEF Cell, Locs, TypeInv, FlashTyped
    <3> QED
      BY <1>5, <3>1 DEF Cells, Blank, Junk, Rec, Garbage
  <2>4. CASE Check /\ IsRecord(Cell(rd.loc), rd.key)
    <3>1. rd' = [rd EXCEPT !.pc = "copy"] /\ rd.pc = "check"
      BY <2>2, <2>4 DEF Check
    <3>2. rd'.pc = "copy" /\ rd'.loc = rd.loc /\ rd'.ans = rd.ans /\ Reading'
      BY <1>1, <3>1 DEF Reading
    <3>3. ReadTyped'
      <4>1. [rd EXCEPT !.pc = "copy"] \in
                [pc : {"probe", "loc", "check", "copy", "done"}, key : Keys \cup {0},
                 lo : Nat \ {0}, hi : Nat, loc : Locs \cup {NoLoc}, ans : 0 .. Garbage]
        BY <1>4
      <4> QED
        BY <1>1, <1>2, <1>5, <2>1, <3>1, <3>2, <4>1 DEF ReadTyped
    <3>4. SearchTrue'
      BY <1>1, <1>2, <2>4, <3>1, <3>2 DEF ReadInv, SearchTrue, SeenAt, Cell
    <3>5. SearchComplete'
      BY <1>1, <1>2, <2>4, <3>1, <3>2 DEF ReadInv, SearchComplete, Cell, Moving
    <3> QED
      BY <1>3, <3>2, <3>3, <3>4, <3>5 DEF ReadInv, AnswerIsTrue, MissingIsTrue
  <2>5. CASE Copy \/ ~IsRecord(Cell(rd.loc), rd.key)
    <3>1. PICK t \in 0 .. Garbage :
            /\ rd' = [rd EXCEPT !.pc = "done", !.ans = t]
            /\ t = 0 => rd.pc = "check" /\ ~IsRecord(Cell(rd.loc), rd.key)
            /\ t # 0 => rd.pc = "copy" /\ (Cell(rd.loc).tok # 0 => t = Cell(rd.loc).tok)
      <4>1. CASE Copy
        <5>1. PICK t \in 0 .. Garbage : t = IF Cell(rd.loc).tok = 0 THEN Garbage ELSE Cell(rd.loc).tok
          BY <1>5, <2>3 DEF Garbage
        <5> QED
          <6>1. rd.pc = "copy" /\ rd' = [rd EXCEPT !.pc = "done", !.ans = t]
            BY <2>2, <4>1, <5>1 DEF Copy, Answers
          <6>2. t # 0 /\ (Cell(rd.loc).tok # 0 => t = Cell(rd.loc).tok)
            BY <1>5, <5>1 DEF Garbage
          <6> QED
            BY <6>1, <6>2
      <4>2. CASE ~Copy
        BY <1>5, <1>8, <2>2, <2>5, <4>2 DEF Check, Answers
      <4> QED
        BY <4>1, <4>2
    <3>2. rd'.pc = "done" /\ rd'.ans = t /\ ~Reading'
      BY <1>1, <3>1 DEF Reading
    <3>3. ReadTyped'
      <4>1. [rd EXCEPT !.pc = "done", !.ans = t] \in
                [pc : {"probe", "loc", "check", "copy", "done"}, key : Keys \cup {0},
                 lo : Nat \ {0}, hi : Nat, loc : Locs \cup {NoLoc}, ans : 0 .. Garbage]
        BY <1>4
      <4> QED
        BY <1>2, <1>5, <3>1, <3>2, <4>1 DEF ReadTyped
    <3>4. AnswerIsTrue'
      <4>1. t # 0 /\ "erased" \notin during => IsRecord(Cell(rd.loc), rd.key) /\ SeenAt(rd.loc)
        BY <3>1 DEF ReadInv, SearchTrue
      <4>2. t # 0 /\ "erased" \notin during => t \in seen
        BY <3>1, <4>1 DEF IsRecord, SeenAt
      <4> QED
        BY <1>1, <3>2, <4>2 DEF AnswerIsTrue
    <3>5. MissingIsTrue'
      <4>1. t = 0 /\ during = {} => 0 \in seen
        BY <1>1, <3>1 DEF ReadInv, SearchComplete
      <4> QED
        BY <1>1, <3>2, <4>1 DEF MissingIsTrue
    <3> QED
      BY <1>3, <3>2, <3>3, <3>4, <3>5 DEF ReadInv, SearchTrue, SearchComplete
  <2> QED
    BY <1>8, <2>2, <2>4, <2>5 DEF Check
<1> QED
  BY <1>6, <1>7, <1>8

LEMMA ReadInvStep ==
    CoresAssumption /\ OneWriter /\ WriterInv /\ TypeInv /\ IndexInv /\ ReadInv /\ [Next]_vars => ReadInv'
<1> SUFFICES ASSUME CoresAssumption, OneWriter, WriterInv, TypeInv, IndexInv, ReadInv, [Next]_vars
             PROVE  ReadInv'
  OBVIOUS
<1>1. CASE Writes(1) \/ Compact \/ Erase
  BY <1>1, WatchStep
<1>2. CASE Reads
  BY <1>2, GetStep, ProbeStep, AnswerStep DEF Reads
<1>3. CASE UNCHANGED vars
  <2>1. UNCHANGED <<rd, seen, during, now, w, n, gkeys, glocs, cell>>
    BY <1>3 DEF vars, flash, index
  <2>2. \A l : SeenAt(l)' <=> SeenAt(l)
    BY <2>1 DEF SeenAt, Cell
  <2> QED
    <3>1. ReadTyped'
      BY <2>1 DEF ReadInv, ReadTyped, Reading
    <3>5. SeesNow'
      BY <2>1 DEF ReadInv, SeesNow, Reading, Programmed, Moving, Deletes
    <3>2. SearchTrue'
      BY <2>1, <2>2 DEF ReadInv, SearchTrue, Cell
    <3>3. SearchComplete'
      BY <2>1 DEF ReadInv, SearchComplete, Reading, Moving, Cell
    <3>4. AnswerIsTrue' /\ MissingIsTrue'
      BY <2>1 DEF ReadInv, AnswerIsTrue, MissingIsTrue, Reading
    <3> QED
      BY <3>1, <3>2, <3>3, <3>4, <3>5 DEF ReadInv
<1> QED
  BY <1>1, <1>2, <1>3 DEF Next, OneWriter

-----------------------------------------------------------------------------
\* All of the invariant, of every step of the two cores.
LEMMA CoresInvariant ==
    OneWriter /\ Spec => [](WriterInv /\ TypeInv /\ IndexInv /\ ReadInv)
<1> DEFINE Inv == WriterInv /\ TypeInv /\ IndexInv /\ ReadInv
<1>1. CoresAssumption
  BY CoresAssumption
<1>2. OneWriter /\ Init => Inv
  BY <1>1, WriterInit, TypeInit, IndexInit, ReadInit
<1>3. OneWriter /\ Inv /\ [Next]_vars => Inv'
  <2>1. ReadInv => ReadTyped
    BY DEF ReadInv
  <2> QED
    BY <1>1, <2>1, WriterStep, TypeStep, IndexInvStep, ReadInvStep
<1>4. OneWriter => OneWriter'
  BY DEF OneWriter
<1> QED
  BY <1>2, <1>3, <1>4, PTL DEF Spec

\* Nothing leaves its range: the append offset is at most one cell past its page, the index
\* counts exactly the entries it holds, and each entry names a cell of a page.
THEOREM StaysTyped == OneWriter /\ Spec => []TypeOK
<1>1. WriterInv /\ TypeInv => TypeOK
  BY CoresAssumption, TypeInvImplies
<1> QED
  BY <1>1, CoresInvariant, PTL

\* A value kv_get_copy gives is one the key had, or was being given, while the search ran,
\* whatever entries moved under its lock-free probes, unless the record it had found was
\* erased under it.
THEOREM ReadsAreTrue == OneWriter /\ Spec => []AnswerIsTrue
<1>1. ReadInv => AnswerIsTrue
  BY DEF ReadInv
<1> QED
  BY <1>1, CoresInvariant, PTL

\* kv_get_copy misses a key only if the key was absent at some moment of the search, or
\* entries moved or a sector was erased during it.
THEOREM MissesAreTrue == OneWriter /\ Spec => []MissingIsTrue
<1>1. ReadInv => MissingIsTrue
  BY DEF ReadInv
<1> QED
  BY <1>1, CoresInvariant, PTL

=============================================================================
