---------------------------- MODULE KvFlashProofs ----------------------------
(* Proofs about KvFlash, for every number of keys, pages, cells and calls:   *)
(* its types, its reference counts, its compaction, and that the store is    *)
(* durable and implements the map of KvMap.                                  *)
EXTENDS KvFlashMap, FiniteSetTheorems, TLAPS

-----------------------------------------------------------------------------
(* What a call and the scan carry from one step to the next.               *)

AppendingPC == {"ready", "program", "prewarm", "index"}

CarriedByCall ==
    /\ pc \in AppendingPC => /\ op.key \in Keys /\ op.old \in 0 .. NumPages
                             /\ op.ver > MaxVersion => op.val = Gone
    /\ pc \in {"ready", "program"} => woff + 1 + Slack <= PageCells
    /\ pc \in {"prewarm", "index"} => op.page \in Pages
    /\ pc \in {"deadlog", "reclaim"} => op.old \in Pages

CarriedByScan ==
    scan.pend.page # NoPage =>
        /\ scan.pend.key \in Keys
        /\ scan.pend.ver > MaxVersion => scan.pend.val = Gone

TypeInv == TypeOK /\ CarriedByCall /\ CarriedByScan

-----------------------------------------------------------------------------
LEMMA Constants ==
    /\ NumPages \in Nat \ {0} /\ PageCells \in Nat /\ Slack \in Nat /\ 2 + Slack <= PageCells
    /\ MaxVersion \in Nat \ {0} /\ RefMax \in Nat \ {0}
    /\ DeadSectors \in Nat \ {0} /\ DeadEntries \in Nat \ {0}
    /\ MaxOps \in Nat /\ MaxCuts \in Nat
    /\ IsFiniteSet(Keys) /\ Gone \notin Keys /\ Gone \notin Vals
    /\ 0 \in Pages /\ 0 \in DeadPages /\ NoPage \notin Pages
    /\ \A p \in Pages : p \in Nat /\ p < NumPages
BY FlashAssumption, GoneAssumption DEF Pages, DeadPages, NoPage

\* What a cell may hold.
LEMMA CellKinds ==
    /\ Blank \in Cells /\ Torn \in Cells /\ BadRec \in Cells /\ BadCommit \in Cells
    /\ \A g \in Nat : Commit(g) \in Cells
    /\ \A k \in Keys, v \in Vals \cup {Gone}, n \in 0 .. MaxVersion + 1, g \in Nat :
          (n > MaxVersion => v = Gone) => Rec(k, v, n, g) \in Cells
BY DEF Cells, Blank, Torn, BadRec, BadCommit, Commit, Rec, Records

\* Programming a cell, and a record with its marker, leaves cells.
LEMMA ProgramCell ==
    ASSUME NEW old \in Cells, NEW new \in Cells
    PROVE  Program(old, new) \in Cells
BY CellKinds DEF Program

LEMMA ProgrammedPage ==
    ASSUME NEW page \in [1 .. PageCells -> Cells], NEW i \in Nat,
           NEW record \in Cells, NEW marker \in Cells
    PROVE  Programmed(page, i, record, marker) \in [1 .. PageCells -> Cells]
BY CellKinds, ProgramCell DEF Programmed

LEMMA IdleTypes == Absent \in Entries /\ NoOp \in Ops /\ NoScan \in Scans /\ NoScan.pend.page = NoPage
BY Constants DEF Absent, Entries, NoPage, NoOp, Ops, NoScan, Scans

\* Dec and Inc keep a count in its byte.
LEMMA CountRange == \A n \in 0 .. RefMax : Dec(n) \in 0 .. RefMax /\ Inc(n) \in 0 .. RefMax
BY Constants DEF Dec, Inc

LEMMA IdxRemoveType ==
    ASSUME IndexType, NEW k \in Keys, IdxRemove(k)
    PROVE  IndexType'
BY CountRange, IdleTypes DEF IndexType, IdxRemove

LEMMA IdxSetType ==
    ASSUME IndexType, NEW k \in Keys, NEW p \in Pages, NEW o \in 1 .. PageCells,
           NEW n \in 0 .. MaxVersion, IdxSet(k, p, o, n)
    PROVE  IndexType'
<1>1. [page |-> p, off |-> o, ver |-> n] \in Entries
  BY Constants DEF Entries
<1>2. idx' \in [Keys -> Entries]
  BY <1>1 DEF IndexType, IdxSet
<1>3. ref' \in [Pages -> 0 .. RefMax]
  BY CountRange DEF IndexType, IdxSet
<1> QED  BY <1>2, <1>3 DEF IndexType

\* Erasing a page, and writing a page's header, leave the flash well-typed.
LEMMA EraseType ==
    ASSUME FlashType, NEW p \in Pages, ErasePage(p), dead' = dead
    PROVE  FlashType'
<1>1. [i \in 1 .. PageCells |-> Blank] \in [1 .. PageCells -> Cells]
  BY CellKinds
<1>2. cell' \in [Pages -> [1 .. PageCells -> Cells]]
  BY <1>1 DEF FlashType, ErasePage
<1> QED  BY <1>2 DEF FlashType, ErasePage

LEMMA HeaderType ==
    ASSUME FlashType, gseq \in Nat, NEW p \in Pages, WriteHeader(p), dead' = dead
    PROVE  FlashType' /\ gseq' \in Nat
BY DEF FlashType, WriteHeader

\* What a reader gets is a value or nothing.
LEMMA GetType ==
    ASSUME FlashType, IndexType, NEW k \in Keys
    PROVE  Get(k) \in Vals \cup {Gone}
<1> DEFINE c == cell[idx[k].page][idx[k].off]
<1>1. CASE Indexed(k)
  <2>1. idx[k].page \in Pages /\ idx[k].off \in 1 .. PageCells
    BY <1>1, Constants DEF Indexed, IndexType, Entries, NoPage, Pages
  <2>2. c \in Cells
    <3>1. cell[idx[k].page] \in [1 .. PageCells -> Cells]
      BY <2>1 DEF FlashType
    <3> QED  BY <2>1, <3>1
  <2> HIDE DEF c
  <2>3. c.kind = "rec" => c.val \in Vals \cup {Gone}
    BY <2>2 DEF Cells, Blank, Torn, BadRec, Records
  <2> QED  BY <2>3 DEF Get, c
<1>2. CASE ~Indexed(k)
  BY <1>2 DEF Get
<1> QED  BY <1>1, <1>2

-----------------------------------------------------------------------------
(* TypeInv is inductive.                                                   *)

LEMMA TypeInit == Init => TypeInv
<1> SUFFICES ASSUME Init PROVE TypeInv
  OBVIOUS
<1> USE Constants, IdleTypes
<1>1. FlashType
  BY CellKinds DEF Init, FlashType, EmptySector, Unwritten
<1>2. IndexType
  BY DEF Init, IndexType
<1>3. CursorType
  BY DEF Init, CursorType
<1>4. CallType
  BY DEF Init, CallType
<1>5. CarriedByCall /\ CarriedByScan
  BY DEF Init, CarriedByCall, AppendingPC, CarriedByScan
<1> QED  BY <1>1, <1>2, <1>3, <1>4, <1>5 DEF TypeInv, TypeOK

LEMMA BeginAppendType ==
    ASSUME TypeInv, NEW k \in Keys, NEW v \in Vals \cup {Gone},
           NEW n \in 0 .. MaxVersion + 1, n > MaxVersion => v = Gone,
           fuzzy' \subseteq Keys, BeginAppend(k, v, n)
    PROVE  TypeInv'
<1> USE Constants DEF TypeInv, TypeOK
<1>1. FlashType' /\ IndexType'
  BY DEF FlashType, IndexType, BeginAppend, flashVars
<1>2. /\ wpage' \in Pages /\ woff' \in 1 .. PageCells + 1
      /\ pc' \in {"idle", "ready"}
      /\ pc' = "ready" => woff' + 1 + Slack <= PageCells
  BY DEF CursorType, CallType, BeginAppend, WritePageFits
<1>3. CursorType'
  BY <1>2 DEF CursorType, BeginAppend, deadVars
<1>4. idx[k].page \in 0 .. NumPages
  BY DEF IndexType, Entries
<1>5. gmg' \in Nat
  BY DEF CursorType, BeginAppend
<1>6. op' \in Ops
  BY <1>4, <1>5, IdleTypes DEF BeginAppend, Ops, NoPage
<1>7. CallType'
  BY <1>2, <1>6 DEF CallType, BeginAppend
<1>8. CarriedByCall'
  BY <1>2, <1>4 DEF CarriedByCall, AppendingPC, BeginAppend
<1>9. CarriedByScan'
  BY DEF CarriedByScan, BeginAppend
<1> QED  BY <1>1, <1>3, <1>7, <1>8, <1>9

LEMMA AppendType == TypeInv /\ (AppendStep \/ IndexStep) => TypeInv'
<1> SUFFICES ASSUME TypeInv, AppendStep \/ IndexStep PROVE TypeInv'
  OBVIOUS
<1> USE Constants DEF TypeInv, TypeOK
<1>0. /\ wpage \in Pages /\ woff \in 1 .. PageCells + 1 /\ gseq \in Nat
      /\ op \in Ops
  BY DEF CursorType, CallType
<1>1. CASE EnsureErased
  <2>1. FlashType'
    BY <1>0, <1>1, EraseType DEF EnsureErased
  <2> QED  BY <1>1, <2>1 DEF EnsureErased, IndexType, CursorType, CallType, CarriedByCall,
                CarriedByScan, ramVars, logVars, deadVars, ghosts
<1>2. CASE EnsureHeader
  <2>1. FlashType' /\ gseq' \in Nat
    BY <1>0, <1>2, HeaderType DEF EnsureHeader
  <2> QED  BY <1>2, <2>1 DEF EnsureHeader, IndexType, CursorType, CallType, CarriedByCall,
                CarriedByScan, AppendingPC, deadVars, ghosts
<1>3. CASE EnsureReady
  BY <1>3 DEF EnsureReady, FlashType, IndexType, CursorType, CallType, CarriedByCall,
              CarriedByScan, AppendingPC, flashVars, ramVars, logVars, deadVars, ghosts
<1>4. CASE AppendRecord
  <2>1. /\ op.key \in Keys /\ (op.ver > MaxVersion => op.val = Gone)
        /\ woff + 1 + Slack <= PageCells /\ op.old \in 0 .. NumPages
    BY <1>4 DEF AppendRecord, CarriedByCall, AppendingPC
  <2>2. NewRecord \in Cells /\ Commit(op.mg) \in Cells
    BY <1>0, <2>1, CellKinds DEF NewRecord, Ops
  <2>3. cell' \in [Pages -> [1 .. PageCells -> Cells]]
    <3>1. Programmed(cell[wpage], woff, NewRecord, Commit(op.mg)) \in [1 .. PageCells -> Cells]
      <4>1. cell[wpage] \in [1 .. PageCells -> Cells] /\ woff \in Nat
        BY <1>0 DEF FlashType
      <4> QED  BY <2>2, <4>1, ProgrammedPage
    <3> QED  BY <1>4, <3>1 DEF AppendRecord, FlashType
  <2>4. FlashType'
    BY <1>4, <2>3 DEF AppendRecord, FlashType
  <2>5. op' \in Ops /\ op'.page \in Pages /\ op'.key = op.key /\ op'.ver = op.ver
        /\ op'.val = op.val /\ op'.old = op.old
    <3> DEFINE o == [op EXCEPT !.page = wpage]
    <3>1. o \in Ops /\ o.key = op.key /\ o.ver = op.ver /\ o.val = op.val /\ o.old = op.old
          /\ o.page = wpage
      BY <1>0 DEF Ops, Pages
    <3>2. op' = [o EXCEPT !.off = woff]
      BY <1>4 DEF AppendRecord
    <3> HIDE DEF o
    <3> QED  BY <1>0, <2>1, <3>1, <3>2 DEF Ops
  <2>6. store' \in [Keys -> Vals \cup {Gone}]
    BY <1>0, <1>4, <2>1 DEF AppendRecord, CallType, Ops
  <2>7. CursorType'
    BY <1>0, <1>4, <2>1 DEF AppendRecord, CursorType, deadVars
  <2> QED  BY <1>4, <2>1, <2>4, <2>5, <2>6, <2>7 DEF AppendRecord, IndexType, CallType,
                CarriedByCall, CarriedByScan, AppendingPC
<1>5. CASE Prewarm
  <2>1. FlashType' /\ gseq' \in Nat
    <3>1. CASE \E p \in Pages : PrewarmTarget(p) /\ WriteHeader(p)
      BY <1>0, <1>5, <3>1, HeaderType DEF Prewarm
    <3>2. CASE UNCHANGED <<hdr, seq, cell, gseq>>
      BY <1>0, <1>5, <3>2 DEF Prewarm, FlashType
    <3> QED  BY <1>5, <3>1, <3>2 DEF Prewarm
  <2> QED  BY <1>5, <2>1 DEF Prewarm, IndexType, CursorType, CallType, CarriedByCall,
                CarriedByScan, AppendingPC, deadVars, ghosts
<1>6. CASE IndexPut \/ IndexDelete
  <2>1. /\ op.key \in Keys /\ (op.ver > MaxVersion => op.val = Gone)
        /\ op.page \in Pages /\ op.old \in 0 .. NumPages
    BY <1>6 DEF IndexPut, IndexDelete, CarriedByCall, AppendingPC
  <2>2. IndexType'
    <3>1. CASE IndexPut
      <4>1. op.off \in 1 .. PageCells /\ op.ver \in 0 .. MaxVersion
        BY <1>0, <2>1, <3>1 DEF IndexPut, Ops
      <4> QED  BY <2>1, <3>1, <4>1, IdxSetType DEF IndexPut
    <3>2. CASE IndexDelete
      BY <2>1, <3>2, IdxRemoveType DEF IndexDelete
    <3> QED  BY <1>6, <3>1, <3>2
  <2>3. /\ op' \in Ops /\ pc' \in {"idle", "deadlog"}
        /\ pc' = "deadlog" => op'.old \in Pages
    BY <1>0, <1>6, <2>1, IdleTypes DEF IndexPut, IndexDelete, EndOrDeadlog, NoPage, Pages
  <2>4. FlashType' /\ CursorType' /\ CallType'
    BY <1>6, <2>3 DEF IndexPut, IndexDelete, FlashType, CursorType, CallType, flashVars,
                      logVars, deadVars, ghosts
  <2>5. CarriedByCall'
    BY <2>3 DEF CarriedByCall, AppendingPC
  <2>6. CarriedByScan'
    BY <1>6 DEF IndexPut, IndexDelete, CarriedByScan
  <2> QED  BY <2>2, <2>4, <2>5, <2>6
<1>7. CASE IndexFull
  BY <1>7, IdleTypes DEF IndexFull, FlashType, IndexType, CursorType, CallType, CarriedByCall,
              CarriedByScan, AppendingPC, flashVars, ramVars, logVars, deadVars, ghosts
<1>8. CASE DeadlogAppend
  <2>1. op.old \in Pages /\ op.old \in 0 .. NumPages + 1
    BY <1>8 DEF DeadlogAppend, CarriedByCall, Pages
  <2>2. /\ dead' \in [DeadPages -> [hdr : {"free", "ok", "bad"},
                                  ent : [1 .. DeadEntries -> 0 .. NumPages + 1]]]
        /\ dwp' \in DeadPages /\ dwo' \in 1 .. DeadEntries + 1
    <3>1. ASSUME NEW p \in DeadPages, NEW e \in 1 .. DeadEntries,
                 dead' = [Opened EXCEPT ![p] = [hdr |-> "ok", ent |-> [@.ent EXCEPT ![e] = op.old]]],
                 dwp' = p, dwo' = e + 1
          PROVE  <2>2
      <4>1. Opened \in [DeadPages -> [hdr : {"free", "ok", "bad"},
                                     ent : [1 .. DeadEntries -> 0 .. NumPages + 1]]]
        BY DEF FlashType, Opened
      <4> QED  BY <2>1, <3>1, <4>1
    <3>2. ASSUME dead' = [dead EXCEPT ![dwp] =
                            [hdr |-> "ok",
                             ent |-> [e \in 1 .. DeadEntries |->
                                        IF e = 1 THEN op.old ELSE Unwritten]]],
                 dwo' = 2, dwp' = dwp
          PROVE  <2>2
      BY SMTT(40), <2>1, <3>2 DEF FlashType, CursorType, Unwritten
    <3> QED  BY <1>8, <3>1, <3>2 DEF DeadlogAppend
  <2>3. FlashType'
    BY <1>8, <2>2 DEF DeadlogAppend, FlashType
  <2>4. CursorType'
    BY <1>8, <2>2 DEF DeadlogAppend, CursorType, logVars
  <2> QED  BY <1>8, <2>3, <2>4, IdleTypes DEF DeadlogAppend, IndexType, CallType, CarriedByCall,
                CarriedByScan, AppendingPC, ghosts
<1> QED  BY <1>1, <1>2, <1>3, <1>4, <1>5, <1>6, <1>7, <1>8 DEF AppendStep, IndexStep

LEMMA CompactType == TypeInv /\ CompactStep => TypeInv'
<1> SUFFICES ASSUME TypeInv, CompactStep PROVE TypeInv'
  OBVIOUS
<1> USE Constants DEF TypeInv, TypeOK
<1>1. CASE Compact
  <2>1. PICK p \in DeadPages, e \in 1 .. DeadEntries :
          /\ drp' = p /\ dro' = e + 1
          /\ \/ /\ dead[p].ent[e] \in Pages
                /\ pc' = "reclaim" /\ op' = [NoOp EXCEPT !.old = dead[p].ent[e]]
             \/ pc = "idle" /\ UNCHANGED <<pc, op>>
    BY <1>1 DEF Compact, Reclaimable
  <2>2. op' \in Ops /\ (pc' = "reclaim" => op'.old \in Pages) /\ pc' \in {"idle", "reclaim"}
    BY <2>1, IdleTypes DEF Ops, Pages, CallType
  <2>3. CursorType'
    BY <1>1, <2>1 DEF Compact, CursorType, logVars
  <2> QED  BY <1>1, <2>2, <2>3 DEF Compact, FlashType, IndexType, CallType, CarriedByCall,
                CarriedByScan, AppendingPC, flashVars, ghosts
<1>2. CASE Reclaim
  <2>1. FlashType'
    BY <1>2, EraseType DEF Reclaim, CarriedByCall
  <2> QED  BY <1>2, <2>1, IdleTypes DEF Reclaim, IndexType, CursorType, CallType, CarriedByCall,
                CarriedByScan, AppendingPC, ramVars, logVars, deadVars, ghosts
<1> QED  BY <1>1, <1>2 DEF CompactStep

LEMMA WipeType == TypeInv /\ (WipeBegin \/ WipeStep) => TypeInv'
<1> SUFFICES ASSUME TypeInv, WipeBegin \/ WipeStep PROVE TypeInv'
  OBVIOUS
<1> USE Constants DEF TypeInv, TypeOK
<1>1. CASE WipeBegin
  <2>1. op' \in Ops
    BY <1>1, IdleTypes DEF WipeBegin, Ops
  <2>2. CallType'
    BY <1>1, <2>1 DEF WipeBegin, CallType
  <2>3. FlashType' /\ IndexType' /\ CursorType'
    BY <1>1 DEF WipeBegin, FlashType, IndexType, CursorType, flashVars, ramVars, logVars, deadVars
  <2>4. CarriedByCall' /\ CarriedByScan'
    BY <1>1 DEF WipeBegin, CarriedByCall, CarriedByScan, AppendingPC
  <2> QED  BY <2>2, <2>3, <2>4
<1>2. CASE WipePage \/ WipeDead
  <2>1. op' \in Ops
    BY <1>2 DEF WipePage, WipeDead, CallType, Ops, Pages, DeadPages
  <2>2. FlashType'
    <3>1. CASE WipePage
      BY <3>1, EraseType DEF WipePage
    <3>2. CASE WipeDead
      BY SMTT(40), <3>2 DEF WipeDead, FlashType, EmptySector, Unwritten
    <3> QED  BY <1>2, <3>1, <3>2
  <2> QED  BY <1>2, <2>1, <2>2 DEF WipePage, WipeDead, IndexType, CursorType, CallType,
                CarriedByCall, CarriedByScan, AppendingPC, ramVars, logVars, deadVars, ghosts
<1>3. CASE WipeEnd
  <2>1. FlashType' /\ IndexType'
    BY <1>3, IdleTypes DEF WipeEnd, FlashType, IndexType, flashVars
  <2>2. CursorType'
    BY <1>3 DEF WipeEnd, CursorType, deadVars
  <2>3. CallType' /\ CarriedByCall' /\ CarriedByScan'
    BY <1>3, IdleTypes DEF WipeEnd, CallType, CarriedByCall, CarriedByScan, AppendingPC
  <2> QED  BY <2>1, <2>2, <2>3
<1> QED  BY <1>1, <1>2, <1>3 DEF WipeStep

\* A power cut resets the SRAM; what is left to show is that the flash is well-typed.
LEMMA PowerCutType == TypeInv /\ PowerCut /\ FlashType' => TypeInv'
BY Constants, IdleTypes DEF TypeInv, TypeOK, PowerCut, IndexType, CursorType, CallType,
   CarriedByCall, CarriedByScan, AppendingPC, ghosts

LEMMA CutType == TypeInv /\ CutStep => TypeInv'
<1> SUFFICES ASSUME TypeInv, CutStep PROVE TypeInv'
  OBVIOUS
<1> USE Constants DEF TypeInv, TypeOK
<1>1. FlashType'
  <2>1. CASE CutClean
    BY <2>1 DEF CutClean, FlashType, flashVars
  <2>2. CASE CutHeader
    BY <2>2 DEF CutHeader, FlashType
  <2>3. CASE CutRecord
    <3>1. op.key \in Keys /\ (op.ver > MaxVersion => op.val = Gone)
          /\ op \in Ops /\ wpage \in Pages /\ woff \in Nat
      BY <2>3 DEF CutRecord, CarriedByCall, AppendingPC, CallType, CursorType
    <3>2. NewRecord \in Cells
      BY <3>1, CellKinds DEF NewRecord, Ops
    <3>3. PICK first \in Cells, second \in Cells :
             cell' = [cell EXCEPT ![wpage] = Programmed(@, woff, first, second)]
      BY <2>3, <3>2, CellKinds DEF CutRecord
    <3>4. Programmed(cell[wpage], woff, first, second) \in [1 .. PageCells -> Cells]
      BY <3>1, ProgrammedPage DEF FlashType
    <3> QED  BY <2>3, <3>3, <3>4 DEF CutRecord, FlashType
  <2>4. CASE CutErase
    <3>1. [i \in 1 .. PageCells |-> Torn] \in [1 .. PageCells -> Cells]
      BY CellKinds
    <3>2. cell' \in [Pages -> [1 .. PageCells -> Cells]]
      BY <2>4, <3>1 DEF CutErase, FlashType
    <3>3. seq' \in [Pages -> Nat]
      BY <2>4 DEF CutErase, FlashType
    <3>4. hdr' \in [Pages -> {"free", "v2", "v2bad", "bad"}]
      BY <2>4 DEF CutErase, FlashType
    <3> QED  BY <2>4, <3>2, <3>3, <3>4 DEF CutErase, FlashType
  <2>5. CASE CutDeadlog
    <3>1. CASE \E p \in DeadPages, e \in 1 .. DeadEntries, x \in Pages \cup {Junk, Unwritten} :
                 dead' = [Opened EXCEPT ![p] = [hdr |-> "ok", ent |-> [@.ent EXCEPT ![e] = x]]]
      <4>1. Opened \in [DeadPages -> [hdr : {"free", "ok", "bad"},
                                     ent : [1 .. DeadEntries -> 0 .. NumPages + 1]]]
        BY DEF FlashType, Opened
      <4>2. Pages \cup {Junk, Unwritten} \subseteq 0 .. NumPages + 1
        BY DEF Pages, Junk, Unwritten
      <4>3. PICK p \in DeadPages, e \in 1 .. DeadEntries, x \in 0 .. NumPages + 1 :
              dead' = [Opened EXCEPT ![p] = [hdr |-> "ok", ent |-> [@.ent EXCEPT ![e] = x]]]
        BY <3>1, <4>2
      <4>4. [Opened[p].ent EXCEPT ![e] = x] \in [1 .. DeadEntries -> 0 .. NumPages + 1]
        BY <4>1
      <4> QED  BY <2>5, <4>1, <4>3, <4>4 DEF CutDeadlog, FlashType
    <3>2. CASE \E p \in DeadPages, h \in {"free", "bad"} :
                 dead' = [dead EXCEPT ![p] = [hdr |-> h, ent |-> EmptySector.ent]]
      BY SMTT(40), <2>5, <3>2 DEF CutDeadlog, FlashType, EmptySector, Unwritten
    <3> QED  BY <2>5, <3>1, <3>2 DEF CutDeadlog
  <2> QED  BY <2>1, <2>2, <2>3, <2>4, <2>5 DEF CutStep
<1>2. PowerCut
  BY DEF CutStep, CutClean, CutHeader, CutRecord, CutErase, CutDeadlog
<1> QED  BY <1>1, <1>2, PowerCutType

LEMMA ScanType == TypeInv /\ ScanStep => TypeInv'
<1> SUFFICES ASSUME TypeInv, ScanStep PROVE TypeInv'
  OBVIOUS
<1> USE Constants DEF TypeInv, TypeOK
<1>0. scan \in Scans
  BY DEF CallType
<1>1. CASE Boot
  BY <1>1 DEF Boot, FlashType, IndexType, CursorType, CallType, CarriedByCall,
              CarriedByScan, AppendingPC, flashVars, ramVars, logVars, deadVars, ghosts
<1>2. CASE ScanRecord
  <2> DEFINE c == cell[scan.page][scan.off]
             r == [key |-> c.key, val |-> c.val, ver |-> c.ver, mg |-> c.mg,
                   old |-> NoPage, page |-> scan.page, off |-> scan.off]
  <2>1. /\ scan.page \in Pages /\ scan.off \in 1 .. PageCells
        /\ c \in Cells /\ c.kind \in {"rec", "badrec"}
    BY SMTT(40), <1>0, <1>2 DEF ScanRecord, AtCell, Scanning, Scans, FlashType
  <2>2. c.kind # "badrec" => c \in Records
    BY <2>1 DEF Cells, Blank, Torn, BadRec
  <2>3. c.kind # "badrec" => r \in Ops /\ r.key \in Keys /\ (r.ver > MaxVersion => r.val = Gone)
    <3> HIDE DEF c
    <3> QED  BY <2>1, <2>2 DEF Records, Ops, NoPage, Pages
  <2>4. scan' = [scan EXCEPT !.off = @ + 1, !.pend = IF c.kind = "badrec" THEN @ ELSE r]
    BY <1>2 DEF ScanRecord
  <2> HIDE DEF c, r
  <2>5. scan' \in Scans /\ (scan'.pend = scan.pend \/ (c.kind # "badrec" /\ scan'.pend = r))
    <3> DEFINE s == [scan EXCEPT !.off = @ + 1]
    <3>1. s \in Scans /\ s.pend = scan.pend
      BY <1>0, <2>1 DEF Scans
    <3>2. scan' = [s EXCEPT !.pend = IF c.kind = "badrec" THEN scan.pend ELSE r]
      BY <2>4
    <3> HIDE DEF s
    <3> QED  BY <1>0, <2>3, <3>1, <3>2 DEF Scans
  <2>6. CarriedByScan'
    BY <2>3, <2>5 DEF CarriedByScan
  <2> QED  BY <1>2, <2>5, <2>6 DEF ScanRecord, FlashType, IndexType, CursorType, CallType,
                CarriedByCall, flashVars, ramVars, logVars, deadVars, ghosts
<1>3. CASE ScanCommit
  <2>1. IndexType'
    <3> DEFINE r == scan.pend
    <3>1. r \in Ops
      BY <1>0 DEF Scans
    <3>2. CASE r.page # NoPage /\ IdxRemove(r.key)
      BY <3>2, IdxRemoveType DEF CarriedByScan
    <3>3. CASE r.page # NoPage /\ r.val # Gone /\ IdxSet(r.key, r.page, r.off, r.ver)
      <4>1. r.key \in Keys /\ r.page \in Pages /\ r.off \in 1 .. PageCells /\ r.ver \in 0 .. MaxVersion
        BY <3>1, <3>3 DEF CarriedByScan, Ops, NoPage, Pages
      <4> QED  BY <3>3, <4>1, IdxSetType
    <3>4. CASE UNCHANGED <<idx, ref>>
      BY <3>4 DEF IndexType
    <3> QED  BY <1>3, <3>2, <3>3, <3>4 DEF ScanCommit, Committed
  <2>2. scan' \in Scans /\ scan'.pend = NoOp
    <3>1. scan.off + 1 \in 1 .. PageCells + 1
      BY <1>0, <1>3 DEF ScanCommit, AtCell, Scans
    <3> QED  BY <1>0, <1>3, <3>1, IdleTypes DEF ScanCommit, Scans
  <2>3. CarriedByScan'
    BY <2>2 DEF CarriedByScan, NoOp
  <2> QED  BY <1>3, <2>1, <2>2, <2>3 DEF ScanCommit, FlashType, CursorType, CallType,
                CarriedByCall, AppendingPC, flashVars, logVars, deadVars, ghosts
<1>4. CASE ScanPageEnd
  <2>1. scan' \in Scans /\ scan'.pend.page = NoPage
    <3>1. scan.page + 1 \in 0 .. NumPages /\ scan.page \in 0 .. NumPages
      BY <1>4 DEF ScanPageEnd, Scanning, Pages
    <3>2. scan.off \in 1 .. PageCells + 1 /\ scan.last \in 0 .. NumPages
          /\ scan.end \in 1 .. PageCells + 1 /\ 1 \in 1 .. PageCells + 1
      BY <1>0 DEF Scans
    <3>3. scan' \in Scans
      BY <1>4, <3>1, <3>2, IdleTypes DEF ScanPageEnd, Scans
    <3> QED  BY <1>4, <3>3 DEF ScanPageEnd, NoOp
  <2>2. gseq' \in Nat
    BY <1>0, <1>4 DEF ScanPageEnd, Scanning, FlashType, CursorType
  <2> QED  BY <1>4, <2>1, <2>2 DEF ScanPageEnd, FlashType, IndexType, CursorType, CallType,
                CarriedByCall, CarriedByScan, AppendingPC, flashVars, deadVars, ghosts
<1>5. CASE ScanDone
  <2>1. wpage' \in Pages /\ woff' \in 1 .. PageCells + 1 /\ gmg' \in Nat
    <3>1. scan.last \in Nat /\ scan.end \in 1 .. PageCells + 1
      BY <1>0 DEF Scans
    <3>2. \A n \in Nat : n % NumPages \in Pages
      BY DEF Pages
    <3>3. scan.last \in Pages \cup {NoPage} /\ scan.last + 1 \in Nat
      BY <1>0 DEF Scans, Pages, NoPage
    <3>4. wpage' \in Pages
      BY <1>5, <3>2, <3>3 DEF ScanDone
    <3>5. woff' \in 1 .. PageCells + 1
      BY <1>5, <3>1 DEF ScanDone
    <3>6. gmg' \in Nat
      BY <1>5 DEF ScanDone, CursorType
    <3> QED  BY <3>4, <3>5, <3>6
  <2>2. dwp' \in DeadPages /\ dwo' \in 1 .. DeadEntries + 1 /\ drp' = 0 /\ dro' = 1
    BY <1>5 DEF ScanDone, RecoverDeadCursors
  <2>3. CursorType'
    BY <1>5, <2>1, <2>2 DEF ScanDone, CursorType
  <2>4. store' \in [Keys -> Vals \cup {Gone}]
    <3>1. \A k \in Keys : Get(k) \in Vals \cup {Gone}
      BY GetType DEF TypeInv, TypeOK
    <3> QED  BY <1>5, <3>1 DEF ScanDone, CallType
  <2> QED  BY <1>5, <2>3, <2>4, IdleTypes DEF ScanDone, FlashType, IndexType, CallType,
                CarriedByCall, CarriedByScan, AppendingPC, flashVars
<1> QED  BY <1>1, <1>2, <1>3, <1>4, <1>5 DEF ScanStep

LEMMA TypeStep == TypeInv /\ [Next]_vars => TypeInv'
<1> SUFFICES ASSUME TypeInv, [Next]_vars PROVE TypeInv'
  OBVIOUS
<1>1. ASSUME NEW k \in Keys, NEW v \in Vals, Put(k, v) PROVE TypeInv'
  <2>1. NextVersion(idx[k].ver) \in 0 .. MaxVersion /\ fuzzy' \subseteq Keys
    BY <1>1, Constants DEF TypeInv, TypeOK, IndexType, CallType, Entries, Put, NextVersion
  <2> QED  BY <1>1, <2>1, BeginAppendType, Constants DEF Put
<1>2. ASSUME NEW k \in Keys, Delete(k) PROVE TypeInv'
  <2>1. idx[k].ver + 1 \in 0 .. MaxVersion + 1 /\ fuzzy' \subseteq Keys
    BY <1>2, Constants DEF TypeInv, TypeOK, IndexType, CallType, Entries, Delete
  <2> QED  BY <1>2, <2>1, BeginAppendType DEF Delete
<1>3. CASE UNCHANGED vars
  BY <1>3 DEF TypeInv, TypeOK, FlashType, IndexType, CursorType, CallType, CarriedByCall,
              CarriedByScan, vars, flashVars, ramVars, logVars, deadVars, ghosts
<1> QED  BY <1>1, <1>2, <1>3, AppendType, CompactType, WipeType, CutType, ScanType
         DEF Next, Call

\* Type correctness of the flash store, for every number of pages, cells, keys and calls.
THEOREM TypeCorrect == Spec => []TypeOK
<1>1. Spec => []TypeInv
  BY TypeInit, TypeStep, PTL DEF Spec
<1>2. TypeInv => TypeOK
  BY DEF TypeInv
<1> QED  BY <1>1, <1>2, PTL

-----------------------------------------------------------------------------
(* Reference counts.                                                       *)

\* The index entries on a page, when a key leaves or enters it.
LEMMA LiveCount ==
    ASSUME NEW p \in Pages, NEW k \in Keys
    PROVE  /\ Cardinality(Live(p)) \in Nat
           /\ k \in Live(p) => Cardinality(Live(p) \ {k}) = Cardinality(Live(p)) - 1
           /\ k \in Live(p) => Cardinality(Live(p)) > 0
           /\ k \notin Live(p) => Cardinality(Live(p) \cup {k}) = Cardinality(Live(p)) + 1
<1>1. IsFiniteSet(Live(p))
  BY Constants, FS_Subset DEF Live
<1>2. Cardinality(Live(p)) \in Nat
  BY <1>1, FS_CardinalityType
<1>3. k \in Live(p) => Cardinality(Live(p) \ {k}) = Cardinality(Live(p)) - 1
  BY <1>1, FS_RemoveElement
<1>4. k \in Live(p) => Cardinality(Live(p)) > 0
  BY <1>1, <1>2, FS_EmptySet
<1>5. k \notin Live(p) => Cardinality(Live(p) \cup {k}) = Cardinality(Live(p)) + 1
  BY <1>1, FS_AddElement
<1> QED  BY <1>2, <1>3, <1>4, <1>5

LEMMA IdxRemoveCounts ==
    ASSUME IndexType, RefCountsExact, NEW k \in Keys, IdxRemove(k)
    PROVE  RefCountsExact'
<1> SUFFICES ASSUME NEW p \in Pages, ref'[p] < RefMax
             PROVE  ref'[p] = Cardinality(Live(p)')
  BY DEF RefCountsExact
<1>1. Live(p)' = Live(p) \ {k}
  BY Constants DEF IndexType, IdxRemove, Live, Absent
<1>2. (k \in Live(p)) = (p = idx[k].page)
  BY DEF Live
<1>3. ref[p] \in 0 .. RefMax /\ (ref[p] < RefMax => ref[p] = Cardinality(Live(p)))
  BY DEF IndexType, RefCountsExact
<1>4. ref'[p] = IF p = idx[k].page THEN Dec(ref[p]) ELSE ref[p]
  BY DEF IdxRemove
<1>5. CASE p = idx[k].page
  BY <1>1, <1>2, <1>3, <1>4, <1>5, LiveCount, Constants DEF Dec
<1>6. CASE p # idx[k].page
  <2>1. Live(p) \ {k} = Live(p)
    BY <1>2, <1>6
  <2> QED  BY <1>1, <1>3, <1>4, <1>6, <2>1
<1> QED  BY <1>5, <1>6

LEMMA IdxSetCounts ==
    ASSUME IndexType, RefCountsExact, NEW k \in Keys, NEW q \in Pages, NEW o, NEW n,
           IdxSet(k, q, o, n)
    PROVE  RefCountsExact'
<1> SUFFICES ASSUME NEW p \in Pages, ref'[p] < RefMax
             PROVE  ref'[p] = Cardinality(Live(p)')
  BY DEF RefCountsExact
<1>1. Live(p)' = IF p = q THEN Live(p) \cup {k} ELSE Live(p) \ {k}
  BY DEF IndexType, IdxSet, Live
<1>2. (k \in Live(p)) = (p = idx[k].page)
  BY DEF Live
<1>3. ref[p] \in 0 .. RefMax /\ (ref[p] < RefMax => ref[p] = Cardinality(Live(p)))
  BY DEF IndexType, RefCountsExact
<1>4. ref'[p] = LET r == IF p = idx[k].page THEN Dec(ref[p]) ELSE ref[p]
                IN  IF p = q THEN Inc(r) ELSE r
  BY DEF IdxSet
<1>5. CASE k \in Live(p)
  <2>1. Live(p) \cup {k} = Live(p)
    BY <1>5
  <2>2. /\ Cardinality(Live(p)) \in Nat /\ Cardinality(Live(p)) > 0
        /\ Cardinality(Live(p) \ {k}) = Cardinality(Live(p)) - 1
    BY <1>5, LiveCount
  <2>3. CASE p = q
    <3>1. ref'[p] = Inc(Dec(ref[p]))
      BY <1>2, <1>4, <1>5, <2>3
    <3>2. ref[p] \in 1 .. RefMax
      BY <1>3, <2>2, Constants
    <3>3. Inc(Dec(ref[p])) = ref[p]
      BY <3>2, Constants DEF Dec, Inc
    <3> QED  BY <1>1, <1>3, <2>1, <2>3, <3>1, <3>3
  <2>4. CASE p # q
    BY <1>1, <1>2, <1>3, <1>4, <1>5, <2>2, <2>4, Constants DEF Dec
  <2> QED  BY <2>3, <2>4
<1>6. CASE k \notin Live(p)
  <2>1. Live(p) \ {k} = Live(p)
    BY <1>6
  <2> QED  BY <1>1, <1>2, <1>3, <1>4, <1>6, <2>1, LiveCount, Constants DEF Inc
<1> QED  BY <1>5, <1>6

\* An index without entries and counts of zero agree.
LEMMA EmptyCounts ==
    ASSUME idx' = [k \in Keys |-> Absent], ref' = [p \in Pages |-> 0]
    PROVE  RefCountsExact'
<1> SUFFICES ASSUME NEW p \in Pages
             PROVE  Cardinality(Live(p)') = 0
  BY DEF RefCountsExact
<1>1. Live(p)' = {}
  BY Constants DEF Live, Absent
<1> QED  BY <1>1, FS_EmptySet

\* RefCountsExact is inductive relative to TypeInv.
LEMMA CountsStep == TypeInv /\ RefCountsExact /\ [Next]_vars => RefCountsExact'
<1> SUFFICES ASSUME TypeInv, RefCountsExact, [Next]_vars PROVE RefCountsExact'
  OBVIOUS
<1>0. IndexType
  BY DEF TypeInv, TypeOK
<1>1. CASE UNCHANGED <<idx, ref>>
  BY <1>1 DEF RefCountsExact, Live
<1>2. CASE IndexPut
  <2>1. op.key \in Keys /\ op.page \in Pages
    BY <1>2 DEF TypeInv, CarriedByCall, AppendingPC, IndexPut
  <2> QED  BY <1>0, <1>2, <2>1, IdxSetCounts DEF IndexPut
<1>3. CASE IndexDelete
  <2>1. op.key \in Keys
    BY <1>3 DEF TypeInv, CarriedByCall, AppendingPC, IndexDelete
  <2> QED  BY <1>0, <1>3, <2>1, IdxRemoveCounts DEF IndexDelete
<1>4. CASE ScanCommit
  <2> DEFINE r == scan.pend
  <2>1. r.page \in 0 .. NumPages
    BY DEF TypeInv, TypeOK, CallType, Scans, Ops
  <2>2. CASE r.page # NoPage /\ IdxRemove(r.key)
    BY <1>0, <2>2, IdxRemoveCounts DEF TypeInv, CarriedByScan
  <2>3. CASE r.page # NoPage /\ IdxSet(r.key, r.page, r.off, r.ver)
    <3>1. r.key \in Keys /\ r.page \in Pages
      BY <2>1, <2>3, Constants DEF TypeInv, CarriedByScan, NoPage, Pages
    <3> QED  BY <1>0, <2>3, <3>1, IdxSetCounts
  <2>4. CASE UNCHANGED <<idx, ref>>
    BY <1>1, <2>4
  <2> QED  BY <1>4, <2>2, <2>3, <2>4 DEF ScanCommit, Committed
<1>5. CASE WipeEnd \/ PowerCut
  BY <1>5, EmptyCounts DEF WipeEnd, PowerCut
<1>6. CASE UNCHANGED vars
  BY <1>1, <1>6 DEF vars, ramVars
<1>7. ASSUME NEW k \in Keys, NEW v, NEW n, BeginAppend(k, v, n) PROVE RefCountsExact'
  BY <1>1, <1>7 DEF BeginAppend
<1>8. CASE Call
  BY <1>1, <1>7, <1>8 DEF Call, Put, Delete, WipeBegin, ramVars
<1>9. CASE AppendStep
  BY <1>1, <1>9 DEF AppendStep, EnsureErased, EnsureHeader, EnsureReady, AppendRecord, Prewarm, ramVars
<1>10. CASE IndexStep
  BY <1>1, <1>2, <1>3, <1>10 DEF IndexStep, IndexFull, DeadlogAppend, ramVars
<1>11. CASE CompactStep
  BY <1>1, <1>11 DEF CompactStep, Compact, Reclaim, ramVars
<1>12. CASE WipeStep
  BY <1>1, <1>5, <1>12 DEF WipeStep, WipePage, WipeDead, ramVars
<1>13. CASE CutStep
  BY <1>5, <1>13 DEF CutStep, CutClean, CutHeader, CutRecord, CutErase, CutDeadlog
<1>14. CASE ScanStep
  BY <1>1, <1>4, <1>14 DEF ScanStep, Boot, ScanRecord, ScanPageEnd, ScanDone, ramVars
<1> QED  BY <1>6, <1>8, <1>9, <1>10, <1>11, <1>12, <1>13, <1>14 DEF Next

\* The reference counts are exact below saturation, so page_has_live_refs never takes a
\* page with a live record for an empty one.
THEOREM CountsCorrect == Spec => []RefCountsExact
<1>1. Init => RefCountsExact
  <2> SUFFICES ASSUME Init, NEW p \in Pages PROVE Cardinality(Live(p)) = 0 /\ ref[p] = 0
    BY DEF RefCountsExact
  <2>1. Live(p) = {}
    BY Constants DEF Init, Live, Absent
  <2> QED  BY <2>1, FS_EmptySet DEF Init
<1> QED  BY <1>1, TypeInit, TypeStep, CountsStep, PTL DEF Spec

-----------------------------------------------------------------------------
(***************************************************************************)
(* The store never programs over or erases a live record, as long as no    *)
(* record can end at the last byte of a sector (Slack # 0).  The inductive *)
(* invariant.                                                              *)
(***************************************************************************)

Down == pc \in {"off", "scan"}
Up   == ~Down /\ pc # "wipe"

\* A page that recovery or the writer has found or put data on.
Used(p) == p \in Pages /\ hdr[p] = "v2" /\ cell[p][1] # Blank

\* The last cell of a page never holds a record or a marker.
TailUnused == \A p \in Pages : cell[p][PageCells] \in {Blank, Torn}

\* Between two calls and inside one: every index entry is on a used page, and on the
\* write page it is behind the write cursor; a moved cursor has data behind it.
WriterBehind ==
    Up =>
      /\ \A k \in Keys : Indexed(k) => /\ Used(idx[k].page)
                                       /\ idx[k].page = wpage => idx[k].off < woff
      /\ woff > 1 => Used(wpage)
      /\ pc = "program" => hdr[wpage] = "v2"
      /\ pc \in {"prewarm", "index"} => op.page = wpage /\ op.off < woff
      /\ pc = "reclaim" => op.old # wpage /\ Live(op.old) = {}

\* During recovery: an entry is behind the scan on its page, or on an earlier page and
\* then behind the place where appending would resume.
ScanBehind ==
    Down =>
      /\ \A k \in Keys : Indexed(k) =>
           /\ Used(idx[k].page)
           /\ \/ idx[k].page = scan.page /\ idx[k].off < scan.off
              \/ /\ idx[k].page < scan.page /\ scan.last # NoPage
                 /\ idx[k].page = scan.last => idx[k].off < scan.end
      /\ scan.off > 1 => Used(scan.page)
      /\ scan.last = NoPage => scan.end = 1
      /\ scan.last # NoPage => Used(scan.last) /\ scan.last < scan.page
      /\ scan.pend.page # NoPage => scan.pend.page = scan.page /\ scan.pend.off < scan.off
      /\ scan.off <= PageCells /\ scan.end <= PageCells

LiveInv == TypeInv /\ RefCountsExact /\ TailUnused /\ WriterBehind /\ ScanBehind

-----------------------------------------------------------------------------
\* What TypeInv says of the variables used below.
LEMMA Ranges ==
    ASSUME TypeInv
    PROVE  /\ wpage \in Pages /\ woff \in 1 .. PageCells + 1
           /\ op \in Ops /\ op.off \in 1 .. PageCells
           /\ scan \in Scans /\ scan.page \in 0 .. NumPages /\ scan.off \in 1 .. PageCells + 1
           /\ scan.last \in 0 .. NumPages /\ scan.end \in 1 .. PageCells + 1
           /\ scan.pend.page \in 0 .. NumPages /\ scan.pend.off \in 1 .. PageCells
           /\ \A k \in Keys : /\ Indexed(k) => idx[k].page \in Pages
                              /\ idx[k].off \in 1 .. PageCells
           /\ \A p \in Pages, i \in 1 .. PageCells : cell[p][i] \in Cells
           /\ 1 \in 1 .. PageCells /\ PageCells \in 1 .. PageCells
           /\ cell \in [Pages -> [1 .. PageCells -> Cells]]
           /\ hdr \in [Pages -> {"free", "v2", "v2bad", "bad"}]
<1> USE Constants DEF TypeInv, TypeOK
<1>1. wpage \in Pages /\ woff \in 1 .. PageCells + 1
  BY DEF CursorType
<1>2. op \in Ops /\ op.off \in 1 .. PageCells
  BY DEF CallType, Ops
<1>3. scan \in Scans
  BY DEF CallType
<1>4. /\ scan.page \in 0 .. NumPages /\ scan.off \in 1 .. PageCells + 1
      /\ scan.last \in 0 .. NumPages /\ scan.end \in 1 .. PageCells + 1
      /\ scan.pend \in Ops
  BY <1>3 DEF Scans
<1>5. scan.pend.page \in 0 .. NumPages /\ scan.pend.off \in 1 .. PageCells
  BY <1>4 DEF Ops
<1>6. ASSUME NEW k \in Keys
      PROVE  (Indexed(k) => idx[k].page \in Pages) /\ idx[k].off \in 1 .. PageCells
  BY DEF IndexType, Entries, Indexed, NoPage, Pages
<1>7. /\ cell \in [Pages -> [1 .. PageCells -> Cells]]
      /\ hdr \in [Pages -> {"free", "v2", "v2bad", "bad"}]
  BY DEF FlashType
<1>8. 1 \in 1 .. PageCells /\ PageCells \in 1 .. PageCells
  OBVIOUS
<1>9. ASSUME NEW p \in Pages, NEW i \in 1 .. PageCells PROVE cell[p][i] \in Cells
  BY <1>7
<1> QED  BY <1>1, <1>2, <1>3, <1>4, <1>5, <1>6, <1>7, <1>8, <1>9

\* A page without live records has no index entry.
LEMMA NoneLive ==
    ASSUME TypeInv, RefCountsExact, NEW p \in Pages, ref[p] = 0
    PROVE  Live(p) = {}
<1>1. IsFiniteSet(Live(p))
  BY Constants, FS_Subset DEF Live
<1>2. Cardinality(Live(p)) = 0
  BY Constants DEF RefCountsExact
<1> QED  BY <1>1, <1>2, FS_EmptySet

\* An index entry stays on a used page while that page's header and cells stay.
LEMMA StillUsed ==
    ASSUME NEW p \in Pages, Used(p), hdr'[p] = hdr[p], cell'[p] = cell[p]
    PROVE  Used(p)'
BY DEF Used

LEMMA ProgramNotBlank ==
    ASSUME NEW old, NEW new, new # Blank
    PROVE  Program(old, new) # Blank
BY DEF Program, Blank, Torn

\* Programming a record keeps what is not blank, and leaves the tail alone.
LEMMA ProgrammedKeeps ==
    ASSUME NEW page, NEW i \in Nat, NEW record, NEW marker, NEW j \in 1 .. PageCells
    PROVE  /\ page[j] # Blank => Programmed(page, i, record, marker)[j] # Blank
           /\ j # i /\ j # i + 1 => Programmed(page, i, record, marker)[j] = page[j]
BY DEF Programmed, Program, Blank, Torn

-----------------------------------------------------------------------------
(* TailUnused                                                              *)

LEMMA TailStep ==
    Slack # 0 /\ TypeInv /\ TailUnused /\ [Next]_vars => TailUnused'
<1> SUFFICES ASSUME Slack # 0, TypeInv, TailUnused, [Next]_vars PROVE TailUnused'
  OBVIOUS
<1> USE Constants, Ranges
<1>1. CASE UNCHANGED cell
  BY <1>1 DEF TailUnused
<1>2. ASSUME NEW p \in Pages, ErasePage(p) PROVE TailUnused'
  BY <1>2 DEF TailUnused, ErasePage
<1>3. ASSUME NEW r, NEW m, pc = "program",
             cell' = [cell EXCEPT ![wpage] = Programmed(@, woff, r, m)]
      PROVE  TailUnused'
  <2>1. woff + 1 < PageCells
    BY <1>3 DEF TypeInv, CarriedByCall
  <2>2. cell'[wpage][PageCells] = cell[wpage][PageCells]
    BY <1>3, <2>1, ProgrammedKeeps
  <2> QED  BY <1>3, <2>2 DEF TailUnused
<1>4. CASE AppendRecord
  BY <1>1, <1>3, <1>4 DEF AppendRecord
<1>5. CASE CutRecord
  BY <1>3, <1>5 DEF CutRecord
<1>6. CASE CutErase
  <2>1. PICK p \in Pages :
          UNCHANGED cell \/ cell' = [cell EXCEPT ![p] = [i \in 1 .. PageCells |-> Torn]]
    BY <1>6 DEF CutErase
  <2>2. CASE cell' = [cell EXCEPT ![p] = [i \in 1 .. PageCells |-> Torn]]
    <3>1. ASSUME NEW q \in Pages
          PROVE  cell'[q] = IF q = p THEN [i \in 1 .. PageCells |-> Torn] ELSE cell[q]
      BY <2>2
    <3>2. [i \in 1 .. PageCells |-> Torn][PageCells] = Torn
      OBVIOUS
    <3> QED  BY <3>1, <3>2 DEF TailUnused
  <2> QED  BY <1>1, <2>1, <2>2
<1>7. CASE EnsureErased \/ WipePage
  BY <1>2, <1>7 DEF EnsureErased, WipePage
<1>8. CASE Reclaim
  BY <1>2, <1>8 DEF Reclaim, TypeInv, CarriedByCall
<1>9. ASSUME NEW p \in Pages, WriteHeader(p) PROVE TailUnused'
  BY <1>1, <1>9 DEF WriteHeader
<1>10. CASE EnsureHeader \/ Prewarm
  BY <1>1, <1>9, <1>10 DEF EnsureHeader, Prewarm
<1>11. CASE Call
  BY <1>1, <1>11 DEF Call, Put, Delete, BeginAppend, WipeBegin, flashVars
<1>12. CASE EnsureReady \/ IndexStep \/ Compact \/ WipeDead \/ WipeEnd
  BY <1>1, <1>12 DEF EnsureReady, IndexStep, IndexPut, IndexFull, IndexDelete, DeadlogAppend,
                     Compact, WipeDead, WipeEnd, flashVars
<1>13. CASE CutClean \/ CutHeader \/ CutDeadlog
  BY <1>1, <1>13 DEF CutClean, CutHeader, CutDeadlog, flashVars
<1>14. CASE ScanStep
  BY <1>1, <1>14 DEF ScanStep, Boot, ScanRecord, ScanCommit, ScanPageEnd, ScanDone, flashVars
<1>15. CASE UNCHANGED vars
  BY <1>1, <1>15 DEF vars, flashVars
<1> QED  BY <1>4, <1>5, <1>6, <1>7, <1>8, <1>10, <1>11, <1>12, <1>13, <1>14, <1>15
         DEF Next, AppendStep, CompactStep, WipeStep, CutStep

-----------------------------------------------------------------------------
(* WriterBehind and ScanBehind                                             *)

\* A power cut empties the index and starts the scan over.
LEMMA CutLive == PowerCut => WriterBehind' /\ ScanBehind'
BY Constants DEF PowerCut, WriterBehind, ScanBehind, Up, Down, Indexed, Absent, NoScan, NoOp, NoPage

LEMMA CallLive ==
    TypeInv /\ WriterBehind /\ Call => WriterBehind'
<1> SUFFICES ASSUME TypeInv, WriterBehind, Call PROVE WriterBehind'
  OBVIOUS
<1> USE Constants, Ranges
<1>1. CASE WipeBegin
  BY <1>1 DEF WipeBegin, WriterBehind, Up
<1>2. ASSUME NEW k \in Keys, NEW v, NEW n, BeginAppend(k, v, n) PROVE WriterBehind'
  <2>1. /\ Up /\ pc' \in {"idle", "ready"} /\ UNCHANGED <<hdr, cell, idx>>
    BY <1>2 DEF BeginAppend, Up, Down, flashVars
  <2>2. \A j \in Keys : Indexed(j)' = Indexed(j)
    BY <2>1 DEF Indexed
  <2>3. \A p : Used(p)' = Used(p)
    BY <2>1 DEF Used
  <2>4. CASE UNCHANGED <<wpage, woff>>
    BY <2>1, <2>2, <2>3, <2>4 DEF WriterBehind
  <2>5. CASE woff' = 1 /\ NextAppend(wpage, wpage')
    <3>1. wpage' \in Pages => ~Used(wpage')
      BY <2>5 DEF NextAppend, Appendable, PreparedEmpty, Used
    <3> QED  BY <2>1, <2>2, <2>3, <2>5, <3>1 DEF WriterBehind, Used
  <2> QED  BY <1>2, <2>4, <2>5 DEF BeginAppend
<1> QED  BY <1>1, <1>2 DEF Call, Put, Delete

LEMMA AppendLive ==
    TypeInv /\ WriterBehind /\ AppendStep => WriterBehind'
<1> SUFFICES ASSUME TypeInv, WriterBehind, AppendStep PROVE WriterBehind'
  OBVIOUS
<1> USE Constants, Ranges
<1>0. Up /\ UNCHANGED <<idx, wpage>>
  BY DEF AppendStep, EnsureErased, EnsureHeader, EnsureReady, AppendRecord, Prewarm, ramVars,
         logVars, Up, Down
<1>1. \A k \in Keys : Indexed(k)' = Indexed(k) /\ idx'[k] = idx[k]
  BY <1>0 DEF Indexed
<1>2. CASE EnsureErased
  <2>1. woff = 1 /\ ~Used(wpage)
    BY <1>0, <1>2 DEF EnsureErased, WriterBehind, Used
  <2>2. \A p \in Pages : p # wpage => hdr'[p] = hdr[p] /\ cell'[p] = cell[p]
    BY <1>2 DEF EnsureErased, ErasePage
  <2>3. \A k \in Keys : Indexed(k) => Used(idx[k].page)' /\ idx[k].page # wpage
    BY <1>0, <2>1, <2>2, StillUsed DEF WriterBehind
  <2> QED  BY <1>0, <1>1, <1>2, <2>1, <2>3 DEF EnsureErased, WriterBehind, ramVars, logVars
<1>3. ASSUME NEW p \in Pages, hdr[p] = "free", WriteHeader(p), UNCHANGED woff
      PROVE  /\ \A k \in Keys : Indexed(k) => /\ Used(idx[k].page)'
                                              /\ idx[k].page = wpage => idx[k].off < woff
             /\ woff' > 1 => Used(wpage)'
             /\ hdr'[p] = "v2"
             /\ \A q \in Pages : q # p => hdr'[q] = hdr[q]
  <2>1. \A q \in Pages : q # p => hdr'[q] = hdr[q] /\ cell'[q] = cell[q]
    BY <1>3 DEF WriteHeader
  <2>2. ~Used(p)
    BY <1>3 DEF Used
  <2>3. hdr'[p] = "v2"
    BY <1>3 DEF WriteHeader
  <2> QED  BY <1>0, <1>3, <2>1, <2>2, <2>3, StillUsed DEF WriterBehind
<1>4. CASE EnsureHeader
  BY <1>0, <1>1, <1>3, <1>4 DEF EnsureHeader, WriterBehind
<1>5. CASE EnsureReady
  <2>1. \A p : Used(p)' = Used(p)
    BY <1>5 DEF EnsureReady, Used, flashVars
  <2> QED  BY <1>0, <1>1, <1>5, <2>1 DEF EnsureReady, WriterBehind, flashVars, ramVars, logVars
<1>6. CASE AppendRecord
  <2>1. /\ hdr[wpage] = "v2" /\ hdr' = hdr /\ woff' = woff + 2 /\ woff' > 1
        /\ op'.page = wpage /\ op'.off = woff /\ pc' = "prewarm"
    <3> DEFINE o == [op EXCEPT !.page = wpage]
    <3>0. op \in Ops /\ wpage \in 0 .. NumPages
      BY DEF Pages
    <3>1. o \in Ops /\ o.page = wpage
      BY <3>0 DEF Ops
    <3>2. op' = [o EXCEPT !.off = woff]
      BY <1>6 DEF AppendRecord
    <3> HIDE DEF o
    <3>3. op'.page = wpage /\ op'.off = woff
      BY <3>1, <3>2 DEF Ops
    <3> QED  BY <1>0, <1>6, <3>3 DEF AppendRecord, WriterBehind
  <2>2. /\ \A p \in Pages : p # wpage => cell'[p] = cell[p]
        /\ cell[wpage][1] # Blank => cell'[wpage][1] # Blank
        /\ cell'[wpage][1] # Blank
    <3>1. woff > 1 => cell[wpage][1] # Blank
      BY <1>0 DEF WriterBehind, Used
    <3>2. CASE Skipped /\ UNCHANGED cell
      BY <3>1, <3>2 DEF Skipped
    <3>3. CASE cell' = [cell EXCEPT ![wpage] = Programmed(@, woff, NewRecord, Commit(op.mg))]
      <4>1. cell'[wpage] = Programmed(cell[wpage], woff, NewRecord, Commit(op.mg))
        BY <3>3
      <4>2. cell[wpage][1] # Blank => cell'[wpage][1] # Blank
        BY <4>1, ProgrammedKeeps
      <4>3. CASE woff = 1
        <5>1. cell'[wpage][1] = Program(cell[wpage][1], NewRecord)
          BY <4>1, <4>3 DEF Programmed
        <5>2. NewRecord # Blank /\ Torn # Blank
          BY DEF NewRecord, Rec, Blank, Torn
        <5>3. cell'[wpage][1] # Blank
          BY <5>1, <5>2, ProgramNotBlank
        <5> QED  BY <3>3, <5>3
      <4> QED  BY <3>1, <3>3, <4>2, <4>3
    <3> QED  BY <1>6, <3>2, <3>3 DEF AppendRecord
  <2>3. Used(wpage)'
    BY <1>0, <2>1, <2>2 DEF Used
  <2>4. \A p \in Pages : Used(p) => Used(p)'
    BY <2>1, <2>2, <2>3 DEF Used
  <2> QED  BY SMTT(40), <1>0, <1>1, <2>1, <2>3, <2>4 DEF WriterBehind
<1>7. CASE Prewarm
  <2>0. op' = op /\ woff' = woff /\ pc' = "index" /\ pc = "prewarm"
    BY <1>7 DEF Prewarm
  <2>1. CASE \E p \in Pages : PrewarmTarget(p) /\ WriteHeader(p)
    BY <1>0, <1>1, <1>3, <2>0, <2>1 DEF PrewarmTarget, WriterBehind
  <2>2. CASE UNCHANGED <<hdr, cell>>
    <3>1. \A p : Used(p)' = Used(p)
      BY <2>2 DEF Used
    <3> QED  BY <1>0, <1>1, <2>0, <3>1 DEF WriterBehind
  <2> QED  BY <1>7, <2>1, <2>2 DEF Prewarm
<1> QED  BY <1>2, <1>4, <1>5, <1>6, <1>7 DEF AppendStep

LEMMA IndexLive ==
    TypeInv /\ WriterBehind /\ IndexStep => WriterBehind'
<1> SUFFICES ASSUME TypeInv, WriterBehind, IndexStep PROVE WriterBehind'
  OBVIOUS
<1> USE Constants, Ranges
<1>0. /\ Up /\ UNCHANGED <<hdr, cell, wpage, woff>> /\ pc' \in {"idle", "deadlog"}
  BY DEF IndexStep, IndexPut, IndexFull, IndexDelete, DeadlogAppend, EndOrDeadlog, flashVars,
         ramVars, logVars, Up, Down
<1>1. \A p : Used(p)' = Used(p)
  BY <1>0 DEF Used
<1>2. CASE IndexPut
  <2>1. op.key \in Keys /\ op.page = wpage /\ op.off < woff /\ Used(wpage)
    BY <1>0, <1>2 DEF IndexPut, WriterBehind, TypeInv, CarriedByCall, AppendingPC
  <2>2. \A k \in Keys : idx'[k] = IF k = op.key
                                 THEN [page |-> op.page, off |-> op.off, ver |-> op.ver]
                                 ELSE idx[k]
    BY <1>2, <2>1 DEF IndexPut, IdxSet, TypeInv, TypeOK, IndexType
  <2>3. ASSUME NEW k \in Keys, Indexed(k)'
        PROVE  Used(idx'[k].page) /\ (idx'[k].page = wpage => idx'[k].off < woff)
    <3>1. CASE k = op.key
      BY <2>1, <2>2, <3>1
    <3>2. CASE k # op.key
      BY <1>0, <2>2, <2>3, <3>2 DEF WriterBehind, Indexed
    <3> QED  BY <3>1, <3>2
  <2> QED  BY <1>0, <1>1, <2>3 DEF WriterBehind
<1>3. CASE IndexDelete
  <2>1. \A k \in Keys : Indexed(k)' => Indexed(k) /\ idx'[k] = idx[k]
    BY <1>3 DEF IndexDelete, IdxRemove, Indexed, Absent, TypeInv, TypeOK, IndexType
  <2> QED  BY <1>0, <1>1, <2>1 DEF WriterBehind
<1>4. CASE UNCHANGED idx
  <2>1. \A k \in Keys : Indexed(k)' = Indexed(k) /\ idx'[k] = idx[k]
    BY <1>4 DEF Indexed
  <2> QED  BY <1>0, <1>1, <2>1 DEF WriterBehind
<1> QED  BY <1>2, <1>3, <1>4 DEF IndexStep, IndexFull, DeadlogAppend, ramVars

LEMMA CompactLive ==
    TypeInv /\ RefCountsExact /\ WriterBehind /\ CompactStep => WriterBehind'
<1> SUFFICES ASSUME TypeInv, RefCountsExact, WriterBehind, CompactStep PROVE WriterBehind'
  OBVIOUS
<1> USE Constants, Ranges
<1>0. /\ Up /\ UNCHANGED <<idx, wpage, woff>>
  BY DEF CompactStep, Compact, Reclaim, ramVars, logVars, Up, Down
<1>1. /\ \A k \in Keys : Indexed(k)' = Indexed(k) /\ idx'[k] = idx[k]
      /\ \A p : Live(p)' = Live(p)
  BY <1>0 DEF Indexed, Live
<1>2. CASE Compact
  <2>1. \A p : Used(p)' = Used(p)
    BY <1>2 DEF Compact, Used, flashVars
  <2>2. PICK p \in DeadPages, e \in 1 .. DeadEntries :
          \/ /\ Reclaimable(dead[p].ent[e]) /\ pc' = "reclaim"
             /\ op' = [NoOp EXCEPT !.old = dead[p].ent[e]]
          \/ pc' = "idle"
    BY <1>2 DEF Compact
  <2>3. CASE /\ Reclaimable(dead[p].ent[e]) /\ pc' = "reclaim"
             /\ op' = [NoOp EXCEPT !.old = dead[p].ent[e]]
    <3>1. op'.old = dead[p].ent[e]
      BY <2>3 DEF NoOp
    <3>2. op'.old # wpage /\ Live(op'.old) = {}
      BY <2>3, <3>1, NoneLive DEF Reclaimable
    <3> QED  BY <1>0, <1>1, <2>1, <2>3, <3>2 DEF WriterBehind
  <2>4. CASE pc' = "idle"
    BY <1>0, <1>1, <2>1, <2>4 DEF WriterBehind
  <2> QED  BY <2>2, <2>3, <2>4
<1>3. CASE Reclaim
  <2>1. op.old # wpage /\ Live(op.old) = {} /\ op.old \in Pages /\ pc' = "idle"
    BY <1>0, <1>3 DEF Reclaim, WriterBehind, TypeInv, CarriedByCall
  <2>2. \A p \in Pages : p # op.old => hdr'[p] = hdr[p] /\ cell'[p] = cell[p]
    BY <1>3 DEF Reclaim, ErasePage
  <2>3. \A k \in Keys : Indexed(k) => idx[k].page # op.old
    BY <2>1 DEF Live
  <2>4. \A p \in Pages : p # op.old /\ Used(p) => Used(p)'
    BY <2>2, StillUsed
  <2> QED  BY <1>0, <1>1, <2>1, <2>3, <2>4 DEF WriterBehind
<1> QED  BY <1>2, <1>3 DEF CompactStep

\* The scan finds records and markers only before the last cell of a page.
LEMMA NotInTail ==
    ASSUME TypeInv, TailUnused, NEW p \in Pages, NEW i \in 1 .. PageCells,
           cell[p][i].kind \in {"rec", "badrec", "commit"}
    PROVE  i < PageCells
<1> SUFFICES ASSUME i = PageCells PROVE FALSE
  BY Constants
<1>1. cell[p][i] \in {Blank, Torn}
  BY DEF TailUnused
<1> QED  BY <1>1 DEF Blank, Torn

LEMMA ScanLive ==
    TypeInv /\ TailUnused /\ WriterBehind /\ ScanBehind /\ ScanStep
    => WriterBehind' /\ ScanBehind'
<1> SUFFICES ASSUME TypeInv, TailUnused, WriterBehind, ScanBehind, ScanStep
             PROVE  WriterBehind' /\ ScanBehind'
  OBVIOUS
<1>a. /\ scan.off \in Nat /\ scan.page < scan.page + 1 /\ (scan.page \in Pages => scan.page # NoPage)
      /\ \A k \in Keys : idx[k].off < scan.off => scan.off > 1
  <2>1. scan.off \in Nat /\ scan.page \in Nat /\ \A k \in Keys : idx[k].off \in 1 .. PageCells
    <3>1. PageCells \in Nat /\ NumPages \in Nat
      BY Constants
    <3>2. scan.page \in 0 .. NumPages /\ scan.off \in 1 .. PageCells + 1
          /\ \A k \in Keys : idx[k].off \in 1 .. PageCells
      BY Ranges
    <3> QED  BY <3>1, <3>2
  <2>2. scan.page \in Pages => scan.page # NoPage
    BY Constants DEF Pages, NoPage
  <2> QED  BY <2>1, <2>2
<1>b. \A k \in Keys : idx'[k].off < scan.off => idx'[k].off < scan.off + 1
  <2>1. \A k \in Keys : idx'[k].off \in Nat
    BY ScanType DEF TypeInv, TypeOK, IndexType, Entries
  <2> QED  BY <1>a, <2>1
<1> USE Constants, Ranges
<1>0. Down /\ UNCHANGED <<hdr, cell>>
  BY DEF ScanStep, Boot, ScanRecord, ScanCommit, ScanPageEnd, ScanDone, Scanning, AtCell, Down,
         flashVars
<1>1. \A p : Used(p)' = Used(p)
  BY <1>0 DEF Used
<1>2. ASSUME Down' PROVE WriterBehind'
  BY <1>2 DEF WriterBehind, Up
<1>3. CASE Boot
  <2>1. Down' /\ UNCHANGED <<idx, scan>>
    BY <1>3 DEF Boot, Down, ramVars
  <2>2. \A k \in Keys : Indexed(k)' = Indexed(k) /\ idx'[k] = idx[k]
    BY <2>1 DEF Indexed
  <2> QED  BY <1>0, <1>1, <1>2, <2>1, <2>2 DEF ScanBehind
<1>4. CASE ScanRecord
  <2> DEFINE c == cell[scan.page][scan.off]
             r == [key |-> c.key, val |-> c.val, ver |-> c.ver, mg |-> c.mg,
                   old |-> NoPage, page |-> scan.page, off |-> scan.off]
             s == [scan EXCEPT !.off = scan.off + 1]
  <2>1. /\ Down' /\ UNCHANGED idx
        /\ scan.page \in Pages /\ hdr[scan.page] = "v2" /\ scan.off <= PageCells
        /\ c.kind \in {"rec", "badrec"}
    BY <1>4 DEF ScanRecord, AtCell, Scanning, Down, ramVars
  <2>2. c # Blank /\ scan.off < PageCells
    BY <2>1, NotInTail DEF Blank
  <2>a. scan.off + 1 \in 1 .. PageCells + 1
    BY SMTT(40), <2>2
  <2>3. s \in Scans /\ s.page = scan.page /\ s.off = scan.off + 1 /\ s.pend = scan.pend
        /\ s.last = scan.last /\ s.end = scan.end
    BY <2>a DEF Scans
  <2>4. scan' = [s EXCEPT !.pend = IF c.kind = "badrec" THEN scan.pend ELSE r]
    BY <1>4 DEF ScanRecord
  <2>5. r.page = scan.page /\ r.off = scan.off
    OBVIOUS
  <2> HIDE DEF s, r
  <2>6. /\ scan'.page = scan.page /\ scan'.off = scan.off + 1
        /\ scan'.last = scan.last /\ scan'.end = scan.end
        /\ scan'.pend = scan.pend \/ scan'.pend = r
    BY <2>3, <2>4 DEF Scans
  <2>7. Used(scan.page)
    <3>1. CASE scan.off = 1
      BY <2>1, <2>2, <3>1 DEF Used
    <3>2. CASE scan.off > 1
      BY <1>0, <3>2 DEF ScanBehind
    <3> QED  BY <3>1, <3>2
  <2> HIDE DEF c
  <2>8. \A k \in Keys : Indexed(k)' = Indexed(k) /\ idx'[k] = idx[k]
    BY <2>1 DEF Indexed
  <2>9. ASSUME NEW k \in Keys, Indexed(k)'
        PROVE  /\ Used(idx'[k].page)
               /\ \/ idx'[k].page = scan'.page /\ idx'[k].off < scan'.off
                  \/ /\ idx'[k].page < scan'.page /\ scan'.last # NoPage
                     /\ idx'[k].page = scan'.last => idx'[k].off < scan'.end
    <3>1. Indexed(k) /\ idx'[k] = idx[k]
      BY <2>8, <2>9
    <3> QED  BY SMTT(40), <1>0, <1>1, <2>6, <3>1 DEF ScanBehind
  <2>10. scan'.pend.page # NoPage => scan'.pend.page = scan'.page /\ scan'.pend.off < scan'.off
    BY SMTT(40), <1>0, <2>5, <2>6 DEF ScanBehind
  <2> QED  BY SMTT(40), <1>0, <1>1, <1>2, <2>1, <2>2, <2>6, <2>7, <2>9, <2>10 DEF ScanBehind
<1>5. CASE ScanCommit
  <2> DEFINE r == scan.pend
  <2>1. /\ Down'
        /\ scan.page \in Pages /\ hdr[scan.page] = "v2" /\ scan.off <= PageCells
        /\ cell[scan.page][scan.off].kind = "commit"
        /\ scan' = [scan EXCEPT !.off = @ + 1, !.pend = NoOp]
    BY <1>5 DEF ScanCommit, AtCell, Scanning, Down
  <2>2. cell[scan.page][scan.off] # Blank /\ scan.off < PageCells
    <3>1. scan.off \in 1 .. PageCells
      BY SMTT(40), <2>1
    <3>2. scan.off < PageCells
      BY <2>1, <3>1, NotInTail
    <3>3. cell[scan.page][scan.off] # Blank
      BY SMTT(40), <2>1 DEF Blank
    <3> QED  BY <3>2, <3>3
  <2>3. Used(scan.page)
    <3>1. CASE scan.off = 1
      BY <2>1, <2>2, <3>1 DEF Used
    <3>2. CASE scan.off > 1
      BY <1>0, <3>2 DEF ScanBehind
    <3> QED  BY <3>1, <3>2
  <2>4. /\ scan'.page = scan.page /\ scan'.off = scan.off + 1
        /\ scan'.last = scan.last /\ scan'.end = scan.end /\ scan'.pend = NoOp
    <3> DEFINE s == [scan EXCEPT !.off = scan.off + 1]
    <3>0. scan.off + 1 \in 1 .. PageCells + 1
      BY SMTT(40), <2>2
    <3>1. s \in Scans /\ s.page = scan.page /\ s.off = scan.off + 1
          /\ s.last = scan.last /\ s.end = scan.end
      BY <3>0 DEF Scans
    <3>2. scan' = [s EXCEPT !.pend = NoOp]
      BY <2>1
    <3> HIDE DEF s
    <3> QED  BY <3>1, <3>2 DEF Scans
  <2>5. ASSUME NEW k \in Keys, Indexed(k)'
        PROVE  \/ Indexed(k) /\ idx'[k] = idx[k]
               \/ idx'[k].page = scan.page /\ idx'[k].off < scan.off
    <3>1. CASE IdxRemove(r.key)
      BY <2>5, <3>1 DEF IdxRemove, Indexed, Absent, TypeInv, TypeOK, IndexType
    <3>2. CASE r.page # NoPage /\ IdxSet(r.key, r.page, r.off, r.ver)
      <4>1. r.page = scan.page /\ r.off < scan.off
        BY <1>0, <3>2 DEF ScanBehind
      <4>2. idx'[k] = IF k = r.key THEN [page |-> r.page, off |-> r.off, ver |-> r.ver] ELSE idx[k]
        BY <3>2 DEF IdxSet, TypeInv, TypeOK, IndexType
      <4> QED  BY <2>5, <4>1, <4>2 DEF Indexed
    <3>3. CASE UNCHANGED idx
      BY <2>5, <3>3 DEF Indexed
    <3> QED  BY <1>5, <3>1, <3>2, <3>3 DEF ScanCommit, Committed
  <2>6. ASSUME NEW k \in Keys, Indexed(k)'
        PROVE  /\ Used(idx'[k].page)
               /\ \/ idx'[k].page = scan'.page /\ idx'[k].off < scan'.off
                  \/ /\ idx'[k].page < scan'.page /\ scan'.last # NoPage
                     /\ idx'[k].page = scan'.last => idx'[k].off < scan'.end
    <3>1. CASE Indexed(k) /\ idx'[k] = idx[k]
      BY <1>0, <1>1, <2>4, <3>1 DEF ScanBehind
    <3>2. CASE idx'[k].page = scan.page /\ idx'[k].off < scan.off
      <4>1. idx'[k].off < scan'.off
        BY <1>b, <2>4, <3>2
      <4> QED  BY <1>1, <2>3, <2>4, <3>2, <4>1
    <3> QED  BY <2>5, <2>6, <3>1, <3>2
  <2>7. scan'.pend.page = NoPage
    BY <2>4 DEF NoOp
  <2>8. (\A k \in Keys : Indexed(k) =>
           /\ Used(idx[k].page)
           /\ \/ idx[k].page = scan.page /\ idx[k].off < scan.off
              \/ /\ idx[k].page < scan.page /\ scan.last # NoPage
                 /\ idx[k].page = scan.last => idx[k].off < scan.end)'
    BY <1>0, <2>6 DEF Used
  <2>9. /\ Used(scan.page)' /\ scan'.off <= PageCells /\ scan'.end <= PageCells
        /\ scan'.last = NoPage => scan'.end = 1
        /\ scan'.last # NoPage => Used(scan'.last) /\ scan'.last < scan'.page
    <3>1. scan'.off <= PageCells /\ scan'.page = scan.page
      BY <1>1, <2>2, <2>4
    <3>2. Used(scan.page)' /\ Used(scan.last)' = Used(scan.last)
      <4>1. scan'.page = scan.page /\ scan'.last = scan.last
        BY <2>4
      <4> QED  BY <1>0, <2>3, <4>1 DEF Used
    <3> QED  BY <1>0, <2>4, <3>1, <3>2 DEF ScanBehind, Used
  <2> QED  BY <1>1, <1>2, <2>1, <2>7, <2>8, <2>9 DEF ScanBehind
<1>6. CASE ScanPageEnd
  <2>1. /\ Down' /\ UNCHANGED idx /\ scan.page \in Pages
        /\ scan'.page = scan.page + 1 /\ scan'.off = 1 /\ scan'.pend = NoOp
        /\ scan'.last = (IF scan.off > 1 THEN scan.page ELSE scan.last)
        /\ scan'.end = (IF scan.off > 1 THEN scan.off ELSE scan.end)
    BY <1>6 DEF ScanPageEnd, Scanning, Down
  <2>2. \A k \in Keys : Indexed(k)' = Indexed(k) /\ idx'[k] = idx[k]
    BY <2>1 DEF Indexed
  <2>3. ASSUME NEW k \in Keys, Indexed(k)'
        PROVE  /\ Used(idx'[k].page)
               /\ idx'[k].page < scan'.page /\ scan'.last # NoPage
               /\ idx'[k].page = scan'.last => idx'[k].off < scan'.end
    <3>1. Indexed(k) /\ idx'[k] = idx[k]
      BY <2>2, <2>3
    <3>2. CASE idx[k].page = scan.page /\ idx[k].off < scan.off
      <4>1. scan.off > 1
        BY <1>a, <3>2
      <4>2. Used(idx[k].page) /\ scan'.last = scan.page /\ scan'.end = scan.off
        BY <1>0, <2>1, <3>1, <4>1 DEF ScanBehind
      <4>3. scan.page < scan.page + 1 /\ scan.page # NoPage
        BY <1>a, <2>1
      <4> QED  BY <2>1, <3>1, <3>2, <4>2, <4>3
    <3>3. CASE /\ idx[k].page < scan.page /\ scan.last # NoPage
               /\ idx[k].page = scan.last => idx[k].off < scan.end
      BY SMTT(40), <1>0, <1>1, <2>1, <3>1, <3>3 DEF ScanBehind, Pages, NoPage
    <3> QED  BY <1>0, <3>1, <3>2, <3>3 DEF ScanBehind
  <2>4. /\ scan'.last = NoPage => scan'.end = 1
        /\ scan'.last # NoPage => Used(scan'.last) /\ scan'.last < scan'.page
        /\ scan'.end <= PageCells
    BY SMTT(40), <1>0, <1>1, <2>1 DEF ScanBehind, Pages, NoPage
  <2>5. scan'.pend.page = NoPage
    BY <2>1 DEF NoOp
  <2> QED  BY <1>1, <1>2, <2>1, <2>3, <2>4, <2>5 DEF ScanBehind
<1>7. CASE ScanDone
  <2>1. /\ ~Down' /\ pc' = "idle" /\ UNCHANGED idx
        /\ scan.page = NumPages /\ scan.end <= PageCells
        /\ scan.last # NoPage => wpage' = scan.last
        /\ woff' = scan.end
    BY <1>0, <1>7 DEF ScanDone, ScanBehind, Down
  <2>2. \A k \in Keys : Indexed(k)' = Indexed(k) /\ idx'[k] = idx[k]
    BY <2>1 DEF Indexed
  <2>4. ASSUME NEW k \in Keys, Indexed(k)'
        PROVE  Used(idx'[k].page) /\ (idx'[k].page = wpage' => idx'[k].off < woff')
    <3>1. Indexed(k) /\ idx'[k] = idx[k] /\ idx[k].page # scan.page
      BY <2>1, <2>2, <2>4
    <3> QED  BY <1>0, <1>1, <2>1, <3>1 DEF ScanBehind
  <2>5. woff' > 1 => Used(wpage')
    BY <1>0, <1>1, <2>1 DEF ScanBehind
  <2>6. ScanBehind'
    BY <2>1 DEF ScanBehind
  <2>7. WriterBehind'
    BY <1>0, <2>1, <2>4, <2>5 DEF WriterBehind, Used
  <2> QED  BY <2>6, <2>7
<1> QED  BY <1>3, <1>4, <1>5, <1>6, <1>7 DEF ScanStep

LEMMA WipeLive == WipeStep => WriterBehind' /\ ~Down'
<1>1. CASE WipePage \/ WipeDead
  BY <1>1 DEF WipePage, WipeDead, WriterBehind, Up, Down
<1>2. CASE WipeEnd
  BY <1>2, Constants DEF WipeEnd, WriterBehind, Down, Indexed, Absent
<1> QED  BY <1>1, <1>2 DEF WipeStep

LEMMA LiveInit == Init => LiveInv
<1> SUFFICES ASSUME Init PROVE LiveInv
  OBVIOUS
<1>1. TypeInv
  BY TypeInit
<1>2. \A k \in Keys : ~Indexed(k)
  BY DEF Init, Indexed, Absent
<1>3. RefCountsExact
  <2> SUFFICES ASSUME NEW p \in Pages PROVE Cardinality(Live(p)) = 0 /\ ref[p] = 0
    BY DEF RefCountsExact
  <2>1. Live(p) = {}
    BY <1>2, Constants DEF Live, Indexed, NoPage
  <2> QED  BY <2>1, FS_EmptySet DEF Init
<1>4. TailUnused
  BY Constants DEF Init, TailUnused
<1>5. WriterBehind
  BY DEF Init, WriterBehind, Up, Down
<1>6. ScanBehind
  BY <1>2, Constants DEF Init, ScanBehind, NoScan, NoOp
<1> QED  BY <1>1, <1>3, <1>4, <1>5, <1>6 DEF LiveInv

LEMMA LiveStep == Slack # 0 /\ LiveInv /\ [Next]_vars => LiveInv'
<1> SUFFICES ASSUME Slack # 0, LiveInv, [Next]_vars PROVE LiveInv'
  OBVIOUS
<1>0. TypeInv /\ RefCountsExact /\ TailUnused /\ WriterBehind /\ ScanBehind
  BY DEF LiveInv
<1>1. TypeInv' /\ RefCountsExact' /\ TailUnused'
  BY <1>0, TypeStep, CountsStep, TailStep
<1>2. WriterBehind' /\ ScanBehind'
  <2>1. CASE Call
    <3>1. ~Down'
      <4>1. CASE WipeBegin
        BY <4>1 DEF WipeBegin, Down
      <4>2. ASSUME NEW k, NEW v, NEW n, BeginAppend(k, v, n) PROVE ~Down'
        BY <4>2 DEF BeginAppend, Down
      <4> QED  BY <2>1, <4>1, <4>2 DEF Call, Put, Delete
    <3> QED  BY <1>0, <2>1, <3>1, CallLive DEF ScanBehind
  <2>2. CASE AppendStep
    <3>1. ~Down'
      BY <2>2 DEF AppendStep, EnsureErased, EnsureHeader, EnsureReady, AppendRecord, Prewarm, Down
    <3> QED  BY <1>0, <2>2, <3>1, AppendLive DEF ScanBehind
  <2>3. CASE IndexStep
    <3>1. ~Down'
      BY <2>3 DEF IndexStep, IndexPut, IndexFull, IndexDelete, DeadlogAppend, EndOrDeadlog, Down
    <3> QED  BY <1>0, <2>3, <3>1, IndexLive DEF ScanBehind
  <2>4. CASE CompactStep
    <3>1. ~Down'
      BY <2>4 DEF CompactStep, Compact, Reclaim, Down
    <3> QED  BY <1>0, <2>4, <3>1, CompactLive DEF ScanBehind
  <2>5. CASE WipeStep
    BY <2>5, WipeLive DEF ScanBehind
  <2>6. CASE CutStep
    BY <2>6, CutLive DEF CutStep, CutClean, CutHeader, CutRecord, CutErase, CutDeadlog
  <2>7. CASE ScanStep
    BY <1>0, <2>7, ScanLive
  <2>8. CASE UNCHANGED vars
    BY <1>0, <2>8 DEF WriterBehind, ScanBehind, Up, Down, Used, Indexed, Live, vars, flashVars,
                      ramVars, logVars
  <2> QED  BY <2>1, <2>2, <2>3, <2>4, <2>5, <2>6, <2>7, <2>8 DEF Next
<1> QED  BY <1>1, <1>2 DEF LiveInv

\* One step keeps every live record.
LEMMA LiveKept == LiveInv /\ Next => KeepsLiveRecords
<1> SUFFICES ASSUME LiveInv, Next, NEW k \in Keys,
                    Indexed(k), idx'[k] = idx[k], pc # "wipe"
             PROVE  cell'[idx[k].page][idx[k].off] = cell[idx[k].page][idx[k].off]
  BY DEF KeepsLiveRecords
<1>0. TypeInv /\ RefCountsExact /\ WriterBehind
  BY DEF LiveInv
<1>1. idx[k].page \in Pages /\ idx[k].off \in 1 .. PageCells /\ wpage \in Pages /\ woff \in Nat
  BY <1>0, Ranges
<1>2. CASE UNCHANGED cell
  BY <1>2
<1>3. CASE EnsureErased
  <2>1. idx[k].page # wpage
    BY <1>0, <1>3 DEF EnsureErased, WriterBehind, Up, Down, Used
  <2> QED  BY <1>1, <1>3, <2>1, <1>0, Ranges DEF EnsureErased, ErasePage
<1>4. CASE AppendRecord
  <2>1. CASE idx[k].page = wpage
    <3>1. idx[k].off < woff
      BY <1>0, <1>4, <2>1 DEF AppendRecord, WriterBehind, Up, Down
    <3>2. CASE cell' = [cell EXCEPT ![wpage] = Programmed(@, woff, NewRecord, Commit(op.mg))]
      <4>1. cell'[wpage] = Programmed(cell[wpage], woff, NewRecord, Commit(op.mg))
        BY <1>0, <1>1, <3>2, Ranges
      <4> QED  BY <1>1, <2>1, <3>1, <4>1, ProgrammedKeeps
    <3> QED  BY <1>2, <1>4, <3>2 DEF AppendRecord
  <2>2. CASE idx[k].page # wpage
    BY <1>0, <1>1, <1>4, <2>2, Ranges DEF AppendRecord
  <2> QED  BY <2>1, <2>2
<1>5. CASE Reclaim
  <2>1. idx[k].page # op.old
    BY <1>0, <1>5 DEF Reclaim, WriterBehind, Up, Down, Live
  <2> QED  BY <1>0, <1>1, <1>5, <2>1, Ranges DEF Reclaim, ErasePage
<1>6. CASE WipePage
  BY <1>6 DEF WipePage
<1>7. CASE CutStep \/ WipeEnd
  <2>1. idx'[k] = Absent
    BY <1>7 DEF CutStep, CutClean, CutHeader, CutRecord, CutErase, CutDeadlog, PowerCut, WipeEnd
  <2> QED  BY <2>1 DEF Indexed, Absent
<1>8. CASE EnsureHeader \/ Prewarm
  BY <1>2, <1>8 DEF EnsureHeader, Prewarm, WriteHeader
<1>9. CASE Call
  BY <1>2, <1>9 DEF Call, Put, Delete, BeginAppend, WipeBegin, flashVars
<1>10. CASE EnsureReady \/ IndexStep \/ Compact \/ WipeDead
  BY <1>2, <1>10 DEF EnsureReady, IndexStep, IndexPut, IndexFull, IndexDelete, DeadlogAppend,
                     Compact, WipeDead, flashVars
<1>11. CASE ScanStep
  BY <1>2, <1>11 DEF ScanStep, Boot, ScanRecord, ScanCommit, ScanPageEnd, ScanDone, flashVars
<1> QED  BY <1>3, <1>4, <1>5, <1>6, <1>7, <1>8, <1>9, <1>10, <1>11
         DEF Next, AppendStep, CompactStep, WipeStep

\* Copy-on-write: unless records can end at the last byte of a sector, no call, compaction,
\* power cut or recovery changes the record a live index entry points to.
THEOREM LiveRecordsSafe == Slack # 0 /\ Spec => LiveRecordsKept
<1> SUFFICES ASSUME Slack # 0 PROVE Spec => LiveRecordsKept
  OBVIOUS
<1>1. LiveInv /\ [Next]_vars => LiveInv'
  BY LiveStep
<1>2. LiveInv /\ [Next]_vars => [KeepsLiveRecords]_vars
  BY LiveKept
<1> QED  BY LiveInit, <1>1, <1>2, PTL DEF Spec, LiveRecordsKept

-----------------------------------------------------------------------------
(* The store is durable: what a call has stored is read from then on, also *)
(* after power cuts, and the store implements the map of KvMap.            *)

\* The store is durable where no record can reach the end of its sector or exceed the
\* program buffer, and a power cut tears headers, payloads and dead-log entries, but not
\* a record's header, its commit marker or an erase.
DurableFlash ==
    /\ Slack # 0 /\ BigVals = {}
    /\ Tears \subseteq {"header", "payload", "dead"}

\* The index is never full, and no key has been written so often that its versions start over.
WithinLimits == \A k \in Keys : HasRoom(k) /\ idx[k].ver < MaxVersion

-----------------------------------------------------------------------------
(* What recovery finds.  These operators are about the cells c of a flash. *)

\* Cell i of page p holds a record with its commit marker behind it.
Kept(c, p, i) ==
    /\ i < PageCells /\ c[p][i].kind = "rec"
    /\ c[p][i + 1].kind = "commit" /\ c[p][i + 1].mg = c[p][i].mg
KeptOf(c, k, p, i) == Kept(c, p, i) /\ c[p][i].key = k

NoneKept(c, k) == \A p \in Pages, i \in 1 .. PageCells : ~KeptOf(c, k, p, i)

\* The committed record of key k with the highest version.
Latest(c, k, p, i) ==
    /\ p \in Pages /\ i \in 1 .. PageCells /\ KeptOf(c, k, p, i)
    /\ \A q \in Pages, j \in 1 .. PageCells :
          KeptOf(c, k, q, j) => c[q][j].ver < c[p][i].ver \/ (q = p /\ j = i)

\* The key's committed records have different versions.
Apart(c, k) ==
    \A p, q \in Pages, i, j \in 1 .. PageCells :
        KeptOf(c, k, p, i) /\ KeptOf(c, k, q, j) /\ c[p][i].ver = c[q][j].ver => p = q /\ i = j

\* What recovery will find of key k is v.
Holds(c, k, v) ==
    /\ v = Gone => NoneKept(c, k)
    /\ v # Gone => \E p \in Pages, i \in 1 .. PageCells : Latest(c, k, p, i) /\ c[p][i].val = v

\* A page is filled from its first cell on, without garbage, and a marker is behind its record.
Filled(page, header) ==
    \A i \in 1 .. PageCells :
        /\ page[i] # Blank => header = "v2" /\ \A j \in 1 .. i : page[j] # Blank
        /\ page[i] = Blank \/ page[i].kind \in {"rec", "badrec", "commit"}
        /\ page[i].kind = "commit" =>
              i > 1 /\ page[i - 1].kind = "rec" /\ page[i - 1].mg = page[i].mg

-----------------------------------------------------------------------------
(* The inductive invariant.                                                *)

PagesFilled == \A p \in Pages : Filled(cell[p], hdr[p])

\* Only keys whose fate a reboot decides have tombstones.
TombstonesFuzzy ==
    \A p \in Pages, i \in 1 .. PageCells :
        cell[p][i].kind = "rec" /\ cell[p][i].val = Gone => cell[p][i].key \in fuzzy

\* The flash holds what the last durable call stored.
OnFlash == \A k \in Keys \ fuzzy : Holds(cell, k, store[k]) /\ Apart(cell, k)

FlashTrue == PagesFilled /\ TombstonesFuzzy /\ OnFlash

\* Appending goes on at the first blank cell of the write page.
CursorAtBlank == Up => \A i \in 1 .. PageCells : cell[wpage][i] = Blank <=> i >= woff

\* The call's record is on flash and not yet in the index.
Appended == pc \in {"prewarm", "index"}
Behind(k) == Appended /\ op.key = k

IndexedRight(k) ==
    IF Indexed(k) THEN /\ Latest(cell, k, idx[k].page, idx[k].off)
                       /\ idx[k].ver = cell[idx[k].page][idx[k].off].ver
    ELSE NoneKept(cell, k)

\* The index points to the record that recovery would find.
IndexLatest ==
    Up => \A k \in Keys \ fuzzy :
             IF Behind(k) THEN Latest(cell, k, op.page, op.off) ELSE IndexedRight(k)

\* A call's version is a new one, and its record is where it was programmed.
CallTrue ==
    /\ pc \in {"ready", "program"} => op.val = Gone \/ op.ver > idx[op.key].ver
    /\ pc \in AppendingPC /\ op.val = Gone => op.key \in fuzzy
    /\ Appended => /\ cell[op.page][op.off] = NewRecord
                   /\ store[op.key] = op.val

ReadsStore == Up => \A k \in Keys : ~Behind(k) => Get(k) = store[k]

\* A wipe promises nothing until it is over, and then nothing is left.
Wiped ==
    pc = "wipe" => /\ fuzzy = Keys /\ store = [k \in Keys |-> Gone]
                   /\ \A p \in Pages : p < op.old => \A i \in 1 .. PageCells : cell[p][i] = Blank

RunTrue == CursorAtBlank /\ IndexLatest /\ CallTrue /\ ReadsStore /\ Wiped

\* What the scan at page p, cell o has passed.
Seen(s, p, i) == p < s.page \/ (p = s.page /\ i + 1 < s.off)

\* Of what the scan has passed, the index has the latest.
ScannedRight(k) ==
    IF Indexed(k)
    THEN LET p == idx[k].page  i == idx[k].off IN
         /\ KeptOf(cell, k, p, i) /\ Seen(scan, p, i) /\ idx[k].ver = cell[p][i].ver
         /\ \A q \in Pages, j \in 1 .. PageCells :
               KeptOf(cell, k, q, j) /\ Seen(scan, q, j) =>
                  cell[q][j].ver < cell[p][i].ver \/ (q = p /\ j = i)
    ELSE \A q \in Pages, j \in 1 .. PageCells : KeptOf(cell, k, q, j) => ~Seen(scan, q, j)

\* The record at cell i of page p as it waits for its commit marker.
Pending(p, i) ==
    [key |-> cell[p][i].key, val |-> cell[p][i].val, ver |-> cell[p][i].ver,
     mg |-> cell[p][i].mg, old |-> NoPage, page |-> p, off |-> i]

ScanIndex == \A k \in Keys \ fuzzy : ScannedRight(k)

\* The scan stands behind cells that are not blank, and the record just passed is pending.
ScanPosition ==
    scan.page \in Pages =>
        /\ \A i \in 1 .. scan.off - 1 : cell[scan.page][i] # Blank
        /\ scan.off > 1 /\ cell[scan.page][scan.off - 1].kind = "rec" =>
              scan.pend = Pending(scan.page, scan.off - 1)

\* Appending would resume at a blank cell behind the data found.
ScanCursor ==
    /\ scan.last # NoPage =>
          \A i \in 1 .. PageCells : cell[scan.last][i] = Blank <=> i >= scan.end
    /\ scan.last = NoPage => \A p \in Pages : p < scan.page => cell[p][1] = Blank

ScanTrue == Down => ScanIndex /\ ScanPosition /\ ScanCursor

DurableInv == LiveInv /\ FlashTrue /\ RunTrue /\ ScanTrue

-----------------------------------------------------------------------------
(* Lemmas about cells.                                                     *)

LEMMA CellForms ==
    /\ Blank.kind = "blank" /\ Torn.kind = "torn" /\ BadRec.kind = "badrec"
    /\ \A g : Commit(g).kind = "commit" /\ Commit(g).mg = g
    /\ \A k, v, n, g : LET r == Rec(k, v, n, g)
                       IN  r.kind = "rec" /\ r.key = k /\ r.val = v /\ r.ver = n /\ r.mg = g
BY DEF Blank, Torn, BadRec, Commit, Rec

LEMMA RecordForm ==
    ASSUME NEW c \in Cells, c.kind = "rec"
    PROVE  c.key \in Keys /\ c.val \in Vals \cup {Gone} /\ c.ver \in Nat /\ c.mg \in Nat
BY Constants DEF Cells, Blank, Torn, BadRec, Records

LEMMA LocationOf ==
    ASSUME TypeInv
    PROVE  /\ \A p \in Pages, i \in 1 .. PageCells : cell[p][i] \in Cells
           /\ \A p \in Pages, i \in 1 .. PageCells : cell[p][i].kind = "rec" =>
                 cell[p][i].key \in Keys /\ cell[p][i].ver \in Nat
           /\ \A k \in Keys : Indexed(k) => idx[k].page \in Pages
           /\ \A k \in Keys : idx[k].off \in 1 .. PageCells /\ idx[k].ver \in Nat
<1>1. \A p \in Pages, i \in 1 .. PageCells : cell[p][i] \in Cells
  BY Ranges
<1>2. \A k \in Keys : idx[k].ver \in Nat
  BY Constants DEF TypeInv, TypeOK, IndexType, Entries
<1> QED BY <1>1, <1>2, Ranges, RecordForm

\* A key has one latest record.
LEMMA OneLatest ==
    ASSUME TypeInv, NEW k \in Keys, NEW p, NEW i, NEW q, NEW j,
           Latest(cell, k, p, i), Latest(cell, k, q, j)
    PROVE  p = q /\ i = j
<1>1. p \in Pages /\ i \in 1 .. PageCells /\ q \in Pages /\ j \in 1 .. PageCells
  BY DEF Latest
<1>2. cell[p][i].ver \in Nat /\ cell[q][j].ver \in Nat
  BY <1>1, LocationOf DEF Latest, KeptOf, Kept
<1>3. cell[q][j].ver < cell[p][i].ver \/ (q = p /\ j = i)
  BY <1>1 DEF Latest
<1>4. cell[p][i].ver < cell[q][j].ver \/ (p = q /\ i = j)
  BY <1>1 DEF Latest
<1> QED BY <1>2, <1>3, <1>4

\* The index, where it is right, reads what the flash holds.
LEMMA RightReads ==
    ASSUME TypeInv, NEW k \in Keys, IndexedRight(k), Holds(cell, k, store[k])
    PROVE  Get(k) = store[k]
<1>1. CASE Indexed(k)
  <2>1. Latest(cell, k, idx[k].page, idx[k].off)
    BY <1>1 DEF IndexedRight
  <2>2. idx[k].page \in Pages /\ idx[k].off \in 1 .. PageCells
        /\ KeptOf(cell, k, idx[k].page, idx[k].off)
    BY <2>1 DEF Latest
  <2>3. store[k] # Gone
    BY <2>2 DEF Holds, NoneKept
  <2>4. PICK p \in Pages, i \in 1 .. PageCells : Latest(cell, k, p, i) /\ cell[p][i].val = store[k]
    BY <2>3 DEF Holds
  <2>5. p = idx[k].page /\ i = idx[k].off
    BY <2>1, <2>4, OneLatest
  <2> QED BY <1>1, <2>2, <2>4, <2>5 DEF Get, KeptOf, Kept
<1>2. CASE ~Indexed(k)
  <2>1. NoneKept(cell, k)
    BY <1>2 DEF IndexedRight
  <2>2. store[k] = Gone
    BY <2>1 DEF Holds, Latest, NoneKept
  <2> QED BY <1>2, <2>2 DEF Get
<1> QED BY <1>1, <1>2

\* A page whose first cell is blank, or without a valid header, is blank.
LEMMA BlankPage ==
    ASSUME PagesFilled, TypeInv, NEW p \in Pages, hdr[p] # "v2" \/ cell[p][1] = Blank
    PROVE  \A i \in 1 .. PageCells : cell[p][i] = Blank
<1> TAKE i \in 1 .. PageCells
<1>1. 1 \in 1 .. i
  OBVIOUS
<1> QED BY <1>1 DEF PagesFilled, Filled

\* Erasing a blank page changes no cell.
LEMMA EraseBlank ==
    ASSUME TypeInv, NEW p \in Pages, ErasePage(p), \A i \in 1 .. PageCells : cell[p][i] = Blank
    PROVE  cell' = cell
<1>1. cell \in [Pages -> [1 .. PageCells -> Cells]]
  BY Ranges
<1>2. cell[p] = [i \in 1 .. PageCells |-> Blank]
  BY <1>1
<1> QED BY <1>1, <1>2 DEF ErasePage

\* The records of other pages outlive an erase, and the page's own do not.
LEMMA EraseKept ==
    ASSUME TypeInv, NEW p \in Pages, ErasePage(p)
    PROVE  /\ \A q \in Pages : cell'[q] = IF q = p THEN [i \in 1 .. PageCells |-> Blank] ELSE cell[q]
           /\ \A k : \A q \in Pages, i \in 1 .. PageCells :
                 KeptOf(cell', k, q, i) <=> q # p /\ KeptOf(cell, k, q, i)
           /\ \A q \in Pages : hdr'[q] = IF q = p THEN "free" ELSE hdr[q]
<1>1. \A q \in Pages : cell'[q] = IF q = p THEN [i \in 1 .. PageCells |-> Blank] ELSE cell[q]
  BY Ranges DEF ErasePage
<1>2. \A q \in Pages : hdr'[q] = IF q = p THEN "free" ELSE hdr[q]
  BY Ranges DEF ErasePage
<1>3. ASSUME NEW k, NEW q \in Pages, NEW i \in 1 .. PageCells
      PROVE  KeptOf(cell', k, q, i) <=> q # p /\ KeptOf(cell, k, q, i)
  <2>1. CASE q = p
    <3>1. cell'[q][i] = Blank
      BY <1>1, <2>1
    <3> QED BY <2>1, <3>1, CellForms DEF KeptOf, Kept
  <2>2. CASE q # p
    BY <1>1, <2>2 DEF KeptOf, Kept
  <2> QED BY <2>1, <2>2
<1> QED BY <1>1, <1>2, <1>3

-----------------------------------------------------------------------------
(* Steps that change no cell.                                              *)

LEMMA FlashSame ==
    ASSUME TypeInv, FlashTrue, cell' = cell,
           \A p \in Pages : hdr'[p] = hdr[p] \/ \A i \in 1 .. PageCells : cell[p][i] = Blank,
           fuzzy \subseteq fuzzy', \A k \in Keys \ fuzzy' : store'[k] = store[k]
    PROVE  FlashTrue'
<1>1. PagesFilled'
  <2> SUFFICES ASSUME NEW p \in Pages PROVE Filled(cell[p], hdr'[p])
    BY DEF PagesFilled
  <2>1. Filled(cell[p], hdr[p])
    BY DEF FlashTrue, PagesFilled
  <2> QED BY <2>1, CellForms DEF Filled
<1>2. TombstonesFuzzy'
  BY DEF FlashTrue, TombstonesFuzzy
<1>3. OnFlash'
  <2> SUFFICES ASSUME NEW k \in Keys \ fuzzy' PROVE Holds(cell, k, store'[k]) /\ Apart(cell, k)
    BY DEF OnFlash
  <2>1. Holds(cell, k, store[k]) /\ Apart(cell, k)
    BY DEF FlashTrue, OnFlash
  <2> QED BY <2>1
<1> QED BY <1>1, <1>2, <1>3 DEF FlashTrue

\* Neither do they change what a reader gets or what the index is right about.
LEMMA RunSame ==
    ASSUME RunTrue, Up, cell' = cell, idx' = idx, wpage' = wpage, woff' = woff,
           fuzzy \subseteq fuzzy', store' = store,
           (Appended' /\ Appended /\ op' = op) \/ (~Appended' /\ ~Appended)
    PROVE  CursorAtBlank' /\ IndexLatest' /\ ReadsStore'
<1>1. \A k : /\ Indexed(k)' = Indexed(k) /\ Get(k)' = Get(k) /\ Behind(k)' = Behind(k)
             /\ IndexedRight(k)' = IndexedRight(k)
  <2> TAKE k
  <2>1. Indexed(k)' = Indexed(k)
    BY DEF Indexed
  <2>2. Get(k)' = Get(k)
    BY <2>1 DEF Get
  <2>3. Behind(k)' = Behind(k)
    BY DEF Behind
  <2>4. IndexedRight(k)' = IndexedRight(k)
    BY <2>1 DEF IndexedRight
  <2> QED BY <2>1, <2>2, <2>3, <2>4
<1>2. CursorAtBlank'
  BY DEF RunTrue, CursorAtBlank
<1>3. IndexLatest'
  <2> SUFFICES ASSUME NEW k \in Keys \ fuzzy'
               PROVE  IF Behind(k)' THEN Latest(cell, k, op'.page, op'.off) ELSE IndexedRight(k)'
    BY DEF IndexLatest
  <2>1. IF Behind(k) THEN Latest(cell, k, op.page, op.off) ELSE IndexedRight(k)
    BY DEF RunTrue, IndexLatest
  <2> QED BY <1>1, <2>1 DEF Behind
<1>4. ReadsStore'
  BY <1>1 DEF RunTrue, ReadsStore
<1> QED BY <1>2, <1>3, <1>4

\* While neither its entry nor its record moves, a key is read as before.
LEMMA SameRead ==
    ASSUME LiveInv, Next, pc # "wipe", NEW k \in Keys, idx'[k] = idx[k]
    PROVE  Get(k)' = Get(k) /\ Indexed(k)' = Indexed(k)
<1>1. Indexed(k)' = Indexed(k)
  BY DEF Indexed
<1>2. Indexed(k) => cell'[idx[k].page][idx[k].off] = cell[idx[k].page][idx[k].off]
  BY LiveKept DEF KeepsLiveRecords
<1> QED BY <1>1, <1>2 DEF Get

-----------------------------------------------------------------------------
(* Calls.                                                                  *)

LEMMA BeginDurable ==
    ASSUME DurableFlash, WithinLimits, DurableInv,
           NEW k \in Keys, NEW v \in Vals \cup {Gone}, NEW n \in Nat, n > idx[k].ver \/ v = Gone,
           BeginAppend(k, v, n), fuzzy \subseteq fuzzy',
           pc' = "ready" /\ v = Gone => k \in fuzzy'
    PROVE  FlashTrue' /\ RunTrue' /\ ScanTrue'
<1>0. TypeInv /\ FlashTrue /\ RunTrue /\ PagesFilled
  BY DEF DurableInv, LiveInv, FlashTrue
<1>1. /\ pc = "idle" /\ pc' \in {"idle", "ready"} /\ cell' = cell /\ hdr' = hdr /\ idx' = idx
      /\ store' = store
      /\ op' = IF pc' = "ready"
               THEN [key |-> k, val |-> v, ver |-> n, mg |-> gmg',
                     old |-> idx[k].page, page |-> NoPage, off |-> 1]
               ELSE NoOp
  BY DEF BeginAppend, flashVars
<1>2. FlashTrue'
  BY <1>0, <1>1, FlashSame
<1>3. Up /\ Up' /\ ~Down' /\ ~Appended /\ ~Appended' /\ pc' # "wipe"
  BY <1>1 DEF Up, Down, Appended
<1>4. CursorAtBlank'
  <2>1. CASE UNCHANGED <<wpage, woff>>
    BY <1>0, <1>1, <1>3, <2>1 DEF RunTrue, CursorAtBlank
  <2>2. CASE woff' = 1 /\ \E p \in Pages : NextAppend(wpage, p) /\ wpage' = p
    <3>1. wpage' \in Pages /\ Appendable(wpage')
      BY <2>2 DEF NextAppend
    <3>2. hdr[wpage'] # "v2" \/ cell[wpage'][1] = Blank
      BY <3>1 DEF Appendable, PreparedEmpty
    <3>3. \A i \in 1 .. PageCells : cell[wpage'][i] = Blank
      BY <1>0, <3>1, <3>2, BlankPage
    <3> QED BY <1>1, <2>2, <3>3 DEF CursorAtBlank
  <2> QED BY <2>1, <2>2 DEF BeginAppend
<1>5. \A j : /\ Indexed(j)' = Indexed(j) /\ Get(j)' = Get(j)
             /\ ~Behind(j) /\ ~Behind(j)' /\ IndexedRight(j)' = IndexedRight(j)
  <2> TAKE j
  <2>1. Indexed(j)' = Indexed(j)
    BY <1>1 DEF Indexed
  <2> QED BY <1>1, <1>3, <2>1 DEF Get, Behind, IndexedRight
<1>6. IndexLatest'
  BY <1>0, <1>3, <1>5 DEF RunTrue, IndexLatest
<1>7. ReadsStore'
  BY <1>0, <1>1, <1>3, <1>5 DEF RunTrue, ReadsStore
<1>8. CallTrue'
  BY <1>1, <1>3 DEF CallTrue, AppendingPC
<1> QED BY <1>2, <1>3, <1>4, <1>6, <1>7, <1>8 DEF RunTrue, Wiped, ScanTrue

LEMMA CallDurable ==
    ASSUME DurableFlash, WithinLimits, DurableInv, Call
    PROVE  FlashTrue' /\ RunTrue' /\ ScanTrue'
<1>0. TypeInv /\ FlashTrue /\ RunTrue
  BY DEF DurableInv, LiveInv
<1>1. ASSUME NEW k \in Keys, NEW v \in Vals, Put(k, v)
      PROVE  FlashTrue' /\ RunTrue' /\ ScanTrue'
  <2>1. NextVersion(idx[k].ver) \in Nat /\ NextVersion(idx[k].ver) > idx[k].ver
    BY <1>0, Constants, LocationOf DEF NextVersion, WithinLimits
  <2>2. v # Gone /\ v \in Vals \cup {Gone}
    BY Constants
  <2> QED BY <1>1, <2>1, <2>2, BeginDurable DEF Put
<1>2. ASSUME NEW k \in Keys, Delete(k)
      PROVE  FlashTrue' /\ RunTrue' /\ ScanTrue'
  <2>1. idx[k].ver + 1 \in Nat /\ Gone \in Vals \cup {Gone}
    BY <1>0, LocationOf
  <2> QED BY <1>2, <2>1, BeginDurable DEF Delete
<1>3. CASE WipeBegin
  <2>1. /\ pc' = "wipe" /\ op'.old = 0 /\ cell' = cell /\ hdr' = hdr
        /\ store' = [k \in Keys |-> Gone] /\ fuzzy' = Keys
    BY <1>3 DEF WipeBegin, flashVars, NoOp
  <2>2. FlashTrue'
    <3>1. fuzzy \subseteq Keys
      BY <1>0 DEF TypeInv, TypeOK, CallType
    <3> QED BY <1>0, <2>1, <3>1, FlashSame
  <2>3. ~Up' /\ ~Down' /\ ~Appended' /\ pc' \notin AppendingPC
    BY <2>1 DEF Up, Down, Appended, AppendingPC
  <2>4. \A p \in Pages : ~(p < 0)
    BY DEF Pages
  <2>5. Wiped'
    BY <2>1, <2>4 DEF Wiped
  <2>6. CallTrue'
    BY <2>1, <2>3 DEF CallTrue
  <2> QED BY <2>2, <2>3, <2>5, <2>6 DEF RunTrue, CursorAtBlank, IndexLatest, ReadsStore, ScanTrue
<1> QED BY <1>1, <1>2, <1>3 DEF Call

-----------------------------------------------------------------------------
(* Programming a record.                                                   *)

\* A record r and what follows it, m, go into two blank cells; all others stay.
LEMMA Programming ==
    ASSUME LiveInv, RunTrue, pc = "program", NEW r, NEW m,
           cell' = [cell EXCEPT ![wpage] = Programmed(@, woff, r, m)]
    PROVE  /\ wpage \in Pages /\ hdr[wpage] = "v2"
           /\ woff \in 1 .. PageCells /\ woff + 1 \in 1 .. PageCells
           /\ cell[wpage][woff] = Blank /\ cell[wpage][woff + 1] = Blank
           /\ cell'[wpage][woff] = r /\ cell'[wpage][woff + 1] = m
           /\ \A p \in Pages, i \in 1 .. PageCells :
                 p # wpage \/ (i # woff /\ i # woff + 1) => cell'[p][i] = cell[p][i]
<1>0. TypeInv /\ WriterBehind /\ CursorAtBlank /\ Up
  BY DEF LiveInv, RunTrue, Up, Down
<1>1. wpage \in Pages /\ woff \in 1 .. PageCells + 1
  BY <1>0, Ranges
<1>2. woff + 1 + Slack <= PageCells
  BY <1>0 DEF TypeInv, CarriedByCall
<1>3. woff \in 1 .. PageCells /\ woff + 1 \in 1 .. PageCells
  BY <1>1, <1>2, Constants
<1>4. hdr[wpage] = "v2"
  BY <1>0 DEF WriterBehind
<1>5. cell[wpage][woff] = Blank /\ cell[wpage][woff + 1] = Blank
  BY <1>0, <1>3 DEF CursorAtBlank
<1>6. \A p \in Pages : cell'[p] = IF p = wpage THEN Programmed(cell[p], woff, r, m) ELSE cell[p]
  BY <1>0, Ranges
<1>7. /\ Programmed(cell[wpage], woff, r, m)[woff] = Program(cell[wpage][woff], r)
      /\ Programmed(cell[wpage], woff, r, m)[woff + 1] = Program(cell[wpage][woff + 1], m)
      /\ \A i \in 1 .. PageCells : i # woff /\ i # woff + 1 =>
            Programmed(cell[wpage], woff, r, m)[i] = Program(cell[wpage][i], Blank)
  BY <1>3 DEF Programmed
<1>8. \A c : Program(c, Blank) = c /\ Program(Blank, c) = c
  BY DEF Program
<1> QED BY <1>1, <1>3, <1>4, <1>5, <1>6, <1>7, <1>8

\* The records kept afterwards are those kept before, and this one if m is its marker.
LEMMA ProgrammingKept ==
    ASSUME LiveInv, RunTrue, pc = "program", NEW r, NEW m,
           cell' = [cell EXCEPT ![wpage] = Programmed(@, woff, r, m)],
           r.kind # "commit", m.kind # "rec"
    PROVE  \A k : \A p \in Pages, i \in 1 .. PageCells :
              KeptOf(cell', k, p, i) <=>
                 \/ KeptOf(cell, k, p, i)
                 \/ /\ p = wpage /\ i = woff /\ r.kind = "rec" /\ r.key = k
                    /\ m.kind = "commit" /\ m.mg = r.mg
<1> TAKE k
<1> TAKE p \in Pages, i \in 1 .. PageCells
<1>1. /\ wpage \in Pages
      /\ woff \in 1 .. PageCells /\ woff + 1 \in 1 .. PageCells
      /\ cell[wpage][woff] = Blank /\ cell[wpage][woff + 1] = Blank
      /\ cell'[wpage][woff] = r /\ cell'[wpage][woff + 1] = m
      /\ \A q \in Pages, j \in 1 .. PageCells :
            q # wpage \/ (j # woff /\ j # woff + 1) => cell'[q][j] = cell[q][j]
  BY Programming
<1>2. i < PageCells => i + 1 \in 1 .. PageCells
  BY Constants
<1>3. CASE p # wpage
  BY <1>1, <1>2, <1>3 DEF KeptOf, Kept
<1>4. CASE p = wpage /\ i = woff
  <2>1. i < PageCells
    BY <1>1, <1>4, Constants
  <2>2. cell'[p][i] = r /\ cell'[p][i + 1] = m /\ cell[p][i] = Blank
    BY <1>1, <1>4
  <2> QED BY <1>4, <2>1, <2>2, CellForms DEF KeptOf, Kept
<1>5. CASE p = wpage /\ i = woff + 1
  BY <1>1, <1>5, CellForms DEF KeptOf, Kept
<1>6. CASE p = wpage /\ i + 1 = woff
  <2>1. i < PageCells /\ i # woff /\ i # woff + 1
    BY <1>1, <1>6, Constants
  <2>2. cell'[p][i] = cell[p][i] /\ cell'[p][i + 1] = r /\ cell[p][i + 1] = Blank
    BY <1>1, <1>6, <2>1
  <2> QED BY <1>6, <2>1, <2>2, CellForms DEF KeptOf, Kept
<1>7. CASE p = wpage /\ i # woff /\ i # woff + 1 /\ i + 1 # woff
  <2>1. cell'[p][i] = cell[p][i]
    BY <1>1, <1>7
  <2>2. i < PageCells => cell'[p][i + 1] = cell[p][i + 1]
    <3>1. i + 1 # woff + 1
      BY <1>1, <1>7
    <3> QED BY <1>1, <1>2, <1>7, <3>1
  <2> QED BY <1>7, <2>1, <2>2 DEF KeptOf, Kept
<1> QED BY <1>3, <1>4, <1>5, <1>6, <1>7

\* The pages stay filled from the front.
LEMMA ProgrammingFilled ==
    ASSUME LiveInv, FlashTrue, RunTrue, pc = "program", NEW r, NEW m,
           cell' = [cell EXCEPT ![wpage] = Programmed(@, woff, r, m)], hdr' = hdr,
           r.kind \in {"rec", "badrec"}, m = Blank \/ (m.kind = "commit" /\ r.kind = "rec" /\ r.mg = m.mg)
    PROVE  PagesFilled'
<1>1. /\ wpage \in Pages /\ hdr[wpage] = "v2"
      /\ woff \in 1 .. PageCells /\ woff + 1 \in 1 .. PageCells
      /\ cell[wpage][woff] = Blank /\ cell[wpage][woff + 1] = Blank
      /\ cell'[wpage][woff] = r /\ cell'[wpage][woff + 1] = m
      /\ \A q \in Pages, j \in 1 .. PageCells :
            q # wpage \/ (j # woff /\ j # woff + 1) => cell'[q][j] = cell[q][j]
  BY Programming
<1>2. \A j \in 1 .. PageCells : cell[wpage][j] = Blank <=> j >= woff
  BY DEF RunTrue, CursorAtBlank, Up, Down
<1>3. r # Blank
  BY CellForms
<1> SUFFICES ASSUME NEW p \in Pages PROVE Filled(cell'[p], hdr[p])
  BY DEF PagesFilled
<1>4. Filled(cell[p], hdr[p])
  BY DEF FlashTrue, PagesFilled
<1>5. CASE p # wpage
  <2>1. \A i \in 1 .. PageCells : cell'[p][i] = cell[p][i]
    BY <1>1, <1>5
  <2>2. \A i \in 1 .. PageCells : i > 1 => i - 1 \in 1 .. PageCells
    BY Constants
  <2>3. \A i \in 1 .. PageCells : \A j \in 1 .. i : j \in 1 .. PageCells
    BY Constants
  <2> QED BY <1>4, <2>1, <2>2, <2>3 DEF Filled
<1>6. CASE p = wpage
  <2> SUFFICES ASSUME NEW i \in 1 .. PageCells
      PROVE /\ cell'[p][i] # Blank => hdr[p] = "v2" /\ \A j \in 1 .. i : cell'[p][j] # Blank
            /\ cell'[p][i] = Blank \/ cell'[p][i].kind \in {"rec", "badrec", "commit"}
            /\ cell'[p][i].kind = "commit" =>
                  i > 1 /\ cell'[p][i - 1].kind = "rec" /\ cell'[p][i - 1].mg = cell'[p][i].mg
    BY DEF Filled
  <2>1. CASE i = woff
    <3>1. \A j \in 1 .. i : j \in 1 .. PageCells /\ (j # woff => j < woff /\ j # woff + 1)
      BY <1>1, <2>1, Constants
    <3>2. \A j \in 1 .. i : cell'[p][j] # Blank
      BY <1>1, <1>2, <1>3, <1>6, <2>1, <3>1
    <3> QED BY <1>1, <1>6, <2>1, <3>2
  <2>2. CASE i = woff + 1
    <3>1. \A j \in 1 .. i : j \in 1 .. PageCells /\ (j # woff /\ j # woff + 1 => j < woff)
      BY <1>1, <2>2, Constants
    <3>2. m # Blank => \A j \in 1 .. i : cell'[p][j] # Blank
      BY <1>1, <1>2, <1>3, <1>6, <2>2, <3>1
    <3>3. i > 1 /\ i - 1 = woff
      BY <1>1, <2>2
    <3> QED BY <1>1, <1>6, <2>2, <3>2, <3>3, CellForms
  <2>3. CASE i < woff
    <3>1. \A j \in 1 .. i : j \in 1 .. PageCells /\ j < woff /\ j # woff /\ j # woff + 1
      BY <1>1, <2>3, Constants
    <3>2. \A j \in 1 .. i : cell'[p][j] = cell[p][j] /\ cell[p][j] # Blank
      BY <1>1, <1>2, <1>6, <3>1
    <3>3. cell'[p][i] = cell[p][i] /\ (i > 1 => cell'[p][i - 1] = cell[p][i - 1])
      BY <3>2
    <3> QED BY <1>1, <1>4, <1>6, <3>2, <3>3 DEF Filled
  <2>4. CASE i > woff + 1
    <3>1. cell'[p][i] = Blank
      BY <1>1, <1>2, <1>6, <2>4
    <3> QED BY <3>1, CellForms
  <2> QED BY <1>1, <2>1, <2>2, <2>3, <2>4
<1> QED BY <1>5, <1>6

\* A flash that keeps fewer records of a key, and no other ones.
LEMMA FewerRecords ==
    ASSUME NEW c, NEW d, NEW k,
           \A p \in Pages, i \in 1 .. PageCells :
              KeptOf(d, k, p, i) => KeptOf(c, k, p, i) /\ d[p][i] = c[p][i]
    PROVE  /\ NoneKept(c, k) => NoneKept(d, k)
           /\ Apart(c, k) => Apart(d, k)
           /\ \A p, i : Latest(c, k, p, i) /\ KeptOf(d, k, p, i) => Latest(d, k, p, i)
<1>1. NoneKept(c, k) => NoneKept(d, k)
  BY DEF NoneKept
<1>2. Apart(c, k) => Apart(d, k)
  <2> SUFFICES ASSUME Apart(c, k), NEW p \in Pages, NEW q \in Pages,
                      NEW i \in 1 .. PageCells, NEW j \in 1 .. PageCells,
                      KeptOf(d, k, p, i), KeptOf(d, k, q, j), d[p][i].ver = d[q][j].ver
               PROVE  p = q /\ i = j
    BY DEF Apart
  <2>1. /\ KeptOf(c, k, p, i) /\ KeptOf(c, k, q, j)
        /\ d[p][i] = c[p][i] /\ d[q][j] = c[q][j]
    OBVIOUS
  <2> QED BY <2>1 DEF Apart
<1>3. ASSUME NEW p, NEW i, Latest(c, k, p, i), KeptOf(d, k, p, i)
      PROVE  Latest(d, k, p, i)
  <2>1. p \in Pages /\ i \in 1 .. PageCells
    BY <1>3 DEF Latest
  <2>2. d[p][i] = c[p][i]
    BY <1>3, <2>1
  <2>3. ASSUME NEW q \in Pages, NEW j \in 1 .. PageCells, KeptOf(d, k, q, j)
        PROVE  d[q][j].ver < d[p][i].ver \/ (q = p /\ j = i)
    <3>1. KeptOf(c, k, q, j) /\ d[q][j] = c[q][j]
      BY <2>3
    <3> QED BY <1>3, <2>2, <3>1 DEF Latest
  <2> QED BY <1>3, <2>1, <2>3 DEF Latest
<1> QED BY <1>1, <1>2, <1>3

\* A flash that keeps the same records of a key.
LEMMA SameRecords ==
    ASSUME NEW c, NEW d, NEW k,
           \A p \in Pages, i \in 1 .. PageCells :
              /\ KeptOf(d, k, p, i) <=> KeptOf(c, k, p, i)
              /\ KeptOf(c, k, p, i) => d[p][i] = c[p][i]
    PROVE  /\ NoneKept(c, k) => NoneKept(d, k)
           /\ Apart(c, k) => Apart(d, k)
           /\ \A p, i : Latest(c, k, p, i) => Latest(d, k, p, i) /\ d[p][i] = c[p][i]
           /\ \A v : Holds(c, k, v) => Holds(d, k, v)
<1>1. /\ NoneKept(c, k) => NoneKept(d, k)
      /\ Apart(c, k) => Apart(d, k)
      /\ \A p, i : Latest(c, k, p, i) /\ KeptOf(d, k, p, i) => Latest(d, k, p, i)
  BY FewerRecords
<1>2. ASSUME NEW p, NEW i, Latest(c, k, p, i)
      PROVE  Latest(d, k, p, i) /\ d[p][i] = c[p][i]
  <2>1. p \in Pages /\ i \in 1 .. PageCells /\ KeptOf(c, k, p, i)
    BY <1>2 DEF Latest
  <2> QED BY <1>1, <1>2, <2>1
<1>3. ASSUME NEW v, Holds(c, k, v) PROVE Holds(d, k, v)
  <2>1. v = Gone => NoneKept(d, k)
    BY <1>1, <1>3 DEF Holds
  <2>2. ASSUME v # Gone
        PROVE  \E p \in Pages, i \in 1 .. PageCells : Latest(d, k, p, i) /\ d[p][i].val = v
    <3>1. PICK p \in Pages, i \in 1 .. PageCells : Latest(c, k, p, i) /\ c[p][i].val = v
      BY <1>3, <2>2 DEF Holds
    <3> QED BY <1>2, <3>1
  <2> QED BY <2>1, <2>2 DEF Holds
<1> QED BY <1>1, <1>2, <1>3

LEMMA AppendRecordDurable ==
    ASSUME DurableFlash, WithinLimits, DurableInv, AppendRecord
    PROVE  FlashTrue' /\ RunTrue' /\ ScanTrue'
<1>0. /\ LiveInv /\ TypeInv /\ FlashTrue /\ RunTrue /\ CallTrue /\ pc = "program" /\ Up
      /\ ~Appended /\ TombstonesFuzzy /\ PagesFilled
  BY DEF DurableInv, LiveInv, RunTrue, FlashTrue, AppendRecord, Up, Down, Appended
<1>1. op.key \in Keys /\ op.val \in Vals \cup {Gone} /\ op.ver \in Nat /\ op.mg \in Nat
  <2>1. op \in Ops
    BY <1>0, Ranges
  <2>2. op.key \in Keys
    BY <1>0 DEF TypeInv, CarriedByCall, AppendingPC
  <2> QED BY <2>1, <2>2, Constants DEF Ops
<1>2. cell' = [cell EXCEPT ![wpage] = Programmed(@, woff, NewRecord, Commit(op.mg))]
  BY DEF AppendRecord, Skipped, DurableFlash
<1>3. /\ pc' = "prewarm" /\ woff' = woff + 2 /\ hdr' = hdr /\ idx' = idx /\ fuzzy' = fuzzy
      /\ wpage' = wpage /\ store' = [store EXCEPT ![op.key] = op.val]
  BY <1>1 DEF AppendRecord, WithinLimits
<1>4. /\ op'.key = op.key /\ op'.val = op.val /\ op'.ver = op.ver /\ op'.mg = op.mg
      /\ op'.page = wpage /\ op'.off = woff
  <2> DEFINE o == [op EXCEPT !.page = wpage]
  <2>0. op \in Ops /\ wpage \in 0 .. NumPages
    BY <1>0, Ranges, Constants
  <2>1. /\ o \in Ops /\ o.page = wpage
        /\ o.key = op.key /\ o.val = op.val /\ o.ver = op.ver /\ o.mg = op.mg
    BY <2>0 DEF Ops
  <2>2. op' = [o EXCEPT !.off = woff]
    BY DEF AppendRecord
  <2> HIDE DEF o
  <2> QED BY <2>1, <2>2 DEF Ops
<1>5. /\ NewRecord.kind = "rec" /\ NewRecord.key = op.key /\ NewRecord.val = op.val
      /\ NewRecord.ver = op.ver /\ NewRecord.mg = op.mg
      /\ Commit(op.mg).kind = "commit" /\ Commit(op.mg).mg = op.mg
  BY CellForms DEF NewRecord
<1>6. /\ wpage \in Pages
      /\ woff \in 1 .. PageCells /\ woff + 1 \in 1 .. PageCells
      /\ cell[wpage][woff] = Blank
      /\ cell'[wpage][woff] = NewRecord /\ cell'[wpage][woff + 1] = Commit(op.mg)
      /\ \A q \in Pages, j \in 1 .. PageCells :
            q # wpage \/ (j # woff /\ j # woff + 1) => cell'[q][j] = cell[q][j]
  BY <1>0, <1>2, Programming
<1>7. ASSUME NEW k, NEW p \in Pages, NEW i \in 1 .. PageCells
      PROVE  KeptOf(cell', k, p, i) <=>
                KeptOf(cell, k, p, i) \/ (p = wpage /\ i = woff /\ k = op.key)
  BY <1>0, <1>2, <1>5, ProgrammingKept
<1>8. ASSUME NEW p \in Pages, NEW i \in 1 .. PageCells, cell[p][i].kind = "rec"
      PROVE  cell'[p][i] = cell[p][i]
  <2>1. \A j \in 1 .. PageCells : cell[wpage][j] = Blank <=> j >= woff
    BY <1>0 DEF RunTrue, CursorAtBlank
  <2>2. p = wpage => i < woff
    BY <1>6, <1>8, <2>1, CellForms
  <2> QED BY <1>6, <2>2
<1>9. PagesFilled'
  BY <1>0, <1>2, <1>3, <1>5, ProgrammingFilled
<1>10. TombstonesFuzzy'
  <2> SUFFICES ASSUME NEW p \in Pages, NEW i \in 1 .. PageCells,
                      cell'[p][i].kind = "rec", cell'[p][i].val = Gone
               PROVE  cell'[p][i].key \in fuzzy
    BY <1>3 DEF TombstonesFuzzy
  <2>1. CASE p # wpage \/ (i # woff /\ i # woff + 1)
    BY <1>0, <1>6, <2>1 DEF TombstonesFuzzy
  <2>2. CASE p = wpage /\ i = woff
    BY <1>0, <1>5, <1>6, <2>2 DEF CallTrue, AppendingPC
  <2>3. CASE p = wpage /\ i = woff + 1
    BY <1>5, <1>6, <2>3
  <2> QED BY <2>1, <2>2, <2>3
<1>11. ASSUME NEW k \in Keys \ fuzzy, k # op.key
       PROVE  /\ Holds(cell', k, store'[k]) /\ Apart(cell', k)
              /\ IndexedRight(k)'
  <2>1. \A p \in Pages, i \in 1 .. PageCells :
           /\ KeptOf(cell', k, p, i) <=> KeptOf(cell, k, p, i)
           /\ KeptOf(cell, k, p, i) => cell'[p][i] = cell[p][i]
    BY <1>7, <1>8, <1>11 DEF KeptOf, Kept
  <2>2. /\ NoneKept(cell, k) => NoneKept(cell', k)
        /\ Apart(cell, k) => Apart(cell', k)
        /\ \A p, i : Latest(cell, k, p, i) => Latest(cell', k, p, i) /\ cell'[p][i] = cell[p][i]
        /\ \A v : Holds(cell, k, v) => Holds(cell', k, v)
    BY <2>1, SameRecords
  <2>3. store'[k] = store[k]
    BY <1>0, <1>3, <1>11 DEF TypeInv, TypeOK, CallType
  <2>4. Holds(cell, k, store[k]) /\ Apart(cell, k)
    BY <1>0 DEF FlashTrue, OnFlash
  <2>5. IndexedRight(k)
    BY <1>0 DEF RunTrue, IndexLatest, Behind
  <2>6. Indexed(k)' = Indexed(k)
    BY <1>3 DEF Indexed
  <2> QED BY <1>3, <2>2, <2>3, <2>4, <2>5, <2>6 DEF IndexedRight
<1>12. ASSUME op.key \notin fuzzy
       PROVE  /\ Holds(cell', op.key, op.val) /\ Apart(cell', op.key)
              /\ Latest(cell', op.key, wpage, woff)
  <2> DEFINE k == op.key
  <2>1. op.val # Gone /\ op.ver > idx[k].ver
    BY <1>0, <1>12 DEF CallTrue, AppendingPC
  <2>2. IndexedRight(k) /\ Apart(cell, k)
    BY <1>0, <1>1, <1>12 DEF RunTrue, IndexLatest, Behind, FlashTrue, OnFlash
  <2>3. ASSUME NEW q \in Pages, NEW j \in 1 .. PageCells, KeptOf(cell, k, q, j)
        PROVE  cell'[q][j] = cell[q][j] /\ cell[q][j].ver < op.ver
    <3>1. Indexed(k) /\ Latest(cell, k, idx[k].page, idx[k].off)
          /\ idx[k].ver = cell[idx[k].page][idx[k].off].ver
      BY <2>2, <2>3 DEF IndexedRight, NoneKept
    <3>2. cell[q][j].ver <= idx[k].ver
      <4>1. cell[q][j].ver \in Nat /\ idx[k].ver \in Nat
        BY <1>0, <1>1, <2>3, LocationOf DEF KeptOf, Kept
      <4>2. \/ cell[q][j].ver < cell[idx[k].page][idx[k].off].ver
            \/ q = idx[k].page /\ j = idx[k].off
        BY <2>3, <3>1 DEF Latest
      <4> QED BY <3>1, <4>1, <4>2
    <3>3. cell[q][j].ver \in Nat /\ idx[k].ver \in Nat
      BY <1>0, <1>1, <2>3, LocationOf DEF KeptOf, Kept
    <3>4. cell'[q][j] = cell[q][j]
      BY <1>8, <2>3 DEF KeptOf, Kept
    <3> QED BY <1>1, <2>1, <3>2, <3>3, <3>4
  <2>4. KeptOf(cell', k, wpage, woff) /\ cell'[wpage][woff].ver = op.ver
        /\ cell'[wpage][woff].val = op.val
    BY <1>5, <1>6, <1>7
  <2>5. Latest(cell', k, wpage, woff)
    <3> SUFFICES ASSUME NEW q \in Pages, NEW j \in 1 .. PageCells, KeptOf(cell', k, q, j)
                 PROVE  cell'[q][j].ver < cell'[wpage][woff].ver \/ (q = wpage /\ j = woff)
      BY <1>6, <2>4 DEF Latest
    <3> QED BY <1>7, <2>3, <2>4
  <2>6. Apart(cell', k)
    <3> SUFFICES ASSUME NEW p \in Pages, NEW q \in Pages,
                        NEW i \in 1 .. PageCells, NEW j \in 1 .. PageCells,
                        KeptOf(cell', k, p, i), KeptOf(cell', k, q, j),
                        cell'[p][i].ver = cell'[q][j].ver
                 PROVE  p = q /\ i = j
      BY DEF Apart
    <3>1. KeptOf(cell, k, p, i) \/ (p = wpage /\ i = woff)
      BY <1>7
    <3>2. KeptOf(cell, k, q, j) \/ (q = wpage /\ j = woff)
      BY <1>7
    <3>3. CASE KeptOf(cell, k, p, i) /\ KeptOf(cell, k, q, j)
      <4>1. cell[p][i].ver = cell[q][j].ver
        BY <2>3, <3>3
      <4> QED BY <2>2, <3>3, <4>1 DEF Apart
    <3>4. KeptOf(cell, k, p, i) => cell'[p][i].ver < op.ver /\ cell'[p][i].ver \in Nat
      BY <1>0, <2>3, LocationOf DEF KeptOf, Kept
    <3>5. KeptOf(cell, k, q, j) => cell'[q][j].ver < op.ver /\ cell'[q][j].ver \in Nat
      BY <1>0, <2>3, LocationOf DEF KeptOf, Kept
    <3> QED BY <1>1, <2>4, <3>1, <3>2, <3>3, <3>4, <3>5
  <2> QED BY <1>6, <2>1, <2>4, <2>5, <2>6 DEF Holds
<1>13. store'[op.key] = op.val /\ \A k \in Keys : k # op.key => store'[k] = store[k]
  BY <1>0, <1>1, <1>3 DEF TypeInv, TypeOK, CallType
<1>14. FlashTrue'
  <2>1. OnFlash'
    BY <1>3, <1>11, <1>12, <1>13 DEF OnFlash
  <2> QED BY <1>9, <1>10, <2>1 DEF FlashTrue
<1>15. Up' /\ ~Down' /\ Appended'
  BY <1>3 DEF Up, Down, Appended
<1>16. \A k : Behind(k)' <=> k = op.key
  BY <1>4, <1>15 DEF Behind
<1>17. CursorAtBlank'
  <2>1. \A i \in 1 .. PageCells : cell[wpage][i] = Blank <=> i >= woff
    BY <1>0 DEF RunTrue, CursorAtBlank
  <2>2. cell'[wpage][woff] # Blank /\ cell'[wpage][woff + 1] # Blank
    BY <1>5, <1>6, CellForms
  <2>3. ASSUME NEW i \in 1 .. PageCells
        PROVE  cell'[wpage][i] = Blank <=> i >= woff + 2
    <3>1. i # woff /\ i # woff + 1 => (cell'[wpage][i] = Blank <=> i >= woff)
      BY <1>6, <2>1
    <3> QED BY <1>6, <2>2, <3>1
  <2> QED BY <1>3, <2>3 DEF CursorAtBlank
<1>18. IndexLatest'
  <2> SUFFICES ASSUME NEW k \in Keys \ fuzzy
               PROVE  IF Behind(k)' THEN Latest(cell', k, wpage, woff) ELSE IndexedRight(k)'
    BY <1>3, <1>4 DEF IndexLatest
  <2> QED BY <1>11, <1>12, <1>16
<1>19. ReadsStore'
  <2> SUFFICES ASSUME NEW k \in Keys, k # op.key PROVE Get(k)' = store'[k]
    BY <1>16 DEF ReadsStore
  <2>1. Next
    BY DEF Next, AppendStep
  <2>2. Get(k)' = Get(k)
    BY <1>0, <1>3, <2>1, SameRead
  <2>3. Get(k) = store[k]
    BY <1>0 DEF RunTrue, ReadsStore, Behind
  <2> QED BY <1>13, <2>2, <2>3
<1>20. CallTrue'
  <2>1. NewRecord' = NewRecord
    BY <1>4 DEF NewRecord
  <2>2. op'.val = Gone => op'.key \in fuzzy'
    BY <1>0, <1>3, <1>4 DEF CallTrue, AppendingPC
  <2>3. cell'[op'.page][op'.off] = NewRecord' /\ store'[op'.key] = op'.val
    BY <1>4, <1>6, <1>13, <2>1
  <2> QED BY <1>3, <2>2, <2>3 DEF CallTrue
<1> QED BY <1>3, <1>14, <1>15, <1>17, <1>18, <1>19, <1>20 DEF RunTrue, Wiped, ScanTrue

-----------------------------------------------------------------------------
(* The other steps of append_record, and the compactor and the dead log.   *)

\* A step that moves neither a record nor the index nor the write cursor.
LEMMA QuietStep ==
    ASSUME DurableInv, Up, Up', cell' = cell, idx' = idx, wpage' = wpage, woff' = woff,
           store' = store, fuzzy' = fuzzy,
           \A p \in Pages : hdr'[p] = hdr[p] \/ \A i \in 1 .. PageCells : cell[p][i] = Blank,
           (Appended' /\ Appended) \/ (~Appended' /\ ~Appended),
           pc' \in AppendingPC => pc \in AppendingPC /\ op' = op
                                  /\ (pc' \in {"ready", "program"} => pc \in {"ready", "program"})
    PROVE  FlashTrue' /\ RunTrue' /\ ScanTrue'
<1>0. TypeInv /\ FlashTrue /\ RunTrue /\ CallTrue
  BY DEF DurableInv, LiveInv, RunTrue
<1>1. FlashTrue'
  BY <1>0, FlashSame
<1>2. (Appended' /\ Appended /\ op' = op) \/ (~Appended' /\ ~Appended)
  BY DEF Appended, AppendingPC
<1>3. CursorAtBlank' /\ IndexLatest' /\ ReadsStore'
  BY <1>0, <1>2, RunSame
<1>4. CallTrue'
  <2>1. CASE pc' \notin AppendingPC
    BY <2>1 DEF CallTrue, Appended, AppendingPC
  <2>2. CASE pc' \in AppendingPC
    BY <1>0, <1>2, <2>2 DEF CallTrue, NewRecord, AppendingPC
  <2> QED BY <2>1, <2>2
<1> QED BY <1>1, <1>3, <1>4 DEF RunTrue, Wiped, Up, ScanTrue

LEMMA AppendStepDurable ==
    ASSUME DurableFlash, WithinLimits, DurableInv, AppendStep
    PROVE  FlashTrue' /\ RunTrue' /\ ScanTrue'
<1>0. TypeInv /\ LiveInv /\ PagesFilled /\ wpage \in Pages
  BY Ranges DEF DurableInv, LiveInv, FlashTrue
<1>1. ASSUME NEW p \in Pages, WriteHeader(p), hdr[p] = "free"
      PROVE  /\ cell' = cell
             /\ \A q \in Pages : hdr'[q] = hdr[q] \/ \A i \in 1 .. PageCells : cell[q][i] = Blank
  <2>1. \A i \in 1 .. PageCells : cell[p][i] = Blank
    BY <1>0, <1>1, BlankPage
  <2>2. \A q \in Pages : q # p => hdr'[q] = hdr[q]
    BY <1>0, <1>1, Ranges DEF WriteHeader
  <2>3. cell' = cell
    BY <1>1 DEF WriteHeader
  <2> QED BY <2>1, <2>2, <2>3
<1>2. CASE EnsureErased
  <2>1. /\ pc = "ready" /\ hdr[wpage] # "v2" /\ ErasePage(wpage)
        /\ pc' = pc /\ op' = op /\ idx' = idx /\ wpage' = wpage /\ woff' = woff
        /\ store' = store /\ fuzzy' = fuzzy
    BY <1>2 DEF EnsureErased, ramVars, logVars, ghosts
  <2>2. \A i \in 1 .. PageCells : cell[wpage][i] = Blank
    BY <1>0, <2>1, BlankPage
  <2>3. cell' = cell
    BY <1>0, <2>1, <2>2, EraseBlank
  <2>4. \A q \in Pages : q # wpage => hdr'[q] = hdr[q]
    BY <1>0, <2>1, EraseKept
  <2>5. Up /\ Up' /\ ~Appended /\ ~Appended'
    BY <2>1 DEF Up, Down, Appended
  <2> QED BY <2>1, <2>2, <2>3, <2>4, <2>5, QuietStep
<1>3. CASE EnsureHeader
  <2>1. /\ pc = "ready" /\ hdr[wpage] = "free" /\ WriteHeader(wpage)
        /\ pc' = "program" /\ op' = op /\ idx' = idx /\ wpage' = wpage /\ woff' = woff
        /\ store' = store /\ fuzzy' = fuzzy
    BY <1>3 DEF EnsureHeader, ghosts
  <2>2. Up /\ Up' /\ ~Appended /\ ~Appended' /\ pc \in AppendingPC
    BY <2>1 DEF Up, Down, Appended, AppendingPC
  <2> QED BY <1>0, <1>1, <2>1, <2>2, QuietStep
<1>4. CASE EnsureReady
  <2>1. /\ pc = "ready" /\ cell' = cell /\ hdr' = hdr
        /\ pc' = "program" /\ op' = op /\ idx' = idx /\ wpage' = wpage /\ woff' = woff
        /\ store' = store /\ fuzzy' = fuzzy
    BY <1>4 DEF EnsureReady, flashVars, ramVars, logVars, ghosts
  <2>2. Up /\ Up' /\ ~Appended /\ ~Appended' /\ pc \in AppendingPC
    BY <2>1 DEF Up, Down, Appended, AppendingPC
  <2> QED BY <2>1, <2>2, QuietStep
<1>5. CASE AppendRecord
  BY <1>5, AppendRecordDurable
<1>6. CASE Prewarm
  <2>1. /\ pc = "prewarm"
        /\ pc' = "index" /\ op' = op /\ idx' = idx /\ wpage' = wpage /\ woff' = woff
        /\ store' = store /\ fuzzy' = fuzzy
    BY <1>6 DEF Prewarm, ghosts
  <2>2. /\ Up /\ Up' /\ Appended /\ Appended' /\ pc \in AppendingPC
        /\ pc' \notin {"ready", "program"}
    BY <2>1 DEF Up, Down, Appended, AppendingPC
  <2>3. /\ cell' = cell
        /\ \A q \in Pages : hdr'[q] = hdr[q] \/ \A i \in 1 .. PageCells : cell[q][i] = Blank
    <3>1. CASE \E p \in Pages : PrewarmTarget(p) /\ WriteHeader(p)
      BY <1>1, <3>1 DEF PrewarmTarget
    <3>2. CASE UNCHANGED <<hdr, cell>>
      BY <3>2
    <3> QED BY <1>6, <3>1, <3>2 DEF Prewarm
  <2> QED BY <2>1, <2>2, <2>3, QuietStep
<1> QED BY <1>2, <1>3, <1>4, <1>5, <1>6 DEF AppendStep

LEMMA IndexStepDurable ==
    ASSUME DurableFlash, WithinLimits, DurableInv, IndexStep
    PROVE  FlashTrue' /\ RunTrue' /\ ScanTrue'
<1>0. /\ TypeInv /\ LiveInv /\ FlashTrue /\ RunTrue /\ CallTrue /\ Up
      /\ idx \in [Keys -> Entries]
  BY DEF DurableInv, LiveInv, RunTrue, IndexStep, IndexPut, IndexFull, IndexDelete, DeadlogAppend,
         Up, Down, TypeInv, TypeOK, IndexType
<1>1. CASE DeadlogAppend
  <2>1. /\ pc = "deadlog" /\ cell' = cell /\ hdr' = hdr /\ pc' = "idle"
        /\ idx' = idx /\ wpage' = wpage /\ woff' = woff
        /\ store' = store /\ fuzzy' = fuzzy
    BY <1>1 DEF DeadlogAppend, logVars, ghosts
  <2>2. Up' /\ ~Appended /\ ~Appended' /\ pc' \notin AppendingPC
    BY <2>1 DEF Up, Down, Appended, AppendingPC
  <2> QED BY <1>0, <2>1, <2>2, QuietStep
<1>2. CASE IndexPut \/ IndexDelete
  <2>0. PICK k \in Keys : k = op.key
    BY <1>0, <1>2 DEF IndexPut, IndexDelete, AppendingPC, TypeInv, CarriedByCall
  <2>1. /\ pc = "index" /\ Appended /\ op.page \in Pages
        /\ cell[op.page][op.off] = NewRecord /\ store[k] = op.val
        /\ op.val = Gone => k \in fuzzy
    BY <1>0, <1>2, <2>0 DEF IndexPut, IndexDelete, Appended, CallTrue, AppendingPC, TypeInv, CarriedByCall
  <2>2. /\ cell' = cell /\ hdr' = hdr /\ pc' \in {"idle", "deadlog"}
        /\ wpage' = wpage /\ woff' = woff /\ store' = store /\ fuzzy' = fuzzy
        /\ idx' = [idx EXCEPT ![k] = IF op.val = Gone THEN Absent
                                     ELSE [page |-> op.page, off |-> op.off, ver |-> op.ver]]
    BY <1>2, <2>0 DEF IndexPut, IndexDelete, EndOrDeadlog, flashVars, logVars, ghosts, IdxSet, IdxRemove
  <2>3. Up' /\ ~Down' /\ ~Appended' /\ pc' \notin AppendingPC /\ pc' # "wipe"
    BY <2>2 DEF Up, Down, Appended, AppendingPC
  <2>4. FlashTrue'
    BY <1>0, <2>2, FlashSame
  <2>5. CursorAtBlank'
    BY <1>0, <2>2 DEF RunTrue, CursorAtBlank
  <2>6. \A j : ~Behind(j)' /\ (Behind(j) <=> j = k)
    BY <2>0, <2>1, <2>3 DEF Behind
  <2>7. ASSUME NEW j \in Keys, j # k
        PROVE  idx'[j] = idx[j] /\ Indexed(j)' = Indexed(j) /\ Get(j)' = Get(j)
               /\ IndexedRight(j)' = IndexedRight(j)
    <3>1. idx'[j] = idx[j]
      BY <1>0, <2>2, <2>7
    <3>2. Indexed(j)' = Indexed(j)
      BY <3>1 DEF Indexed
    <3>3. Get(j)' = Get(j)
      BY <2>2, <3>1, <3>2 DEF Get
    <3>4. IndexedRight(j)' = IndexedRight(j)
      BY <2>2, <3>1, <3>2 DEF IndexedRight
    <3> QED BY <3>1, <3>2, <3>3, <3>4
  <2>8. /\ NewRecord.kind = "rec" /\ NewRecord.key = k /\ NewRecord.val = op.val
        /\ NewRecord.ver = op.ver
    BY <2>0, CellForms DEF NewRecord
  <2>9. CallTrue' /\ Wiped' /\ ScanTrue'
    BY <2>2, <2>3 DEF CallTrue, Appended, AppendingPC, Wiped, ScanTrue
  <2>10. CASE op.val # Gone
    <3>1. /\ idx'[k].page = op.page /\ idx'[k].off = op.off /\ idx'[k].ver = op.ver
      BY <1>0, <2>1, <2>2, <2>10
    <3>2. Indexed(k)'
      BY <2>1, <3>1, Constants DEF Indexed
    <3>3. Get(k)' = store'[k]
      BY <2>1, <2>2, <2>8, <3>1, <3>2 DEF Get
    <3>4. k \notin fuzzy => IndexedRight(k)'
      <4>1. k \notin fuzzy => Latest(cell, k, op.page, op.off)
        BY <1>0, <2>1, <2>6 DEF RunTrue, IndexLatest
      <4> QED BY <2>1, <2>2, <2>8, <3>1, <3>2, <4>1 DEF IndexedRight
    <3>5. IndexLatest'
      <4> SUFFICES ASSUME NEW j \in Keys \ fuzzy PROVE IndexedRight(j)'
        BY <2>2, <2>6 DEF IndexLatest
      <4>1. j # k => IndexedRight(j)
        BY <1>0, <2>6 DEF RunTrue, IndexLatest
      <4> QED BY <2>7, <3>4, <4>1
    <3>6. ReadsStore'
      <4> SUFFICES ASSUME NEW j \in Keys PROVE Get(j)' = store[j]
        BY <2>2 DEF ReadsStore
      <4>1. j # k => Get(j) = store[j]
        BY <1>0, <2>6 DEF RunTrue, ReadsStore
      <4> QED BY <2>2, <2>7, <3>3, <4>1
    <3> QED BY <2>4, <2>5, <2>9, <3>5, <3>6 DEF RunTrue
  <2>11. CASE op.val = Gone
    <3>1. idx'[k] = Absent
      BY <1>0, <2>1, <2>2, <2>11
    <3>2. ~Indexed(k)'
      BY <3>1 DEF Indexed, Absent
    <3>3. Get(k)' = store'[k]
      BY <2>1, <2>2, <2>11, <3>2 DEF Get
    <3>5. IndexLatest'
      <4> SUFFICES ASSUME NEW j \in Keys \ fuzzy PROVE IndexedRight(j)'
        BY <2>2, <2>6 DEF IndexLatest
      <4>1. j # k
        BY <2>1, <2>11
      <4>2. IndexedRight(j)
        BY <1>0, <2>6, <4>1 DEF RunTrue, IndexLatest
      <4> QED BY <2>7, <4>1, <4>2
    <3>6. ReadsStore'
      <4> SUFFICES ASSUME NEW j \in Keys PROVE Get(j)' = store[j]
        BY <2>2 DEF ReadsStore
      <4>1. j # k => Get(j) = store[j]
        BY <1>0, <2>6 DEF RunTrue, ReadsStore
      <4> QED BY <2>2, <2>7, <3>3, <4>1
    <3> QED BY <2>4, <2>5, <2>9, <3>5, <3>6 DEF RunTrue
  <2> QED BY <2>10, <2>11
<1>3. CASE IndexFull
  <2>1. op.key \in Keys
    BY <1>0, <1>3 DEF IndexFull, TypeInv, CarriedByCall, AppendingPC
  <2> QED BY <1>3, <2>1 DEF IndexFull, WithinLimits
<1> QED BY <1>1, <1>2, <1>3 DEF IndexStep

\* Erasing a page leaves the pages filled, and leaves no tombstone behind.
LEMMA EraseFilled ==
    ASSUME TypeInv, FlashTrue, NEW p \in Pages, ErasePage(p), fuzzy' = fuzzy
    PROVE  PagesFilled' /\ TombstonesFuzzy'
<1>1. /\ \A q \in Pages : cell'[q] = IF q = p THEN [i \in 1 .. PageCells |-> Blank] ELSE cell[q]
      /\ \A q \in Pages : hdr'[q] = IF q = p THEN "free" ELSE hdr[q]
  BY EraseKept
<1>2. PagesFilled'
  <2> SUFFICES ASSUME NEW q \in Pages PROVE Filled(cell'[q], hdr'[q])
    BY DEF PagesFilled
  <2>1. CASE q = p
    <3>1. \A i \in 1 .. PageCells : cell'[q][i] = Blank
      BY <1>1, <2>1
    <3> QED BY <3>1, CellForms DEF Filled
  <2>2. CASE q # p
    BY <1>1, <2>2 DEF FlashTrue, PagesFilled
  <2> QED BY <2>1, <2>2
<1>3. TombstonesFuzzy'
  <2> SUFFICES ASSUME NEW q \in Pages, NEW i \in 1 .. PageCells,
                      cell'[q][i].kind = "rec", cell'[q][i].val = Gone
               PROVE  cell'[q][i].key \in fuzzy
    BY DEF TombstonesFuzzy
  <2>1. q # p
    BY <1>1, CellForms
  <2> QED BY <1>1, <2>1 DEF FlashTrue, TombstonesFuzzy
<1> QED BY <1>2, <1>3

LEMMA CompactDurable ==
    ASSUME DurableFlash, WithinLimits, DurableInv, CompactStep
    PROVE  FlashTrue' /\ RunTrue' /\ ScanTrue'
<1>0. TypeInv /\ LiveInv /\ WriterBehind /\ FlashTrue /\ RunTrue
  BY DEF DurableInv, LiveInv
<1>1. CASE Compact
  <2>1. /\ pc = "idle" /\ cell' = cell /\ hdr' = hdr /\ pc' \in {"idle", "reclaim"}
        /\ idx' = idx /\ wpage' = wpage /\ woff' = woff
        /\ store' = store /\ fuzzy' = fuzzy
    BY <1>1 DEF Compact, flashVars, logVars, ghosts
  <2>2. Up /\ Up' /\ ~Appended /\ ~Appended' /\ pc' \notin AppendingPC
    BY <2>1 DEF Up, Down, Appended, AppendingPC
  <2> QED BY <2>1, <2>2, QuietStep
<1>2. CASE Reclaim
  <2>1. /\ pc = "reclaim" /\ ErasePage(op.old) /\ pc' = "idle"
        /\ idx' = idx /\ wpage' = wpage /\ woff' = woff
        /\ store' = store /\ fuzzy' = fuzzy
    BY <1>2 DEF Reclaim, ramVars, logVars, ghosts
  <2>2. /\ Up /\ Up' /\ ~Down' /\ pc' # "wipe" /\ ~Appended /\ ~Appended' /\ CallTrue'
    BY <2>1 DEF Up, Down, Appended, CallTrue, AppendingPC
  <2>3. PICK p \in Pages : p = op.old
    BY <1>0, <2>1 DEF TypeInv, CarriedByCall
  <2>4. p # wpage /\ Live(p) = {} /\ ErasePage(p)
    BY <1>0, <2>1, <2>2, <2>3 DEF WriterBehind
  <2>5. /\ \A q \in Pages : q # p => cell'[q] = cell[q]
        /\ \A k : \A q \in Pages, i \in 1 .. PageCells :
              KeptOf(cell', k, q, i) <=> q # p /\ KeptOf(cell, k, q, i)
    BY <1>0, <2>4, EraseKept
  <2>6. PagesFilled' /\ TombstonesFuzzy'
    BY <1>0, <2>1, <2>4, EraseFilled
  <2>7. ASSUME NEW k \in Keys \ fuzzy
        PROVE  /\ Holds(cell', k, store[k]) /\ Apart(cell', k)
               /\ IndexedRight(k)'
    <3>1. /\ Holds(cell, k, store[k]) /\ Apart(cell, k) /\ IndexedRight(k)
      BY <1>0, <2>2 DEF FlashTrue, OnFlash, RunTrue, IndexLatest, Behind
    <3>2. \A q \in Pages, i \in 1 .. PageCells :
             KeptOf(cell', k, q, i) => KeptOf(cell, k, q, i) /\ cell'[q][i] = cell[q][i]
      BY <2>5
    <3>3. /\ NoneKept(cell, k) => NoneKept(cell', k)
          /\ Apart(cell, k) => Apart(cell', k)
          /\ \A q, i : Latest(cell, k, q, i) /\ KeptOf(cell', k, q, i) => Latest(cell', k, q, i)
      BY <3>2, FewerRecords
    <3>4. Indexed(k)' = Indexed(k)
      BY <2>1 DEF Indexed
    <3>5. CASE Indexed(k)
      <4>1. Latest(cell, k, idx[k].page, idx[k].off)
        BY <3>1, <3>5 DEF IndexedRight
      <4>2. /\ idx[k].page \in Pages /\ idx[k].off \in 1 .. PageCells
            /\ KeptOf(cell, k, idx[k].page, idx[k].off)
        BY <4>1 DEF Latest
      <4>3. idx[k].page # p
        BY <2>4 DEF Live
      <4>4. /\ Latest(cell', k, idx[k].page, idx[k].off)
            /\ cell'[idx[k].page] = cell[idx[k].page]
        BY <2>5, <3>3, <4>1, <4>2, <4>3
      <4>5. IndexedRight(k)'
        BY <2>1, <3>1, <3>4, <3>5, <4>4 DEF IndexedRight
      <4>6. store[k] # Gone
        BY <3>1, <4>2 DEF Holds, NoneKept
      <4>7. cell[idx[k].page][idx[k].off].val = store[k]
        <5>1. PICK q \in Pages, i \in 1 .. PageCells :
                 Latest(cell, k, q, i) /\ cell[q][i].val = store[k]
          BY <3>1, <4>6 DEF Holds
        <5> QED BY <1>0, <4>1, <5>1, OneLatest
      <4>8. Holds(cell', k, store[k])
        BY <4>2, <4>4, <4>6, <4>7 DEF Holds
      <4> QED BY <3>1, <3>3, <4>5, <4>8
    <3>6. CASE ~Indexed(k)
      <4>1. NoneKept(cell, k)
        BY <3>1, <3>6 DEF IndexedRight
      <4>2. store[k] = Gone
        BY <3>1, <4>1 DEF Holds, Latest, NoneKept
      <4> QED BY <3>1, <3>3, <3>4, <3>6, <4>1, <4>2 DEF Holds, IndexedRight
    <3> QED BY <3>5, <3>6
  <2>8. FlashTrue'
    BY <2>1, <2>6, <2>7 DEF FlashTrue, OnFlash
  <2>9. CursorAtBlank'
    BY <1>0, <2>1, <2>2, <2>4, <2>5, Ranges DEF RunTrue, CursorAtBlank
  <2>10. IndexLatest'
    BY <2>1, <2>2, <2>7 DEF IndexLatest, Behind
  <2>11. ReadsStore'
    <3> SUFFICES ASSUME NEW k \in Keys PROVE Get(k)' = store[k]
      BY <2>1 DEF ReadsStore
    <3>1. Next
      BY DEF Next
    <3>2. Get(k)' = Get(k)
      BY <1>0, <2>1, <3>1, SameRead
    <3> QED BY <1>0, <2>2, <3>2 DEF RunTrue, ReadsStore, Behind
  <2> QED BY <2>2, <2>8, <2>9, <2>10, <2>11 DEF RunTrue, Wiped, ScanTrue
<1> QED BY <1>1, <1>2 DEF CompactStep

LEMMA WipeDurable ==
    ASSUME DurableFlash, WithinLimits, DurableInv, WipeStep
    PROVE  FlashTrue' /\ RunTrue' /\ ScanTrue'
<1>0. /\ TypeInv /\ LiveInv /\ FlashTrue /\ RunTrue /\ pc = "wipe"
      /\ PagesFilled /\ TombstonesFuzzy
      /\ fuzzy = Keys /\ store = [k \in Keys |-> Gone]
      /\ \A p \in Pages : p < op.old => \A i \in 1 .. PageCells : cell[p][i] = Blank
  BY DEF DurableInv, LiveInv, WipeStep, WipePage, WipeDead, WipeEnd, FlashTrue, RunTrue, Wiped
<1>1. op \in Ops /\ op.old \in Nat
  <2>1. op \in Ops
    BY <1>0, Ranges
  <2> QED BY <2>1, Constants DEF Ops
<1>2. CASE WipePage \/ WipeDead
  <2>1. /\ pc' = "wipe" /\ store' = store /\ fuzzy' = fuzzy
        /\ op'.old = op.old + 1
    BY <1>1, <1>2 DEF WipePage, WipeDead, ghosts, Ops
  <2>2. ~Up' /\ ~Down' /\ ~Appended' /\ pc' \notin AppendingPC
    BY <2>1 DEF Up, Down, Appended, AppendingPC
  <2>3. CallTrue'
    BY <2>1 DEF CallTrue, Appended, AppendingPC
  <2>4. PagesFilled' /\ TombstonesFuzzy'
        /\ \A p \in Pages : p < op'.old => \A i \in 1 .. PageCells : cell'[p][i] = Blank
    <3>1. CASE WipePage
      <4>1. PICK p \in Pages : p = op.old
        BY <3>1 DEF WipePage
      <4>2. ErasePage(p)
        BY <3>1, <4>1 DEF WipePage
      <4>3. \A q \in Pages : cell'[q] = IF q = p THEN [i \in 1 .. PageCells |-> Blank] ELSE cell[q]
        BY <1>0, <4>2, EraseKept
      <4>4. ASSUME NEW q \in Pages, q < op'.old, NEW i \in 1 .. PageCells
            PROVE  cell'[q][i] = Blank
        <5>1. q = p \/ q < op.old
          BY <2>1, <4>1, <4>4, Constants
        <5>2. CASE q = p
          BY <4>3, <5>2
        <5>3. CASE q # p
          <6>1. cell'[q] = cell[q]
            BY <4>3, <5>3
          <6> QED BY <1>0, <5>1, <5>3, <6>1
        <5> QED BY <5>2, <5>3
      <4> QED BY <1>0, <2>1, <4>2, <4>4, EraseFilled
    <3>2. CASE WipeDead
      <4>1. cell' = cell /\ hdr' = hdr /\ op.old >= NumPages
        BY <1>1, <3>2, Constants DEF WipeDead, DeadPages
      <4>2. \A p \in Pages : p < op.old
        BY <1>1, <4>1, Constants
      <4>3. FlashTrue'
        BY <1>0, <2>1, <4>1, FlashSame
      <4> QED BY <1>0, <4>1, <4>2, <4>3 DEF FlashTrue
    <3> QED BY <1>2, <3>1, <3>2
  <2>5. FlashTrue'
    BY <1>0, <2>1, <2>4 DEF FlashTrue, OnFlash
  <2>6. Wiped'
    BY <1>0, <2>1, <2>4 DEF Wiped
  <2> QED BY <2>2, <2>3, <2>5, <2>6
          DEF RunTrue, CursorAtBlank, IndexLatest, ReadsStore, ScanTrue
<1>3. CASE WipeEnd
  <2>1. /\ pc' = "idle" /\ cell' = cell /\ hdr' = hdr /\ store' = store /\ fuzzy' = {}
        /\ idx' = [k \in Keys |-> Absent] /\ wpage' = 0 /\ woff' = 1
        /\ op.old = NumPages + DeadSectors
    BY <1>3 DEF WipeEnd, flashVars
  <2>2. Up' /\ ~Down' /\ ~Appended' /\ pc' # "wipe" /\ CallTrue'
    BY <2>1 DEF Up, Down, Appended, CallTrue, AppendingPC
  <2>3. \A p \in Pages, i \in 1 .. PageCells : cell[p][i] = Blank
    <3>1. \A p \in Pages : p < op.old
      BY <2>1, Constants
    <3> QED BY <1>0, <3>1
  <2>4. \A k : NoneKept(cell, k) /\ Apart(cell, k)
    <3>1. \A k : \A p \in Pages, i \in 1 .. PageCells : ~KeptOf(cell, k, p, i)
      BY <2>3, CellForms DEF KeptOf, Kept
    <3> QED BY <3>1 DEF NoneKept, Apart
  <2>5. FlashTrue'
    <3>1. PagesFilled'
      BY <1>0, <2>1 DEF PagesFilled
    <3>2. TombstonesFuzzy'
      BY <2>1, <2>3, CellForms DEF TombstonesFuzzy
    <3>3. OnFlash'
      BY <1>0, <2>1, <2>4 DEF OnFlash, Holds
    <3> QED BY <3>1, <3>2, <3>3 DEF FlashTrue
  <2>6. \A k \in Keys : ~Indexed(k)'
    BY <2>1 DEF Indexed, Absent
  <2>7. CursorAtBlank'
    BY <2>1, <2>3, Constants DEF CursorAtBlank
  <2>8. IndexLatest'
    BY <2>1, <2>2, <2>4, <2>6 DEF IndexLatest, Behind, IndexedRight
  <2>9. ReadsStore'
    <3> SUFFICES ASSUME NEW k \in Keys PROVE Get(k)' = store[k]
      BY <2>1 DEF ReadsStore
    <3> QED BY <1>0, <2>6 DEF Get
  <2> QED BY <2>2, <2>5, <2>7, <2>8, <2>9 DEF RunTrue, Wiped, ScanTrue
<1> QED BY <1>2, <1>3 DEF WipeStep

-----------------------------------------------------------------------------
(* Power cuts.                                                             *)

LEMMA CutDown == PowerCut => RunTrue' /\ ScanTrue'
<1> SUFFICES ASSUME PowerCut PROVE RunTrue' /\ ScanTrue'
  OBVIOUS
<1>1. pc' = "off" /\ scan' = NoScan /\ idx' = [k \in Keys |-> Absent]
  BY DEF PowerCut
<1>2. ~Up' /\ ~Appended' /\ pc' \notin AppendingPC /\ pc' # "wipe"
  BY <1>1 DEF Up, Down, Appended, AppendingPC
<1>3. RunTrue'
  BY <1>2 DEF RunTrue, CursorAtBlank, IndexLatest, CallTrue, AppendingPC, ReadsStore, Wiped
<1>4. scan'.page = 0 /\ scan'.off = 1 /\ scan'.last = NoPage
  BY <1>1 DEF NoScan
<1>5. \A p \in Pages, i \in 1 .. PageCells : ~Seen(scan', p, i)
  BY <1>4, Constants DEF Seen
<1>6. \A k \in Keys : ~Indexed(k)'
  BY <1>1 DEF Indexed, Absent
<1>7. ScanIndex'
  BY <1>5, <1>6 DEF ScanIndex, ScannedRight
<1>8. ScanPosition'
  BY <1>4, Constants DEF ScanPosition
<1>9. ScanCursor'
  BY <1>4, Constants DEF ScanCursor
<1> QED BY <1>3, <1>7, <1>8, <1>9 DEF ScanTrue

LEMMA CutDurable ==
    ASSUME DurableFlash, WithinLimits, DurableInv, CutStep
    PROVE  FlashTrue' /\ RunTrue' /\ ScanTrue'
<1>0. /\ TypeInv /\ LiveInv /\ FlashTrue /\ RunTrue /\ PagesFilled /\ TombstonesFuzzy
      /\ PowerCut /\ fuzzy' = fuzzy /\ store' = store
  BY DEF DurableInv, LiveInv, FlashTrue, CutStep, CutClean, CutHeader, CutRecord, CutErase,
         CutDeadlog, PowerCut, ghosts
<1> SUFFICES FlashTrue'
  BY <1>0, CutDown
<1>1. CASE CutClean \/ CutDeadlog
  <2>1. cell' = cell /\ hdr' = hdr
    BY <1>1 DEF CutClean, CutDeadlog, flashVars
  <2> QED BY <1>0, <2>1, FlashSame
<1>2. CASE CutHeader
  <2>1. PICK p \in Pages, h \in {"bad", "v2bad"} :
          hdr[p] = "free" /\ hdr' = [hdr EXCEPT ![p] = h]
    BY <1>2 DEF CutHeader, PrewarmTarget
  <2>2. cell' = cell
    BY <1>2 DEF CutHeader
  <2>3. \A i \in 1 .. PageCells : cell[p][i] = Blank
    BY <1>0, <2>1, BlankPage
  <2>4. \A q \in Pages : q # p => hdr'[q] = hdr[q]
    BY <1>0, <2>1, Ranges
  <2> QED BY <1>0, <2>2, <2>3, <2>4, FlashSame
<1>3. CASE CutRecord
  <2>1. PICK r \in {NewRecord, BadRec} :
          cell' = [cell EXCEPT ![wpage] = Programmed(@, woff, r, Blank)]
    BY <1>3 DEF CutRecord, DurableFlash
  <2>2. pc = "program" /\ hdr' = hdr
    BY <1>3 DEF CutRecord
  <2>3. /\ r.kind \in {"rec", "badrec"} /\ r.kind # "commit"
        /\ r.kind = "rec" => r.key = op.key /\ r.val = op.val
        /\ Blank.kind = "blank"
    BY CellForms DEF NewRecord
  <2>4. PagesFilled'
    BY <1>0, <2>1, <2>2, <2>3, ProgrammingFilled
  <2>5. /\ wpage \in Pages
        /\ woff \in 1 .. PageCells /\ woff + 1 \in 1 .. PageCells
        /\ cell[wpage][woff] = Blank
        /\ cell'[wpage][woff] = r /\ cell'[wpage][woff + 1] = Blank
        /\ \A q \in Pages, j \in 1 .. PageCells :
              q # wpage \/ (j # woff /\ j # woff + 1) => cell'[q][j] = cell[q][j]
    BY <1>0, <2>1, <2>2, Programming
  <2>6. TombstonesFuzzy'
    <3> SUFFICES ASSUME NEW p \in Pages, NEW i \in 1 .. PageCells,
                        cell'[p][i].kind = "rec", cell'[p][i].val = Gone
                 PROVE  cell'[p][i].key \in fuzzy
      BY <1>0 DEF TombstonesFuzzy
    <3>1. CASE p # wpage \/ (i # woff /\ i # woff + 1)
      BY <1>0, <2>5, <3>1 DEF TombstonesFuzzy
    <3>2. CASE p = wpage /\ i = woff
      BY <1>0, <2>2, <2>3, <2>5, <3>2 DEF RunTrue, CallTrue, AppendingPC
    <3>3. CASE p = wpage /\ i = woff + 1
      BY <2>3, <2>5, <3>3
    <3> QED BY <3>1, <3>2, <3>3
  <2>7. ASSUME NEW p \in Pages, NEW i \in 1 .. PageCells, cell[p][i].kind = "rec"
        PROVE  cell'[p][i] = cell[p][i]
    <3>1. \A j \in 1 .. PageCells : cell[wpage][j] = Blank <=> j >= woff
      BY <1>0, <2>2 DEF RunTrue, CursorAtBlank, Up, Down
    <3>2. p = wpage => i < woff
      BY <2>5, <2>7, <3>1, CellForms
    <3> QED BY <2>5, <3>2
  <2>8. ASSUME NEW k, NEW p \in Pages, NEW i \in 1 .. PageCells
        PROVE  /\ KeptOf(cell', k, p, i) <=> KeptOf(cell, k, p, i)
               /\ KeptOf(cell, k, p, i) => cell'[p][i] = cell[p][i]
    <3>1. KeptOf(cell', k, p, i) <=> KeptOf(cell, k, p, i)
      BY <1>0, <2>1, <2>2, <2>3, ProgrammingKept
    <3>2. KeptOf(cell, k, p, i) => cell'[p][i] = cell[p][i]
      BY <2>7 DEF KeptOf, Kept
    <3> QED BY <3>1, <3>2
  <2>9. OnFlash'
    <3> SUFFICES ASSUME NEW k \in Keys \ fuzzy
                 PROVE  Holds(cell', k, store[k]) /\ Apart(cell', k)
      BY <1>0 DEF OnFlash
    <3>1. Holds(cell, k, store[k]) /\ Apart(cell, k)
      BY <1>0 DEF FlashTrue, OnFlash
    <3>2. \A p \in Pages, i \in 1 .. PageCells :
             /\ KeptOf(cell', k, p, i) <=> KeptOf(cell, k, p, i)
             /\ KeptOf(cell, k, p, i) => cell'[p][i] = cell[p][i]
      BY <2>8
    <3>3. /\ Apart(cell, k) => Apart(cell', k)
          /\ \A v : Holds(cell, k, v) => Holds(cell', k, v)
      BY <3>2, SameRecords
    <3> QED BY <3>1, <3>3
  <2> QED BY <2>4, <2>6, <2>9 DEF FlashTrue
<1>4. CASE CutErase
  BY <1>4 DEF CutErase, DurableFlash
<1> QED BY <1>1, <1>2, <1>3, <1>4 DEF CutStep

-----------------------------------------------------------------------------
(* Recovery.                                                               *)

LEMMA DownRun == Down' => RunTrue'
BY DEF Down, Up, Appended, AppendingPC, RunTrue, CursorAtBlank, IndexLatest, CallTrue, ReadsStore,
       Wiped

\* A step that changes neither the flash nor the scan.
LEMMA ScanStill ==
    ASSUME DurableInv, Down, Down', cell' = cell, hdr' = hdr, idx' = idx, scan' = scan,
           fuzzy' = fuzzy, store' = store
    PROVE  FlashTrue' /\ RunTrue' /\ ScanTrue'
<1>0. TypeInv /\ FlashTrue
  BY DEF DurableInv, LiveInv
<1>1. FlashTrue'
  BY <1>0, FlashSame
<1>2. ScanIndex /\ ScanPosition /\ ScanCursor
  BY <1>0 DEF DurableInv, ScanTrue
<1>3. ScanIndex'
  <2>1. \A k : Indexed(k)' = Indexed(k)
    BY <1>0 DEF Indexed
  <2>2. \A k : ScannedRight(k)' = ScannedRight(k)
    BY <1>0, <2>1 DEF ScannedRight
  <2> QED BY <1>0, <1>2, <2>2 DEF ScanIndex
<1>4. ScanPosition'
  BY <1>0, <1>2 DEF ScanPosition, Pending
<1>5. ScanCursor'
  BY <1>0, <1>2 DEF ScanCursor
<1> QED BY <1>0, <1>1, <1>3, <1>4, <1>5, DownRun DEF ScanTrue

LEMMA ScanRecordDurable ==
    ASSUME DurableInv, ScanRecord
    PROVE  FlashTrue' /\ RunTrue' /\ ScanTrue'
<1>0. /\ TypeInv /\ FlashTrue /\ Down /\ Down' /\ cell' = cell /\ hdr' = hdr /\ idx' = idx
      /\ fuzzy' = fuzzy /\ store' = store
  BY DEF DurableInv, LiveInv, ScanRecord, AtCell, Scanning, Down, flashVars, ramVars, ghosts
<1>1. FlashTrue'
  BY <1>0, FlashSame
<1>2. ScanIndex /\ ScanPosition /\ ScanCursor
  BY <1>0 DEF DurableInv, ScanTrue
<1> DEFINE c == cell[scan.page][scan.off]
<1>3. /\ scan.page \in Pages /\ scan.off \in 1 .. PageCells
      /\ c.kind \in {"rec", "badrec"}
  <2>1. /\ scan.page \in Pages /\ scan.off <= PageCells
        /\ cell[scan.page][scan.off].kind \in {"rec", "badrec"}
    BY DEF ScanRecord, AtCell, Scanning
  <2>2. scan.off \in 1 .. PageCells + 1
    BY <1>0, Ranges
  <2> QED BY <2>1, <2>2, Constants
<1>4. /\ scan'.page = scan.page /\ scan'.off = scan.off + 1
      /\ scan'.last = scan.last /\ scan'.end = scan.end
      /\ c.kind = "rec" => scan'.pend = Pending(scan.page, scan.off)
  <2> DEFINE s == [scan EXCEPT !.off = scan.off + 1]
             r == IF c.kind = "badrec" THEN scan.pend ELSE Pending(scan.page, scan.off)
  <2>1. scan \in Scans /\ scan.off + 1 \in 1 .. PageCells + 1
    <3>1. scan \in Scans
      BY <1>0, Ranges
    <3>2. scan.off + 1 \in 1 .. PageCells + 1
      BY <1>3, Constants
    <3> QED BY <3>1, <3>2
  <2>2. s \in Scans /\ s.page = scan.page /\ s.off = scan.off + 1
        /\ s.last = scan.last /\ s.end = scan.end
    BY <2>1 DEF Scans
  <2>3. scan' = [s EXCEPT !.pend = r]
    BY DEF ScanRecord, Pending
  <2>4. c.kind = "rec" => r = Pending(scan.page, scan.off)
    OBVIOUS
  <2> HIDE DEF s, r, c
  <2> QED BY <2>2, <2>3, <2>4 DEF Scans
<1>5. ASSUME NEW k, NEW p \in Pages, NEW i \in 1 .. PageCells, KeptOf(cell, k, p, i)
      PROVE  Seen(scan', p, i) <=> Seen(scan, p, i)
  <2>1. ~(p = scan.page /\ i + 1 = scan.off)
    BY <1>3, <1>5 DEF KeptOf, Kept
  <2> QED BY <1>3, <1>4, <2>1 DEF Seen
<1>6. ScanIndex'
  <2> SUFFICES ASSUME NEW k \in Keys \ fuzzy PROVE ScannedRight(k)'
    BY <1>0 DEF ScanIndex
  <2>1. ScannedRight(k)
    BY <1>2 DEF ScanIndex
  <2>2. Indexed(k)' = Indexed(k)
    BY <1>0 DEF Indexed
  <2>3. CASE Indexed(k)
    <3>1. idx[k].page \in Pages /\ idx[k].off \in 1 .. PageCells
      BY <1>0, <2>3, Ranges
    <3> QED BY <1>0, <1>5, <2>1, <2>2, <2>3, <3>1 DEF ScannedRight
  <2>4. CASE ~Indexed(k)
    BY <1>0, <1>5, <2>1, <2>2, <2>4 DEF ScannedRight
  <2> QED BY <2>3, <2>4
<1>7. ScanPosition'
  <2>1. ASSUME NEW i \in 1 .. scan.off PROVE cell[scan.page][i] # Blank
    <3>1. i = scan.off \/ i \in 1 .. scan.off - 1
      BY <1>3
    <3> QED BY <1>2, <1>3, <3>1, CellForms DEF ScanPosition
  <2>2. scan'.off - 1 = scan.off
    BY <1>3, <1>4
  <2> QED BY <1>0, <1>3, <1>4, <2>1, <2>2 DEF ScanPosition, Pending
<1>8. ScanCursor'
  BY <1>0, <1>2, <1>4 DEF ScanCursor
<1> QED BY <1>0, <1>1, <1>6, <1>7, <1>8, DownRun DEF ScanTrue

LEMMA ScanCommitDurable ==
    ASSUME WithinLimits, DurableInv, ScanCommit
    PROVE  FlashTrue' /\ RunTrue' /\ ScanTrue'
<1>0. /\ TypeInv /\ FlashTrue /\ Down /\ Down' /\ cell' = cell /\ hdr' = hdr
      /\ fuzzy' = fuzzy /\ store' = store /\ PagesFilled /\ TombstonesFuzzy
      /\ idx \in [Keys -> Entries]
  BY DEF DurableInv, LiveInv, ScanCommit, AtCell, Scanning, Down, flashVars, ghosts, FlashTrue,
         TypeInv, TypeOK, IndexType
<1>1. FlashTrue'
  BY <1>0, FlashSame
<1>2. ScanIndex /\ ScanPosition /\ ScanCursor
  BY <1>0 DEF DurableInv, ScanTrue
<1>3. /\ scan.page \in Pages /\ scan.off \in 1 .. PageCells
      /\ cell[scan.page][scan.off].kind = "commit"
  <2>1. /\ scan.page \in Pages /\ scan.off <= PageCells
        /\ cell[scan.page][scan.off].kind \in {"commit"}
    BY DEF ScanCommit, AtCell, Scanning
  <2>2. scan.off \in 1 .. PageCells + 1
    BY <1>0, Ranges
  <2> QED BY <2>1, <2>2, Constants
<1>4. /\ scan'.page = scan.page /\ scan'.off = scan.off + 1
      /\ scan'.last = scan.last /\ scan'.end = scan.end
  <2> DEFINE s == [scan EXCEPT !.off = scan.off + 1]
  <2>1. scan \in Scans /\ scan.off + 1 \in 1 .. PageCells + 1
    <3>1. scan \in Scans
      BY <1>0, Ranges
    <3>2. scan.off + 1 \in 1 .. PageCells + 1
      BY <1>3, Constants
    <3> QED BY <3>1, <3>2
  <2>2. s \in Scans /\ s.page = scan.page /\ s.off = scan.off + 1
        /\ s.last = scan.last /\ s.end = scan.end
    BY <2>1 DEF Scans
  <2>3. scan' = [s EXCEPT !.pend = NoOp]
    BY DEF ScanCommit
  <2> HIDE DEF s
  <2> QED BY <2>2, <2>3 DEF Scans
<1> DEFINE r == scan.pend
\* The marker's record is the one just passed.
<1>5. PICK x \in Pages, o \in 1 .. PageCells : x = scan.page /\ o + 1 = scan.off
  <2>1. scan.off > 1
    BY <1>0, <1>3 DEF PagesFilled, Filled
  <2> QED BY <1>3, <2>1, Constants
<1>6. /\ cell[x][o].kind = "rec" /\ cell[x][o].mg = cell[x][scan.off].mg
      /\ o < PageCells /\ scan.off - 1 = o /\ scan.off > 1
  <2>1. scan.off - 1 = o /\ scan.off > 1 /\ o < PageCells
    BY <1>3, <1>5, Constants
  <2> QED BY <1>0, <1>3, <1>5, <2>1 DEF PagesFilled, Filled
<1>7. r = Pending(x, o)
  BY <1>2, <1>3, <1>5, <1>6 DEF ScanPosition
<1>8. /\ r.key = cell[x][o].key /\ r.val = cell[x][o].val /\ r.ver = cell[x][o].ver
      /\ r.mg = cell[x][scan.off].mg /\ r.page = x /\ r.off = o /\ r.page # NoPage
  BY <1>6, <1>7, Constants DEF Pending
<1>9. /\ r.key \in Keys /\ r.ver \in Nat /\ KeptOf(cell, r.key, x, o)
      /\ r.val = Gone => r.key \in fuzzy
  <2>1. KeptOf(cell, r.key, x, o)
    BY <1>3, <1>5, <1>6, <1>8 DEF KeptOf, Kept
  <2>2. r.key \in Keys /\ r.ver \in Nat
    BY <1>0, <1>6, <1>8, LocationOf
  <2> QED BY <1>0, <1>6, <1>8, <2>1, <2>2 DEF TombstonesFuzzy
<1> HIDE DEF r
<1>10. ASSUME NEW p \in Pages, NEW i \in 1 .. PageCells
       PROVE  Seen(scan', p, i) <=> Seen(scan, p, i) \/ (p = x /\ i = o)
  BY <1>3, <1>4, <1>5 DEF Seen
<1>11. /\ Committed(r) <=> Newest(r)
       /\ \/ Newest(r) /\ r.val = Gone /\ Indexed(r.key) /\ IdxRemove(r.key)
          \/ Newest(r) /\ r.val # Gone /\ IdxSet(r.key, x, o, r.ver)
          \/ /\ ~(Newest(r) /\ (IF r.val = Gone THEN Indexed(r.key) ELSE HasRoom(r.key)))
             /\ idx' = idx
  <2>1. Committed(r) <=> Newest(r)
    BY <1>5, <1>8 DEF Committed
  <2> QED BY <1>8, <2>1 DEF ScanCommit, r
<1>12. \A k \in Keys : k # r.key => idx'[k] = idx[k]
  BY <1>0, <1>11 DEF IdxRemove, IdxSet
<1>13. ASSUME NEW k \in Keys \ fuzzy PROVE ScannedRight(k)'
  <2>1. ScannedRight(k)
    BY <1>2 DEF ScanIndex
  <2>2. Indexed(k) => /\ idx[k].page \in Pages /\ idx[k].off \in 1 .. PageCells
                      /\ idx[k].ver \in Nat
    BY <1>0, Ranges, LocationOf
  <2>3. CASE k # r.key
    <3>1. idx'[k] = idx[k]
      BY <1>12, <2>3
    <3>2. Indexed(k)' = Indexed(k)
      BY <3>1 DEF Indexed
    <3>3. \A p \in Pages, i \in 1 .. PageCells :
             KeptOf(cell, k, p, i) => (Seen(scan', p, i) <=> Seen(scan, p, i))
      BY <1>8, <1>10, <2>3 DEF KeptOf
    <3> QED BY <1>0, <2>1, <2>2, <3>1, <3>2, <3>3 DEF ScannedRight
  <2>4. CASE k = r.key /\ Newest(r)
    <3>1. IdxSet(r.key, x, o, r.ver)
      BY <1>9, <1>11, <2>4 DEF WithinLimits
    <3>2. /\ idx'[k].page = x /\ idx'[k].off = o /\ idx'[k].ver = r.ver
      BY <1>0, <1>9, <2>4, <3>1 DEF IdxSet
    <3>3. Indexed(k)'
      BY <1>8, <3>2 DEF Indexed
    <3>4. ASSUME NEW q \in Pages, NEW j \in 1 .. PageCells,
                 KeptOf(cell, k, q, j), Seen(scan', q, j)
          PROVE  cell[q][j].ver < cell[x][o].ver \/ (q = x /\ j = o)
      <4>1. CASE q = x /\ j = o
        BY <4>1
      <4>2. CASE Seen(scan, q, j)
        <5>1. /\ Indexed(k) /\ r.ver >= idx[k].ver
              /\ idx[k].ver = cell[idx[k].page][idx[k].off].ver
              /\ \/ cell[q][j].ver < cell[idx[k].page][idx[k].off].ver
                 \/ q = idx[k].page /\ j = idx[k].off
          BY <2>1, <2>4, <3>4, <4>2 DEF ScannedRight, Newest
        <5>2. cell[q][j].ver <= cell[x][o].ver /\ cell[q][j].ver \in Nat /\ cell[x][o].ver \in Nat
          <6>1. cell[q][j].ver \in Nat
            BY <1>0, <3>4, LocationOf DEF KeptOf, Kept
          <6> QED BY <1>8, <1>9, <2>2, <5>1, <6>1
        <5>3. cell[q][j].ver = cell[x][o].ver => q = x /\ j = o
          BY <1>0, <1>9, <2>4, <3>4 DEF FlashTrue, OnFlash, Apart
        <5> QED BY <5>2, <5>3
      <4> QED BY <1>10, <3>4, <4>1, <4>2
    <3>5. Seen(scan', x, o) /\ KeptOf(cell, k, x, o)
      BY <1>9, <1>10, <2>4
    <3> QED BY <1>0, <1>8, <3>2, <3>3, <3>4, <3>5 DEF ScannedRight
  <2>5. CASE k = r.key /\ ~Newest(r)
    <3>1. idx' = idx /\ Indexed(k) /\ ~(r.ver >= idx[k].ver)
      BY <1>11, <2>5 DEF Newest
    <3>2. Indexed(k)' = Indexed(k)
      BY <3>1 DEF Indexed
    <3>3. /\ KeptOf(cell, k, idx[k].page, idx[k].off) /\ Seen(scan, idx[k].page, idx[k].off)
          /\ idx[k].ver = cell[idx[k].page][idx[k].off].ver
      BY <2>1, <3>1 DEF ScannedRight
    <3>4. cell[x][o].ver < cell[idx[k].page][idx[k].off].ver
      BY <1>8, <1>9, <2>2, <3>1, <3>3
    <3>5. \A q \in Pages, j \in 1 .. PageCells :
             KeptOf(cell, k, q, j) /\ Seen(scan', q, j) =>
                cell[q][j].ver < cell[idx[k].page][idx[k].off].ver
                \/ (q = idx[k].page /\ j = idx[k].off)
      BY <1>10, <2>1, <3>1, <3>4 DEF ScannedRight
    <3>6. Seen(scan', idx[k].page, idx[k].off)
      BY <1>10, <2>2, <3>1, <3>3
    <3> QED BY <1>0, <3>1, <3>2, <3>3, <3>5, <3>6 DEF ScannedRight
  <2> QED BY <2>3, <2>4, <2>5
<1>14. ScanIndex'
  BY <1>0, <1>13 DEF ScanIndex
<1>15. ScanPosition'
  <2>1. ASSUME NEW i \in 1 .. scan.off PROVE cell[scan.page][i] # Blank
    <3>1. i = scan.off \/ i \in 1 .. scan.off - 1
      BY <1>3
    <3> QED BY <1>2, <1>3, <3>1, CellForms DEF ScanPosition
  <2>2. scan'.off - 1 = scan.off
    BY <1>3, <1>4
  <2> QED BY <1>0, <1>3, <1>4, <2>1, <2>2 DEF ScanPosition
<1>16. ScanCursor'
  BY <1>0, <1>2, <1>4 DEF ScanCursor
<1> QED BY <1>0, <1>1, <1>14, <1>15, <1>16, DownRun DEF ScanTrue


LEMMA ScanPageEndDurable ==
    ASSUME DurableInv, ScanPageEnd
    PROVE  FlashTrue' /\ RunTrue' /\ ScanTrue'
<1>0. /\ TypeInv /\ FlashTrue /\ Down /\ Down' /\ cell' = cell /\ hdr' = hdr /\ idx' = idx
      /\ fuzzy' = fuzzy /\ store' = store /\ PagesFilled /\ ScanBehind
  BY DEF DurableInv, LiveInv, ScanPageEnd, Scanning, Down, flashVars, ghosts, FlashTrue
<1>1. FlashTrue'
  BY <1>0, FlashSame
<1>2. ScanIndex /\ ScanPosition /\ ScanCursor
  BY <1>0 DEF DurableInv, ScanTrue
<1>3. /\ scan.page \in Pages /\ scan.off \in 1 .. PageCells
      /\ \/ hdr[scan.page] # "v2"
         \/ cell[scan.page][scan.off].kind \notin {"rec", "badrec", "commit"}
  <2>1. scan.page \in Pages /\ ~AtCell({"rec", "badrec", "commit"}) /\ Scanning
    BY DEF ScanPageEnd, Scanning
  <2>2. scan.off \in 1 .. PageCells
    <3>1. scan.off \in 1 .. PageCells + 1 /\ scan.off <= PageCells
      BY <1>0, Ranges DEF ScanBehind
    <3> QED BY <3>1, Constants
  <2> QED BY <2>1, <2>2 DEF AtCell
<1>4. /\ scan'.page = scan.page + 1 /\ scan'.off = 1
      /\ scan'.last = (IF scan.off > 1 THEN scan.page ELSE scan.last)
      /\ scan'.end = (IF scan.off > 1 THEN scan.off ELSE scan.end)
  BY DEF ScanPageEnd
\* What is behind the scan's cell is blank.
<1>5. ASSUME NEW i \in 1 .. PageCells, i >= scan.off PROVE cell[scan.page][i] = Blank
  <2>1. Filled(cell[scan.page], hdr[scan.page])
    BY <1>0, <1>3 DEF PagesFilled
  <2>2. SUFFICES ASSUME cell[scan.page][i] # Blank PROVE FALSE
    OBVIOUS
  <2>3. hdr[scan.page] = "v2" /\ \A j \in 1 .. i : cell[scan.page][j] # Blank
    BY <2>1, <2>2 DEF Filled
  <2>4. scan.off \in 1 .. i
    BY <1>3, <1>5
  <2>5. cell[scan.page][scan.off] # Blank
    BY <2>3, <2>4
  <2>6. cell[scan.page][scan.off].kind \in {"rec", "badrec", "commit"}
    BY <1>3, <2>1, <2>5 DEF Filled
  <2> QED BY <1>3, <2>3, <2>6
<1>6. ASSUME NEW k, NEW p \in Pages, NEW i \in 1 .. PageCells, KeptOf(cell, k, p, i)
      PROVE  Seen(scan', p, i) <=> Seen(scan, p, i)
  <2>1. CASE p = scan.page
    <3>1. i + 1 \in 1 .. PageCells /\ cell[p][i + 1] # Blank
      BY <1>6, CellForms, Constants DEF KeptOf, Kept
    <3>2. i + 1 < scan.off
      BY <1>3, <1>5, <2>1, <3>1
    <3> QED BY <1>4, <2>1, <3>2, Constants DEF Seen
  <2>2. CASE p # scan.page
    <3>1. p \in Nat /\ scan.page \in Nat
      BY <1>3, Constants
    <3>2. p < scan.page + 1 <=> p < scan.page
      BY <2>2, <3>1
    <3>3. ~(i + 1 < 1)
      OBVIOUS
    <3> QED BY <1>4, <2>2, <3>2, <3>3 DEF Seen
  <2> QED BY <2>1, <2>2
<1>7. ScanIndex'
  <2> SUFFICES ASSUME NEW k \in Keys \ fuzzy PROVE ScannedRight(k)'
    BY <1>0 DEF ScanIndex
  <2>1. ScannedRight(k)
    BY <1>2 DEF ScanIndex
  <2>2. Indexed(k)' = Indexed(k)
    BY <1>0 DEF Indexed
  <2>3. CASE Indexed(k)
    <3>1. idx[k].page \in Pages /\ idx[k].off \in 1 .. PageCells
      BY <1>0, <2>3, Ranges
    <3> QED BY <1>0, <1>6, <2>1, <2>2, <2>3, <3>1 DEF ScannedRight
  <2>4. CASE ~Indexed(k)
    BY <1>0, <1>6, <2>1, <2>2, <2>4 DEF ScannedRight
  <2> QED BY <2>3, <2>4
<1>8. ScanPosition'
  BY <1>4 DEF ScanPosition
<1>9. ScanCursor'
  <2>1. CASE scan.off > 1
    <3>1. ASSUME NEW i \in 1 .. PageCells
          PROVE  cell[scan.page][i] = Blank <=> i >= scan.off
      <4>1. i >= scan.off \/ i \in 1 .. scan.off - 1
        BY <1>3
      <4>2. i \in 1 .. scan.off - 1 => ~(i >= scan.off)
        BY <1>3
      <4> QED BY <1>2, <1>3, <1>5, <4>1, <4>2 DEF ScanPosition
    <3>2. scan'.last = scan.page /\ scan'.end = scan.off /\ scan.page # NoPage
      BY <1>3, <1>4, <2>1, Constants
    <3> QED BY <1>0, <3>1, <3>2 DEF ScanCursor
  <2>2. CASE ~(scan.off > 1)
    <3>1. scan'.last = scan.last /\ scan'.end = scan.end /\ scan.off = 1
      BY <1>3, <1>4, <2>2
    <3>2. cell[scan.page][1] = Blank
      BY <1>3, <1>5, <3>1
    <3>3. ASSUME scan.last = NoPage, NEW p \in Pages, p < scan.page + 1
          PROVE  cell[p][1] = Blank
      <4>1. p = scan.page \/ p < scan.page
        BY <1>3, <3>3, Constants
      <4> QED BY <1>2, <3>2, <3>3, <4>1 DEF ScanCursor
    <3> QED BY <1>0, <1>2, <1>4, <3>1, <3>3 DEF ScanCursor
  <2> QED BY <2>1, <2>2
<1> QED BY <1>0, <1>1, <1>7, <1>8, <1>9, DownRun DEF ScanTrue

LEMMA ScanDoneDurable ==
    ASSUME DurableInv, ScanDone
    PROVE  /\ FlashTrue' /\ RunTrue' /\ ScanTrue'
           /\ \A k \in Keys : store'[k] = Get(k) /\ Get(k)' = Get(k)
<1>0. /\ TypeInv /\ FlashTrue /\ PagesFilled /\ ScanBehind /\ Down
      /\ cell' = cell /\ hdr' = hdr /\ idx' = idx /\ fuzzy' = fuzzy /\ pc' = "idle"
      /\ scan.page = NumPages
      /\ store' = [k \in Keys |-> IF k \in fuzzy THEN Get(k) ELSE store[k]]
  BY DEF DurableInv, LiveInv, ScanDone, Down, flashVars, FlashTrue
<1>1. ScanIndex /\ ScanCursor
  BY <1>0 DEF DurableInv, ScanTrue
<1>2. Up' /\ ~Down' /\ ~Appended' /\ pc' # "wipe" /\ CallTrue'
  BY <1>0 DEF Up, Down, Appended, CallTrue, AppendingPC
<1>3. \A k \in Keys \ fuzzy : store'[k] = store[k]
  BY <1>0
<1>4. FlashTrue'
  BY <1>0, <1>3, FlashSame
<1>5. \A p \in Pages, i \in 1 .. PageCells : Seen(scan, p, i)
  BY <1>0, Constants DEF Seen
<1>6. ASSUME NEW k \in Keys \ fuzzy PROVE IndexedRight(k)
  <2>1. ScannedRight(k)
    BY <1>1 DEF ScanIndex
  <2>2. CASE Indexed(k)
    <3>1. idx[k].page \in Pages /\ idx[k].off \in 1 .. PageCells
      BY <1>0, <2>2, Ranges
    <3> QED BY <1>5, <2>1, <2>2, <3>1 DEF ScannedRight, IndexedRight, Latest
  <2>3. CASE ~Indexed(k)
    BY <1>5, <2>1, <2>3 DEF ScannedRight, IndexedRight, NoneKept
  <2> QED BY <2>2, <2>3
<1>7. ASSUME NEW k \in Keys \ fuzzy PROVE Get(k) = store[k]
  BY <1>0, <1>6, RightReads DEF FlashTrue, OnFlash
<1>8. \A k \in Keys : store'[k] = Get(k)
  BY <1>0, <1>7
<1>9. \A k : /\ Indexed(k)' = Indexed(k) /\ Get(k)' = Get(k)
             /\ IndexedRight(k)' = IndexedRight(k)
  <2> TAKE k
  <2>1. Indexed(k)' = Indexed(k)
    BY <1>0 DEF Indexed
  <2>2. Get(k)' = Get(k)
    BY <1>0, <2>1 DEF Get
  <2>3. IndexedRight(k)' = IndexedRight(k)
    BY <1>0, <2>1 DEF IndexedRight
  <2> QED BY <2>1, <2>2, <2>3
<1>10. IndexLatest'
  BY <1>0, <1>2, <1>6, <1>9 DEF IndexLatest, Behind
<1>11. ReadsStore'
  BY <1>8, <1>9 DEF ReadsStore
<1>12. CursorAtBlank'
  <2>1. scan.end <= PageCells
    BY <1>0 DEF ScanBehind
  <2>2. wpage' = (IF scan.last = NoPage THEN 0 ELSE scan.last) /\ woff' = scan.end
    BY <2>1 DEF ScanDone
  <2>3. CASE scan.last = NoPage
    <3>1. cell[0][1] = Blank
      BY <1>0, <1>1, <2>3, Constants DEF ScanCursor
    <3>2. \A i \in 1 .. PageCells : cell[0][i] = Blank
      BY <1>0, <3>1, BlankPage, Constants
    <3>3. scan.end = 1
      BY <1>0, <2>3 DEF ScanBehind
    <3> QED BY <1>0, <2>2, <2>3, <3>2, <3>3 DEF CursorAtBlank
  <2>4. CASE scan.last # NoPage
    BY <1>0, <1>1, <2>2, <2>4 DEF CursorAtBlank, ScanCursor
  <2> QED BY <2>3, <2>4
<1> QED BY <1>2, <1>4, <1>8, <1>9, <1>10, <1>11, <1>12 DEF RunTrue, Wiped, ScanTrue

-----------------------------------------------------------------------------
(* The invariant, and what it says.                                        *)

LEMMA DurableInit == Init => DurableInv
<1> SUFFICES ASSUME Init PROVE DurableInv
  OBVIOUS
<1>1. /\ pc = "off" /\ scan = NoScan /\ fuzzy = {} /\ idx = [k \in Keys |-> Absent]
      /\ cell = [p \in Pages |-> [i \in 1 .. PageCells |-> Blank]]
      /\ store = [k \in Keys |-> Gone]
  BY DEF Init
<1>2. \A p \in Pages, i \in 1 .. PageCells : cell[p][i] = Blank
  BY <1>1
<1>3. FlashTrue
  <2>1. PagesFilled /\ TombstonesFuzzy
    BY <1>2, CellForms DEF PagesFilled, Filled, TombstonesFuzzy
  <2>2. \A k : \A p \in Pages, i \in 1 .. PageCells : ~KeptOf(cell, k, p, i)
    BY <1>2, CellForms DEF KeptOf, Kept
  <2>3. OnFlash
    BY <1>1, <2>2 DEF OnFlash, Holds, NoneKept, Apart
  <2> QED BY <2>1, <2>3 DEF FlashTrue
<1>4. RunTrue
  BY <1>1 DEF RunTrue, CursorAtBlank, IndexLatest, CallTrue, ReadsStore, Wiped, Up, Down, Appended,
              AppendingPC
<1>5. ScanTrue
  <2>1. scan.page = 0 /\ scan.off = 1 /\ scan.last = NoPage
    BY <1>1 DEF NoScan
  <2>2. \A p \in Pages, i \in 1 .. PageCells : ~Seen(scan, p, i)
    BY <2>1, Constants DEF Seen
  <2>3. \A k \in Keys : ~Indexed(k)
    BY <1>1 DEF Indexed, Absent
  <2>4. ScanIndex
    BY <2>2, <2>3 DEF ScanIndex, ScannedRight
  <2> QED BY <2>1, <2>4, Constants DEF ScanTrue, ScanPosition, ScanCursor
<1> QED BY <1>3, <1>4, <1>5, LiveInit DEF DurableInv

LEMMA ScanStepDurable ==
    ASSUME WithinLimits, DurableInv, ScanStep
    PROVE  FlashTrue' /\ RunTrue' /\ ScanTrue'
<1>1. CASE Boot
  <2>1. /\ Down /\ Down' /\ cell' = cell /\ hdr' = hdr /\ idx' = idx
        /\ scan' = scan /\ fuzzy' = fuzzy /\ store' = store
    BY <1>1 DEF Boot, Down, flashVars, ramVars, ghosts
  <2> QED BY <2>1, ScanStill
<1> QED BY <1>1, ScanRecordDurable, ScanCommitDurable, ScanPageEndDurable, ScanDoneDurable
        DEF ScanStep

LEMMA StutterDurable ==
    ASSUME DurableInv, UNCHANGED vars
    PROVE  FlashTrue' /\ RunTrue' /\ ScanTrue'
<1>0. /\ TypeInv /\ FlashTrue /\ RunTrue
      /\ cell' = cell /\ hdr' = hdr /\ idx' = idx /\ wpage' = wpage /\ woff' = woff
      /\ scan' = scan /\ pc' = pc /\ op' = op /\ fuzzy' = fuzzy /\ store' = store
  BY DEF DurableInv, LiveInv, vars, flashVars, ramVars, logVars, ghosts
<1>1. CASE Up
  <2>1. Up' /\ Appended' = Appended
    BY <1>0, <1>1 DEF Up, Down, Appended
  <2> QED BY <1>0, <1>1, <2>1, QuietStep
<1>2. CASE Down
  <2>1. Down'
    BY <1>0, <1>2 DEF Down
  <2> QED BY <1>0, <1>2, <2>1, ScanStill
<1>3. CASE pc = "wipe"
  <2>1. ~Up' /\ ~Down'
    BY <1>0, <1>3 DEF Up, Down
  <2>2. FlashTrue'
    BY <1>0, FlashSame
  <2>3. CallTrue'
    BY <1>0, <1>3 DEF CallTrue, Appended, AppendingPC
  <2>4. Wiped'
    BY <1>0, <1>3 DEF RunTrue, Wiped
  <2> QED BY <2>1, <2>2, <2>3, <2>4 DEF RunTrue, CursorAtBlank, IndexLatest, ReadsStore, ScanTrue
<1> QED BY <1>1, <1>2, <1>3 DEF Up

LEMMA DurableStep == DurableFlash /\ WithinLimits /\ DurableInv /\ [Next]_vars => DurableInv'
<1> SUFFICES ASSUME DurableFlash, WithinLimits, DurableInv, [Next]_vars PROVE DurableInv'
  OBVIOUS
<1>1. LiveInv'
  BY LiveStep DEF DurableInv, DurableFlash
<1>2. FlashTrue' /\ RunTrue' /\ ScanTrue'
  BY CallDurable, AppendStepDurable, IndexStepDurable, CompactDurable, WipeDurable, CutDurable,
     ScanStepDurable, StutterDurable DEF Next
<1> QED BY <1>1, <1>2 DEF DurableInv

LEMMA DurableReads == DurableInv => AcknowledgedIsReadable
BY DEF DurableInv, RunTrue, ReadsStore, Behind, Appended, Up, Down, AcknowledgedIsReadable

\* While the index has room and no key's versions start over, a store whose records keep away
\* from the sector ends, and whose power cuts spare headers of records, markers and erases,
\* reads back between two calls what the last durable call on each key stored.
THEOREM AcknowledgedSurvives ==
    DurableFlash /\ Spec /\ []WithinLimits => []AcknowledgedIsReadable
<1> SUFFICES ASSUME DurableFlash PROVE Spec /\ []WithinLimits => []AcknowledgedIsReadable
  OBVIOUS
<1>1. WithinLimits /\ DurableInv /\ [Next]_vars => DurableInv'
  BY DurableStep
<1> QED BY DurableInit, DurableReads, <1>1, PTL DEF Spec

-----------------------------------------------------------------------------
(* The limits are kept when there are no more keys than index entries, and  *)
(* fewer calls than versions.                                               *)

\* No version is greater than the number of calls begun.
VersionsCounted ==
    /\ \A k \in Keys : idx[k].ver <= ops
    /\ \A p \in Pages, i \in 1 .. PageCells : cell[p][i].kind = "rec" => cell[p][i].ver <= ops
    /\ pc \in AppendingPC => op.ver <= ops
    /\ scan.pend.page # NoPage => scan.pend.ver <= ops

LEMMA OnlyProgrammed ==
    ASSUME TypeInv, NEW r \in {NewRecord, BadRec, Torn}, NEW m, m.kind # "rec",
           cell' = [cell EXCEPT ![wpage] = Programmed(@, woff, r, m)],
           NEW p \in Pages, NEW i \in 1 .. PageCells, cell'[p][i].kind = "rec"
    PROVE  cell'[p][i] = cell[p][i] \/ cell'[p][i] = NewRecord
<1>1. cell'[p] = IF p = wpage THEN Programmed(cell[p], woff, r, m) ELSE cell[p]
  BY Ranges
<1>2. Programmed(cell[p], woff, r, m)[i]
        = Program(cell[p][i], IF i = woff THEN r ELSE IF i = woff + 1 THEN m ELSE Blank)
  BY DEF Programmed
<1>3. \A old, new : Program(old, new) \in {old, new, Torn}
  BY DEF Program
<1>4. Blank.kind # "rec" /\ Torn.kind # "rec" /\ BadRec.kind # "rec"
  BY CellForms
<1>5. CASE p = wpage
  <2>1. cell'[p][i] \in {cell[p][i], r, m, Blank, Torn}
    BY <1>1, <1>2, <1>3, <1>5
  <2> QED BY <1>4, <2>1
<1>6. CASE p # wpage
  BY <1>1, <1>6
<1> QED BY <1>5, <1>6

\* A step brings no record onto the flash but the one of its call.
LEMMA OnlyNewRecord ==
    ASSUME TypeInv, Next, NEW p \in Pages, NEW i \in 1 .. PageCells, cell'[p][i].kind = "rec"
    PROVE  cell'[p][i] = cell[p][i] \/ (pc = "program" /\ cell'[p][i] = NewRecord)
<1>1. CASE cell' = cell
  BY <1>1
<1>3. ASSUME NEW q \in Pages, ErasePage(q) PROVE cell'[p][i] = cell[p][i]
  <2>1. cell'[p] = IF p = q THEN [j \in 1 .. PageCells |-> Blank] ELSE cell[p]
    BY <1>3, EraseKept
  <2> QED BY <2>1, CellForms
<1>4. CASE AppendRecord
  <2>1. Commit(op.mg).kind # "rec"
    BY CellForms
  <2> QED BY <1>1, <1>4, <2>1, OnlyProgrammed DEF AppendRecord
<1>5. CASE CutRecord
  <2>1. PICK r \in {NewRecord, BadRec, Torn}, m \in {Blank, Torn, BadCommit} :
          cell' = [cell EXCEPT ![wpage] = Programmed(@, woff, r, m)]
    BY <1>5 DEF CutRecord
  <2>2. m.kind # "rec" /\ pc = "program"
    BY <1>5, CellForms DEF BadCommit, CutRecord
  <2> QED BY <2>1, <2>2, OnlyProgrammed
<1>6. CASE CutErase
  <2>1. PICK q \in Pages :
          UNCHANGED cell \/ cell' = [cell EXCEPT ![q] = [j \in 1 .. PageCells |-> Torn]]
    BY <1>6 DEF CutErase
  <2>2. CASE cell' = [cell EXCEPT ![q] = [j \in 1 .. PageCells |-> Torn]]
    <3>1. cell'[p] = IF p = q THEN [j \in 1 .. PageCells |-> Torn] ELSE cell[p]
      BY <2>2, Ranges
    <3> QED BY <3>1, CellForms
  <2> QED BY <1>1, <2>1, <2>2
<1>7. CASE EnsureErased \/ WipePage
  BY <1>3, <1>7, Ranges DEF EnsureErased, WipePage
<1>8. CASE Reclaim
  BY <1>3, <1>8 DEF Reclaim, TypeInv, CarriedByCall
<1>9. CASE EnsureHeader \/ Prewarm
  BY <1>1, <1>9 DEF EnsureHeader, Prewarm, WriteHeader
<1>10. CASE Call
  BY <1>1, <1>10 DEF Call, Put, Delete, BeginAppend, WipeBegin, flashVars
<1>11. CASE EnsureReady \/ IndexStep \/ Compact \/ WipeDead \/ WipeEnd
  BY <1>1, <1>11 DEF EnsureReady, IndexStep, IndexPut, IndexFull, IndexDelete, DeadlogAppend,
                     Compact, WipeDead, WipeEnd, flashVars
<1>12. CASE CutClean \/ CutHeader \/ CutDeadlog
  BY <1>1, <1>12 DEF CutClean, CutHeader, CutDeadlog, flashVars
<1>13. CASE ScanStep
  BY <1>1, <1>13 DEF ScanStep, Boot, ScanRecord, ScanCommit, ScanPageEnd, ScanDone, flashVars
<1> QED  BY <1>4, <1>5, <1>6, <1>7, <1>8, <1>9, <1>10, <1>11, <1>12, <1>13
         DEF Next, AppendStep, CompactStep, WipeStep, CutStep

LEMMA VersionsStep == TypeInv /\ VersionsCounted /\ [Next]_vars => VersionsCounted'
<1> SUFFICES ASSUME TypeInv, VersionsCounted, [Next]_vars PROVE VersionsCounted'
  OBVIOUS
<1>0. /\ ops \in Nat /\ ops' \in Nat /\ ops' >= ops /\ op \in Ops /\ idx \in [Keys -> Entries]
      /\ \A k \in Keys : idx[k].ver \in Nat
  <2>1. ops \in Nat /\ op \in Ops /\ idx \in [Keys -> Entries]
    BY Constants DEF TypeInv, TypeOK, CallType, IndexType
  <2>2. ops' = ops \/ ops' = ops + 1
    BY DEF Next, Call, Put, Delete, BeginAppend, WipeBegin, AppendStep, EnsureErased, EnsureHeader,
           EnsureReady, AppendRecord, Prewarm, IndexStep, IndexPut, IndexFull, IndexDelete,
           DeadlogAppend, CompactStep, Compact, Reclaim, WipeStep, WipePage, WipeDead, WipeEnd,
           CutStep, CutClean, CutHeader, CutRecord, CutErase, CutDeadlog, PowerCut, ScanStep, Boot,
           ScanRecord, ScanCommit, ScanPageEnd, ScanDone, vars
  <2> QED BY <2>1, <2>2, LocationOf
<1>1. ASSUME NEW p \in Pages, NEW i \in 1 .. PageCells, cell'[p][i].kind = "rec"
      PROVE  cell'[p][i].ver <= ops'
  <2>1. cell[p][i].kind = "rec" => cell[p][i].ver <= ops /\ cell[p][i].ver \in Nat
    BY LocationOf DEF VersionsCounted
  <2>2. pc = "program" => NewRecord.ver <= ops /\ NewRecord.ver \in Nat
    BY <1>0, CellForms, Constants DEF VersionsCounted, AppendingPC, NewRecord, Ops
  <2>3. cell'[p][i] = cell[p][i] \/ (pc = "program" /\ cell'[p][i] = NewRecord)
    BY <1>1, OnlyNewRecord DEF vars, flashVars
  <2> QED BY <1>0, <1>1, <2>1, <2>2, <2>3
<1>2. ASSUME idx' = idx, scan' = scan, pc' \in AppendingPC => op'.ver <= ops'
      PROVE  VersionsCounted'
  <2>1. scan.pend.page # NoPage => scan.pend.ver <= ops /\ scan.pend.ver \in Nat
    BY Constants DEF VersionsCounted, TypeInv, TypeOK, CallType, Scans, Ops
  <2>2. \A k \in Keys : idx'[k].ver <= ops'
    BY <1>0, <1>2 DEF VersionsCounted
  <2>3. scan'.pend.page # NoPage => scan'.pend.ver <= ops'
    BY <1>0, <1>2, <2>1
  <2> QED BY <1>1, <1>2, <2>2, <2>3 DEF VersionsCounted
<1>3. CASE Call
  <2>1. ASSUME NEW k \in Keys, NEW v, NEW n \in Nat, n <= idx[k].ver + 1, BeginAppend(k, v, n)
        PROVE  VersionsCounted'
    <3>1. /\ idx' = idx /\ scan' = scan /\ ops' = ops + 1
          /\ op' = IF pc' = "ready"
                   THEN [key |-> k, val |-> v, ver |-> n, mg |-> gmg',
                         old |-> idx[k].page, page |-> NoPage, off |-> 1]
                   ELSE NoOp
          /\ pc' \in {"ready", "idle"}
      BY <2>1 DEF BeginAppend
    <3>2. idx[k].ver <= ops
      BY DEF VersionsCounted
    <3>3. n <= ops'
      BY <1>0, <2>1, <3>1, <3>2
    <3>4. pc' \in AppendingPC => op'.ver = n
      BY <3>1 DEF AppendingPC
    <3> QED BY <1>2, <3>1, <3>3, <3>4
  <2>2. ASSUME NEW k \in Keys, NEW v, Put(k, v) PROVE VersionsCounted'
    <3>1. NextVersion(idx[k].ver) \in Nat /\ NextVersion(idx[k].ver) <= idx[k].ver + 1
      BY <1>0, Constants DEF NextVersion
    <3> QED BY <2>1, <2>2, <3>1 DEF Put
  <2>3. ASSUME NEW k \in Keys, Delete(k) PROVE VersionsCounted'
    BY <1>0, <2>1, <2>3 DEF Delete
  <2>4. CASE WipeBegin
    <3>1. idx' = idx /\ scan' = scan /\ pc' \notin AppendingPC
      BY <2>4 DEF WipeBegin, ramVars, AppendingPC
    <3> QED BY <1>2, <3>1
  <2> QED BY <1>3, <2>2, <2>3, <2>4 DEF Call
<1>4. CASE AppendStep
  <2>1. idx' = idx /\ scan' = scan /\ pc \in AppendingPC /\ ops' = ops
    BY <1>4 DEF AppendStep, EnsureErased, EnsureHeader, EnsureReady, AppendRecord, Prewarm, ramVars,
                AppendingPC
  <2>2. op'.ver = op.ver
    BY <1>0, <1>4 DEF AppendStep, EnsureErased, EnsureHeader, EnsureReady, AppendRecord, Prewarm, Ops
  <2> QED BY <1>2, <2>1, <2>2 DEF VersionsCounted
<1>5. CASE IndexPut
  <2>1. /\ pc' \notin AppendingPC /\ scan' = scan /\ op.ver <= ops /\ ops' = ops
        /\ idx' = [idx EXCEPT ![op.key] = [page |-> op.page, off |-> op.off, ver |-> op.ver]]
    BY <1>5 DEF IndexPut, EndOrDeadlog, IdxSet, VersionsCounted, AppendingPC
  <2>2. \A k \in Keys : idx'[k].ver <= ops'
    BY <1>0, <2>1 DEF VersionsCounted
  <2> QED BY <1>1, <2>1, <2>2 DEF VersionsCounted
<1>6. CASE IndexDelete
  <2>1. /\ pc' \notin AppendingPC /\ scan' = scan /\ ops' = ops
        /\ idx' = [idx EXCEPT ![op.key] = Absent]
    BY <1>6 DEF IndexDelete, EndOrDeadlog, IdxRemove, AppendingPC
  <2>2. Absent.ver <= ops
    BY <1>0 DEF Absent
  <2>3. \A k \in Keys : idx'[k].ver <= ops'
    BY <1>0, <2>1, <2>2 DEF VersionsCounted
  <2> QED BY <1>1, <2>1, <2>3 DEF VersionsCounted
<1>7. CASE IndexFull \/ DeadlogAppend \/ CompactStep \/ WipePage \/ WipeDead
  <2>1. idx' = idx /\ scan' = scan /\ pc' \notin AppendingPC
    BY <1>7 DEF IndexFull, DeadlogAppend, CompactStep, Compact, Reclaim, WipePage, WipeDead, ramVars,
                AppendingPC
  <2> QED BY <1>2, <2>1
<1>8. CASE WipeEnd
  <2>1. idx' = [k \in Keys |-> Absent] /\ scan' = scan /\ pc' \notin AppendingPC /\ ops' = ops
    BY <1>8 DEF WipeEnd, AppendingPC
  <2>2. Absent.ver <= ops
    BY <1>0 DEF Absent
  <2> QED BY <1>1, <2>1, <2>2 DEF VersionsCounted
<1>9. CASE CutStep
  <2>1. PowerCut
    BY <1>9 DEF CutStep, CutClean, CutHeader, CutRecord, CutErase, CutDeadlog
  <2>2. idx' = [k \in Keys |-> Absent] /\ scan' = NoScan /\ pc' \notin AppendingPC /\ ops' = ops
    BY <2>1 DEF PowerCut, AppendingPC
  <2>3. Absent.ver <= ops
    BY <1>0 DEF Absent
  <2>4. scan'.pend.page = NoPage
    BY <2>2, IdleTypes
  <2> QED BY <1>1, <2>2, <2>3, <2>4 DEF VersionsCounted
<1>10. CASE Boot \/ UNCHANGED vars
  <2>1. /\ idx' = idx /\ scan' = scan
        /\ pc' \in AppendingPC => pc \in AppendingPC /\ op' = op /\ ops' = ops
    BY <1>10 DEF Boot, ramVars, vars, AppendingPC
  <2> QED BY <1>2, <2>1 DEF VersionsCounted
<1>11. CASE ScanRecord
  <2> DEFINE c == cell[scan.page][scan.off]
             r == IF c.kind = "badrec" THEN scan.pend ELSE Pending(scan.page, scan.off)
             s == [scan EXCEPT !.off = scan.off + 1]
  <2>1. /\ idx' = idx /\ pc' \notin AppendingPC /\ ops' = ops
        /\ scan.page \in Pages /\ scan.off <= PageCells /\ c.kind \in {"rec", "badrec"}
    BY <1>11 DEF ScanRecord, AtCell, Scanning, ramVars, AppendingPC
  <2>2. scan \in Scans /\ scan.off \in 1 .. PageCells + 1
    BY Ranges
  <2>3. scan.off \in 1 .. PageCells
    BY <2>1, <2>2, Constants
  <2>4. scan' = [s EXCEPT !.pend = r]
    BY <1>11 DEF ScanRecord, Pending
  <2>5. s \in Scans
    BY <2>2, <2>3, Constants DEF Scans
  <2>6. r.page # NoPage => r.ver <= ops
    <3>1. CASE c.kind = "badrec"
      BY <3>1 DEF VersionsCounted
    <3>2. CASE c.kind = "rec"
      BY <2>1, <2>3, <3>2 DEF VersionsCounted, Pending
    <3> QED BY <2>1, <3>1, <3>2
  <2> HIDE DEF s, r
  <2>7. scan'.pend = r
    BY <2>4, <2>5 DEF Scans
  <2> QED BY <1>1, <2>1, <2>6, <2>7 DEF VersionsCounted
<1>12. CASE ScanCommit
  <2> DEFINE r == scan.pend
             s == [scan EXCEPT !.off = scan.off + 1]
  <2>1. /\ pc' \notin AppendingPC /\ ops' = ops /\ scan' = [s EXCEPT !.pend = NoOp]
        /\ scan.page \in Pages /\ scan.off <= PageCells
    BY <1>12 DEF ScanCommit, AtCell, Scanning, AppendingPC
  <2>2. scan \in Scans /\ scan.off \in 1 .. PageCells + 1
    BY Ranges
  <2>3. s \in Scans
    BY <2>1, <2>2, Constants DEF Scans
  <2> HIDE DEF s
  <2>4. scan'.pend.page = NoPage
    BY <2>1, <2>3 DEF Scans, NoOp
  <2>5. \A k \in Keys : idx'[k].ver <= ops'
    <3>1. CASE r.page # NoPage /\ IdxRemove(r.key)
      BY <1>0, <2>1, <3>1 DEF IdxRemove, Absent, VersionsCounted
    <3>2. CASE r.page # NoPage /\ IdxSet(r.key, r.page, r.off, r.ver)
      BY <1>0, <2>1, <3>2 DEF IdxSet, VersionsCounted
    <3>3. CASE UNCHANGED idx
      BY <2>1, <3>3 DEF VersionsCounted
    <3> QED BY <1>12, <3>1, <3>2, <3>3 DEF ScanCommit, Committed
  <2> QED BY <1>1, <2>1, <2>4, <2>5 DEF VersionsCounted
<1>13. CASE ScanPageEnd \/ ScanDone
  <2>1. idx' = idx /\ pc' \notin AppendingPC /\ ops' = ops /\ scan'.pend.page = NoPage
    BY <1>13, IdleTypes DEF ScanPageEnd, ScanDone, Scanning, AppendingPC, NoOp
  <2> QED BY <1>1, <2>1 DEF VersionsCounted
<1> QED BY <1>3, <1>4, <1>5, <1>6, <1>7, <1>8, <1>9, <1>10, <1>11, <1>12, <1>13
        DEF Next, IndexStep, WipeStep, ScanStep

\* A key that is not in the index leaves room in it.
LEMMA RoomLeft == ASSUME Cardinality(Keys) <= IndexCapacity, NEW k \in Keys PROVE HasRoom(k)
<1> DEFINE S == {j \in Keys : Indexed(j)}
<1> SUFFICES ASSUME ~Indexed(k) PROVE Cardinality(S) < IndexCapacity
  BY DEF HasRoom, IndexSize
<1>1. S \subseteq Keys /\ S # Keys
  OBVIOUS
<1>2. IsFiniteSet(S) /\ IsFiniteSet(Keys)
  BY <1>1, Constants, FS_Subset
<1> HIDE DEF S
<1>3. Cardinality(S) \in Nat /\ Cardinality(Keys) \in Nat /\ IndexCapacity \in Nat
  BY <1>2, FS_CardinalityType, FlashAssumption
<1>4. Cardinality(S) < Cardinality(Keys)
  BY <1>1, <1>2, <1>3, FS_Subset
<1> QED BY <1>3, <1>4

\* With at most as many keys as index entries, and fewer calls than versions, kv_put never
\* finds the index full, and no key's versions start over.
THEOREM SmallStoreIsWithinLimits ==
    Cardinality(Keys) <= IndexCapacity /\ MaxOps < MaxVersion /\ Spec => []WithinLimits
<1> SUFFICES ASSUME Cardinality(Keys) <= IndexCapacity, MaxOps < MaxVersion
             PROVE  Spec => []WithinLimits
  OBVIOUS
<1>1. Init => VersionsCounted
  BY CellForms, IdleTypes DEF Init, VersionsCounted, Absent, AppendingPC
<1>2. TypeInv /\ VersionsCounted => WithinLimits
  <2> SUFFICES ASSUME TypeInv, VersionsCounted, NEW k \in Keys
               PROVE  HasRoom(k) /\ idx[k].ver < MaxVersion
    BY DEF WithinLimits
  <2>1. idx[k].ver <= ops /\ idx[k].ver \in Nat
    BY LocationOf DEF VersionsCounted
  <2>2. ops \in 0 .. MaxOps
    BY DEF TypeInv, TypeOK, CallType
  <2> QED BY <2>1, <2>2, RoomLeft, Constants
<1> QED BY <1>1, <1>2, TypeInit, TypeStep, VersionsStep, PTL DEF Spec

-----------------------------------------------------------------------------
(* The durable map.                                                        *)

\* What the map of KvMap is: what the callers were told, but for the key of a call that is
\* on flash and not yet in the index.
MapRead == \A k \in Keys : MapValue[k] = IF Behind(k) THEN Get(k) ELSE store[k]

LEMMA MapIs == DurableInv => MapRead
<1> SUFFICES ASSUME DurableInv, NEW k \in Keys
             PROVE  MapValue[k] = IF Behind(k) THEN Get(k) ELSE store[k]
  BY DEF MapRead
<1>1. MapValue[k] = IF ~Powered \/ pc = "wipe" THEN store[k] ELSE Get(k)
  BY DEF MapValue
<1>2. Up <=> Powered /\ pc # "wipe"
  BY DEF Up, Down, Powered
<1>3. CASE Up
  BY <1>1, <1>2, <1>3 DEF DurableInv, RunTrue, ReadsStore
<1>4. CASE ~Up
  <2>1. ~Behind(k)
    BY <1>4 DEF Up, Down, Behind, Appended
  <2> QED BY <1>1, <1>2, <1>4, <2>1
<1> QED BY <1>3, <1>4

LEMMA MapIsNext == DurableInv' => MapRead'
BY MapIs, PTL

\* Two maps that agree on every key are equal.
LEMMA SameMap ==
    ASSUME \A k \in Keys : MapValue'[k] = MapValue[k]
    PROVE  MapValue' = MapValue
BY DEF MapValue

\* A step that moves no part of the map.
LEMMA MapStutters ==
    ASSUME DurableInv, DurableInv', MapCall' = MapCall, Powered' = Powered, fuzzy' = fuzzy,
           \A k \in Keys : IF Behind(k)' THEN Get(k)' = MapValue[k] ELSE store'[k] = MapValue[k]
    PROVE  UNCHANGED Map!mapVars
<1>1. \A k \in Keys : MapValue'[k] = IF Behind(k)' THEN Get(k)' ELSE store'[k]
  BY MapIsNext DEF MapRead
<1>2. MapValue' = MapValue
  BY <1>1, SameMap
<1> QED BY <1>2 DEF Map!mapVars

LEMMA CallMaps ==
    ASSUME DurableInv, DurableInv', Call
    PROVE  [Map!Next]_(Map!mapVars)
<1>0. \A k \in Keys : MapValue[k] = IF Behind(k) THEN Get(k) ELSE store[k]
  BY MapIs DEF MapRead
<1>1. ASSUME NEW k \in Keys, NEW v \in Vals \cup {Gone}, NEW n, BeginAppend(k, v, n),
             fuzzy' = IF v = Gone /\ pc' = "ready" THEN fuzzy \cup {k} ELSE fuzzy
      PROVE  [Map!Next]_(Map!mapVars)
  <2>1. /\ pc = "idle" /\ pc' \in {"idle", "ready"} /\ cell' = cell /\ idx' = idx
        /\ store' = store
        /\ pc' = "ready" => op'.key = k /\ op'.val = v
    BY <1>1 DEF BeginAppend, flashVars
  <2>2. /\ Powered /\ Powered' /\ ~Appending /\ (Appending' <=> pc' = "ready")
        /\ \A j : ~Behind(j) /\ ~Behind(j)'
    BY <2>1 DEF Powered, Appending, Behind, Appended
  <2>3. MapCall = <<Gone, Gone>> /\ MapCall' = IF pc' = "ready" THEN <<k, v>> ELSE <<Gone, Gone>>
    BY <2>1, <2>2 DEF MapCall
  <2>4. \A j \in Keys : store'[j] = MapValue[j]
    BY <1>0, <2>1, <2>2
  <2>5. CASE pc' = "idle"
    BY <1>1, <2>2, <2>3, <2>4, <2>5, MapStutters
  <2>6. CASE pc' = "ready"
    <3>1. \A j \in Keys : MapValue'[j] = store'[j]
      <4>1. \A j \in Keys : MapValue'[j] = IF Behind(j)' THEN Get(j)' ELSE store'[j]
        BY MapIsNext DEF MapRead
      <4> QED BY <2>2, <4>1
    <3>2. MapValue' = MapValue
      BY <2>4, <3>1, SameMap
    <3>3. Map!Invoke(k, v)
      BY <1>1, <2>2, <2>3, <2>6, <3>2 DEF Map!Invoke, Map!NoCall
    <3> QED BY <3>3 DEF Map!Next
  <2> QED BY <2>1, <2>5, <2>6
<1>2. ASSUME NEW k \in Keys, NEW v \in Vals, Put(k, v) PROVE [Map!Next]_(Map!mapVars)
  <2>1. v # Gone
    BY Constants
  <2> QED BY <1>1, <1>2, <2>1 DEF Put
<1>3. ASSUME NEW k \in Keys, Delete(k) PROVE [Map!Next]_(Map!mapVars)
  BY <1>1, <1>3 DEF Delete
<1>4. CASE WipeBegin
  <2>1. /\ pc = "idle" /\ pc' = "wipe" /\ store' = [k \in Keys |-> Gone] /\ fuzzy' = Keys
    BY <1>4 DEF WipeBegin
  <2>2. /\ Powered /\ Powered' /\ ~Appending /\ ~Appending'
    BY <2>1 DEF Powered, Appending
  <2>3. MapCall = <<Gone, Gone>> /\ MapCall' = <<Gone, Gone>>
    BY <2>2 DEF MapCall
  <2>4. MapValue' = [k \in Keys |-> Gone]
    BY <2>1 DEF MapValue
  <2> QED BY <2>1, <2>2, <2>3, <2>4 DEF Map!Next, Map!Wipe, Map!NoCall
<1> QED BY <1>2, <1>3, <1>4 DEF Call

LEMMA AppendMaps ==
    ASSUME DurableInv, DurableInv', AppendStep
    PROVE  UNCHANGED Map!mapVars
<1>0. \A k \in Keys : MapValue[k] = IF Behind(k) THEN Get(k) ELSE store[k]
  BY MapIs DEF MapRead
<1>1. /\ pc # "wipe" /\ idx' = idx /\ fuzzy' = fuzzy /\ Powered /\ Powered'
      /\ Appending /\ Appending' /\ op \in Ops
  <2>1. op \in Ops
    BY Ranges DEF DurableInv, LiveInv
  <2> QED BY <2>1 DEF AppendStep, EnsureErased, EnsureHeader, EnsureReady, AppendRecord, Prewarm,
                      ramVars, ghosts, Powered, Appending
<1>2. op'.key = op.key /\ op'.val = op.val
  BY <1>1 DEF AppendStep, EnsureErased, EnsureHeader, EnsureReady, AppendRecord, Prewarm, Ops
<1>3. MapCall' = MapCall
  BY <1>1, <1>2 DEF MapCall
<1>4. \A k \in Keys : Get(k)' = Get(k)
  BY <1>1, SameRead DEF Next, DurableInv
<1>5. \A k \in Keys : Behind(k) => Behind(k)'
  BY <1>2 DEF AppendStep, EnsureErased, EnsureHeader, EnsureReady, AppendRecord, Prewarm, Behind,
              Appended
<1>6. \A k \in Keys : ~Behind(k) => Get(k) = store[k]
  BY <1>1 DEF DurableInv, RunTrue, ReadsStore, Up, Down, Powered
<1>7. \A k \in Keys : ~Behind(k)' => store'[k] = store[k]
  <2>1. CASE AppendRecord
    <3>1. \A k : Behind(k)' <=> k = op.key
      BY <1>2, <2>1 DEF AppendRecord, Behind, Appended
    <3>2. store' = [store EXCEPT ![op.key] = op.val] \/ store' = store
      BY <2>1 DEF AppendRecord
    <3>3. store \in [Keys -> Vals \cup {Gone}]
      BY DEF DurableInv, LiveInv, TypeInv, TypeOK, CallType
    <3> QED BY <3>1, <3>2, <3>3
  <2>2. CASE ~AppendRecord
    BY <2>2 DEF AppendStep, EnsureErased, EnsureHeader, EnsureReady, Prewarm, ghosts
  <2> QED BY <2>1, <2>2
<1>8. \A k \in Keys : IF Behind(k)' THEN Get(k)' = MapValue[k] ELSE store'[k] = MapValue[k]
  BY <1>0, <1>4, <1>5, <1>6, <1>7
<1> QED BY <1>1, <1>3, <1>8, MapStutters

LEMMA IndexMaps ==
    ASSUME WithinLimits, DurableInv, DurableInv', IndexStep
    PROVE  [Map!Next]_(Map!mapVars)
<1>0. \A k \in Keys : MapValue[k] = IF Behind(k) THEN Get(k) ELSE store[k]
  BY MapIs DEF MapRead
<1>1. \A k \in Keys : MapValue'[k] = IF Behind(k)' THEN Get(k)' ELSE store'[k]
  BY MapIsNext DEF MapRead
<1>2. /\ store' = store /\ fuzzy' = fuzzy /\ Powered /\ Powered' /\ ~Appending'
      /\ \A k : ~Behind(k)'
  BY DEF IndexStep, IndexPut, IndexFull, IndexDelete, DeadlogAppend, EndOrDeadlog, ghosts, Powered,
         Appending, Behind, Appended
<1>3. MapCall' = <<Gone, Gone>>
  BY <1>2 DEF MapCall
<1>4. CASE DeadlogAppend
  <2>1. MapCall = <<Gone, Gone>> /\ \A k : ~Behind(k)
    BY <1>4 DEF DeadlogAppend, MapCall, Appending, Behind, Appended
  <2>2. \A k \in Keys : store'[k] = MapValue[k]
    BY <1>0, <1>2, <2>1
  <2> QED BY <1>2, <1>3, <2>1, <2>2, MapStutters
<1>5. CASE IndexPut \/ IndexDelete
  <2>1. PICK k \in Keys : k = op.key
    BY <1>5 DEF IndexPut, IndexDelete, DurableInv, LiveInv, TypeInv, CarriedByCall, AppendingPC
  <2>2. /\ Appending /\ store[k] = op.val
        /\ \A j : Behind(j) <=> j = k
    BY <1>5, <2>1 DEF IndexPut, IndexDelete, DurableInv, RunTrue, CallTrue, Appending, Appended,
                      Behind
  <2>3. MapCall = <<k, op.val>> /\ k # Gone
    BY <2>1, <2>2, Constants DEF MapCall
  <2>4. \A j \in Keys : MapValue'[j] = IF j = k THEN op.val ELSE MapValue[j]
    BY <1>0, <1>1, <1>2, <2>2
  <2>5. MapValue' = [MapValue EXCEPT ![k] = op.val]
    BY <2>4 DEF MapValue
  <2>6. Map!Apply
    BY <1>2, <1>3, <2>3, <2>5 DEF Map!Apply, Map!NoCall, Map!Effect
  <2> QED BY <2>6 DEF Map!Next
<1>6. CASE IndexFull
  <2>1. op.key \in Keys
    BY <1>6 DEF IndexFull, DurableInv, LiveInv, TypeInv, CarriedByCall, AppendingPC
  <2> QED BY <1>6, <2>1 DEF IndexFull, WithinLimits
<1> QED BY <1>4, <1>5, <1>6 DEF IndexStep

LEMMA CompactMaps ==
    ASSUME DurableInv, DurableInv', CompactStep
    PROVE  UNCHANGED Map!mapVars
<1>1. /\ store' = store /\ fuzzy' = fuzzy /\ Powered /\ Powered' /\ ~Appending /\ ~Appending'
      /\ \A k : ~Behind(k) /\ ~Behind(k)'
  BY DEF CompactStep, Compact, Reclaim, ghosts, Powered, Appending, Behind, Appended
<1>2. MapCall' = MapCall
  BY <1>1 DEF MapCall
<1>3. \A k \in Keys : store'[k] = MapValue[k]
  BY <1>1, MapIs DEF MapRead
<1> QED BY <1>1, <1>2, <1>3, MapStutters

LEMMA WipeMaps ==
    ASSUME DurableInv, DurableInv', WipeStep
    PROVE  [Map!Next]_(Map!mapVars)
<1>1. /\ store' = store /\ Powered /\ Powered' /\ ~Appending /\ ~Appending'
      /\ \A k : ~Behind(k) /\ ~Behind(k)'
  BY DEF WipeStep, WipePage, WipeDead, WipeEnd, ghosts, Powered, Appending, Behind, Appended
<1>2. MapCall' = <<Gone, Gone>> /\ MapCall = <<Gone, Gone>>
  BY <1>1 DEF MapCall
<1>3. \A k \in Keys : store'[k] = MapValue[k]
  BY <1>1, MapIs DEF MapRead
<1>4. CASE WipePage \/ WipeDead
  <2>1. fuzzy' = fuzzy
    BY <1>4 DEF WipePage, WipeDead, ghosts
  <2> QED BY <1>1, <1>2, <1>3, <2>1, MapStutters
<1>5. CASE WipeEnd
  <2>1. fuzzy' = {} /\ store = [k \in Keys |-> Gone]
    BY <1>5 DEF WipeEnd, DurableInv, RunTrue, Wiped
  <2>2. \A k \in Keys : MapValue'[k] = MapValue[k]
    BY <1>1, <1>3, MapIsNext DEF MapRead
  <2>3. MapValue' = MapValue
    BY <2>2, SameMap
  <2>4. MapValue = [k \in Keys |-> Gone]
    BY <1>1, <1>3, <2>1 DEF MapValue
  <2>5. Map!WipeDone
    BY <1>1, <1>2, <2>1, <2>3, <2>4 DEF Map!WipeDone, Map!NoCall
  <2> QED BY <2>5 DEF Map!Next
<1> QED BY <1>4, <1>5 DEF WipeStep

LEMMA CutMaps ==
    ASSUME DurableInv, DurableInv', CutStep
    PROVE  [Map!Next]_(Map!mapVars)
<1>1. PowerCut
  BY DEF CutStep, CutClean, CutHeader, CutRecord, CutErase, CutDeadlog
<1>2. /\ store' = store /\ fuzzy' = fuzzy /\ ~Powered' /\ ~Appending' /\ \A k : ~Behind(k)'
  BY <1>1 DEF PowerCut, ghosts, Powered, Appending, Behind, Appended
<1>3. MapCall' = <<Gone, Gone>>
  BY <1>2 DEF MapCall
<1>4. \A k \in Keys : MapValue'[k] = store[k]
  BY <1>2, MapIsNext DEF MapRead
<1>5. \A k \in Keys : MapValue[k] = IF Behind(k) THEN Get(k) ELSE store[k]
  BY MapIs DEF MapRead
<1>6. MapValue' = MapValue \/ (MapCall # Map!NoCall /\ MapValue' = Map!Effect)
  <2>1. CASE ~Appended
    <3>1. \A k \in Keys : MapValue'[k] = MapValue[k]
      BY <1>4, <1>5, <2>1 DEF Behind
    <3> QED BY <3>1, SameMap
  <2>2. CASE Appended
    <3>1. PICK k \in Keys : k = op.key
      BY <2>2 DEF Appended, DurableInv, LiveInv, TypeInv, CarriedByCall, AppendingPC
    <3>2. /\ store[k] = op.val /\ Appending
          /\ \A j : Behind(j) <=> j = k
      BY <2>2, <3>1 DEF DurableInv, RunTrue, CallTrue, Appending, Appended, Behind
    <3>3. MapCall = <<k, op.val>> /\ k # Gone
      BY <3>1, <3>2, Constants DEF MapCall
    <3>4. \A j \in Keys : MapValue'[j] = IF j = k THEN op.val ELSE MapValue[j]
      BY <1>4, <1>5, <3>2
    <3>5. MapValue' = [MapValue EXCEPT ![k] = op.val]
      BY <3>4 DEF MapValue
    <3> QED BY <3>3, <3>5 DEF Map!NoCall, Map!Effect
  <2> QED BY <2>1, <2>2
<1>7. Map!PowerCut
  BY <1>2, <1>3, <1>6 DEF Map!PowerCut, Map!NoCall
<1> QED BY <1>7 DEF Map!Next

LEMMA ScanMaps ==
    ASSUME DurableInv, DurableInv', ScanStep
    PROVE  [Map!Next]_(Map!mapVars)
<1>1. /\ fuzzy' = fuzzy /\ ~Powered /\ ~Appending /\ ~Appending'
      /\ \A k : ~Behind(k) /\ ~Behind(k)'
  BY DEF ScanStep, Boot, ScanRecord, ScanCommit, ScanPageEnd, ScanDone, Scanning, AtCell, ghosts,
         Powered, Appending, Behind, Appended
<1>2. MapCall' = <<Gone, Gone>> /\ MapCall = <<Gone, Gone>>
  BY <1>1 DEF MapCall
<1>3. /\ \A k \in Keys : MapValue[k] = store[k]
      /\ \A k \in Keys : MapValue'[k] = store'[k]
  BY <1>1, MapIs, MapIsNext DEF MapRead
<1>4. CASE Boot \/ ScanRecord \/ ScanCommit \/ ScanPageEnd
  <2>1. Powered' = Powered /\ store' = store
    BY <1>4 DEF Boot, ScanRecord, ScanCommit, ScanPageEnd, AtCell, Scanning, Powered, ghosts
  <2>2. \A k \in Keys : IF Behind(k)' THEN Get(k)' = MapValue[k] ELSE store'[k] = MapValue[k]
    BY <1>1, <1>3, <2>1
  <2>3. UNCHANGED Map!mapVars
    BY <1>1, <1>2, <2>1, <2>2, MapStutters
  <2> QED BY <2>3
<1>5. CASE ScanDone
  <2>1. Powered' /\ \A k \in Keys \ fuzzy : store'[k] = store[k]
    BY <1>5 DEF ScanDone, Powered
  <2>2. store' \in [Keys -> Vals \cup {Gone}]
    BY DEF DurableInv, LiveInv, TypeInv, TypeOK, CallType
  <2>3. MapValue' \in [Keys -> Vals \cup {Gone}]
    <3>1. \A k \in Keys : MapValue'[k] \in Vals \cup {Gone}
      BY <1>3, <2>2
    <3> QED BY <3>1 DEF MapValue
  <2>4. Map!Reboot
    BY <1>1, <1>2, <1>3, <2>1, <2>3 DEF Map!Reboot
  <2> QED BY <2>4 DEF Map!Next
<1> QED BY <1>4, <1>5 DEF ScanStep

LEMMA MapInit == Init => Map!Init
BY Constants DEF Init, Map!Init, Map!NoCall, MapValue, MapCall, Powered, Appending

LEMMA MapStep ==
    WithinLimits /\ DurableInv /\ DurableInv' /\ [Next]_vars => [Map!Next]_(Map!mapVars)
<1> SUFFICES ASSUME WithinLimits, DurableInv, DurableInv', [Next]_vars
             PROVE  [Map!Next]_(Map!mapVars)
  OBVIOUS
<1>1. CASE UNCHANGED vars
  <2>1. /\ pc' = pc /\ op' = op /\ fuzzy' = fuzzy /\ store' = store /\ idx' = idx /\ cell' = cell
    BY <1>1 DEF vars, flashVars, ramVars, ghosts
  <2>2. \A k : Get(k)' = Get(k)
    BY <2>1 DEF Get, Indexed
  <2>3. MapCall' = MapCall /\ Powered' = Powered
    BY <2>1 DEF MapCall, Appending, Powered
  <2>4. \A k : Behind(k)' = Behind(k)
    BY <2>1 DEF Behind, Appended
  <2>5. \A k \in Keys : IF Behind(k)' THEN Get(k)' = MapValue[k] ELSE store'[k] = MapValue[k]
    BY <2>1, <2>2, <2>4, MapIs DEF MapRead
  <2> QED BY <2>1, <2>3, <2>5, MapStutters
<1> QED BY <1>1, CallMaps, AppendMaps, IndexMaps, CompactMaps, WipeMaps, CutMaps, ScanMaps DEF Next

\* The same stores implement the durable map: a call takes effect when the index is updated, a
\* power cut lets the call it interrupts happen or not, and nothing else ever changes the map.
THEOREM ImplementsTheMap == DurableFlash /\ Spec /\ []WithinLimits => ImplementsMap
<1> SUFFICES ASSUME DurableFlash PROVE Spec /\ []WithinLimits => ImplementsMap
  OBVIOUS
<1>1. WithinLimits /\ DurableInv /\ [Next]_vars => DurableInv'
  BY DurableStep
<1> QED BY DurableInit, MapInit, MapStep, <1>1, PTL DEF Spec, ImplementsMap, Map!Spec

=============================================================================
