-------------------------------- MODULE Update --------------------------------
(***************************************************************************)
(* The firmware update: an image is uploaded in chunks to a staging area   *)
(* on the SD card (POST /update/begin, /chunk, /commit of                  *)
(* src/httpd/web_server.c), then Core 0 parks Core 1 and copies it over    *)
(* the flash it runs from.  A chunk and a flash sector are one unit; the   *)
(* first sector is written last.                                           *)
(*                                                                         *)
(* The uploaders (ota_deploy.py and the page of GET /update) are external: *)
(* a chunk does not say where in the image it belongs, one that was not    *)
(* answered in time is sent again, and the first copy may still arrive.    *)
(* Power can fail at any time; the SD card can refuse a read or a write.   *)
(* The operators named Mut... are seeded bugs that show that a property    *)
(* notices.                                                                *)
(***************************************************************************)
EXTENDS Naturals, FiniteSets

CONSTANTS
    Uploads,              \* attempts to upload an image, each from a log-in of its own
    Size,                 \* upload -> chunks of its image
    Tries,                \* upload -> attempts at one chunk (ota_deploy.py 3, the page 1)
    SlotSize,             \* OTA_SLOT_SIZE in chunks
    MaxCuts, MaxRefused   \* bounds: power cuts, SD reads and writes refused

ASSUME UpdateAssumption ==
    /\ SlotSize \in Nat \ {0} /\ MaxCuts \in Nat /\ MaxRefused \in Nat
    /\ Size \in [Uploads -> Nat \ {0}] /\ Tries \in [Uploads -> Nat \ {0}]

VARIABLES
    ota,        \* g_ota: active, off; owner: the upload whose begin it answered
    sd,         \* the staging area: chunk -> what was written there last
    buf,        \* g_ota_chunk_buf: the sector on its way to flash
    flash,      \* sector -> its contents
    core0,      \* "run", "park" (waits for Core 1), "copy", "off"
    pos,        \* the sector copied next
    core1,      \* "loop" (top of its loop), "busy" (in a request or compaction), "parked"
    halt, halted, late,   \* ota_halt_core1, ota_core1_halted; whether the wait ran out
    up,         \* upload -> its client
    wire,       \* requests on their way
    session,    \* uploads whose cookie is valid
    excuse,     \* what went wrong in the upload under way: "twice", "refused", "stray"
    ended,      \* uploads that were ended by a chunk too many
    tainted,    \* such an upload, or by another client's commit, was copied to flash
    cuts, refused

device == <<ota, sd, buf, flash, core0, pos, core1, halt, halted, late, excuse, ended, tainted>>
vars == <<device, up, wire, session, cuts, refused>>

Cells == 1 .. SlotSize
Old == <<"old", 0>>
Junk == <<"junk", 0>>     \* bytes of no image: zeros at start, or a mixture
Idle == [active |-> FALSE, off |-> 0, owner |-> Old]

(***************************************************************************)
(* The uploader (external).                                                *)
(***************************************************************************)
Client(pc, next, left, waits, sent) ==
    [pc |-> pc, next |-> next, left |-> left, waits |-> waits, sent |-> sent]

\* It goes on after an answer, or after none in time; a failure other than a chunk's ends it.
Proceed(u, ok) ==
    LET c == up[u] IN
    CASE ok /\ c.pc = "begin" -> Client("chunk", c.next, c.left, FALSE, c.sent)
      [] ok /\ c.pc = "chunk" ->
             Client(IF c.next = Size[u] THEN "commit" ELSE "chunk", c.next + 1, Tries[u], FALSE, c.sent)
      [] ~ok /\ c.pc = "chunk" /\ c.left > 1 -> Client("chunk", c.next, c.left - 1, FALSE, c.sent)
      [] OTHER -> Client("done", c.next, c.left, FALSE, c.sent)

Start(u) ==
    /\ up[u].pc = "idle" /\ core0 = "run"
    /\ up' = [up EXCEPT ![u] = Client("begin", @.next, @.left, FALSE, @.sent)]
    /\ session' = session \cup {u}
    /\ UNCHANGED <<device, wire, cuts, refused>>

Send(u) ==
    /\ up[u].pc \in {"begin", "chunk", "commit"} /\ ~up[u].waits
    /\ up' = [up EXCEPT ![u] = Client(@.pc, @.next, @.left, TRUE, @.sent + 1)]
    /\ wire' = wire \cup {[from |-> u, op |-> up[u].pc, cell |-> <<u, up[u].next>>, n |-> up[u].sent + 1]}
    /\ UNCHANGED <<device, session, cuts, refused>>

TimesOut(u) ==
    /\ up[u].waits /\ up' = [up EXCEPT ![u] = Proceed(u, FALSE)]
    /\ UNCHANGED <<device, wire, session, cuts, refused>>

(***************************************************************************)
(* The handlers.                                                           *)
(***************************************************************************)
\* A request is taken off the wire and answered; an answer nobody waits for is lost.
Answer(m, ok) ==
    /\ wire' = wire \ {m}
    /\ up' = IF up[m.from].waits /\ up[m.from].sent = m.n
             THEN [up EXCEPT ![m.from] = Proceed(m.from, ok)] ELSE up

MutBegins == TRUE

\* POST /update/begin: an upload under way is not disturbed.
Begins == ~ota.active

Begin(m) ==
    /\ ota' = [active |-> TRUE, off |-> 0, owner |-> m.from] /\ excuse' = {}
    /\ Answer(m, TRUE)
    /\ UNCHANGED <<sd, ended, refused>>

MutRoom == ota.off <= SlotSize

\* Whether one more chunk fits in the staging area.
Room == ota.off < SlotSize

\* What the device cannot tell: the chunk was staged before, or its upload was ended by its size.
Wrong(m) == (IF \E k \in 1 .. ota.off : sd[k] = m.cell THEN {"twice"} ELSE {})
                \cup (IF m.from \in ended THEN {"stray"} ELSE {})

\* What a refused transfer leaves of the staging area: a write not done, or a block that
\* this chunk shares with the one before written with bytes that were never read.
Damaged == {[k \in Cells |-> IF k \in lost THEN Junk ELSE sd[k]] :
               lost \in SUBSET {k \in Cells : k \in {ota.off, ota.off + 1}}}

\* POST /update/chunk, ota_write_chunk_sd.  A refused SD read or write counts as done.
Chunk(m) ==
    IF Room
    THEN \E ok \in BOOLEAN :
        /\ ok \/ refused < MaxRefused
        /\ ota' = [ota EXCEPT !.off = @ + 1]
        /\ sd' \in IF ok THEN {[sd EXCEPT ![ota.off + 1] = m.cell]} ELSE Damaged
        /\ excuse' = excuse \cup Wrong(m) \cup (IF ok THEN {} ELSE {"refused"})
        /\ refused' = IF ok THEN refused ELSE refused + 1
        /\ Answer(m, TRUE) /\ UNCHANGED ended
    ELSE /\ ota' = [ota EXCEPT !.active = FALSE] /\ ended' = ended \cup {ota.owner}
         /\ Answer(m, FALSE)
         /\ UNCHANGED <<sd, excuse, refused>>

\* POST /update/commit: answered, then Core 1 is told to park.
Commit(m) ==
    /\ core0' = "park" /\ halt' = TRUE /\ late' = FALSE
    /\ tainted' = (tainted \/ excuse # {} \/ m.from \in ended)
    /\ Answer(m, TRUE)
    /\ UNCHANGED <<ota, sd, excuse, ended, refused, pos>>

\* check_auth_session and user_auth_is_admin, the checks of g_ota.active, then the handler.
Handle(m) ==
    /\ core0 = "run"
    /\ IF m.from \notin session \/ (IF m.op = "begin" THEN ~Begins ELSE ~ota.active)
       THEN Answer(m, FALSE) /\ UNCHANGED <<ota, sd, excuse, ended, core0, pos, halt, late, tainted, refused>>
       ELSE \/ m.op = "begin" /\ Begin(m) /\ UNCHANGED <<core0, pos, halt, late, tainted>>
            \/ m.op = "chunk" /\ Chunk(m) /\ UNCHANGED <<core0, pos, halt, late, tainted>>
            \/ m.op = "commit" /\ Commit(m)
    /\ UNCHANGED <<buf, flash, core1, halted, session, cuts>>

(***************************************************************************)
(* The copy (ota_commit_from_sd), the cores, the power.                    *)
(***************************************************************************)
\* Core 0 saw Core 1's flag, or waited two seconds.
Parked ==
    /\ core0 = "park" /\ core0' = "copy" /\ pos' = IF ota.off > 1 THEN 2 ELSE 1
    /\ late' = ~halted
    /\ UNCHANGED <<ota, sd, buf, flash, core1, halt, halted, excuse, ended, tainted, up, wire, session, cuts, refused>>

\* What a restart loses: the RAM of both cores, the connections, the sessions.
Restart(c0) ==
    /\ core0' = c0 /\ pos' = 1 /\ core1' = "loop" /\ halt' = FALSE /\ halted' = FALSE
    /\ late' = FALSE /\ ota' = Idle /\ excuse' = {} /\ wire' = {} /\ session' = {}
    /\ buf' = Junk

\* The sectors in the order of the copy: the second to the last, then the first.
LastSector == pos = 1

NextPos == IF pos < ota.off THEN pos + 1 ELSE 1

\* What sd_read_blocks leaves in the buffer: the sector, or, when the card refuses, what was
\* there before, over which a part of the sector may have been read.
Fetched(ok) == IF ok THEN {sd[pos]} ELSE {buf, Junk}

\* One sector: fetched, programmed whatever the fetch said; after the first one the watchdog
\* restarts both cores.
Copy ==
    /\ core0 = "copy"
    /\ \E ok \in BOOLEAN : \E got \in Fetched(ok) :
         /\ ok \/ refused < MaxRefused
         /\ refused' = IF ok THEN refused ELSE refused + 1
         /\ tainted' = (tainted \/ ~ok)
         /\ flash' = IF pos <= ota.off THEN [flash EXCEPT ![pos] = got] ELSE flash
         /\ IF LastSector THEN Restart("run")
            ELSE /\ pos' = NextPos /\ buf' = got
                 /\ UNCHANGED <<ota, core0, core1, halt, halted, late, excuse, wire, session>>
    /\ UNCHANGED <<sd, ended, up, cuts>>

\* Power fails, or the device is restarted.  During the copy that is the end of it.
Cut ==
    /\ cuts < MaxCuts /\ core0 # "off" /\ cuts' = cuts + 1
    /\ Restart(IF core0 = "copy" THEN "off" ELSE "run")
    /\ UNCHANGED <<sd, flash, ended, tainted, up, refused>>

MutAtTop == core1 # "parked"

\* Core 1 looks at the flag at the top of its loop only (wal_engine_run).
AtTop == core1 = "loop"

Park ==
    /\ core0 # "off" /\ AtTop /\ halt
    /\ halted' = TRUE /\ core1' = IF core1 = "loop" THEN "parked" ELSE core1
    /\ UNCHANGED <<ota, sd, buf, flash, core0, pos, halt, late, excuse, ended, tainted, up, wire, session, cuts, refused>>

Work ==
    /\ core0 # "off"
    /\ \/ core1 = "loop" /\ ~halt /\ core1' = "busy"
       \/ core1 = "busy" /\ core1' = "loop"
    /\ UNCHANGED <<ota, sd, buf, flash, core0, pos, halt, halted, late, excuse, ended, tainted, up, wire, session, cuts, refused>>

Init ==
    /\ ota = Idle /\ sd = [k \in Cells |-> Old] /\ buf = Junk /\ flash = [k \in Cells |-> Old]
    /\ core0 = "run" /\ pos = 1 /\ core1 = "loop" /\ halt = FALSE /\ halted = FALSE /\ late = FALSE
    /\ up = [u \in Uploads |-> Client("idle", 1, Tries[u], FALSE, 0)]
    /\ wire = {} /\ session = {} /\ excuse = {} /\ ended = {} /\ tainted = FALSE /\ cuts = 0 /\ refused = 0

Next ==
    \/ \E u \in Uploads : Start(u) \/ Send(u) \/ TimesOut(u)
    \/ \E m \in wire : Handle(m)
    \/ Parked \/ Copy \/ Cut \/ Park \/ Work

Spec == Init /\ [][Next]_vars

-----------------------------------------------------------------------------
(***************************************************************************)
(* Properties.                                                             *)
(***************************************************************************)
Contents == {Old, Junk} \cup (Uploads \X Nat)

\* The staged length never passes the staging area, whatever the uploaders send (OTA_SLOT_SIZE
\* in the chunk handler and in ota_write_chunk_sd), so the copy stays within slot A.
TypeOK ==
    /\ ota \in [active : BOOLEAN, off : 0 .. SlotSize, owner : Uploads \cup {Old}]
    /\ sd \in [Cells -> Contents] /\ buf \in Contents
    /\ flash \in [Cells -> Contents] /\ pos \in Cells
    /\ core0 \in {"run", "park", "copy", "off"} /\ core1 \in {"loop", "busy", "parked"}
    /\ halt \in BOOLEAN /\ halted \in BOOLEAN /\ late \in BOOLEAN /\ tainted \in BOOLEAN
    /\ excuse \subseteq {"twice", "refused", "stray"} /\ session \subseteq Uploads /\ ended \subseteq Uploads
    /\ \A m \in wire : m.from \in Uploads /\ m.op \in {"begin", "chunk", "commit"} /\ m.cell \in Contents

Holds(u) == \A k \in 1 .. Size[u] : flash[k] = <<u, k>>

\* What the device runs is the old firmware or one upload from its first to its last sector,
\* through uploads that fail, time out, compete or are cut off, unless a chunk whose answer was
\* late was staged twice, an upload that was ended by its size went on into the next one, or
\* committed it, or the SD card refused a write while it was staged or a read in the copy, whose
\* results nobody looks at.  A cut during the copy leaves a device this says nothing of.
FlashedIsOneUpload ==
    core0 # "copy" /\ core0 # "off" /\ ~tainted =>
        (\A k \in Cells : flash[k] = Old) \/ \E u \in Uploads : Holds(u)

\* The flash is rewritten while Core 1 stands in its halt loop, never while it is in a request
\* or a compaction, which write flash too, unless the two seconds of the wait ran out.
FlashWrittenAlone == core0 = "copy" /\ ~late => core1 = "parked"
=============================================================================
