# picowal: a TLA+ development

picowal is firmware for an RP2350 microcontroller: a record store ("cards" in
"packs") on NOR flash and on an SD card, reached over raw TCP, UDP and HTTP,
with the network on Core 0 and a write-ahead-log engine on Core 1. This
directory holds TLA+ models of it, TLC configurations that check them on small
instances, and TLAPS proofs of the central properties for every instance. All
paths below are relative to the repository root.

## 1. Inventory

| Component | Source | State it keeps | Operations |
|---|---|---|---|
| Flash store (packs 0 and 1) | `src/kv_flash.c` | flash: sectors ("pages"), each a CRC'd header and a log of records with a commit marker behind each; a dead log of 4 sectors. SRAM: sorted index of at most 4096 keys, per-page reference counts, write cursor, sequence and mutation-group counters, dead-log cursors | put, put-if-version, delete, wipe, compaction step, recovery (`kv_init`), reads |
| Request ring, raw TCP server | `src/net_core.c`, `src/wal_defs.h` | parser phase, request-id bitmap, request and response rings, 32-slot buffer pool, held network buffers, two hardware FIFOs | receive, dispatch, signal, drain, accept, disconnect |
| WAL engine | `src/wal_engine.c` | WAL entries (one slot each), sequence counter | append (read-merge-write to flash, then register the delta), read, noop, compaction |
| SD store (packs 2 and up) | `src/kv_sd.c` | SD: superblock, bitmap, two-choice hash table, packed blocks. Flash: a sorted index snapshot. SRAM: sorted index, open block, caches | put, delete, get, range, flush, init |
| Store routing | `src/kv_store.h` | none | chooses flash or SD by pack |
| UDP log | `src/udp_wal.c` | 8 sessions, 32 deferred batches, raw ring | hello, resume, batch write, read, poll |
| Users and sessions | `src/user_auth.c` | user cards, 4 sessions | init and seeding, login, logout, check, change password, create user |
| HTTP server, firmware update | `src/httpd/web_server.c` | 6 connections, update state, Core 1 halt flags | connection callbacks, request handling, update upload and commit |
| Query engine | `src/query.c` | cache of 8 schemas, 16 fanout statistics | parse, run |
| Schema catalogue | pack 0, written by `src/httpd/web_server.c` and `src/user_auth.c`; `src/metadata_dict.c` | a card per pack: name, fields, flags, module, child packs; a 32-entry cache of pack sizes | create, add a field, set children, delete, seed, flush a size; the dictionary is reloaded as a whole |
| Cryptography, drivers, compression, clients, FPGA | `src/crypto.c`, `drivers/`, `lib/`, `client/`, `fpga/` | see PROJECT.json | |

How they interact. Core 0 (`net_core_run`) polls the network stack, drains the
reverse FIFO, polls the UDP log and, when HTTP is quiet, flushes the SD store.
Core 1 (`wal_engine_run`) pops request ids from the forward FIFO, serves them,
and compacts when idle. The two share the rings and the slot pool
(`wal_state_t`) under an ownership protocol (`wal_defs.h:14-33`), and, without
any lock, the flash store: Core 1 calls it from appends and compaction, Core 0
from HTTP, login and UDP.

What is hard here: power cuts at every flash or SD operation (a write can be
torn, the SRAM is lost, recovery runs over whatever is there); the two cores'
hand-overs of slots, buffers and request ids; signals that are given up when a
FIFO stays full; counters and buffers at their limits (saturating reference
counts, restarting versions, full index, full pool, full last page); retries
and evictions in the UDP and login paths. `PROJECT.json` lists each hazard at
its line.

What makes each component correct:

* flash store: an acknowledged call is what readers get, before and after a
  power cut; an interrupted call happens entirely or not at all; live records
  are never overwritten or erased; reference counts are exact;
* ring and engine: every slot has at most one owner; an owner's bytes stay
  what it put there; network buffers are held exactly while needed; acknowledgements go
  out in request order; every request is answered;
* SD store: a card acknowledged is found under its key with its last value; no
  block is shared, lost or overfilled; index tiers and caches agree with the card;
* UDP log: a batch is applied once and in order, an acknowledgement tells the
  truth about it;
* users: every wrong password counts towards the lock-out, rights and locks stay as
  they were set, a session stays with the account that logged in;
* HTTP: every connection has a slot of its own and every slot a connection, a request
  is carried out once and answered;
* update: what is flashed is one image, and is flashed with Core 1 parked;
* catalogue and queries: a card is read under the names it was written with; an answer does
  not depend on what earlier queries left in caches and statistics, or on the order of conditions,
  and on the indexes of the SD card only where they do not cover a scan.

## 2. Plan

In order of importance; a module is built only when the one before it is
checked.

1. **KvFlash** (done): the flash store, one caller, with power cuts; **KvMap**,
   its abstract specification (a durable map), and **KvFlashMap**, the mapping between them;
   **KvFlashProofs**, its theorems.
2. **WalRing** (done): both cores, rings, FIFOs, slot pool; **WalRingProofs**.
3. **KvSd** (done): packed blocks, bitmap, hash table, index tiers, superblock,
   crashes between SD writes; **KvSdProofs**.
4. **UdpWal** (done): sessions, replay check, deferred queue, acknowledgements, over an
   abstract store; **UdpWalProofs**.
5. **UserAuth** (done): login, lock-out, sessions, creation and deletion, boot;
   **UserAuthProofs**.
6. **HttpConn** (done): the connection pool and the callbacks of the network stack;
   **ServerProofs**, first part.
7. **Update** (done): uploaders, staging area, the halt of Core 1, the copy;
   **UpdateProofs**.
8. **Catalogue**, **Query** (done): the schemas and their routes; the query engine against
   a definition of what a query means, composed with the catalogue it reads;
   **ServerProofs**, second part.
9. **KvCores** (done): both cores in the flash store with no lock; **KvCoresProofs**.
10. Open: the field merge of `wal_do_append` and, composed with WalRing and KvFlash, what
    an append acknowledges when flash refuses it; the FPGA implementation last.

Twelve runs exist, two of them violations of what the code's comments say; the other
disagreements met are described in section 9.

Section 7 lists the theorems proved, section 8 what stays with the runs.

## 3. The modules and the code

### KvFlash (`src/kv_flash.c`)

A **page** is a 4 KB sector: its header (`hdr`, `seq`) and `PageCells` cells.
A record takes one cell, its commit marker the next; sizes, compression and
CRCs are reduced to what a reader of the cell sees: blank, intact record,
record with a bad payload, commit marker, or bytes it cannot read. The last
`Slack` cells are the tail no record fits in; `Slack = 0` lets a record and its
marker end on the sector's last byte.

| Model | Code |
|---|---|
| `idx` | `g_keys`, `g_locs`, `g_versions`; `IdxSet`, `IdxRemove` are `idx_put`, `idx_remove` with their reference counts |
| `ref`, `Inc`, `Dec` | `g_page_ref_count`, saturating at 255 and then never decremented |
| `gseq`, `gmg`, `wpage`, `woff` | `g_page_sequence`, `g_mutation_group`, `g_write_page`, `g_write_off` |
| `dead`, `dwp`, `dwo`, `drp`, `dro` | the dead log and its two cursors |
| `Put`, `Delete` | `kv_put`, `kv_put_if_version` and `kv_delete` up to `select_append_page` |
| `EnsureErased`, `EnsureHeader`, `EnsureReady` | `ensure_append_page_ready`, one flash operation each |
| `AppendRecord`, `Prewarm` | the programming in `append_record`, and the preparation of the next page |
| `IndexPut`, `IndexFull`, `IndexDelete`, `DeadlogAppend` | the rest of the call, after the record is on flash |
| `Compact`, `Reclaim` | `kv_compact_step` |
| `WipeBegin`, `WipePage`, `WipeDead`, `WipeEnd` | `kv_wipe` |
| `CutClean`, `CutHeader`, `CutRecord`, `CutErase`, `CutDeadlog` | a power cut before the operation of the current step, or in the middle of it |
| `Boot`, `ScanRecord`, `ScanCommit`, `ScanPageEnd`, `ScanDone` | `kv_init` |

One call runs at a time, as on the core that makes it; that two cores call with
no lock is the subject of KvCores. Every flash operation is a step,
so a power cut can fall between any two, and `Tears` says which operations a cut
may leave half done. The ghosts `store` and `fuzzy` remember what callers were told.

### KvMap, KvFlashMap: what the store promises, and the mapping

KvMap is a durable map: one call at a time, `Invoke` then `Apply`; a power cut
keeps or drops exactly the pending call; `Reboot` may change only keys that were
ever deleted (`fuzzy`). That exception is not a convenience: a deletion is a
tombstone that recovery applies and forgets, so the order of pages decides
whether an older record comes back (section 9). KvFlashMap maps
`map` to what `kv_get_copy` returns, `call` to the operation between its
beginning and its index update; a wipe takes effect when it begins.

### KvCores (`src/kv_flash.c` with both cores)

KvFlash's calls again, without cuts, split where the other core can see a difference.

| Model | Code |
|---|---|
| `Call`, `Select`, `Ready`, `Fill`, `Program`, `Advance` | `kv_put` and `kv_delete` on core `c` through `append_record`, by the uses of `g_write_page`, `g_write_off` and the static `buf` |
| `Replace`; `Search`, `MoveKey`, `KeysMoved`, `MoveLoc`, `StoreKey`, `StoreLoc`, `Grow`, `Shrink` | `idx_set` and `idx_remove`; the two `memmove`s that matter, one element at a time |
| `Compact`, `Erase` | `kv_compact_step`, which only Core 1 calls: the check and the erase |
| `Get`, `Probe`, `Absent`, `ReadLoc`, `Check`, `Copy` | `kv_get_copy` on Core 0: the binary search probe by probe, then `read_record`, checks and copy |

`Writers` says which cores write. With Core 1 alone (`cores_read`) Core 0 only reads, which
is what the coding rules of the repository ask for (`.github/copilot-instructions.md:111`) and most
requests do. A read is then never wrong, thanks to the key stored in the record, except when
its page is erased under it, and reports a missing key only if it is missing or keys
are being inserted or removed. Put with both (`cores_write`), the first two puts can already
destroy each other. A flash operation is one step: that the chip cannot be
read while Core 1 programs it is hardware the model leaves out, as is a core that searches
the index while the other, also writing, moves it (`Found`, `Place`).
The ghosts `seen` and `during` remember what a read could rightly have given.

### WalRing (`src/net_core.c`, `src/wal_engine.c`, `src/wal_defs.h`)

| Model | Code |
|---|---|
| `req`, `resp`, `used` | `wal->requests`, `wal->responses`, `req_id_bitmap` |
| `free`, `data` | `slot_free` and the pool's bytes, reduced to whose deltas they hold and whether the value has arrived |
| `fwd`, `rev`, `Room`, `PushForward`, `GiveUpForward`, ... | the hardware FIFOs and `fifo_push_timeout` |
| `RecvNoop`, `RecvRead`, `RecvAppend`, `RecvAppendHeader`, `RecvAppendRest` | `process_rx` and the dispatch functions, by how much of the frame one network buffer brings |
| `RefuseBad`, `RefuseFull` | `send_error` for a bad opcode, a value too long, no free slot |
| `pbufs` | network buffers kept for Core 1 to copy from |
| `Pop`, `ServeNoop`, `ServeAppend`, `ServeRead`, `ServeReadNothing`, `Idle`, `Compact` | `wal_engine_run`, `wal_do_append`, `wal_do_read`, `wal_compact_step` |
| `Drain` | `drain_responses` and the release functions |
| `Disconnect`, `Accept` | the TCP callbacks |

Notes for a reader of both:

* `alloc_slot` takes the lowest free slot; the model takes any, which only adds
  behaviours and makes slots interchangeable.
* `alloc_req_id` searches a bitmap of 256 ids while the rings have 32 places.
  With 32 requests outstanding the next one is written behind the ring. The
  model stops both cores there (`Overrun`): what happens next is whatever lies
  behind the array, and nothing is claimed of it.
* Each core's step on shared memory is one action: the code separates the
  hand-overs by barriers and the FIFO.
* The answer is written with `tcp_write` and flag 0 from the slot just before
  the slot is released; `lwipopts.h:37` (`LWIP_NETIF_TX_SINGLE_PBUF`) makes lwIP
  copy, so the release is safe and the send is not modelled further.
* The "index full" branch of `wal_do_append` is not an action: `EntryFree`
  shows that it cannot be taken. Nor is a refusal for want of a request id: the allocator
  has 256 of them, and the model stops at the 33rd (`Overrun`).
* `tcp_write` may refuse an answer, which `drain_responses` does not look at: `Drain` has both
  outcomes. For `AnsweredUnlessLost` a request is answered when its answer was handed to lwIP.
* `KV_GET` and `KV_PUT` requests have handlers on Core 1, but nothing in the
  repository issues them; they are left out.

### KvSd (`src/kv_sd.c`)

All cards have one size, `BlockCap` of them fill a 512-byte block. A call is split
at every SD and flash write, so power can fail before each or tear it.

| Model | Code |
|---|---|
| `sb`, `bit`, `ht`, `blk`, `head` | on the card: superblock, bitmap, hash buckets, packed blocks, and whether a block's header is sound, was never written (`"zero"`), or has a card written over it (`"garbled"`) |
| `fidx`, `sealed` | the index snapshot in flash and its header |
| `open`, `used`, `dirty` | `g_sb.open_block`, `g_sb.open_used`, `g_sb.dirty` |
| `idx`, `fidxLive`, `openCache`, `dataCache` | the SRAM index, `g_fidx_count` not 0, the open block's buffer, the block cache |
| `Put`, `Delete`, `Get` | `kvsd_put`, `kvsd_delete`, `kvsd_get` up to the first write, with the promotion of the key to the SRAM index |
| `Allocate`, `CardFull`, `WriteCard`, `WriteGarbled`, `Overfill` | `packed_append`, `alloc_slot` |
| `HashAdd`, `HashDrop`, `Unhash` | `ht_insert`, `ht_remove` |
| `IndexPut`, `RemoveOld`, `RemoveNothing`, `FreeBlock` | the rest of the two calls, `packed_remove_card` |
| `FlushSuper`, `FlushErase`, `FlushSeal` | `kvsd_flush` with `fidx_flush` |
| `CutClean`, `CutBucket`, `CutBlock`, `Format`, `Boot` | a power cut, before or in the middle of a write, and `kvsd_init` |

* `alloc_slot`'s hint only selects the bitmap block to start with. The model has one
  bitmap block, whose scan begins at its first bit.
* Left out: the hash table's own cache (written through), `total_cards` (a
  statistic), transfers the card refuses, a torn superblock, `kvsd_range`. The rebuild of
  the index by scanning the bitmap is unreachable: it needs a superblock without
  hash-table blocks, and `format_sd` always writes some.
* `Overfill` copies a card beyond the 512-byte buffer. The model stops there;
  `NoOverfill` says when it can be reached.

The properties do not hold for every key, and the ghosts say for which they do not.
A key is **excused** when one of these happened to it, each of which loses
or revives cards in the code as it is:

* its card was appended to the open block while that block already held the key:
  both stay, `packed_find` returns the first, the old one (run `sd_update`);
* its card was appended to an open block that had become empty, and so been marked free: the block
  will be allocated again and cleared;
* both of its hash buckets were full, which `kvsd_put` ignores;
* its card was written over the header of block 0 of a card full of zeros, where
  the header says that 0 bytes are used;
* its call was cut by power, or its bucket or block was torn by the cut.

A key is **behind** when a power cut came between its call and the next flush: the
flash snapshot of the last flush is then believed before the newer hash table.
Each exception is needed: without it a run fails.

### UdpWal (`src/udp_wal.c`)

| Model | Code |
|---|---|
| `sess`, `Found`, `AllocSession`, `AfterSend` | `g_sessions`, `find_session`, `alloc_session`, the nonce counter in `udp_send_encrypted` |
| `queue`, `slot`, `done` | `g_deferred`, and where a poll is |
| `Hello` | `handle_hello` |
| `BatchWrite`, `BadBatch`, `Read`, `Received`, `Fresh`, `Listening` | `udp_recv_cb` with the replay check and the check for a free queue slot, `handle_batch_write`, `handle_read` |
| `PollBegin`, `PutCard`, `FinishBatch`, `Reply` | `udp_wal_poll` |
| `Restart` | a watchdog reset or power cut, `udp_wal_init` |
| `hist` | the cards the store took, per key; the store may refuse any of them |

The network is not a variable: which numbered datagrams arrive, in which order and how
often is open, only their contents are fixed once one has been accepted. Datagrams the code
ignores change nothing and are no step. What the store does with a
card, and what a power cut does to it afterwards, is the subject of KvSd and KvFlash.

* The table entry evicted is the one seen longest ago by a 32-bit millisecond clock, which
  starts over every 49 days; the model lets it be any.
* The counter of nonces belongs to the table entry and survives its sessions. Once it is used
  up, every session in that entry dies at its first answer until the next restart.
* `pbuf_alloc` may find no network buffer for an answer (`udp_wal.c:139`, `:186`): the answer is
  dropped, its nonce is used up, and the batch is forgotten. `EveryBatchAnswered` excuses such batches.
* `raw_ring_push` has no caller, so the raw ring is always empty and left out.

### UserAuth (`src/user_auth.c`, routes of `src/httpd/web_server.c`)

| Model | Code |
|---|---|
| `cards` | pack 1: name, role (flags and pack lists), LOCKED, `fail_count`; the salt and the hash are reduced to a password that is right or wrong |
| `sess`, `Victim`, `Checked` | `g_sessions`, the slot of a new session, `user_auth_check` with expiry and a card that is gone |
| `Login`, `WriteBack` | `user_auth_login` up to its put, and the put with what follows; between them Core 1 may delete or rewrite the card, or power may fail |
| `ChangePassword`, `CreateUser`, `Logout` | `user_auth_change_password`, `user_auth_create_user`, `user_auth_logout`, with their routes |
| `GetCard`, `PutCard`, `DeleteCard` | `handle_kv` on pack 1: an editor reads a card and later writes it back whole |
| `Core1Delete`, `Core1Merge`, `Core1Put` | a delete and any other append that come over raw TCP (`wal_do_append`): the append reads the card, lays one field over it and puts it, or makes a card where there is none |
| `Boot`, `Wipe`, `Restart`, `Tick` | `user_auth_init`, the two admin routes, the clock of 32 bits |

`fail_count` keeps its width of a byte and wraps. `stated`, `tries`, `refused`, `orphans` and the account number `acct` are history the code does
not have; the properties compare with them. Names and numbers are given again, accounts are not.
Of an append, one field at a time changes (rights and lock, count, name, or nothing that the model
keeps); one whose bytes leave no card that parses is left out. Where a read and its put are overlapped by another
writer, the copy put last stands, in the model as in the code; the properties excuse that case and
go on from it.

### HttpConn (`src/httpd/web_server.c`, connection part)

| Model | Code |
|---|---|
| `slots` | `g_http_conns` |
| `pcb`, `inbox` | what lwIP keeps of a connection: its argument, whether a receive callback is set, what it has to acknowledge, what arrived |
| `Accept`, `Refuse` | `http_accept` with and without a free slot |
| `Receive`, `AnswerBad`, `Dispatch` | `http_recv`: parts, refused requests, whole requests |
| `Sent`, `Poll`, `Reset`, `Close` | `http_sent`, `http_poll`, `http_err`, `http_close_conn` |
| `Drop`, `Vanish`, `Send` | lwIP with no receive callback, lwIP giving up on a client, the client |

An answer is two writes, its header and its body, and lwIP may take one and refuse the other.

### Update (`src/httpd/web_server.c`, `src/wal_engine.c`, `ota_deploy.py`)

| Model | Code |
|---|---|
| `ota`, `sd`, `buf` | `g_ota`, the staging blocks, `g_ota_chunk_buf`; a chunk and a sector are one unit |
| `Begin`, `Chunk`, `Commit` in `Handle` | the three routes of `/update`, with `ota_write_chunk_sd` |
| `Parked`, `Copy`, `Fetched` | the wait for Core 1, `ota_commit_from_sd`, one sector a step; what a read, refused or not, leaves in the buffer |
| `Damaged` | what a refused transfer of `ota_write_chunk_sd` leaves in the staging area |
| `Park`, `Work` | the top of `wal_engine_run` and the rest of its loop |
| `up`, `Start`, `Send`, `TimesOut` | `ota_deploy.py`: log in, begin, chunks with three attempts, commit |
| `wire` | requests under way; a late one may arrive after its sender gave it up |

A begin while the SD card is not ready is refused and changes nothing; it is left out.

### Catalogue and Query (`src/query.c`, routes of `src/httpd/web_server.c`, `src/user_auth.c`)

| Model | Code |
|---|---|
| `schemas`, `cards` | pack 0 and the other packs; a card maps ordinals to values, which are small integers |
| `tiers` | is there an SD card, `g_index` (`hot`), the flash tier (`saved`) and `g_fidx_count` (`live`), as sets of keys |
| `Scan`, `Listing` | `kv_store_range`: `kv_range` in the flash, `kvsd_range` on the SD card: the keys of the SRAM index, then those only the flash tier has, in each the lowest first |
| `Promoted`, `Read`, `Evict`, `Persist` | `find_slot_for_key`, a read, `index_insert` into a full index, `kvsd_flush` |
| `wrote` | not in the code: the name that each ordinal of a card had when the card was written |
| `NewPack`, `AddField`, `SetKids`, `DeletePack` | the admin routes on schemas |
| `sizes`, `Counted`, `SizeOf`, `Flush` | `s_card_cache`, `set_cardinality`, `get_cardinality`, `flush_cardinality_one` |
| `Boot` | `user_auth_init`: pack 1's schema written again, a reference pack seeded, schema first, and user 0; all in the flash, also where reads go to the SD card; a cut anywhere between them |
| `cache`, `Resolve`, `Cached` | `g_pack_cache`, `resolve_pack` |
| `Parsed` | `query_parse`: the first 16 fields, 4 packs and 8 conditions |
| `Fresh` | the first 64 schema cards (`SchemaMax`), looked through for a name |
| `LinkTo` | `find_lookup_to`, which compares the last byte of the pack's ordinal |
| `Compiled`, `Matches`, `Listed` | a condition, on a joined pack turned into a list of ids |
| `Cost`, `FanoutUpdate` | the estimates and what they are learned from |
| `Ordered`, `Exchanged` | the sort of the conditions, comparison by comparison |
| `Rows`, `Shown` | the scan and projection |
| `Grouped`, `Placed`, `Into`, `Plus`, `Output` | the loop over the rows: find or create the group, join it, add as longs; the rows shown |
| `Ask`, `Allowed` | `POST /query`: the rights are checked first, by name, then the engine runs |

Query extends Catalogue: the engine reads the schemas the routes change, and a query leaves
behind sizes, fanouts, cached schemas and keys in the SRAM index. `Reference` and the `Ref...` operators are not code.
They say what a query means on the present cards: cards and their linked cards, all conditions
on them, one row each or one row per group.

* Of the flags of a schema card, public reading and the size bucket are kept. A field may take another type
  over cards that stay, as in the code; that its bytes then read differently is left out, since a
  value has no bytes.
* Which version of a card a read finds, and what is lost on the SD card, is KvSd's subject: here a card that is
  there is found. The SRAM index loses keys by `Evict` at any time, never in the middle of a query: which
  keys a scan sees is settled when it lists them.
* The size cache holds 32 packs and then reuses its first place; the model has fewer packs.
* Values are naturals up to `LongMax`, and `Blank` (-1) for none. Negative numbers are left out. A stored unsigned 32-bit number above 2^31 is compared as a negative one
  (`query.c:370`), which is left out, as are dates, text order and separators inside text.
* `pack_is_public_read` reads a schema into 128 bytes and takes a longer one as not public. Only seeded schemas are
  public, and only their children and size bucket change without clearing the flag, so none is longer.

## 4. Runs

| Run | Instance | What it shows |
|---|---|---|
| `flash_store` | 2 keys, 2 values, 2 pages of 5 cells (two records each), 2 dead-log sectors of one entry, 5 calls, 2 cuts; headers, payloads and dead-log entries can tear. 1.39 million states | The store implements the durable map. After any calls and cuts, readers get what was acknowledged |
| `flash_faults` | 3 keys for 2 index places, versions restarting after 2, counts saturating at 1, oversized records, every operation tearable. 1.71 million states | What remains true when a limit is reached and when an erase or a commit marker tears: counts are exact and no live record is overwritten or erased. Acknowledged data is not claimed here, and is lost (section 9) |
| `ring` | 1 key, 2 slots, ring of 2, FIFOs of depth 1, 4 requests, 2 clients, one request refused or answer not taken by lwIP. 1.08 million states | Slots have one owner, owners' bytes are theirs, buffers are held exactly while needed, acknowledgements keep the order of requests, also across refusals, lost signals and reconnects; every request taken is answered while its client stays, unless its signal was given up or the ring was overrun |
| `cores_read` | 3 keys, 2 pages of 2 records, 5 puts and deletes on Core 1, any reads on Core 0. 1.39 million states | A read on Core 0 gives a value the key had while it ran, whatever Core 1 moved, unless its page was erased; a replaced value never hides a key; no record is programmed over |
| `cores_write` (violation) | one put on each core | Both cores program the same cell |
| `sd_store` | 2 keys (one with both buckets, one with the first only), 2 values, 3 blocks of 2 cards, buckets and SRAM index of one key, one cached block, 5 calls, 1 cut. 3.72 million states | Caches agree with the card; what was acknowledged is read through all tiers; the card alone answers with the old or the new version at every moment of a call and after every cut; no block is overfilled without a cut; all for the keys of the last section |
| `sd_update` (violation) | as `sd_store`, no cut | An update that lands in the block of the old version leaves readers with the old version |
| `udp_log` | 2 session entries and 3 sessions, so that one is evicted; a queue of 2 batches, 2 cards per poll, one nonce per entry, 3 datagrams accepted, 1 restart; batches of one card, of two cards and one too long, of too many cards, and reads; 1 answer for which lwIP has no buffer. 2.92 million states | A batch is written at most once, its answer says what the store took, a card keeps the value of the batch accepted last unless two waited at once, and every batch is answered while there are nonces and network buffers |
| `user_auth` | 3 numbers and scans of 2, so that numbers run out; 2 names, 2 roles, 2 session slots, a lock after 2 failures, a clock that wraps after 3 ticks, 4 requests, 1 delete or append on Core 1 at any point of them, 1 restart, 1 refused put; an append may set the count of failures to 255. 3.00 million states | No order of logins, edits, creations, deletions and raw appends (whose overlap with another writer is excused), boots and cuts gives more guesses than the lock allows (but for one when the count wraps, as it does after an append has set it to 255), undoes what an administrator set, hands a session to another account, or takes a live session's slot |
| `http_conn` | 3 clients for 2 slots, 5 segments, 1 poll before giving up, 1 refused write. 0.18 million states | Slots and connections stay paired, a request is dispatched once, and a client that waits gets an answer or is hung up on |
| `update` | an image of 2 chunks with 3 attempts each, one of 3 that does not fit, a staging area of 2, 1 cut, 1 SD read or write refused. 6.12 million states | The flash holds the old firmware or one whole upload, unless the SD card refused, and Core 1 stands still during the copy |
| `query` | 10 queries over 2 packs with a link and a seeded one, and one beyond the schemas that are looked through; 178 starts: contents of the packs in the flash, states of the SRAM index and the flash tier over contents on the SD card, 2 of them with changes; every limit of the engine is 2 to 4, sums wrap above 4 and ordinals have 2 bits of a link's byte. 0.05 million states | Whatever earlier queries left in the caches, an answer is what the query means where the indexes cover the scans, and where they do not a listing has no row that is not due; cards are read under the names they were written with through every change of a schema and restart |

Why the bounds are enough. Two pages are the least with which appending leaves a
page, compaction erases it and appending comes back; five calls fill both and
return. Two cuts put one inside the recovery or the repair of the other. A dead
log of two one-entry sectors reaches all its limits: the cursor moving on, the
log full, unread entries erased. In the ring, FIFOs of depth 1 make every push
able to give up, two slots let an entry coexist with an answer or an arriving append and
let the pool run out, a third request outstanding overruns the ring of two,
and four requests let one key be appended twice, compacted and read. The safety properties
are proved for every pool, ring and depth (section 7), so the instance can be this small.
With both cores in the store, five calls on two pages fill a page, leave it without
live records, erase it and append to it again while a read still holds a location in it;
three keys move the index below and above the key searched. On the SD card, three blocks of two
cards let the open block fill, another be emptied and freed, and the first be
allocated again within five calls; buckets and an index of one key are full as soon as
there are two, and the two keys' buckets overlap in one.
In the UDP log, three datagrams and a queue of two
let a later batch overtake an earlier one through a freed slot, and a batch of two cards
behind one of one card is split between polls.
Of users, two seen by a scan and a third number are enough for a creation above the limit; three ticks let a
session expire, be renewed and outlive the clock. Three clients and two slots refuse
one; five segments make two requests on one connection, the second before the first
is answered. Two uploads, one too large, are the least that mix, and two sectors the
least that can differ. For queries, the contents in the flash combine four cards and two in
three places with two in the linked pack: missing numbers, empty text, missing links,
equal groups and full lists all occur. On the SD card every set of the keys that matter is tried as the SRAM index,
with the flash tier on and off, so that scans miss cards, list them in two runs and list ones that
are gone; the changes reach a schema that is cached,
cut off while it is seeded, deleted and made anew.
The bounds `MaxOps`, `MaxCuts`, `MaxReqs`, `MaxClients`, `MaxIssued`, `MaxSeq`,
`MaxReceived`, `MaxCalls`, `MaxRestarts`, `MaxTime`, `MaxRefused`, `MaxSends`, and the `left` of each start of `query`, are guards of the
actions that begin something new, never of those that finish it.

Deadlock is not checked. In the stores a behaviour ends when its calls and
cuts are used up, and on the SD card at `Overfill`; in the ring both cores stop at `Overrun`; in
the UDP log datagrams run out, in the HTTP server segments, in UserAuth requests, and an
update ends with both uploaders done or the device dead. That no request is left
waiting is checked as `AnsweredUnlessLost`, `EveryBatchAnswered` and `RequestAnswered`.

Symmetry over keys and values is used in the flash runs: no definition
tells their members apart; on the SD card over values only, since its SRAM index
is sorted by key. It is not used in runs with liveness properties.

## 5. Seeded bugs

The operators named `Mut...` are bugs the code could have
had: the room for the commit marker forgotten, a count
decremented after saturation, the first record of a key kept by recovery, a
version that does not advance, an append to a page in use, a search one entry too
far, a record taken without looking at its key, a slot
released twice, a value left in the network buffer, a request served out of order,
a `DONE` never signalled; on the SD card a full index that grows, a cached block kept after a
removal, a fill level not recorded, the old hash entry removed before the new
one is written, the flash snapshot believed after a put; in the UDP log a replay let through, the store's
refusal ignored, a poll beyond its share, a batch of an evicted session not answered; a lock
one failure late, a lock lifted by a right password, a number given twice, the most recently used session
evicted; a closed connection still called back, a buffer not emptied, a keep-alive
connection that listens too early; a second begin accepted, a chunk too many, Core 1 halted in the
middle of a request; conditions reordered without their fields, an ordinal given twice. Each stands before the definition it would replace, and
with it in place one property of a run fails; `PROJECT.json` pairs them. They are
used nowhere else.

## 6. Fairness

`FairSpec` assumes weak fairness of `Signal0`, `Drain` and `Core1Step`. Both cores
run endless loops that never block for longer than a push's millisecond: Core 0
finishes its push, then polls and drains on every turn; Core 1 drains, serves,
pushes, compacts and starts over. The two outcomes of a push are one fair
disjunction each: the code does not promise that a full FIFO empties in time.
In the UDP log `FairSpec` assumes weak fairness of the steps of a poll: `net_core_run` calls
`udp_wal_poll` on every turn of its loop. Because the queue is served from its lowest slot,
a batch in a high slot waits as long as lower slots are refilled; `EveryBatchAnswered` holds
because clients send finitely many datagrams (`MaxReceived`), and would not for clients
that never pause.
In HttpConn weak fairness is assumed of what lwIP does for each client: delivering what
arrived, dropping it when no callback is set, reporting acknowledgements, polling, and
giving up on a client that is gone. `net_core_run` runs lwIP on every turn of its loop, lwIP has timers for the last two.
Nothing is assumed of the client, which may stop in the middle of a frame, and
no fairness is stated for the other modules, whose properties are safety
properties.

## 7. Proofs

The theorems hold for every value of the constants that meets the named assumptions.

### The flash store

Under `FlashAssumption` and `GoneAssumption`: any number of pages, cells, keys, values,
calls and cuts, and any set of tearable operations.

* `TypeCorrect` (KvFlashProofs): `Spec => []TypeOK`. It carries one fact that is
  not a matter of form: a live version never exceeds `MaxVersion`, so
  `kv_delete`'s `version + 1` never wraps to 0. `TypeOK` is not inductive: `TypeInv` adds what
  the call in progress carries from step to step (`CarriedByCall`: its key, its
  page, the room it found before programming) and what the scan's pending record
  carries (`CarriedByScan`).
* `CountsCorrect` (KvFlashProofs): `Spec => []RefCountsExact`. The lemmas are about
  `Cardinality` of the set of keys on a page when one key leaves it, enters it,
  or moves between pages.
* `LiveRecordsSafe` (KvFlashProofs): `Slack # 0 /\ Spec => LiveRecordsKept`, the
  action property that no step programs over or erases a record the index points
  to. Without the hypothesis `Slack # 0` it does not hold (section 9).

`LiveRecordsSafe` needs the inductive invariant `LiveInv`, the conjunction of
`TypeInv`, `RefCountsExact` and three parts that say where live records can be:

* `WriterBehind`: every index entry is on a page with a valid header and data,
  on the write page before the write offset, and a page about to be erased has
  none. Without it, appending could be taken to program over a live cell or to
  re-prepare its page.
* `ScanBehind`: the same during recovery, relative to the scan's position and to
  where appending would resume, so that `WriterBehind` holds when `kv_init` ends.
* `TailUnused`: nothing is ever programmed into a page's tail. It is what makes
  recovery resume in the page it found and not at the start of the one after it.

`RefCountsExact` is part of the invariant because the compactor's only reason to
erase a page is a count of zero. Each lemma about a step has one case per action.

The last part of KvFlashProofs is about what the store is for. Two hypotheses say where the code keeps its
promise, and each is needed (section 9): `DurableFlash`, that records stay away from the ends of
their sectors and fit the program buffer, and that a cut tears headers, payloads and dead-log
entries only; and `[]WithinLimits`, that the index has room for every key written and no key's
versions start over.

* `AcknowledgedSurvives`: `DurableFlash /\ Spec /\ []WithinLimits => []AcknowledgedIsReadable`.
* `SmallStoreIsWithinLimits`: a store with at most as many keys as index entries, and
  fewer calls than versions, is `WithinLimits` in every state; so the hypothesis can be
  had from the constants alone.
* `ImplementsTheMap`: under the same hypotheses KvFlash implements KvMap, `ImplementsMap`: the
  initial states map to initial states and every step to a step or a stutter. A call takes effect with
  the index update, a wipe when it begins.

The invariant `DurableInv` is `LiveInv` and three parts:

* `FlashTrue`: pages are filled from their first cell on; of a key that was never deleted, the
  committed records have different versions and the highest holds what `store` remembers. So
  what recovery will choose is settled by the flash alone (`Latest`).
* `RunTrue`: while the store runs, the index names the record recovery would choose, but for
  the key of a call whose record is on flash and not yet indexed; and a call's version is higher than any before.
* `ScanTrue`: during recovery the index holds the choice among the cells scanned so far, and a
  record still waiting for its marker is the one just before the scan's position.

### The SD store (KvSdProofs)

Under `SdAssumption`: any finite set of keys, any number of blocks, cards per block, buckets,
entries per bucket and index entries, any two hash functions, any number of calls and cuts.
Every invariant of the run `kvsd_store` is a theorem and has no further hypothesis:
`SdTyped`, `CachesAreTrue`, `FillIsTrue`, `CardAnswers` (`CopyOnWrite`) and `TiersAnswer`
(`AcknowledgedIsReadable`). What they leave open is in the properties themselves: the keys
`excused` (a call on them was cut, their bucket or block torn, or section 9 tells what happened)
and `behind`.

None of the five is inductive. The invariant `SdInv` has four parts:

* `TypeInv`: ranges, and what a call carries from step to step: a block about to be freed is
  empty, the bucket to drop holds the key, a put never removes from the open block.
* `BufferInv`: `CachesCoherent`, and that a block whose header is not sound has no cards, that a
  block just allocated is buffered as empty, and that without lost calls the fill level is never
  below the open block's length, in SRAM and, once flushed, in the superblock.
* `CardInv`, key by key, for a key not excused: it is at most once in every block and bucket; no free
  block has it; between calls one bucket names the one block with its value (`Settled`); during a
  call `PutTrue` and `DeleteTrue` say, step by step, which of the old and the new version the
  buckets name. That a put can only append to the bucket that does not hold the key rests on the
  key being in one of its two buckets at most.
* `TierInv`, for a key neither excused nor behind: no other block has it, and the SRAM index, the
  flash tier when it is believed, and the snapshot when no call on the key has come since the
  flush, are silent or lead where the hash table leads. A boot believes a snapshot older
  than the calls behind, which is why those keys are excepted.

The lemmas on sequences (`AppendIs`, `WithoutIs`, `SwappedIs`, `ReplacedIs`) say that a block or
bucket reads the same for all other keys (`SameFor`) after each of the code's four ways to change it;
`Steady` is that for the whole card, and `SteadyKeeps` carries every part of `KeyTrue` across such a
step, so that only the steps of a key's own call need an argument of their own.

### The ring (WalRingProofs)

Under `RingAssumption`: any keys, any finite pool of slots, any ring, FIFO depth and number
of requests and clients; zero-copy or not. Every safety property of the run `ring`
is a theorem: `RingTyped` (`TypeOK`), `OwnedOnce` (`SlotsOwnedOnce`), `Intact`
(`DataIntact`), `AlwaysAnEntry` (`EntryFree`), `Buffers` (`BuffersHeld`) and `InOrder`
(`AnswersInOrder`). One invariant, `RingInv`, carries them all:

* `Signals`: a signalled id is in use, and its request is as far as the signal says:
  pending up to Core 1's work on it, served from there to Core 0.
* `Order`, `Numbered`: along the chain from Core 0's push over the FIFO, Core 1 and the other
  FIFO back, a request nearer the end was sent earlier, and all were sent after the
  last one answered. This is where the acknowledgements get their order from. `RefusedInv`, on top of
  it, keeps refused requests apart from those under way.
* `Held`, `Apart`: the slots of the append still arriving, of the pending appends, of the WAL
  entries and of the unsent answers are off the free list, and no slot is in two of these places.
* `Contents`: what each of those slots holds.
* `BuffersHeld` itself.

`EntryFree` follows from `Held` and `Apart` by counting: the entries map one to one into the
slots other than the one of the append being served, so there are fewer entries than slots.

### The firmware update (UpdateProofs)

Under `UpdateAssumption`: any uploaders, image sizes and retries, and any size of the staging area.

* `UpdateTyped`: `TypeOK`.
* `WrittenAlone`: `FlashWrittenAlone`. Its invariant `HandOver` follows the hand-shake of
  the halt: Core 1 answers only when asked and then stands still, and only a restart of both
  cores takes the request back.
* `OneUpload`: `FlashedIsOneUpload`. A chunk does not say where it belongs, so
  the proof rests on how far each uploader is and what it has on its way (`Uploading`),
  that one past its begin owns the upload under way or was ended by a later begin (`Owned`),
  that the owner's chunks are therefore staged in order (`InOrder`; it sends the next one only
  on an answer), and that the sectors already copied are those staged (`Copying`).

### Both cores in the flash store (KvCoresProofs)

Under `CoresAssumption`: any pages, keys and number of calls. All four properties of the run
`cores_read` are theorems, each with the hypothesis `OneWriter`.

* `OneWriterCopies`: `OneWriter /\ Spec => CopyOnWrite`. This is the
  promise of `append_record`'s comment ("CoW"), and `OneWriter` (`Writers = {1}`) is the rule it
  rests on, which nothing in the code enforces: the run `cores_write` breaks the promise without it.

The property alone says nothing of where the next record goes. The invariant `WriterInv` adds that
the call in progress has a page with a header and, from `Fill` to `Advance`, the cursor's address
(`CallHasPlace`); that the write page is blank behind its cursor and written from its first cell
(`CursorAtEnd`), so that one look at that cell decides (`EmptyIsBlank`); and that Core 1 compacts
only between two calls and never the write page (`ErasesBetween`).

* `StaysTyped` (`TypeOK`), `ReadsAreTrue` (`AnswerIsTrue`), `MissesAreTrue` (`MissingIsTrue`).

Their difficulty is the index, which is out of order while `memmove` works on it. In such a
moment one place of `g_keys` and one of `g_locs`, the hole, hold copies that do not count.
`TypeInv` has the ranges; `IndexInv` says that, the holes passed over, the keys are sorted,
each has its record's location and `ref` counts exactly the entries (`RefsExact`); `ReadInv`,
what a read knows at each of its steps: until `Check` nothing, since whatever the
search found may be another key's, then that the record it will copy has its key and a value the key had.
That check of the key stored in the record is what makes a read true; the search alone is not.

### The HTTP connections (ServerProofs)

Under `ConnAssumption`: any number of clients and slots. `HttpTyped` (`TypeOK`), `SlotsPaired`
(`SlotHasOwner`) and `RequestsOnce` (`NoRequestTwice`). The invariant `HttpInv` is these three and
`CallbacksLive`: only a connection lwIP still has calls back, and then with a slot, and one lwIP
closed by itself has its slot written off. Two lemmas say all there is to say of the pool,
that a connection ends with its slot (`PoolFrees`) or goes on in it (`PoolKeeps`); each
callback is one or the other.

### The schema catalogue (ServerProofs)

Under `CatalogueAssumption` and `QueryAssumption`: any finite set of card ids, any packs, fields,
starting contents and number of changes. They also say what a context must supply: that what
the device starts from, and the cards written, are in range.

* `CatalogueWellFormed`: `QuerySpec => []CatalogueInv`. In every schema the fields are at most
  `FieldMax` and numbered in order, except that the last of a full one may have ordinal 0; every
  card's values are in range.
* `CardsKeepTheirFields`: `QuerySpec => []CardsReadAsWritten`. The property is a part of the inductive
  invariant: what is known of a card is the name that each of its ordinals has in the schema, and no ordinal
  has two (`ReadsAs`). A card that is written is read so (`WrittenReads`). For the other cards a new
  field is the danger, and the numbering is needed: `NextOrd` is the number of fields (`NextIsLength`), so a new
  ordinal is not in use. A new type, new child packs, a flush and a boot keep the names. Where cards outlive
  their schema nothing is known of them any more (`Nothing`), which is the property's exception and what the
  code makes of them.

### The query engine (ServerProofs)

`AnswersAreRight`: `QuerySpec => []AnswerIsReference`, under the same assumptions and with any limits:
the rows and groups of `Execute` are those of `Reference`, whatever is in the caches, when the indexes cover
the scans (`Covered`), and otherwise a listing has only rows of `Reference`. The
exceptions are in the property: a stale schema, a missing value (`Gap`), a limit that is met
(`Beyond`, which includes a sum above `LongMax`). The inductive invariant is `CatalogueInv`; the
property follows from it in each state, along the way of a query through the engine (`Clean`
is such a query, `Served` one of the client's):

* `CompiledIs`: a compiled condition passes the cards that the condition means, or some of them when a scan
  is not covered. A joined one is a list
  of ids, whole because it is within its limits (`ListedAll`, `ListMeaning`) as far as they were found
  (`Found`). A link to the pack that is meant is the one the byte finds (`LinkToIs`).
* `OrderedKeeps`: the sort only exchanges conditions. Nothing need be known of the costs, which is
  why statistics cannot change an answer.
* `ScanIsRight`, `ShownIsRight`, `RowsAreRight`: the same cards pass, and the same is shown of
  them, in key order (`ListingInOrder`). `RowsAreDue`: without the cover, what is listed is shown as it is meant.
  `StoppedIsEmpty`: a query stopped by a condition without matches has no rows.
* `HeldJoins`, `HeldStarts`: after each row there is one group for each row so far that is the
  first of its kind, in their order (`Held`), and each has the key, the count and the values of the rows
  it has taken (`Slot`, `Stands`). `JoinedStands` is the step for one aggregate; for a
  sum it needs that no partial sum is above the whole (`SumGrows`), so that none wraps.
* `GroupedIsRight`, `ServedIsRight`, `ServedIsDue`: the groups are the reference's, and so is the answer.

The engine's loops are folds, which the library defines by recursion over the subsets of a
finite set; an induction theorem that takes the property as an operator is not available to the
provers used here. Three lemmas take its place: `Recursion` (a function so defined exists), `Onward`
(a set of numbers that has 0 and with each number the next has all) and `SmallestSubset`. Each is proved
from the least member of a set of naturals.

### The UDP log (UdpWalProofs)

Under `UdpAssumption`: any keys and requests, any number of sessions, slots, datagrams
and restarts. Every safety property of the run `udp_log`: `UdpTyped` (`TypeOK`), `WrittenOnce`
(`AppliedOnce`), `AnswersTrueOfStore` (`AnswersTellTheTruth`) and `LastWins`
(`LastBatchWins`). They speak of what the store was given; the invariant `UdpInv` says what
leads there:

* `NumbersNoted`: a session has noted every number accepted from it, session ids are never
  given out twice, and so a datagram that passes the replay check is a new batch.
* `FromAccepted`, `CardsAccepted`: what waits, is written or is answered was accepted, with
  these cards, and a batch waits in one slot and no longer once it is answered.
* `QueueTrue`: of a waiting batch nothing is written beyond its position, and its bitmap tells
  which cards before it were. `AppliedOnce` is inductive with it: the next card is not there yet.
* `AnswersTrue`, `WrittenInOrder`: the two properties, over the set of all cards written.
* `NextInOrder`: for a key that was never in two waiting batches, the one batch that still has
  it was accepted no earlier than what the store holds of it.

### Users and sessions (UserAuthProofs)

Under `AuthAssumption` and `NoneAssumption`: any users, names, roles, sessions, clock, requests and
restarts, a scan of any length, and any limit of failures below 256. Every property of the run
`user_auth`, without further hypotheses: `TypeCorrect` (`TypeOK`), `LockOutHolds` (`GuessesBounded`),
`RightsSurvive` (`AdminFieldsSurvive`), `SessionsKeepAccount` (`SessionKeepsAccount`), and
`SessionsStay` (the action property `LiveSessionKept`). The invariant `AuthInv` is in four parts:

* `TableInv`: types, and no two active sessions with one token.
* `StoreInv`: a card says what was last stated of it, and its count is at most one behind the
  guesses made (`CountRight`).
* `CopyInv`: what a login (`RewriteRight`), an editor (`HeldRight`) or an append on Core 1
  (`MergeRight`) copied before its put is still the card, unless another writer has marked it out of
  date. This is what makes writing back a whole card harmless. The count a login copied is right
  for the guesses made even then, which is why Core 1 in the middle of it gives no guess away.
* `TokenInv`: a session's card is there and of its account, unless the card was taken from under it.

The first attempt at `LockOutHolds` failed for a good reason: `GuessesBounded` then said
`tries[id] <= FailMax`, which is false when the byte wraps (section 9). It now allows the one guess more,
and the proof shows that there is never a second.

## 8. What is only model-checked

Liveness (`AnsweredUnlessLost`, `EveryBatchAnswered`, `RequestAnswered`): under fairness it needs
`ENABLED`, which the provers used here do not handle. Every safety and action property of the passing
runs is a theorem; the ones of the flash store, with one caller and with two, under the hypotheses given above.

## 9. What is not modelled, and disagreements without a run

Not modelled: see the components in `PROJECT.json` with their reasons. In short, of the HTTP server
pages, listings, dumps and notes, which only format what the stores hold; the metadata dictionary;
the byte layout of the field merge inside an append (`UserAuth` has what it does to a user's
card); and
cryptography, drivers, compression and most clients, being arithmetic on
bytes, register access, or programs outside the firmware. Within KvFlash the
read-only scans (`kv_range`, `kv_stats`) are left out. Within WalRing, the
flash operations of an append are left to KvFlash: the engine ignores their
result, so the ring does not depend on it.

Met while modelling, and not the subject of a run:

Flash store, SD store, ring and UDP log:

* `kv_flash.c:446` says of the append path "CoW — never overwrites existing page data". When the last
  page with data is filled to its last byte, `kv_init` resumes at the start of the page after
  it without asking whether that page is free (`kv_flash.c:744-747`), and the next record is
  programmed over live ones. `LiveRecordsKept` fails with `Slack = 0`.
* `kv_flash.c:209` says of the program buffer "768B — fits max record + commit + alignment". A
  record, its marker and its offset in the 256-byte flash page can exceed that;
  `flash_program_aligned` then returns without programming, and the record is indexed and
  acknowledged. `AcknowledgedIsReadable` fails with values in `BigVals`.
* `kv_flash.c:601-602` says of recovery "among multiple committed records for the same key (from
  different pages), keep the highest version". A committed tombstone is applied by `idx_remove`
  (`kv_flash.c:677-678`), which leaves no version behind. When its page is scanned before the page of the
  older record, that record is indexed: a deleted key comes back after a reboot.
* `wal_engine.c:65` says of an append "KV index atomically points key → new sector". For a new key
  `idx_set` moves `g_keys` and then `g_locs` up by one place, stores the entry and only then counts it
  (`kv_flash.c:265-275`), with no lock. Core 0, searching the same arrays meanwhile, may not find a card
  that is there throughout. `MissingIsTrue` fails without its exception for insertion and removal.
* `wal_defs.h:135-136` says that Core 0 pushes a request's id when it is ready, and Core 1 when the
  response is. `fifo_push_timeout` gives up after a millisecond and no caller looks at its
  result: the request is never answered, its id and slot never come back. `AnsweredUnlessLost`
  fails without its exception.
* `kv_flash.c:735-738` bounds the recovered mutation group by the page sequence;
  groups advance once per call and sequences once per page, so the bound is wrong.
  Recovery pairs a marker only with the record scanned before it, so a
  repeated group is harmless in all runs.
* A torn commit marker leaves bytes the scan stops at, and the write position
  there. The next record is programmed on top and is lost at the next reboot:
  `flash_faults` does not claim `AcknowledgedIsReadable`.
* Versions restart at 1 after 65534, and recovery then prefers the older record.
* `kv_put` on a full index returns false after committing its record, which may
  appear after a reboot.
* A refusal (`WIRE_ERROR`, `net_core.c:281`, `302`, `310`) goes out at once, ahead of the
  acknowledgements of earlier requests; a client that sends before it has read, as `PicoWalClient.cs`
  may with several tasks, takes it for the answer of its oldest request. `AnswersInOrder` is
  about acknowledgements only.
* An append cut off by a disconnect keeps its slot for ever; an answer to a
  client that left goes to the next one; a read that found deltas but no slot is
  answered as if there were none, and one whose deltas exceed the slot is
  answered with fewer than its count says.
* `kv_sd.c:1137` says that a block other cards share is never modified; an open
  block that becomes empty is freed, appended to and later cleared.
* `kv_sd.c:515-524` says duplicates in the hash table resolve themselves; a lookup
  prefers the first bucket whichever entry is newer. `kv_sd.c:286` says an evicted
  key is still in the flash tier; it is there only if the last flush saw it.
* `kv_sd.h` calls the bitmap the source of truth a scan rebuilds the index from; no
  path reaches that scan. Its sequence number is not used to detect stale
  headers. Its count of active cards drifts: deleting a key that only the flash
  snapshot still knows decrements it again.
* `udp_wal.h:42-44` gives `ACK_DURABLE` two answers, queued and committed, and makes
  `ACK_QUEUED` an answer "when in SRAM". The code sends one answer in each case, after the last card's
  write, and before `kvsd_flush`: a card reported committed may be one that KvSd calls
  behind after a power cut.
* `BACKPRESSURE` (`udp_wal.c:377`) is never sent: `udp_recv_cb` drops every datagram,
  HELLO included, before the handler could find the queue full. The README's 16 queue slots, 48
  raw slots and one card per poll are 32, none used, and 4.

Users and sessions:

* `user_auth_check` does not look at LOCKED: a user locked out keeps the sessions it has. Nor does
  it compare more than the card's number: after a deletion the next user created gets the number,
  and with it an old session no request has touched since.
* The put of a failure count is not checked (`user_auth.c:612`): while flash refuses puts, wrong
  passwords are free. Wrong old passwords at `_passwd` are not counted at all.
* Unlocking by a PUT of the card keeps its `fail_count`, so the next wrong password locks it again. The
  count is a byte (`user_auth.c:599`): after 245 such rounds it starts at 0 again, and eleven wrong passwords
  pass before the next lock instead of one.
* With more than 256 users a creation overwrites card 256, and a name may be given twice.
* After card 0 is deleted, the next boot creates `admin` with its first password again.
* Two editors of one card: the later PUT undoes the earlier, also a lock set by failures in between;
  a delete or an append by Core 1 during a login is undone by the login's put, and a login, an edit or
  a deletion during an append by the append's (`wal_engine.c:78`, `:149`): neither core locks the card.
* `user_auth.c` does not include the redirection of `kv_store.h`: the packs it seeds go to flash and are not seen
  where reads go to the SD card. A cut between a seeded schema and its cards leaves
  the cards out for ever (`Boot`).

HTTP connections:

* A keep-alive client that half-closes while its answer is under way leaves its slot in use until the next
  restart: lwIP closes the connection without a callback. Six of them end the service.
* A second request sent before the first is answered is acknowledged and dropped.
* When lwIP takes an answer's header and refuses its body, the client waits: nothing is left in flight
  or the rest never comes, and an idle keep-alive connection is never timed out.
* `http_accept` returns `ERR_MEM` after `tcp_abort`, where lwIP expects `ERR_ABRT`.

Firmware update:

* `web_server.c:1413-1415` says that XIP remains valid until the final moment. Interrupts are restored
  between sectors while the code they run is being replaced, and Core 1's halt loop runs from flash too.
* A chunk carries no position: one whose answer came late is staged twice. An upload ended for its size
  lets another begin, and the first one's retry or commit then counts for the second.
* An upload that stops stays active until a chunk too many or a restart; the README's "Clear SD staging area"
  does not exist. Results of the SD reads and writes are ignored: a sector whose read the card refuses
  is programmed with what the buffer held, which is the sector before, or zeros, or a mixture. Documents say 512 KB; the code has 600 KB.

Schemas and queries:

* The cache of schemas is filled once per name and never told of a change; a query on a
  pack that was deleted and made anew reads the old ordinal, while the right to read
  is checked for the new one.
* Adding a field rebuilds the schema without its public flag, module, child packs and size
  (`web_server.c:2650`); with 32 fields the last is dropped and the new one gets ordinal 0.
* `query.c:895` says "Group key = concatenation of all QAGG_NONE field values"; the first empty
  value ends the key, so groups that differ behind it become one.
* A joined card without a number is compared as 0, and a row without a link shows card 0 of the joined pack.
* The list of ids of a joined condition has 63 characters; the last id may lose digits and
  become another. Lists, scans (256, 1024), rows (100, 32 with aggregates), groups (16) and
  parts of a query end at their limits without a word.
* `web_server.c:2745` calls `/batch` an "atomic multi-card write"; it writes one card after the other and answers
  207 when some failed. `query.h:31` promises a JSON array; rows are separated by bars.
* `kvsd_range` says that "range queries only cover keys in SRAM + flash XIP tiers" (`kv_sd.c:1257`); `query.c` and
  the routes use it as if it covered the pack. What a query answers then depends on evictions, puts, which
  switch the flash tier off, and restarts; sums and counts are of the cards seen, and rows come in two runs.
* A link stores its target as a byte (`web_server.c:2571`) and is searched by the last byte of the pack's ordinal
  (`query.c:523`): with more than 256 packs a query may follow a link to another pack. `Reference` takes the link
  whose byte is the whole ordinal; a query without one is not well formed.
* Only the first 64 cards of pack 0 are looked through for a name (`query.c:451`); a pack behind them is unknown to a query
  and to the check of its reader's rights.
* The type of a field can be changed over cards that stay (`web_server.c:2629`), whose bytes are then read in
  another way. A pack made anew, or pack 1 at the next boot (`user_auth.c:472`), has its
  ordinals start again over the cards that stayed: these are read under other names.
* Deleting a pack removes the first 256 cards that the scan lists; the others belong to the next pack with the number.
