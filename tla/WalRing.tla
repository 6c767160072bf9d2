------------------------------- MODULE WalRing -------------------------------
(***************************************************************************)
(* The two cores of the raw TCP write-ahead log (src/net_core.c on Core 0, *)
(* src/wal_engine.c on Core 1, src/wal_defs.h between them).  Core 0 takes *)
(* a request from the one client, claims an id and, for an append, a slot  *)
(* of the buffer pool, fills requests[id], marks it PENDING and signals    *)
(* the id through the forward FIFO.  Core 1 serves the signalled requests, *)
(* keeps the appended deltas in their slots, marks the request DONE and    *)
(* signals the id back; when it has nothing to do it compacts the deltas.  *)
(* A signal that finds its FIFO full for a millisecond is given up.        *)
(*                                                                         *)
(* A slot's bytes are abstracted to the requests whose deltas it holds,    *)
(* and to whether the value has arrived behind the delta's header.  What   *)
(* Core 1 stores on flash on the way is KvFlash's subject; the code        *)
(* ignores the outcome, so nothing here depends on it.  The operators      *)
(* named Mut... are seeded bugs that show that a property notices.         *)
(***************************************************************************)
EXTENDS Naturals, Sequences, FiniteSets

CONSTANTS
    Keys,
    Slots,                \* the buffer pool, and as many WAL entries (32 of each)
    RingSize,             \* REQ_RING_SIZE
    FifoDepth,            \* entries of a hardware FIFO (8)
    MaxReqs, MaxClients,  \* bounds of the model: requests sent, connections accepted,
    MaxRefused            \* requests refused on arrival, answers lwIP has no room for

ASSUME RingAssumption ==
    /\ Keys # {} /\ Slots # {} /\ IsFiniteSet(Slots)
    /\ RingSize \in Nat \ {0} /\ FifoDepth \in Nat \ {0}
    /\ MaxReqs \in Nat /\ MaxClients \in Nat /\ MaxRefused \in Nat

Ids == 0 .. RingSize - 1

VARIABLES
    \* Core 0
    conn,      \* a client is connected
    cur,       \* the append whose value is still arriving (RX_APPEND_DATA), or NoDelta
    core0,     \* [pc, id]: polling, or pushing the signal of request id
    used,      \* req_id_bitmap
    pbufs,     \* the requests whose network buffer Core 0 holds for Core 1
    \* shared
    free,      \* slot_free
    data,      \* slot -> what its bytes hold
    req, resp, \* the request and response rings
    fwd, rev,  \* the two FIFOs
    \* Core 1
    core1,     \* [pc, id]: draining, working on a request, pushing its signal, compacting
    entries,   \* the WAL entries in use
    nextSeq,   \* next_seq
    \* observation and bounds
    answered,  \* the last request whose answer lwIP took
    refused,   \* requests without one: WIRE_ERROR on arrival, or an answer lwIP had no room for
    lost,      \* ids whose signal was given up
    sent, clients

core0Vars == <<conn, cur, core0, used, pbufs>>
ringVars  == <<free, data, req, resp, fwd, rev>>
core1Vars == <<core1, entries, nextSeq>>
ghosts    == <<answered, refused, lost, sent, clients>>
vars == <<core0Vars, ringVars, core1Vars, ghosts>>

-----------------------------------------------------------------------------
\* A delta: the request that brought it, its key, whether it deletes, its slot.
Tokens  == 1 .. MaxReqs
Deltas  == [tok : Tokens, key : Keys, tomb : BOOLEAN, slot : Slots]
NoDelta == [tok |-> 0]
Entries == [tok : Tokens, key : Keys, tomb : BOOLEAN, slot : Slots, seq : Nat \ {0}]

\* op is "noop", "append" or "read"; zc: the value is read from the held network buffer.
EmptyReq  == [state |-> "empty", op |-> "noop", tok |-> 0, zc |-> FALSE]
EmptyResp == [toks |-> {}, count |-> 0]

Signal(id) == core0' = [pc |-> "push", id |-> id]
LowestUnused(id) == id \in Ids \ used /\ \A i \in Ids \ used : id <= i

\* The dispatch functions: fill requests[id], set it PENDING, then push the signal.
Dispatch(r) ==
    \E id \in Ids :
        /\ LowestUnused(id)
        /\ used' = used \cup {id}
        /\ req' = [req EXCEPT ![id] = r]
        /\ Signal(id)

Receiving == conn /\ core0.pc = "poll" /\ cur = NoDelta /\ sent < MaxReqs

\* With every id of the ring in use alloc_req_id, which has 256 of them, hands out one
\* beyond the ring, and the request is written over whatever follows, be it a new one or
\* an append whose rest has come: the model stops there.  (It never gets to the refusal
\* for want of an id, which takes all 256.)
Overrun ==
    /\ conn /\ core0.pc = "poll" /\ used = Ids
    /\ cur # NoDelta \/ sent < MaxReqs
    /\ core0' = [core0 EXCEPT !.pc = "overrun"] /\ core1' = [core1 EXCEPT !.pc = "overrun"]
    /\ UNCHANGED <<conn, cur, used, pbufs, ringVars, entries, nextSeq, ghosts>>

\* Answered WIRE_ERROR at once, ahead of the answers still to come: an opcode that is none
\* of the three, a value too long for a slot ...
RefuseBad ==
    /\ Receiving /\ Cardinality(refused) < MaxRefused
    /\ sent' = sent + 1 /\ refused' = refused \cup {sent'}
    /\ UNCHANGED <<core0Vars, ringVars, core1Vars, answered, lost, clients>>

\* ... and an append that finds no free slot.
RefuseFull == free = {} /\ RefuseBad

RecvNoop ==
    /\ Receiving
    /\ sent' = sent + 1
    /\ Dispatch([state |-> "pending", op |-> "noop", tok |-> sent', zc |-> FALSE])
    /\ UNCHANGED <<conn, cur, pbufs, free, data, resp, fwd, rev, core1Vars,
                   answered, refused, lost, clients>>

RecvRead(k) ==
    /\ Receiving
    /\ sent' = sent + 1
    /\ Dispatch([state |-> "pending", op |-> "read", tok |-> sent', zc |-> FALSE, key |-> k])
    /\ UNCHANGED <<conn, cur, pbufs, free, data, resp, fwd, rev, core1Vars,
                   answered, refused, lost, clients>>

DispatchAppend(d, zc) ==
    Dispatch([state |-> "pending", op |-> "append", tok |-> d.tok, zc |-> zc,
              key |-> d.key, tomb |-> d.tomb, slot |-> d.slot])

\* The append's header is complete: claim a slot and write the delta's header there.
ClaimSlot(s, whole) ==
    /\ Receiving /\ s \in free
    /\ sent' = sent + 1
    /\ free' = free \ {s}
    /\ data' = [data EXCEPT ![s] = [toks |-> {sent'}, whole |-> whole]]

\* The value, if any, is in the same network buffer: Core 1 is to copy it from there.
RecvAppend(k, tomb, s, zc) ==
    /\ ClaimSlot(s, ~zc)
    /\ DispatchAppend([tok |-> sent', key |-> k, tomb |-> tomb, slot |-> s], zc)
    /\ pbufs' = IF zc THEN pbufs \cup {sent'} ELSE pbufs
    /\ UNCHANGED <<conn, cur, resp, fwd, rev, core1Vars, answered, refused, lost, clients>>

\* Part of the value is still to come.
RecvAppendHeader(k, tomb, s) ==
    /\ ClaimSlot(s, FALSE)
    /\ cur' = [tok |-> sent', key |-> k, tomb |-> tomb, slot |-> s]
    /\ UNCHANGED <<conn, core0, used, pbufs, req, resp, fwd, rev, core1Vars,
                   answered, refused, lost, clients>>

RecvAppendRest ==
    /\ conn /\ core0.pc = "poll" /\ cur # NoDelta
    /\ data' = [data EXCEPT ![cur.slot].whole = TRUE]
    /\ DispatchAppend(cur, FALSE)
    /\ cur' = NoDelta
    /\ UNCHANGED <<conn, pbufs, free, resp, fwd, rev, core1Vars, ghosts>>

\* A client closes, or its connection breaks; an append cut off keeps its slot.
Disconnect ==
    /\ conn /\ core0.pc = "poll"
    /\ conn' = FALSE
    /\ UNCHANGED <<cur, core0, used, pbufs, ringVars, core1Vars, ghosts>>

Accept ==
    /\ ~conn /\ core0.pc = "poll" /\ clients < MaxClients
    /\ conn' = TRUE /\ clients' = clients + 1
    /\ cur' = NoDelta
    /\ UNCHANGED <<core0, used, pbufs, ringVars, core1Vars, answered, refused, lost, sent>>

-----------------------------------------------------------------------------
(* The FIFOs: fifo_push_timeout on either side.                            *)

\* Seeded bug: a push into a full FIFO.
MutRoom(q) == Len(q) <= FifoDepth
Room(q) == Len(q) < FifoDepth

\* Seeded bug: the first pending request of the ring is served, not the signalled one.
MutNextSignal(q) ==
    CHOOSE id \in Ids :
        /\ req[id].state = "pending" \/ id = Head(q)
        /\ \A i \in Ids : req[i].state = "pending" => id <= i
NextSignal(q) == Head(q)

PushForward ==
    /\ core0.pc = "push" /\ Room(fwd)
    /\ fwd' = Append(fwd, core0.id)
    /\ core0' = [pc |-> "poll", id |-> 0]
    /\ UNCHANGED <<conn, cur, used, pbufs, free, data, req, resp, rev, core1Vars, ghosts>>

GiveUpForward ==
    /\ core0.pc = "push" /\ ~Room(fwd)
    /\ lost' = lost \cup {core0.id}
    /\ core0' = [pc |-> "poll", id |-> 0]
    /\ UNCHANGED <<conn, cur, used, pbufs, ringVars, core1Vars,
                   answered, refused, sent, clients>>

PushReverse ==
    /\ core1.pc = "push" /\ Room(rev)
    /\ rev' = Append(rev, core1.id)
    /\ core1' = [pc |-> "drain", id |-> 0]
    /\ UNCHANGED <<core0Vars, free, data, req, resp, fwd, entries, nextSeq, ghosts>>

GiveUpReverse ==
    /\ core1.pc = "push" /\ ~Room(rev)
    /\ lost' = lost \cup {core1.id}
    /\ core1' = [pc |-> "drain", id |-> 0]
    /\ UNCHANGED <<core0Vars, ringVars, entries, nextSeq,
                   answered, refused, sent, clients>>

-----------------------------------------------------------------------------
(* Core 1.                                                                 *)

Pop ==
    /\ core1.pc = "drain" /\ fwd # <<>>
    /\ core1' = [pc |-> "work", id |-> NextSignal(fwd)]
    /\ fwd' = Tail(fwd)
    /\ UNCHANGED <<core0Vars, free, data, req, resp, rev, entries, nextSeq, ghosts>>

Working(op) == core1.pc = "work" /\ req[core1.id].op = op

\* Seeded bug: a request without a result is marked DONE and not signalled.
MutDone(response) ==
    /\ resp' = [resp EXCEPT ![core1.id] = response]
    /\ req' = [req EXCEPT ![core1.id].state = "done"]
    /\ core1' = [core1 EXCEPT !.pc =
                    IF Working("read") /\ response = EmptyResp THEN "drain" ELSE "push"]

Done(response) ==
    /\ resp' = [resp EXCEPT ![core1.id] = response]
    /\ req' = [req EXCEPT ![core1.id].state = "done"]
    /\ core1' = [core1 EXCEPT !.pc = "push"]

ServeNoop ==
    /\ Working("noop")
    /\ Done(EmptyResp)
    /\ UNCHANGED <<core0Vars, free, data, fwd, rev, entries, nextSeq, ghosts>>

\* Seeded bug: the value is left in the network buffer.
MutArrived(page, zc) == page
Arrived(page, zc) == IF zc THEN [page EXCEPT !.whole = TRUE] ELSE page

\* wal_do_append.  A free entry always exists (EntryFree), so its other branch, which
\* frees the slot, is never taken.
ServeAppend ==
    /\ Working("append")
    /\ LET r == req[core1.id]
       IN  /\ data' = [data EXCEPT ![r.slot] = Arrived(@, r.zc)]
           /\ entries' = entries \cup {[tok |-> r.tok, key |-> r.key, tomb |-> r.tomb,
                                        slot |-> r.slot, seq |-> nextSeq]}
    /\ nextSeq' = nextSeq + 1
    /\ Done(EmptyResp)
    /\ UNCHANGED <<core0Vars, free, fwd, rev, ghosts>>

Of(k) == {e \in entries : e.key = k}

\* wal_do_read without an entry of the key, or without a free slot: both are answered
\* as zero deltas.
ServeReadNothing ==
    /\ Working("read")
    /\ Of(req[core1.id].key) = {} \/ free = {}
    /\ Done(EmptyResp)
    /\ UNCHANGED <<core0Vars, free, data, fwd, rev, entries, nextSeq, ghosts>>

\* wal_do_read: the key's deltas go into a slot of their own in sequence order, as many
\* as fit; the count tells of all of them.
ServeRead ==
    /\ Working("read")
    /\ LET found == Of(req[core1.id].key)
       IN  \E s \in free, last \in {e.seq : e \in found} :
             LET packed == UNION {data[e.slot].toks : e \in {f \in found : f.seq <= last}}
             IN  /\ data' = [data EXCEPT ![s] = [toks |-> packed, whole |-> TRUE]]
                 /\ free' = free \ {s}
                 /\ Done([slot |-> s, toks |-> packed, count |-> Cardinality(found)])
    /\ UNCHANGED <<core0Vars, fwd, rev, entries, nextSeq, ghosts>>

Idle ==
    /\ core1.pc = "drain" /\ fwd = <<>>
    /\ core1' = [pc |-> "compact", id |-> 0]
    /\ UNCHANGED <<core0Vars, ringVars, entries, nextSeq, ghosts>>

\* Entries of k with a newer one, and the newest if it is a tombstone.
Older(k) == {e \in Of(k) : \E f \in Of(k) : f.seq > e.seq}

\* Seeded bug: the newest entry keeps its place but loses its slot.
MutReleased(k) == IF Older(k) = {} THEN {} ELSE {e.slot : e \in Of(k)}
Dropped(k) ==
    IF Older(k) = {} THEN {} ELSE {e \in Of(k) : e \in Older(k) \/ e.tomb}
Released(k) == {e.slot : e \in Dropped(k)}

\* wal_compact_step, for the key its cursor has come to.
Compact ==
    /\ core1.pc = "compact"
    /\ \E k \in Keys :
         /\ entries' = entries \ Dropped(k)
         /\ free' = free \cup Released(k)
    /\ core1' = [pc |-> "drain", id |-> 0]
    /\ UNCHANGED <<core0Vars, data, req, resp, fwd, rev, nextSeq, ghosts>>

-----------------------------------------------------------------------------
\* Seeded bug: the slot of an append goes back to the pool with its answer.
MutAnswerSlot(id) ==
    IF req[id].op = "append" THEN {req[id].slot}
    ELSE IF resp[id].count > 0 THEN {resp[id].slot} ELSE {}

\* The slot that goes back to the pool with an answer.
AnswerSlot(id) ==
    IF req[id].op = "read" /\ resp[id].count > 0 THEN {resp[id].slot} ELSE {}

\* Seeded bug: the network buffer is kept.
MutReleasedBuffer(id) == {}
ReleasedBuffer(id) == IF req[id].zc THEN {req[id].tok} ELSE {}

\* drain_responses: answer the client, release what the request held, recycle the id.
\* Whether tcp_write takes the answer is not looked at.
Drain ==
    /\ conn /\ core0.pc = "poll" /\ rev # <<>>
    /\ rev' = Tail(rev)
    /\ LET id == Head(rev)
       IN  /\ \/ answered' = req[id].tok /\ UNCHANGED refused
              \/ /\ Cardinality(refused) < MaxRefused
                 /\ refused' = refused \cup {req[id].tok} /\ UNCHANGED answered
           /\ free' = free \cup AnswerSlot(id)
           /\ pbufs' = pbufs \ ReleasedBuffer(id)
           /\ used' = used \ {id}
           /\ req' = [req EXCEPT ![id] = EmptyReq]
           /\ resp' = [resp EXCEPT ![id] = EmptyResp]
    /\ UNCHANGED <<conn, cur, core0, data, fwd, core1Vars, lost, sent, clients>>

-----------------------------------------------------------------------------
Init ==
    /\ conn = FALSE /\ cur = NoDelta /\ core0 = [pc |-> "poll", id |-> 0]
    /\ used = {} /\ pbufs = {}
    /\ free = Slots /\ data = [s \in Slots |-> [toks |-> {}, whole |-> FALSE]]
    /\ req = [id \in Ids |-> EmptyReq] /\ resp = [id \in Ids |-> EmptyResp]
    /\ fwd = <<>> /\ rev = <<>>
    /\ core1 = [pc |-> "drain", id |-> 0] /\ entries = {} /\ nextSeq = 1
    /\ answered = 0 /\ refused = {} /\ lost = {} /\ sent = 0 /\ clients = 0

Receive ==
    \/ RecvNoop \/ RecvAppendRest \/ Overrun \/ RefuseBad \/ RefuseFull
    \/ \E k \in Keys : RecvRead(k)
    \/ \E k \in Keys, tomb \in BOOLEAN, s \in Slots :
          RecvAppendHeader(k, tomb, s) \/ \E zc \in BOOLEAN : RecvAppend(k, tomb, s, zc)
Signal0 == PushForward \/ GiveUpForward
Core0Step == Receive \/ Disconnect \/ Accept \/ Signal0 \/ Drain

Serve == ServeNoop \/ ServeAppend \/ ServeReadNothing \/ ServeRead
Core1Step == Pop \/ Serve \/ PushReverse \/ GiveUpReverse \/ Idle \/ Compact

Next == Core0Step \/ Core1Step

Spec == Init /\ [][Next]_vars

\* Both cores loop for ever and neither waits for the other longer than a push's
\* millisecond: Core 0 finishes its pushes and drains after every poll while a client
\* is connected; Core 1 always takes its next step.  Nothing is assumed of the client.
Fairness ==
    /\ WF_vars(Signal0) /\ WF_vars(Drain) /\ WF_vars(Core1Step)

FairSpec == Spec /\ Fairness

-----------------------------------------------------------------------------
(* Properties.                                                             *)

ReqType ==
    {EmptyReq}
    \cup [state : {"pending", "done"}, op : {"noop"}, tok : Tokens, zc : {FALSE}]
    \cup [state : {"pending", "done"}, op : {"read"}, tok : Tokens, zc : {FALSE}, key : Keys]
    \cup [state : {"pending", "done"}, op : {"append"}, tok : Tokens, zc : BOOLEAN,
          key : Keys, tomb : BOOLEAN, slot : Slots]
RespType == {EmptyResp} \cup [slot : Slots, toks : SUBSET Tokens, count : 1 .. Cardinality(Slots)]

\* Every variable keeps to its range; the FIFOs never hold more than their depth.
TypeOK ==
    /\ conn \in BOOLEAN /\ cur \in Deltas \cup {NoDelta}
    /\ core0 \in [pc : {"poll", "push", "overrun"}, id : Ids] /\ used \subseteq Ids
    /\ pbufs \subseteq Tokens /\ free \subseteq Slots
    /\ data \in [Slots -> [toks : SUBSET Tokens, whole : BOOLEAN]]
    /\ req \in [Ids -> ReqType] /\ resp \in [Ids -> RespType]
    /\ fwd \in Seq(Ids) /\ Len(fwd) <= FifoDepth
    /\ rev \in Seq(Ids) /\ Len(rev) <= FifoDepth
    /\ core1 \in [pc : {"drain", "work", "push", "compact", "overrun"}, id : Ids]
    /\ entries \subseteq Entries /\ nextSeq \in Nat \ {0}
    /\ answered \in 0 .. MaxReqs /\ refused \subseteq Tokens /\ lost \subseteq Ids
    /\ sent \in 0 .. MaxReqs /\ clients \in 0 .. MaxClients

\* Who a slot belongs to: the append still arriving, a request Core 1 has not served, a
\* WAL entry, or an answer Core 0 has not sent.
Pending(id) == req[id].state = "pending"
Waiting(id) == req[id].state = "done" /\ AnswerSlot(id) # {}
Owners(s) ==
    {o \in {<<"cur", 0>>} : cur # NoDelta /\ cur.slot = s}
    \cup {<<"req", id>> : id \in {i \in Ids : Pending(i) /\ req[i].op = "append" /\ req[i].slot = s}}
    \cup {<<"entry", e.seq>> : e \in {f \in entries : f.slot = s}}
    \cup {<<"resp", id>> : id \in {i \in Ids : Waiting(i) /\ resp[i].slot = s}}

\* A slot never has two owners, and none while it is marked free, however the two cores'
\* claims, hand-overs and releases interleave: each side may use its slots unlocked.
SlotsOwnedOnce ==
    \A s \in Slots : \A o, p \in Owners(s) : s \notin free /\ o = p

\* What a slot holds stays what its owner put there: an entry's slot holds that append's
\* whole delta, an unsent answer's slot the deltas Core 1 packed for it.
DataIntact ==
    /\ \A e \in entries : data[e.slot] = [toks |-> {e.tok}, whole |-> TRUE]
    /\ \A id \in Ids : Waiting(id) => data[resp[id].slot].toks = resp[id].toks

\* wal_do_append always finds a free WAL entry: its "index full" branch is dead code,
\* because entries and the request being served hold different slots of one pool.
EntryFree == Working("append") => Cardinality(entries) < Cardinality(Slots)

\* Core 0 holds exactly the network buffers of the zero-copy requests not yet answered:
\* none is released while Core 1 may read it, none twice, none never.
BuffersHeld == pbufs = {req[id].tok : id \in {i \in Ids : req[i].zc}}

\* The acknowledgements carry no request number: a client takes the next one for that of
\* its oldest request (PicoWalClient.cs:135, 170, 202).  They come in the order the requests were sent, at most
\* one for each, and none for a request that was refused, across both FIFOs, lost signals
\* and reconnects.  A refusal does not wait its turn: WIRE_ERROR goes out ahead of the
\* acknowledgements of earlier requests still under way.
AnswersInOrder ==
    [][answered' # answered => answered' > answered /\ answered' \notin refused]_vars

\* While a client stays connected every request Core 0 took is answered (its answer handed
\* to lwIP, which may have no room for it), unless its signal was given up on the way or
\* the ring was overrun.
Settled(id) == id \notin used \/ ~conn \/ core0.pc = "overrun"
AnsweredUnlessLost == \A id \in Ids : Pending(id) ~> (Settled(id) \/ id \in lost)

=============================================================================
