-------------------------------- MODULE UdpWal --------------------------------
(***************************************************************************)
(* The UDP log (src/udp_wal.c), on Core 0.  A datagram of a session        *)
(* carries a sequence number; a batch of cards goes into the lowest free   *)
(* slot of a queue, and udp_wal_poll writes a few cards per call, in slot  *)
(* order, and answers a batch when its last card is written.               *)
(*                                                                         *)
(* The network loses, duplicates, delays and reorders.  A client numbers   *)
(* its datagrams from 1; which of them arrive, when and how often is open, *)
(* and a datagram that arrives twice is the same twice.  The callback and  *)
(* the poll run on one thread, so no datagram is handled inside a poll; a  *)
(* restart can come between any two cards.                                 *)
(*                                                                         *)
(* Encryption, addresses and RESUME (which only moves the address) are     *)
(* left out, and so is the raw ring, into which nothing is ever put.  The  *)
(* operators named Mut... are seeded bugs that show that a property        *)
(* notices.                                                                *)
(***************************************************************************)
EXTENDS Naturals, Sequences, FiniteSets

CONSTANTS
    Keys,
    TooLong,                \* a card of more than 128 bytes
    Requests,               \* what a client sends: [cards, dur], or [read]
    MaxSessions,            \* UDP_WAL_MAX_SESSIONS
    QueueSize,              \* DEFERRED_QUEUE_SIZE
    MaxBatch,               \* UDP_WAL_MAX_BATCH
    PerPoll,                \* cards that one poll writes (4)
    MaxNonce,               \* the last nonce of a session (0xFFFFFFF0)
    MaxIssued, MaxSeq, MaxReceived, MaxRestarts, MaxUnsent   \* bounds of the model

\* The durability levels of udp_wal.h.
FireAndForget == 1
AckQueued     == 2
AckDurable    == 3
AckCommitted  == 4

ASSUME UdpAssumption ==
    /\ TooLong \notin Keys
    /\ \A r \in Requests : /\ r.cards \in Seq(Keys \cup {TooLong})
                           /\ r.dur \in FireAndForget .. AckCommitted /\ r.read \in BOOLEAN
    /\ \A n \in {MaxSessions, QueueSize, MaxBatch, PerPoll, MaxNonce} : n \in Nat \ {0}
    /\ \A n \in {MaxIssued, MaxSeq, MaxReceived, MaxRestarts, MaxUnsent} : n \in Nat

Sids  == 1 .. MaxIssued       \* gen_session_id's random numbers, which never repeat
Ids   == Sids \X (1 .. MaxSeq)
Slots == 1 .. MaxSessions
Queue == 1 .. QueueSize

VARIABLES
    sess,      \* g_sessions: active, session_id, last_seq, send_seq
    queue,     \* g_deferred
    slot,      \* the poll's position in the queue, 0 between polls
    done,      \* cards_done
    issued,    \* how many session ids were given out
    hist,      \* key -> the cards written to the store under it, oldest first
    answers,   \* the answers to batches
    accepted,  \* the batches put into the queue, in this order
    raced,     \* keys for which a batch was accepted with an earlier card of theirs waiting
    silenced,  \* batches whose answer found its session out of nonces, or no network buffer
    lost,      \* batches that were waiting when the device restarted
    received, restarts       \* counted for the bounds

ghosts == <<accepted, raced, silenced, lost>>
bounds == <<received, restarts>>
vars == <<sess, queue, slot, done, issued, hist, answers, ghosts, bounds>>

-----------------------------------------------------------------------------
Id(d) == <<d.sid, d.seq>>
Active == {i \in Queue : queue[i].active}

\* The lowest of a set of slots, 0 if there is none.
Lowest(S) == IF S = {} THEN 0 ELSE CHOOSE i \in S : \A j \in S : i <= j

\* find_session
Found(sid) == {i \in Slots : sess[i].active /\ sess[i].sid = sid}

\* udp_send_encrypted: a session out of nonces loses its id instead of answering.
Exhausted(i) == sess[i].nonce >= MaxNonce
AfterSend(s, i) ==
    IF Exhausted(i) THEN [s EXCEPT ![i].sid = 0] ELSE [s EXCEPT ![i].nonce = @ + 1]

\* alloc_session: a free entry, or else the one whose last_seen_ms is the smallest.  That
\* is a 32-bit clock, which starts over after 49 days: it may be any of them.
AllocSession ==
    LET free == {i \in Slots : ~sess[i].active}
    IN  IF free = {} THEN Slots ELSE {Lowest(free)}

NoSession == [active |-> FALSE, sid |-> 0, last |-> 0, nonce |-> 0]
NoBatch   == [active |-> FALSE, sid |-> 0, seq |-> 0, cards |-> <<>>, dur |-> FireAndForget,
              next |-> 0, bits |-> {}]

\* udp_recv_cb ignores everything while the queue is full.
Listening == slot = 0 /\ Active # Queue

\* handle_hello.  send_seq stays what the entry's last session left.
Hello ==
    /\ Listening /\ issued < MaxIssued
    /\ issued' = issued + 1
    /\ \E i \in AllocSession :
         sess' = [sess EXCEPT ![i] = [active |-> TRUE, sid |-> issued + 1, last |-> 0,
                                      nonce |-> sess[i].nonce]]
    /\ UNCHANGED <<queue, slot, done, hist, answers, ghosts, bounds>>

\* Seeded bugs: a datagram may arrive twice in a row, or at any time.
MutFresh(i, seq) == seq >= sess[i].last \/ sess[i].last = 0
MutFreshAny(i, seq) == TRUE
\* The replay check.
Fresh(i, seq) == seq > sess[i].last \/ sess[i].last = 0

\* A datagram of a known session that passes the replay check.  What has been accepted
\* under its number is the same datagram.
Received(i, seq, r) ==
    /\ Listening /\ sess[i].active /\ sess[i].sid # 0 /\ Fresh(i, seq)
    /\ received < MaxReceived /\ received' = received + 1
    /\ \A n \in DOMAIN accepted :
         Id(accepted[n]) = <<sess[i].sid, seq>> => accepted[n].cards = r.cards /\ accepted[n].dur = r.dur

Noted(i, seq) == [sess EXCEPT ![i].last = seq]

\* The cards of a batch up to the first that is too long.
Parsed(cards) ==
    LET bad == {n \in DOMAIN cards : cards[n] = TooLong}
    IN  IF bad = {} THEN cards ELSE SubSeq(cards, 1, Lowest(bad) - 1)

Entry(sid, seq, r) ==
    [active |-> TRUE, sid |-> sid, seq |-> seq, cards |-> Parsed(r.cards), dur |-> r.dur,
     next |-> 0, bits |-> {}]

\* The keys of the cards that wait in the queue.
Waiting == UNION {{queue[j].cards[n] : n \in queue[j].next + 1 .. Len(queue[j].cards)} :
                  j \in Active}

\* handle_batch_write
BatchWrite(i, seq, r) ==
    /\ ~r.read /\ Received(i, seq, r)
    /\ Len(r.cards) \in 1 .. MaxBatch
    /\ LET j == Lowest(Queue \ Active)
       IN  queue' = [queue EXCEPT ![j] = Entry(sess[i].sid, seq, r)]
    /\ sess' = Noted(i, seq)
    /\ accepted' = Append(accepted, [sid |-> sess[i].sid, seq |-> seq,
                                     cards |-> r.cards, dur |-> r.dur])
    /\ raced' = raced \cup {k \in Waiting : \E n \in DOMAIN Parsed(r.cards) : r.cards[n] = k}
    /\ UNCHANGED <<slot, done, issued, hist, answers, silenced, lost, restarts>>

\* A batch without cards or with too many is dropped after its number was noted.
BadBatch(i, seq, r) ==
    /\ ~r.read /\ Received(i, seq, r)
    /\ Len(r.cards) \notin 1 .. MaxBatch
    /\ sess' = Noted(i, seq)
    /\ UNCHANGED <<queue, slot, done, issued, hist, answers, ghosts, restarts>>

\* handle_read answers at once, before the batches that wait.
Read(i, seq, r) ==
    /\ r.read /\ Received(i, seq, r)
    /\ sess' = AfterSend(Noted(i, seq), i)
    /\ UNCHANGED <<queue, slot, done, issued, hist, answers, ghosts, restarts>>

-----------------------------------------------------------------------------
(* udp_wal_poll.                                                           *)

PollBegin ==
    /\ slot = 0 /\ Active # {}
    /\ slot' = Lowest(Active)
    /\ UNCHANGED <<sess, queue, done, issued, hist, answers, ghosts, bounds>>

\* Seeded bug: the store's result is ignored.
MutBits(b, n, taken) == b.bits \cup {n}
\* The result bitmap after card n.
Bits(b, n, taken) == IF taken THEN b.bits \cup {n} ELSE b.bits

\* direct_put: the store takes the card or refuses it.  The poll ends with its last card,
\* unless that completes the batch.
PutCard ==
    /\ slot # 0
    /\ LET b == queue[slot]
           n == b.next + 1
           ends == done + 1 = PerPoll /\ n < Len(b.cards)
       IN  /\ n <= Len(b.cards)
           /\ \E taken \in BOOLEAN :
                /\ queue' = [queue EXCEPT ![slot].next = n, ![slot].bits = Bits(b, n, taken)]
                /\ hist' = IF taken
                           THEN [hist EXCEPT ![b.cards[n]] = Append(@, <<b.sid, b.seq, n>>)]
                           ELSE hist
           /\ slot' = IF ends THEN 0 ELSE slot
           /\ done' = IF ends THEN 0 ELSE done + 1
    /\ UNCHANGED <<sess, issued, answers, ghosts, bounds>>

Answer(b) ==
    [id |-> Id(b), kind |-> IF b.dur >= AckDurable THEN "committed" ELSE "queued",
     count |-> Len(b.cards), bits |-> b.bits]

\* Seeded bug: a batch whose session was evicted is not answered.
MutReply(b) ==
    LET s == Found(b.sid)
    IN  IF b.dur < AckQueued \/ s = {} THEN UNCHANGED <<sess, answers, silenced>>
        ELSE /\ sess' = AfterSend(sess, Lowest(s))
             /\ IF Exhausted(Lowest(s))
                THEN silenced' = silenced \cup {Id(b)} /\ UNCHANGED answers
                ELSE answers' = answers \cup {Answer(b)} /\ UNCHANGED silenced

\* Through the session if it is still there, else in plain text to where the batch came from.
\* lwIP may have no buffer for it: then the nonce is used up and nothing is sent.
Reply(b) ==
    LET s == Found(b.sid)
    IN  IF b.dur < AckQueued THEN UNCHANGED <<sess, answers, silenced>>
        ELSE IF s # {} /\ Exhausted(Lowest(s))
        THEN /\ sess' = AfterSend(sess, Lowest(s))
             /\ silenced' = silenced \cup {Id(b)} /\ UNCHANGED answers
        ELSE /\ sess' = IF s = {} THEN sess ELSE AfterSend(sess, Lowest(s))
             /\ \/ answers' = answers \cup {Answer(b)} /\ UNCHANGED silenced
                \/ /\ Cardinality(silenced) < MaxUnsent
                   /\ silenced' = silenced \cup {Id(b)} /\ UNCHANGED answers

Finished(b) == b.next >= Len(b.cards)

\* Seeded bug: the poll goes on to the next batch when its share is used up.
MutNextSlot == Lowest({j \in Active : j > slot})
NextSlot == IF done = PerPoll THEN 0 ELSE Lowest({j \in Active : j > slot})

FinishBatch ==
    /\ slot # 0 /\ Finished(queue[slot])
    /\ Reply(queue[slot])
    /\ queue' = [queue EXCEPT ![slot] = NoBatch]
    /\ slot' = NextSlot /\ done' = IF NextSlot = 0 THEN 0 ELSE done
    /\ UNCHANGED <<issued, hist, accepted, raced, lost, bounds>>

\* The watchdog or a power cut: udp_wal_init clears the sessions and the queue.
Restart ==
    /\ restarts < MaxRestarts
    /\ restarts' = restarts + 1
    /\ sess' = [i \in Slots |-> NoSession] /\ queue' = [j \in Queue |-> NoBatch]
    /\ slot' = 0 /\ done' = 0
    /\ lost' = lost \cup {Id(queue[j]) : j \in Active}
    /\ UNCHANGED <<issued, hist, answers, accepted, raced, silenced, received>>

-----------------------------------------------------------------------------
Init ==
    /\ sess = [i \in Slots |-> NoSession] /\ queue = [j \in Queue |-> NoBatch]
    /\ slot = 0 /\ done = 0 /\ issued = 0
    /\ hist = [k \in Keys |-> <<>>] /\ answers = {}
    /\ accepted = <<>> /\ raced = {} /\ silenced = {} /\ lost = {}
    /\ received = 0 /\ restarts = 0

Receive == \E i \in Slots, seq \in 1 .. MaxSeq, r \in Requests :
              BatchWrite(i, seq, r) \/ BadBatch(i, seq, r) \/ Read(i, seq, r)
PollStep == PollBegin \/ PutCard \/ FinishBatch
Next == Hello \/ Receive \/ PollStep \/ Restart

Spec == Init /\ [][Next]_vars

\* net_core_run calls udp_wal_poll on every turn of its loop.
FairSpec == Spec /\ WF_vars(PollStep)

-----------------------------------------------------------------------------
(* Properties.                                                             *)

Batch == [active : BOOLEAN, sid : 0 .. MaxIssued, seq : 0 .. MaxSeq, cards : Seq(Keys),
          dur : FireAndForget .. AckCommitted, next : 0 .. MaxBatch, bits : SUBSET (1 .. MaxBatch)]

\* Every variable keeps to its range; a batch is never written beyond its last card nor a
\* poll beyond its share.
TypeOK ==
    /\ sess \in [Slots -> [active : BOOLEAN, sid : 0 .. MaxIssued, last : 0 .. MaxSeq,
                           nonce : 0 .. MaxNonce]]
    /\ queue \in [Queue -> Batch] /\ \A j \in Queue : queue[j].next <= Len(queue[j].cards)
    /\ slot \in 0 .. QueueSize /\ (slot # 0 => slot \in Active)
    /\ done \in 0 .. PerPoll /\ issued \in 0 .. MaxIssued
    /\ \A k \in Keys : hist[k] \in Seq(Sids \X (1 .. MaxSeq) \X (1 .. MaxBatch))
    /\ {a.id : a \in answers} \cup silenced \cup lost \subseteq Ids
    /\ raced \subseteq Keys
    /\ received \in 0 .. MaxReceived /\ restarts \in 0 .. MaxRestarts

\* The replay check, the eviction of sessions and restarts together: however often the
\* network delivers a batch, each of its cards is written at most once.
AppliedOnce ==
    \A k \in Keys : \A m, n \in DOMAIN hist[k] : hist[k][m] = hist[k][n] => m = n

\* The bitmap of an answer tells which cards of this batch the store has taken, for the
\* cards up to its count, whoever used the queue's slot before.
AnswersTellTheTruth ==
    \A a \in answers : \A n \in DOMAIN accepted : Id(accepted[n]) = a.id =>
        /\ a.count = Len(Parsed(accepted[n].cards))
        /\ a.bits = {c \in 1 .. a.count : \E h \in DOMAIN hist[accepted[n].cards[c]] :
                         hist[accepted[n].cards[c]][h] = a.id \o <<c>>}

Position(h) == CHOOSE n \in DOMAIN accepted : Id(accepted[n]) = <<h[1], h[2]>>

\* The queue is served by slot and not by arrival, yet a card ends up with the value of
\* the batch accepted last, unless two batches with that card waited at the same time.
LastBatchWins ==
    \A k \in Keys \ raced : \A m, n \in DOMAIN hist[k] :
        m < n => Position(hist[k][m]) <= Position(hist[k][n])

\* A batch that asks for an answer and entered the queue is answered, also when its
\* session was evicted meanwhile, unless the device restarts, the session is out of nonces or
\* lwIP has no buffer for the answer: nobody tries again, and the batch is forgotten.
EveryBatchAnswered ==
    []<>(\A n \in DOMAIN accepted :
            accepted[n].dur >= AckQueued =>
                Id(accepted[n]) \in {a.id : a \in answers} \cup silenced \cup lost)

=============================================================================
