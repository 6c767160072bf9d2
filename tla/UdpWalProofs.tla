---------------------------- MODULE UdpWalProofs ----------------------------
(***************************************************************************)
(* The UDP log proved for any number of sessions, queue slots, datagrams   *)
(* and restarts: the ranges, that no card is written twice, that answers   *)
(* tell the truth, and that the batch accepted last wins.                  *)
(***************************************************************************)
EXTENDS UdpWal, SequenceTheorems, WellFoundedInduction, TLAPS

Session == [active : BOOLEAN, sid : 0 .. MaxIssued, last : 0 .. MaxSeq, nonce : 0 .. MaxNonce]
Entries == Sids \X (1 .. MaxSeq) \X (1 .. MaxBatch)
Taken   == [sid : Sids, seq : 1 .. MaxSeq, cards : Seq(Keys \cup {TooLong}),
            dur : FireAndForget .. AckCommitted]
Told    == [id : Ids, kind : {"committed", "queued"}, count : Nat, bits : SUBSET Nat]

\* The batches accepted so far, and the cards written, each under its key.
AcceptedIds == {Id(accepted[n]) : n \in DOMAIN accepted}
Log == UNION {{<<k, hist[k][m]>> : m \in DOMAIN hist[k]} : k \in Keys}

Card(id, c) == <<id[1], id[2], c>>
BatchOf(h)  == <<h[1], h[2]>>

\* The place of a batch in the order of acceptance.
At(id, acc) == CHOOSE n \in DOMAIN acc : Id(acc[n]) = id

\* Batch b still has a card for key k to be written.
Waits(b, k) == \E n \in b.next + 1 .. Len(b.cards) : b.cards[n] = k

-----------------------------------------------------------------------------
(* The invariant, its parts named.                                         *)

\* A poll whose share is used up stands at a finished batch.
PollShare ==
    /\ slot = 0 => done = 0
    /\ slot # 0 /\ ~Finished(queue[slot]) => done < PerPoll

TypeInv ==
    /\ TypeOK /\ PollShare
    /\ hist \in [Keys -> Seq(Entries)] /\ accepted \in Seq(Taken) /\ answers \subseteq Told
    /\ \A j \in Active : /\ Id(queue[j]) \in Ids
                         /\ Len(queue[j].cards) <= MaxBatch

\* No number is accepted twice; a session has noted all that were accepted from it; and
\* two sessions never share an id.
AcceptedOnce == \A m, n \in DOMAIN accepted : Id(accepted[m]) = Id(accepted[n]) => m = n
AcceptedNoted ==
    \A n \in DOMAIN accepted :
        /\ accepted[n].sid <= issued
        /\ \A i \in Slots : sess[i].active /\ sess[i].sid = accepted[n].sid =>
              accepted[n].seq <= sess[i].last
SidsApart ==
    \A i \in Slots :
        /\ sess[i].sid <= issued
        /\ \A j \in Slots : sess[i].active /\ sess[j].active /\ sess[i].sid = sess[j].sid
                              /\ sess[i].sid # 0 => i = j
NumbersNoted == AcceptedOnce /\ AcceptedNoted /\ SidsApart

\* What waits, is written or is answered was accepted; a batch waits in one slot, with the
\* cards it was accepted with, and no longer once it is answered.
FromAccepted ==
    /\ \A j \in Active : Id(queue[j]) \in AcceptedIds
    /\ \A i, j \in Active : Id(queue[i]) = Id(queue[j]) => i = j
    /\ \A a \in answers : a.id \in AcceptedIds /\ \A j \in Active : Id(queue[j]) # a.id
    /\ \A p \in Log : BatchOf(p[2]) \in AcceptedIds
CardsAccepted ==
    \A j \in Active : \A n \in DOMAIN accepted : Id(accepted[n]) = Id(queue[j]) =>
        queue[j].cards = Parsed(accepted[n].cards)

\* A waiting batch has written no card beyond its position, and its bitmap tells which.
BatchTrue(b, log) ==
    /\ \A p \in log : BatchOf(p[2]) = Id(b) => p[2][3] <= b.next
    /\ b.bits \subseteq 1 .. b.next
    /\ \A c \in 1 .. b.next : c \in b.bits <=> <<b.cards[c], Card(Id(b), c)>> \in log
QueueTrue == \A j \in Active : BatchTrue(queue[j], Log)

\* AnswersTellTheTruth, card by card; r is the batch as it was accepted.
AnswerTrue(a, r, log) ==
    /\ a.count = Len(Parsed(r.cards)) /\ a.bits \subseteq 1 .. a.count
    /\ \A c \in 1 .. a.count : c \in a.bits <=> <<r.cards[c], Card(a.id, c)>> \in log
AnswersTrue ==
    \A a \in answers : \A n \in DOMAIN accepted :
        Id(accepted[n]) = a.id => AnswerTrue(a, accepted[n], Log)

\* A key that was never in two waiting batches waits in one at most, accepted no earlier
\* than what the store holds of it.
NextInOrder ==
    \A k \in Keys \ raced :
        /\ \A i, j \in Active : Waits(queue[i], k) /\ Waits(queue[j], k) => i = j
        /\ \A p \in Log, j \in Active : p[1] = k /\ Waits(queue[j], k) =>
              At(BatchOf(p[2]), accepted) <= At(Id(queue[j]), accepted)

\* LastBatchWins, in these terms.
WrittenInOrder ==
    \A k \in Keys \ raced : \A m, n \in DOMAIN hist[k] : m < n =>
        At(BatchOf(hist[k][m]), accepted) <= At(BatchOf(hist[k][n]), accepted)

StoreInv ==
    /\ FromAccepted /\ CardsAccepted /\ QueueTrue /\ AnswersTrue
    /\ AppliedOnce /\ NextInOrder /\ WrittenInOrder

UdpInv == TypeInv /\ NumbersNoted /\ StoreInv

-----------------------------------------------------------------------------
(* The operators of the model.                                             *)

\* Lowest finds the lowest slot of a set that has one.
LEMMA LowestIs ==
    ASSUME NEW S \in SUBSET Nat, S # {}
    PROVE  Lowest(S) \in S /\ \A j \in S : Lowest(S) <= j
<1> DEFINE R == {p \in Nat \X Nat : p[1] < p[2]}
<1>1. IsWellFoundedOn(R, Nat)
  BY NatLessThanWellFounded DEF OpToRel
<1>2. PICK x \in S : \A y \in S : <<y, x>> \notin R
  <2> HIDE DEF R
  <2> QED BY <1>1, WFMin
<1>3. \A j \in S : x <= j
  <2> TAKE j \in S
  <2>1. ~(j < x)
    BY <1>2
  <2> QED BY <2>1
<1> QED BY <1>3 DEF Lowest

\* The name of a batch and a number make the name of a card.
LEMMA Joined ==
    ASSUME NEW x \in Nat, NEW y \in Nat, NEW z \in Nat PROVE <<x, y>> \o <<z>> = <<x, y, z>>
<1>1. <<x, y>> \in Seq(Nat) /\ <<z>> \in Seq(Nat) /\ <<x, y, z>> \in Seq(Nat)
  OBVIOUS
<1>2. /\ <<x, y>> \o <<z>> \in Seq(Nat) /\ Len(<<x, y>> \o <<z>>) = 3
      /\ (<<x, y>> \o <<z>>)[1] = x /\ (<<x, y>> \o <<z>>)[2] = y /\ (<<x, y>> \o <<z>>)[3] = z
  BY <1>1, ConcatProperties
<1>3. \A i \in 1 .. 3 : (<<x, y>> \o <<z>>)[i] = <<x, y, z>>[i]
  BY <1>2
<1> QED BY <1>1, <1>2, <1>3, SeqEqual

\* The parser keeps a prefix, without the card that is too long and all behind it.
LEMMA ParsedIs ==
    ASSUME UdpAssumption, NEW cards \in Seq(Keys \cup {TooLong})
    PROVE  /\ Parsed(cards) \in Seq(Keys) /\ Len(Parsed(cards)) <= Len(cards)
           /\ \A n \in DOMAIN Parsed(cards) : Parsed(cards)[n] = cards[n]
<1> DEFINE bad == {n \in DOMAIN cards : cards[n] = TooLong}
<1>1. CASE bad = {}
  <2>1. \A n \in 1 .. Len(cards) : cards[n] \in Keys
    BY <1>1
  <2>2. cards \in Seq(Keys)
    BY <2>1
  <2> QED BY <1>1, <2>2 DEF Parsed
<1>2. CASE bad # {}
  <2> DEFINE l == Lowest(bad)
  <2>0. bad \in SUBSET Nat /\ bad \subseteq 1 .. Len(cards)
    OBVIOUS
  <2>1. l \in bad /\ \A n \in bad : l <= n
    <3> HIDE DEF bad
    <3> QED BY <1>2, <2>0, LowestIs
  <2>2. l - 1 \in 0 .. Len(cards) /\ l \in 1 .. Len(cards)
    BY <2>1
  <2>3. \A n \in 1 .. l - 1 : n \in DOMAIN cards /\ cards[n] \in Keys
    <3> TAKE n \in 1 .. l - 1
    <3>1. n \in 1 .. Len(cards) /\ ~(l <= n)
      BY <2>2
    <3>2. n \notin bad
      BY <2>1, <3>1
    <3> QED BY <3>1, <3>2
  <2>4. Parsed(cards) = SubSeq(cards, 1, l - 1)
    BY <1>2 DEF Parsed
  <2> HIDE DEF l, bad
  <2>5. /\ SubSeq(cards, 1, l - 1) \in Seq(Keys) /\ Len(SubSeq(cards, 1, l - 1)) = l - 1
        /\ \A n \in 1 .. l - 1 : SubSeq(cards, 1, l - 1)[n] = cards[n]
    BY <2>2, <2>3, SubSeqProperties
  <2> QED BY <2>2, <2>4, <2>5
<1> QED BY <1>1, <1>2

\* Sending may take the session's id away, and leaves the rest of it alone.
LEMMA SendKeeps ==
    ASSUME UdpAssumption, TypeInv, NEW i \in Slots,
           NEW s, s \in [Slots -> Session],
           \A j \in Slots : s[j].nonce = sess[j].nonce
    PROVE  /\ AfterSend(s, i) \in [Slots -> Session]
           /\ \A j \in Slots : /\ AfterSend(s, i)[j].active = s[j].active
                               /\ AfterSend(s, i)[j].last = s[j].last
                               /\ AfterSend(s, i)[j].sid \in {s[j].sid, 0}
<1>1. CASE Exhausted(i)
  BY <1>1, SMTT(30) DEF AfterSend, UdpAssumption, Session
<1>2. CASE ~Exhausted(i)
  <2>1. s[i].nonce + 1 \in 0 .. MaxNonce
    BY <1>2 DEF Exhausted, UdpAssumption, Session
  <2> QED BY <1>2, <2>1 DEF AfterSend, Session
<1> QED BY <1>1, <1>2

\* The poll goes on with an active slot, or ends.
LEMMA NextSlotIs ==
    ASSUME UdpAssumption
    PROVE  NextSlot # 0 => NextSlot \in Active /\ NextSlot > slot /\ done # PerPoll
<1> DEFINE S == {j \in Active : j > slot}
<1>1. S \in SUBSET Nat
  BY DEF Active, Queue
<1>2. S # {} => Lowest(S) \in S
  BY <1>1, LowestIs
<1>3. S = {} => Lowest(S) = 0
  BY DEF Lowest
<1> QED BY <1>2, <1>3 DEF NextSlot

-----------------------------------------------------------------------------
(* The ranges.                                                             *)

LEMMA UdpInit == UdpAssumption /\ Init => UdpInv
<1> SUFFICES ASSUME UdpAssumption, Init PROVE UdpInv
  OBVIOUS
<1>1. Active = {}
  BY DEF Init, Active, NoBatch
<1>2. sess \in [Slots -> Session]
  BY DEF Init, NoSession, Session, UdpAssumption
<1>3. queue \in [Queue -> Batch] /\ \A j \in Queue : queue[j].next <= Len(queue[j].cards)
  BY DEF Init, NoBatch, Batch, UdpAssumption, FireAndForget, AckCommitted
<1>4. TypeInv
  BY <1>1, <1>2, <1>3 DEF Init, TypeInv, TypeOK, PollShare, Session, UdpAssumption
<1>5. NumbersNoted
  BY DEF Init, NumbersNoted, AcceptedOnce, AcceptedNoted, SidsApart, NoSession
<1>6. FromAccepted /\ CardsAccepted /\ QueueTrue /\ AnswersTrue
  BY <1>1 DEF Init, FromAccepted, CardsAccepted, QueueTrue, AnswersTrue, Log
<1>7. NextInOrder /\ AppliedOnce /\ WrittenInOrder
  BY <1>1 DEF Init, NextInOrder, AppliedOnce, WrittenInOrder
<1> QED BY <1>4, <1>5, <1>6, <1>7 DEF UdpInv, StoreInv

\* A session begins in an entry of the table.
LEMMA HelloIs ==
    ASSUME UdpAssumption, TypeInv, Hello
    PROVE  \E i \in Slots : sess' = [sess EXCEPT ![i] =
              [active |-> TRUE, sid |-> issued + 1, last |-> 0, nonce |-> sess[i].nonce]]
<1> DEFINE free == {i \in Slots : ~sess[i].active}
<1>1. free # {} => Lowest(free) \in free
  <2>1. free \in SUBSET Nat
    BY DEF Slots
  <2> HIDE DEF free
  <2> QED BY <2>1, LowestIs
<1>2. AllocSession \subseteq Slots
  BY <1>1 DEF AllocSession
<1> QED BY <1>2 DEF Hello

LEMMA TypeHello == ASSUME UdpAssumption, TypeInv, Hello PROVE TypeInv'
<1>1. issued' \in 0 .. MaxIssued /\ issued + 1 \in 0 .. MaxIssued
  BY SMTT(30) DEF Hello, TypeInv, TypeOK, UdpAssumption
<1>2. sess' \in [Slots -> Session]
  <2>1. PICK i \in Slots : sess' = [sess EXCEPT ![i] =
              [active |-> TRUE, sid |-> issued + 1, last |-> 0, nonce |-> sess[i].nonce]]
    BY HelloIs
  <2>2. sess \in [Slots -> Session]
    BY DEF TypeInv, TypeOK, Session
  <2>3. [active |-> TRUE, sid |-> issued + 1, last |-> 0, nonce |-> sess[i].nonce] \in Session
    BY <1>1, <2>2 DEF Session, UdpAssumption
  <2> QED BY <2>1, <2>2, <2>3
<1> QED BY <1>1, <1>2 DEF Hello, TypeInv, TypeOK, PollShare, Session, ghosts, bounds, Active, Finished

\* A datagram that is let in moves its session on.
LEMMA ReceivedIs ==
    ASSUME UdpAssumption, TypeInv, NEW i \in Slots, NEW seq \in 1 .. MaxSeq, NEW r \in Requests,
           Received(i, seq, r)
    PROVE  /\ slot = 0 /\ Active # Queue /\ sess[i].active /\ sess[i].sid \in Sids
           /\ seq > sess[i].last \/ sess[i].last = 0
           /\ Noted(i, seq) \in [Slots -> Session]
           /\ \A j \in Slots : /\ Noted(i, seq)[j].active = sess[j].active
                               /\ Noted(i, seq)[j].sid = sess[j].sid
                               /\ Noted(i, seq)[j].nonce = sess[j].nonce
                               /\ Noted(i, seq)[j].last = IF j = i THEN seq ELSE sess[j].last
           /\ received' \in 0 .. MaxReceived
<1>1. sess \in [Slots -> Session]
  BY DEF TypeInv, TypeOK, Session
<1>2. Noted(i, seq) \in [Slots -> Session]
  <2>0. seq \in 0 .. MaxSeq /\ sess[i] \in Session
    BY <1>1 DEF UdpAssumption
  <2>1. [sess[i] EXCEPT !.last = seq] \in Session
    BY <2>0 DEF Session
  <2> QED BY <1>1, <2>1 DEF Noted
<1>3. \A j \in Slots : /\ Noted(i, seq)[j].active = sess[j].active
                       /\ Noted(i, seq)[j].sid = sess[j].sid
                       /\ Noted(i, seq)[j].nonce = sess[j].nonce
                       /\ Noted(i, seq)[j].last = IF j = i THEN seq ELSE sess[j].last
  BY <1>1 DEF Noted, Session
<1>4. received' \in 0 .. MaxReceived
  BY SMTT(30) DEF Received, TypeInv, TypeOK, UdpAssumption
<1>5. sess[i].sid \in Sids
  BY <1>1 DEF Received, Session, Sids
<1> QED BY <1>2, <1>3, <1>4, <1>5 DEF Received, Listening, Fresh

\* A batch gets slot j.
Enters(j, i, seq, r) ==
    /\ queue' \in [Queue -> Batch] /\ Active' = Active \cup {j}
    /\ queue'[j].active /\ Id(queue'[j]) = <<sess[i].sid, seq>>
    /\ queue'[j].next = 0 /\ queue'[j].bits = {} /\ queue'[j].cards = Parsed(r.cards)
    /\ \A n \in Queue \ {j} : queue'[n] = queue[n]

LEMMA EntryIs ==
    ASSUME UdpAssumption, TypeInv, NEW i \in Slots, NEW seq \in 1 .. MaxSeq, NEW r \in Requests,
           BatchWrite(i, seq, r)
    PROVE  \E j \in Queue \ Active : Enters(j, i, seq, r)
<1> DEFINE j == Lowest(Queue \ Active)
<1>1. Received(i, seq, r) /\ Len(r.cards) \in 1 .. MaxBatch
  BY DEF BatchWrite
<1>2. Queue \ Active \in SUBSET Nat /\ Queue \ Active # {}
  <2>1. Active # Queue
    BY <1>1, ReceivedIs
  <2>2. Active \in SUBSET Queue /\ Queue \in SUBSET Nat
    BY DEF Active, Queue
  <2> QED
    BY <2>1, <2>2
<1>3. j \in Queue \ Active
  BY <1>2, LowestIs
<1>4. queue' = [queue EXCEPT ![j] = Entry(sess[i].sid, seq, r)]
  BY DEF BatchWrite
<1> HIDE DEF j
<1>5. sess[i].sid \in Sids
  BY <1>1, ReceivedIs
<1>6. r.cards \in Seq(Keys \cup {TooLong}) /\ r.dur \in FireAndForget .. AckCommitted
  BY DEF UdpAssumption
<1>7. Entry(sess[i].sid, seq, r) \in Batch
  <2>1. Parsed(r.cards) \in Seq(Keys)
    BY <1>6, ParsedIs
  <2>2. sess[i].sid \in 0 .. MaxIssued /\ seq \in 0 .. MaxSeq /\ 0 \in 0 .. MaxBatch
    BY <1>5 DEF Sids, UdpAssumption
  <2> QED BY <1>6, <2>1, <2>2 DEF Entry, Batch
<1>8. queue \in [Queue -> Batch]
  BY DEF TypeInv, TypeOK
<1>9. queue' \in [Queue -> Batch] /\ queue'[j] = Entry(sess[i].sid, seq, r)
      /\ \A n \in Queue \ {j} : queue'[n] = queue[n]
  BY <1>3, <1>4, <1>7, <1>8
<1>10. Active' = Active \cup {j}
  BY <1>3, <1>9 DEF Active, Entry
<1>11. Enters(j, i, seq, r)
  BY <1>9, <1>10 DEF Enters, Entry, Id
<1> QED BY <1>3, <1>11

LEMMA TypeBatchWrite ==
    ASSUME UdpAssumption, TypeInv, NEW i \in Slots, NEW seq \in 1 .. MaxSeq, NEW r \in Requests,
           BatchWrite(i, seq, r)
    PROVE  TypeInv'
<1>1. Received(i, seq, r) /\ Len(r.cards) \in 1 .. MaxBatch
  BY DEF BatchWrite
<1>0. PICK j \in Queue \ Active : Enters(j, i, seq, r)
  BY EntryIs
<1>2. /\ queue' \in [Queue -> Batch] /\ Active' = Active \cup {j}
      /\ queue'[j].active /\ Id(queue'[j]) = <<sess[i].sid, seq>>
      /\ queue'[j].next = 0 /\ queue'[j].cards = Parsed(r.cards)
      /\ \A n \in Queue \ {j} : queue'[n] = queue[n]
  BY <1>0 DEF Enters
<1>3. r.cards \in Seq(Keys \cup {TooLong}) /\ r.dur \in FireAndForget .. AckCommitted
  BY DEF UdpAssumption
<1>4. Len(Parsed(r.cards)) <= MaxBatch /\ Len(Parsed(r.cards)) \in Nat
  BY <1>1, <1>3, ParsedIs, SMTT(30) DEF UdpAssumption
<1>5. sess' \in [Slots -> Session]
  BY <1>1, ReceivedIs DEF BatchWrite
<1>6. <<sess[i].sid, seq>> \in Ids
  BY <1>1, ReceivedIs DEF Ids
<1>7. \A n \in Queue : queue'[n].next <= Len(queue'[n].cards)
  <2>1. \A n \in Queue \ {j} : queue'[n].next <= Len(queue'[n].cards)
    BY <1>2 DEF TypeInv, TypeOK
  <2>2. queue'[j].next <= Len(queue'[j].cards)
    BY <1>2, <1>4
  <2> QED BY <2>1, <2>2
<1>8. \A n \in Active' : Id(queue'[n]) \in Ids /\ Len(queue'[n].cards) <= MaxBatch
  BY <1>2, <1>4, <1>6 DEF TypeInv, Active
<1>9. [sid |-> sess[i].sid, seq |-> seq, cards |-> r.cards, dur |-> r.dur] \in Taken
  BY <1>1, <1>3, ReceivedIs DEF Taken
<1>10. accepted' \in Seq(Taken)
  BY <1>9, AppendProperties DEF BatchWrite, TypeInv
<1>11. raced' \subseteq Keys
  <2>1. Waiting \subseteq Keys
    <3>1. \A q \in Queue : queue[q].cards \in Seq(Keys) /\ queue[q].next \in Nat
      BY SMTT(30) DEF TypeInv, TypeOK, Batch
    <3>2. \A q \in Queue : \A n \in queue[q].next + 1 .. Len(queue[q].cards) :
             queue[q].cards[n] \in Keys
      BY <3>1, SMTT(30)
    <3> QED BY <3>2 DEF Waiting, Active
  <2> QED BY <2>1 DEF BatchWrite, TypeInv, TypeOK
<1>12. received' \in 0 .. MaxReceived /\ slot = 0
  BY <1>1, ReceivedIs
<1> QED BY <1>2, <1>5, <1>7, <1>8, <1>10, <1>11, <1>12
        DEF BatchWrite, TypeInv, TypeOK, PollShare, Session, Id

LEMMA TypeBadBatch ==
    ASSUME UdpAssumption, TypeInv, NEW i \in Slots, NEW seq \in 1 .. MaxSeq, NEW r \in Requests,
           BadBatch(i, seq, r)
    PROVE  TypeInv'
<1>1. sess' \in [Slots -> Session] /\ received' \in 0 .. MaxReceived
  BY ReceivedIs DEF BadBatch
<1> QED BY <1>1 DEF BadBatch, TypeInv, TypeOK, PollShare, Session, ghosts, Active, Finished

LEMMA TypeRead ==
    ASSUME UdpAssumption, TypeInv, NEW i \in Slots, NEW seq \in 1 .. MaxSeq, NEW r \in Requests,
           Read(i, seq, r)
    PROVE  TypeInv'
<1>1. Received(i, seq, r)
  BY DEF Read
<1>2. sess' \in [Slots -> Session]
  BY <1>1, ReceivedIs, SendKeeps DEF Read
<1>3. received' \in 0 .. MaxReceived
  BY <1>1, ReceivedIs
<1> QED BY <1>2, <1>3 DEF Read, TypeInv, TypeOK, PollShare, Session, ghosts, Active, Finished

LEMMA TypePollBegin == ASSUME UdpAssumption, TypeInv, PollBegin PROVE TypeInv'
<1>1. Active \in SUBSET Nat /\ Active # {}
  BY DEF PollBegin, Active, Queue
<1>2. slot' \in Active
  BY <1>1, LowestIs DEF PollBegin
<1>3. slot' \in 0 .. QueueSize /\ slot' # 0
  BY <1>2 DEF Active, Queue
<1>4. done' = 0 /\ 0 < PerPoll
  BY DEF PollBegin, TypeInv, PollShare, UdpAssumption
<1>5. PollShare'
  BY <1>3, <1>4 DEF PollShare
<1> QED BY <1>2, <1>3, <1>5 DEF PollBegin, TypeInv, TypeOK, ghosts, bounds, Active, Finished

-----------------------------------------------------------------------------
(* A card is written.                                                      *)

\* What PutCard does to the queue's slot, the store and the poll.
LEMMA PutCardIs ==
    ASSUME UdpAssumption, TypeInv, PutCard
    PROVE  \E taken \in BOOLEAN, n \in 1 .. MaxBatch, k \in Keys :
              /\ slot \in Active /\ n = queue[slot].next + 1 /\ n <= Len(queue[slot].cards)
              /\ k = queue[slot].cards[n]
              /\ queue' \in [Queue -> Batch] /\ Active' = Active
              /\ queue'[slot].next = n /\ queue'[slot].cards = queue[slot].cards
              /\ queue'[slot].bits = IF taken THEN queue[slot].bits \cup {n} ELSE queue[slot].bits
              /\ \A j \in Queue : Id(queue'[j]) = Id(queue[j])
              /\ \A j \in Queue \ {slot} : queue'[j] = queue[j]
              /\ hist' \in [Keys -> Seq(Entries)]
              /\ \A q \in Keys \ {k} : hist'[q] = hist[q]
              /\ hist'[k] = IF taken THEN Append(hist[k], <<queue[slot].sid, queue[slot].seq, n>>)
                            ELSE hist[k]
              /\ slot' \in {0, slot} /\ (slot' = 0 => done' = 0)
              /\ slot' # 0 => done' = done + 1
              /\ n < Len(queue[slot].cards) /\ slot' # 0 => done + 1 # PerPoll
<1> DEFINE b == queue[slot]
           n == b.next + 1
           k == b.cards[n]
<1>1. slot \in Active /\ slot \in Queue /\ b \in Batch /\ n <= Len(b.cards)
  BY DEF PutCard, TypeInv, TypeOK, Active
<1>2. n \in 1 .. MaxBatch /\ k \in Keys /\ n \in 1 .. Len(b.cards)
  <2>1. b.next \in Nat /\ b.cards \in Seq(Keys) /\ Len(b.cards) <= MaxBatch
    BY <1>1 DEF Batch, TypeInv
  <2> QED BY <1>1, <2>1, SMTT(30) DEF UdpAssumption
<1>3. PICK taken \in BOOLEAN :
        /\ queue' = [queue EXCEPT ![slot].next = n, ![slot].bits = Bits(b, n, taken)]
        /\ hist' = IF taken THEN [hist EXCEPT ![k] = Append(@, <<b.sid, b.seq, n>>)] ELSE hist
  BY DEF PutCard
<1>4. <<b.sid, b.seq, n>> \in Entries
  BY <1>1, <1>2 DEF TypeInv, Entries, Ids, Id
<1>5. /\ hist' \in [Keys -> Seq(Entries)]
      /\ \A q \in Keys \ {k} : hist'[q] = hist[q]
      /\ hist'[k] = IF taken THEN Append(hist[k], <<b.sid, b.seq, n>>) ELSE hist[k]
  <2>1. hist \in [Keys -> Seq(Entries)]
    BY DEF TypeInv
  <2>2. Append(hist[k], <<b.sid, b.seq, n>>) \in Seq(Entries)
    BY <1>2, <1>4, <2>1, AppendProperties
  <2> HIDE DEF n, k, b
  <2> QED BY <1>2, <1>3, <2>1, <2>2
<1>6. /\ queue' \in [Queue -> Batch]
      /\ queue'[slot] = [b EXCEPT !.next = n, !.bits = Bits(b, n, taken)]
      /\ \A j \in Queue \ {slot} : queue'[j] = queue[j]
  <2>1. Bits(b, n, taken) \subseteq 1 .. MaxBatch
    BY <1>1, <1>2 DEF Bits, Batch
  <2>2. n \in 0 .. MaxBatch
    BY <1>2
  <2>3. [b EXCEPT !.next = n, !.bits = Bits(b, n, taken)] \in Batch
    <3> HIDE DEF n, b
    <3> QED BY <1>1, <2>1, <2>2 DEF Batch
  <2>4. queue \in [Queue -> Batch]
    BY DEF TypeInv, TypeOK
  <2>5. queue' = [queue EXCEPT ![slot] = [b EXCEPT !.next = n, !.bits = Bits(b, n, taken)]]
    BY <1>1, <1>3, <2>4
  <2> HIDE DEF n, b
  <2> QED BY <1>1, <2>3, <2>4, <2>5
<1>7. /\ queue'[slot].next = n /\ queue'[slot].cards = b.cards /\ queue'[slot].active = b.active
      /\ queue'[slot].bits = Bits(b, n, taken)
      /\ queue'[slot].sid = b.sid /\ queue'[slot].seq = b.seq
  <2> HIDE DEF n, b
  <2> QED BY <1>1, <1>6 DEF Batch
<1>8. Active' = Active
  BY <1>6, <1>7 DEF Active
<1>9. \A j \in Queue : Id(queue'[j]) = Id(queue[j])
  BY <1>6, <1>7 DEF Id
<1>10. /\ slot' \in {0, slot} /\ (slot' = 0 => done' = 0)
       /\ slot' # 0 => done' = done + 1
       /\ n < Len(b.cards) /\ slot' # 0 => done + 1 # PerPoll
  BY DEF PutCard
<1> HIDE DEF n, b, k
<1>11. Bits(b, n, taken) = IF taken THEN b.bits \cup {n} ELSE b.bits
  BY DEF Bits
<1> QED BY <1>1, <1>2, <1>5, <1>6, <1>7, <1>8, <1>9, <1>10, <1>11, ZenonT(30) DEF n, b, k

LEMMA TypePutCard == ASSUME UdpAssumption, TypeInv, PutCard PROVE TypeInv'
<1>1. PICK taken \in BOOLEAN, n \in 1 .. MaxBatch, k \in Keys :
        /\ slot \in Active /\ n = queue[slot].next + 1 /\ n <= Len(queue[slot].cards)
        /\ queue' \in [Queue -> Batch] /\ Active' = Active
        /\ queue'[slot].next = n /\ queue'[slot].cards = queue[slot].cards
        /\ \A j \in Queue : Id(queue'[j]) = Id(queue[j])
        /\ \A j \in Queue \ {slot} : queue'[j] = queue[j]
        /\ hist' \in [Keys -> Seq(Entries)]
        /\ slot' \in {0, slot} /\ (slot' = 0 => done' = 0)
        /\ slot' # 0 => done' = done + 1
        /\ n < Len(queue[slot].cards) /\ slot' # 0 => done + 1 # PerPoll
  BY PutCardIs
<1>2. \A j \in Queue : queue'[j].next <= Len(queue'[j].cards)
  <2>1. queue'[slot].next <= Len(queue'[slot].cards)
    BY <1>1
  <2>2. \A j \in Queue \ {slot} : queue'[j].next <= Len(queue'[j].cards)
    BY <1>1 DEF TypeInv, TypeOK
  <2> QED BY <2>1, <2>2
<1>3. \A j \in Active' : Id(queue'[j]) \in Ids /\ Len(queue'[j].cards) <= MaxBatch
  BY <1>1 DEF TypeInv, Active
<1>4. slot # 0 /\ slot \in 0 .. QueueSize
  BY <1>1 DEF Active, Queue
<1>5. /\ Len(queue[slot].cards) \in Nat /\ queue[slot].next \in Nat
      /\ n = queue[slot].next + 1 /\ n <= Len(queue[slot].cards)
  <2>1. queue[slot] \in Batch
    BY <1>1 DEF TypeInv, TypeOK, Active
  <2>2. queue[slot].cards \in Seq(Keys) /\ queue[slot].next \in 0 .. MaxBatch
    BY <2>1 DEF Batch
  <2>3. n = queue[slot].next + 1 /\ n <= Len(queue[slot].cards)
    BY <1>1
  <2> QED BY <2>2, <2>3, SMTT(30)
<1>6. done < PerPoll /\ done \in Nat /\ PerPoll \in Nat \ {0}
  <2>1. ~Finished(queue[slot])
    BY <1>5, SMTT(30) DEF Finished
  <2>2. done \in Nat /\ PerPoll \in Nat \ {0}
    BY DEF TypeInv, TypeOK, UdpAssumption
  <2> QED BY <1>4, <2>1, <2>2 DEF TypeInv, PollShare
<1>7. done' \in 0 .. PerPoll
  BY <1>1, <1>6
<1>8. PollShare'
  <2>1. ASSUME slot' # 0, ~Finished(queue'[slot']) PROVE done' < PerPoll
    <3>1. slot' = slot /\ queue'[slot].next = n /\ queue'[slot].cards = queue[slot].cards
      BY <1>1, <2>1
    <3>2. n < Len(queue[slot].cards)
      BY <1>5, <2>1, <3>1, SMTT(30) DEF Finished
    <3> QED BY <1>1, <1>6, <2>1, <3>1, <3>2
  <2> QED BY <1>1, <2>1 DEF PollShare
<1>9. slot' \in 0 .. QueueSize /\ (slot' # 0 => slot' \in Active')
  BY <1>1, <1>4
<1>10. \A q \in Keys : hist'[q] \in Seq(Entries)
  BY <1>1
<1> QED BY <1>1, <1>2, <1>3, <1>7, <1>8, <1>9, <1>10
        DEF PutCard, TypeInv, TypeOK, Entries, ghosts, bounds

-----------------------------------------------------------------------------
(* A batch is finished.                                                    *)

LEMMA ReplyIs ==
    ASSUME UdpAssumption, TypeInv, FinishBatch
    PROVE  /\ sess' \in [Slots -> Session]
           /\ \A i \in Slots : /\ sess'[i].active = sess[i].active
                               /\ sess'[i].last = sess[i].last
                               /\ sess'[i].sid \in {sess[i].sid, 0}
           /\ answers' \subseteq answers \cup {Answer(queue[slot])}
           /\ silenced' \subseteq silenced \cup {Id(queue[slot])}
<1> DEFINE s == Found(queue[slot].sid)
<1>1. s # {} => Lowest(s) \in Slots
  <2>1. s \in SUBSET Nat /\ s \subseteq Slots
    BY DEF Found, Slots
  <2> HIDE DEF s
  <2> QED BY <2>1, LowestIs
<1>2. sess \in [Slots -> Session]
  BY DEF TypeInv, TypeOK, Session
<1>3. s # {} => LET t == AfterSend(sess, Lowest(s)) IN
        /\ t \in [Slots -> Session]
        /\ \A i \in Slots : /\ t[i].active = sess[i].active /\ t[i].last = sess[i].last
                            /\ t[i].sid \in {sess[i].sid, 0}
  <2> HIDE DEF s
  <2> QED BY <1>1, <1>2, SendKeeps
<1>4. \/ UNCHANGED sess
      \/ s # {} /\ sess' = AfterSend(sess, Lowest(s))
  BY DEF FinishBatch, Reply
<1>5. /\ answers' \subseteq answers \cup {Answer(queue[slot])}
      /\ silenced' \subseteq silenced \cup {Id(queue[slot])}
  BY DEF FinishBatch, Reply
<1> HIDE DEF s
<1> QED BY <1>2, <1>3, <1>4, <1>5

\* The slot is free again; the others are left alone.
LEMMA FinishBatchIs ==
    ASSUME UdpAssumption, TypeInv, FinishBatch
    PROVE  /\ slot \in Active /\ slot \in Queue /\ queue[slot].next = Len(queue[slot].cards)
           /\ queue' \in [Queue -> Batch] /\ Active' = Active \ {slot}
           /\ queue'[slot] = NoBatch
           /\ \A j \in Queue \ {slot} : queue'[j] = queue[j]
<1>1. slot \in Active /\ slot \in Queue /\ queue[slot] \in Batch
  BY DEF FinishBatch, TypeInv, TypeOK, Active
<1>2. NoBatch \in Batch /\ ~NoBatch.active
  BY DEF NoBatch, Batch, UdpAssumption, FireAndForget, AckCommitted
<1>3. queue' \in [Queue -> Batch] /\ queue'[slot] = NoBatch
      /\ \A j \in Queue \ {slot} : queue'[j] = queue[j]
  BY <1>1, <1>2 DEF FinishBatch, TypeInv, TypeOK
<1>4. Active' = Active \ {slot}
  BY <1>1, <1>2, <1>3 DEF Active
<1>5. queue[slot].next = Len(queue[slot].cards)
  BY <1>1, SMTT(30) DEF FinishBatch, Finished, TypeInv, TypeOK, Batch
<1> QED BY <1>1, <1>3, <1>4, <1>5

LEMMA TypeFinishBatch == ASSUME UdpAssumption, TypeInv, FinishBatch PROVE TypeInv'
<1>1. Id(queue[slot]) \in Ids /\ queue[slot] \in Batch /\ slot \in Active
  BY FinishBatchIs DEF TypeInv, TypeOK
<1>2. Answer(queue[slot]) \in Told
  <2>1. Len(queue[slot].cards) \in Nat /\ queue[slot].bits \in SUBSET Nat
    BY <1>1, SMTT(30) DEF Batch
  <2> QED BY <1>1, <2>1 DEF Answer, Told
<1>3. answers' \subseteq Told /\ {a.id : a \in answers'} \subseteq Ids /\ silenced' \subseteq Ids
  <2>1. answers' \subseteq Told
    BY <1>2, ReplyIs DEF TypeInv
  <2>2. silenced \subseteq Ids
    BY DEF TypeInv, TypeOK
  <2> QED BY <1>1, <2>1, <2>2, ReplyIs DEF Told
<1>4. lost' \subseteq Ids
  BY DEF FinishBatch, TypeInv, TypeOK
<1>5. \A j \in Queue : queue'[j].next <= Len(queue'[j].cards)
  <2>1. NoBatch.next <= Len(NoBatch.cards)
    BY DEF NoBatch
  <2> QED BY <2>1, FinishBatchIs DEF TypeInv, TypeOK
<1>6. \A j \in Active' : Id(queue'[j]) \in Ids /\ Len(queue'[j].cards) <= MaxBatch
  BY FinishBatchIs DEF TypeInv, Active
<1>7. slot' # 0 => slot' \in Active' /\ slot' \in 1 .. QueueSize /\ done' = done /\ done # PerPoll
  <2>1. slot' # 0 => slot' \in Active /\ slot' # slot /\ done # PerPoll /\ slot' = NextSlot
    BY <1>1, NextSlotIs DEF FinishBatch, Active, Queue
  <2> QED BY <2>1, FinishBatchIs DEF FinishBatch, Active, Queue
<1>8. (slot' = 0 => done' = 0) /\ done' \in 0 .. PerPoll /\ slot' \in 0 .. QueueSize
  BY <1>7, SMTT(30) DEF FinishBatch, TypeInv, TypeOK, UdpAssumption
<1>9. PollShare'
  BY <1>7, <1>8 DEF PollShare, UdpAssumption
<1>10. sess' \in [Slots -> Session] /\ queue' \in [Queue -> Batch]
  BY ReplyIs, FinishBatchIs
<1> QED BY <1>3, <1>4, <1>5, <1>6, <1>7, <1>8, <1>9, <1>10
        DEF FinishBatch, TypeInv, TypeOK, Session, bounds

LEMMA TypeRestart == ASSUME UdpAssumption, TypeInv, Restart PROVE TypeInv'
<1>1. sess' \in [Slots -> Session]
  BY DEF Restart, NoSession, Session, UdpAssumption
<1>2. queue' \in [Queue -> Batch] /\ \A j \in Queue : queue'[j].next <= Len(queue'[j].cards)
  BY DEF Restart, NoBatch, Batch, UdpAssumption, FireAndForget, AckCommitted
<1>3. Active' = {}
  BY DEF Restart, NoBatch, Active
<1>4. {a.id : a \in answers'} \cup silenced' \cup lost' \subseteq Ids
  BY DEF Restart, TypeInv, TypeOK, Active
<1>5. restarts' \in 0 .. MaxRestarts
  BY SMTT(30) DEF Restart, TypeInv, TypeOK, UdpAssumption
<1> QED BY <1>1, <1>2, <1>3, <1>4, <1>5, SMTT(30)
        DEF Restart, TypeInv, TypeOK, PollShare, Session, UdpAssumption

LEMMA TypeStep == UdpAssumption /\ TypeInv /\ [Next]_vars => TypeInv'
<1> SUFFICES ASSUME UdpAssumption, TypeInv, [Next]_vars PROVE TypeInv'
  OBVIOUS
<1>1. CASE UNCHANGED vars
  BY <1>1 DEF vars, ghosts, bounds, TypeInv, TypeOK, PollShare, Active, Finished
<1>2. CASE Receive
  BY <1>2, TypeBatchWrite, TypeBadBatch, TypeRead DEF Receive
<1>3. CASE PollStep
  BY <1>3, TypePollBegin, TypePutCard, TypeFinishBatch DEF PollStep
<1> QED BY <1>1, <1>2, <1>3, TypeHello, TypeRestart DEF Next

-----------------------------------------------------------------------------
(* The replay check: numbers only go up, and every accepted one is noted.  *)

LEMMA NumbersAre ==
    ASSUME UdpAssumption, TypeInv
    PROVE  /\ issued \in Nat /\ accepted \in Seq(Taken)
           /\ \A i \in Slots : sess[i].last \in Nat /\ sess[i].sid \in Nat
           /\ \A n \in DOMAIN accepted :
                 accepted[n].sid \in Nat \ {0} /\ accepted[n].seq \in Nat \ {0}
<1>1. sess \in [Slots -> Session] /\ issued \in Nat
  BY DEF TypeInv, TypeOK, Session
<1>2. \A i \in Slots : sess[i] \in Session
  BY <1>1
<1>3. \A i \in Slots : sess[i].last \in Nat /\ sess[i].sid \in Nat
  BY <1>2 DEF Session
<1>4. accepted \in Seq(Taken)
  BY DEF TypeInv
<1>5. \A n \in DOMAIN accepted : accepted[n] \in Taken
  BY <1>4
<1>6. \A n \in DOMAIN accepted :
         accepted[n].sid \in Nat \ {0} /\ accepted[n].seq \in Nat \ {0}
  BY <1>5 DEF Taken, Sids
<1> QED BY <1>1, <1>3, <1>4, <1>6

\* Sessions that only move on, or lose their id, keep what they noted.
LEMMA SessionsAhead ==
    ASSUME UdpAssumption, TypeInv, TypeInv', NumbersNoted, UNCHANGED <<accepted, issued>>,
           \A i \in Slots : /\ sess'[i].active = sess[i].active
                            /\ sess'[i].sid \in {sess[i].sid, 0}
                            /\ sess'[i].last >= sess[i].last
    PROVE  NumbersNoted'
<1>1. /\ issued \in Nat
      /\ \A i \in Slots : sess[i].last \in Nat /\ sess[i].sid \in Nat
      /\ \A n \in DOMAIN accepted : accepted[n].sid # 0 /\ accepted[n].seq \in Nat
  BY NumbersAre
<1>2. \A i \in Slots : sess'[i].last \in Nat
  BY DEF TypeInv, TypeOK
<1>3. AcceptedOnce'
  BY DEF NumbersNoted, AcceptedOnce, Id
<1>4. AcceptedNoted'
  <2>1. ASSUME NEW n \in DOMAIN accepted, NEW i \in Slots,
               sess'[i].active, sess'[i].sid = accepted[n].sid
        PROVE  accepted[n].seq <= sess'[i].last
    <3>1. sess[i].active /\ sess[i].sid = accepted[n].sid
      BY <1>1, <2>1
    <3>2. accepted[n].seq <= sess[i].last
      BY <3>1 DEF NumbersNoted, AcceptedNoted
    <3> QED BY <1>1, <1>2, <3>2
  <2> QED BY <2>1 DEF NumbersNoted, AcceptedNoted
<1>5. SidsApart'
  <2>1. ASSUME NEW i \in Slots PROVE sess'[i].sid <= issued
    BY <1>1 DEF NumbersNoted, SidsApart
  <2>2. ASSUME NEW i \in Slots, NEW j \in Slots, sess'[i].active, sess'[j].active,
               sess'[i].sid = sess'[j].sid, sess'[i].sid # 0
        PROVE  i = j
    <3>1. sess[i].active /\ sess[j].active /\ sess[i].sid = sess[j].sid /\ sess[i].sid # 0
      BY <2>2
    <3> QED BY <3>1 DEF NumbersNoted, SidsApart
  <2> QED BY <2>1, <2>2 DEF SidsApart
<1> QED BY <1>3, <1>4, <1>5 DEF NumbersNoted

\* A new session has a new id, from which nothing was accepted.
LEMMA NumbersHello ==
    ASSUME UdpAssumption, TypeInv, NumbersNoted, Hello PROVE NumbersNoted'
<1>1. PICK i \in Slots : sess' = [sess EXCEPT ![i] =
              [active |-> TRUE, sid |-> issued + 1, last |-> 0, nonce |-> sess[i].nonce]]
  BY HelloIs
<1>2. /\ sess'[i].sid = issued + 1
      /\ \A j \in Slots \ {i} : sess'[j] = sess[j]
  BY <1>1 DEF TypeInv, TypeOK
<1>3. issued' = issued + 1 /\ accepted' = accepted
  BY DEF Hello, ghosts
<1>4. /\ issued \in Nat
      /\ \A j \in Slots : sess[j].sid \in Nat
      /\ \A n \in DOMAIN accepted : accepted[n].sid \in Nat
  BY NumbersAre
<1>5. AcceptedOnce'
  BY <1>3 DEF NumbersNoted, AcceptedOnce, Id
<1>6. AcceptedNoted'
  BY <1>2, <1>3, <1>4 DEF NumbersNoted, AcceptedNoted
<1>7. SidsApart'
  <2>1. ASSUME NEW m \in Slots PROVE sess'[m].sid <= issued'
    BY <1>2, <1>3, <1>4, SMTT(30) DEF NumbersNoted, SidsApart
  <2>2. \A m \in Slots \ {i} : sess'[m].sid <= issued /\ sess'[m].sid \in Nat
    BY <1>2, <1>4 DEF NumbersNoted, SidsApart
  <2>3. ASSUME NEW m \in Slots, NEW j \in Slots, sess'[m].active, sess'[j].active,
               sess'[m].sid = sess'[j].sid, sess'[m].sid # 0
        PROVE  m = j
    <3>1. CASE m # i /\ j # i
      BY <2>3, <3>1, <1>2 DEF NumbersNoted, SidsApart
    <3>2. CASE m = i /\ j # i
      BY <2>2, <2>3, <3>2, <1>2, <1>4
    <3>3. CASE m # i /\ j = i
      BY <2>2, <2>3, <3>3, <1>2, <1>4
    <3> QED BY <3>1, <3>2, <3>3
  <2> QED BY <2>1, <2>3 DEF SidsApart
<1> QED BY <1>5, <1>6, <1>7 DEF NumbersNoted

\* A datagram that passes the check carries a number its session has not accepted.
LEMMA FreshIsNew ==
    ASSUME UdpAssumption, TypeInv, NumbersNoted,
           NEW i \in Slots, NEW seq \in 1 .. MaxSeq, NEW r \in Requests, Received(i, seq, r)
    PROVE  <<sess[i].sid, seq>> \notin AcceptedIds
<1> SUFFICES ASSUME NEW n \in DOMAIN accepted, Id(accepted[n]) = <<sess[i].sid, seq>> PROVE FALSE
  BY DEF AcceptedIds
<1>1. accepted[n].sid = sess[i].sid /\ accepted[n].seq = seq
  BY DEF Id
<1>2. sess[i].active /\ (seq > sess[i].last \/ sess[i].last = 0)
  BY ReceivedIs
<1>3. seq <= sess[i].last
  BY <1>1, <1>2 DEF NumbersNoted, AcceptedNoted
<1>4. sess[i].last \in Nat
  BY NumbersAre
<1> QED BY <1>2, <1>3, <1>4

LEMMA NumbersBatchWrite ==
    ASSUME UdpAssumption, TypeInv, NumbersNoted,
           NEW i \in Slots, NEW seq \in 1 .. MaxSeq, NEW r \in Requests, BatchWrite(i, seq, r)
    PROVE  NumbersNoted'
<1> DEFINE new == [sid |-> sess[i].sid, seq |-> seq, cards |-> r.cards, dur |-> r.dur]
           len == Len(accepted)
<1>1. Received(i, seq, r) /\ accepted' = Append(accepted, new) /\ sess' = Noted(i, seq)
      /\ issued' = issued
  BY DEF BatchWrite
<1>2. /\ \A j \in Slots : /\ sess'[j].active = sess[j].active /\ sess'[j].sid = sess[j].sid
                          /\ sess'[j].last = IF j = i THEN seq ELSE sess[j].last
      /\ sess[i].active /\ sess[i].sid \in Sids
      /\ (seq > sess[i].last \/ sess[i].last = 0)
  BY <1>1, ReceivedIs, SMTT(30)
<1>3. <<sess[i].sid, seq>> \notin AcceptedIds
  BY <1>1, FreshIsNew
<1>4. accepted \in Seq(Taken) /\ len \in Nat /\ DOMAIN accepted = 1 .. len
  BY DEF TypeInv
<1>5. /\ DOMAIN accepted' = 1 .. len + 1 /\ accepted'[len + 1] = new
      /\ \A n \in 1 .. len : accepted'[n] = accepted[n]
  BY <1>1, <1>4
<1>6. Id(new) = <<sess[i].sid, seq>> /\ new.sid = sess[i].sid /\ new.seq = seq
  BY DEF Id
<1> HIDE DEF new, len
<1>7. \A n \in 1 .. len : Id(accepted[n]) # Id(new)
  BY <1>3, <1>4, <1>6 DEF AcceptedIds
<1>8. AcceptedOnce'
  <2> SUFFICES ASSUME NEW m \in 1 .. len + 1, NEW n \in 1 .. len + 1,
                      Id(accepted'[m]) = Id(accepted'[n])
               PROVE  m = n
    BY <1>5 DEF AcceptedOnce, Id
  <2>1. CASE m \in 1 .. len /\ n \in 1 .. len
    BY <2>1, <1>4, <1>5 DEF NumbersNoted, AcceptedOnce
  <2>2. CASE m = len + 1 /\ n \in 1 .. len
    BY <2>2, <1>5, <1>7
  <2>3. CASE n = len + 1 /\ m \in 1 .. len
    BY <2>3, <1>5, <1>7
  <2> QED BY <2>1, <2>2, <2>3, <1>4
<1>9. \A j \in Slots : sess'[j].active /\ sess'[j].sid = new.sid => j = i
  BY <1>2, <1>6 DEF NumbersNoted, SidsApart, Sids
<1>10. AcceptedNoted'
  <2> SUFFICES ASSUME NEW n \in 1 .. len + 1
               PROVE  /\ accepted'[n].sid <= issued'
                      /\ \A j \in Slots : sess'[j].active /\ sess'[j].sid = accepted'[n].sid =>
                            accepted'[n].seq <= sess'[j].last
    BY <1>5 DEF AcceptedNoted
  <2>1. CASE n = len + 1
    <3>1. new.sid <= issued'
      BY <1>1, <1>6 DEF NumbersNoted, SidsApart
    <3>2. \A j \in Slots : sess'[j].active /\ sess'[j].sid = new.sid => new.seq <= sess'[j].last
      BY <1>2, <1>6, <1>9
    <3> QED BY <1>5, <2>1, <3>1, <3>2
  <2>2. CASE n \in 1 .. len
    <3>1. accepted'[n] = accepted[n] /\ n \in DOMAIN accepted
      BY <1>4, <1>5, <2>2
    <3>2. accepted[n].seq \in Nat /\ sess[i].last \in Nat
      BY <3>1, NumbersAre
    <3>3. accepted[n].sid <= issued
          /\ \A j \in Slots : sess[j].active /\ sess[j].sid = accepted[n].sid =>
                accepted[n].seq <= sess[j].last
      BY <3>1 DEF NumbersNoted, AcceptedNoted
    <3>4. \A j \in Slots : sess'[j].active /\ sess'[j].sid = accepted[n].sid =>
                accepted[n].seq <= sess'[j].last
      <4> TAKE j \in Slots
      <4>1. CASE j = i
        <5>1. sess'[i].last = seq /\ sess'[i].sid = sess[i].sid
          BY <1>2
        <5>2. sess[i].sid = accepted[n].sid => accepted[n].seq <= sess[i].last
          BY <1>2, <3>3
        <5>3. seq >= sess[i].last
          BY <1>2, <3>2
        <5> QED BY <4>1, <3>2, <5>1, <5>2, <5>3, SMTT(30)
      <4>2. CASE j # i
        BY <4>2, <1>2, <3>3
      <4> QED BY <4>1, <4>2
    <3> QED BY <1>1, <3>1, <3>3, <3>4
  <2> QED BY <2>1, <2>2, <1>4
<1>11. SidsApart'
  BY <1>1, <1>2 DEF NumbersNoted, SidsApart
<1> QED BY <1>8, <1>10, <1>11 DEF NumbersNoted

LEMMA NumbersStep ==
    UdpAssumption /\ TypeInv /\ TypeInv' /\ NumbersNoted /\ [Next]_vars => NumbersNoted'
<1> SUFFICES ASSUME UdpAssumption, TypeInv, TypeInv', NumbersNoted, [Next]_vars
             PROVE  NumbersNoted'
  OBVIOUS
<1>1. CASE UNCHANGED <<sess, accepted, issued>>
  BY <1>1 DEF NumbersNoted, AcceptedOnce, AcceptedNoted, SidsApart, Id
<1>2. ASSUME NEW i \in Slots, NEW seq \in 1 .. MaxSeq, NEW r \in Requests,
             BadBatch(i, seq, r) \/ Read(i, seq, r)
      PROVE  NumbersNoted'
  <2>1. Received(i, seq, r) /\ UNCHANGED <<accepted, issued>>
    BY <1>2 DEF BadBatch, Read, ghosts
  <2>2. \A j \in Slots : /\ sess'[j].active = sess[j].active
                         /\ sess'[j].sid \in {sess[j].sid, 0}
                         /\ sess'[j].last = IF j = i THEN seq ELSE sess[j].last
    <3>1. CASE BadBatch(i, seq, r)
      BY <2>1, <3>1, ReceivedIs DEF BadBatch
    <3>2. CASE Read(i, seq, r)
      <4>1. /\ Noted(i, seq) \in [Slots -> Session]
            /\ \A j \in Slots : /\ Noted(i, seq)[j].active = sess[j].active
                                /\ Noted(i, seq)[j].sid = sess[j].sid
                                /\ Noted(i, seq)[j].nonce = sess[j].nonce
                                /\ Noted(i, seq)[j].last = IF j = i THEN seq ELSE sess[j].last
        BY <2>1, ReceivedIs
      <4>2. \A j \in Slots : /\ sess'[j].active = Noted(i, seq)[j].active
                             /\ sess'[j].last = Noted(i, seq)[j].last
                             /\ sess'[j].sid \in {Noted(i, seq)[j].sid, 0}
        BY <3>2, <4>1, SendKeeps DEF Read
      <4> QED BY <4>1, <4>2
    <3> QED BY <1>2, <3>1, <3>2
  <2>3. \A j \in Slots : sess[j].last \in Nat
    BY NumbersAre
  <2>4. seq > sess[i].last \/ sess[i].last = 0
    BY <2>1, ReceivedIs
  <2>5. \A j \in Slots : sess'[j].last >= sess[j].last
    BY <2>2, <2>3, <2>4
  <2> QED BY <2>1, <2>2, <2>5, SessionsAhead
<1>3. CASE Receive
  BY <1>2, <1>3, NumbersBatchWrite DEF Receive
<1>4. CASE FinishBatch
  <2>1. \A i \in Slots : sess'[i].last = sess[i].last /\ sess[i].last \in Nat
    BY <1>4, ReplyIs, NumbersAre
  <2>2. \A i \in Slots : sess'[i].last >= sess[i].last
    BY <2>1
  <2> QED BY <1>4, <2>2, ReplyIs, SessionsAhead DEF FinishBatch
<1>5. CASE Restart
  <2>1. \A i \in Slots : ~sess'[i].active /\ sess'[i].sid = 0
    BY <1>5 DEF Restart, NoSession
  <2>2. issued \in Nat
    BY NumbersAre
  <2>3. AcceptedOnce' /\ AcceptedNoted' /\ SidsApart'
    BY <1>5, <2>1, <2>2 DEF Restart, NumbersNoted, AcceptedOnce, AcceptedNoted, SidsApart, Id
  <2> QED BY <2>3 DEF NumbersNoted
<1>6. CASE PollBegin \/ PutCard \/ UNCHANGED vars
  BY <1>1, <1>6 DEF PollBegin, PutCard, vars, ghosts
<1> QED BY <1>3, <1>4, <1>5, <1>6, NumbersHello DEF Next, PollStep

-----------------------------------------------------------------------------
(* What is written was accepted, once, and as the bitmaps say.             *)

LEMMA HistIs ==
    ASSUME TypeInv, NEW k \in Keys
    PROVE  /\ hist[k] \in Seq(Entries) /\ DOMAIN hist[k] = 1 .. Len(hist[k])
           /\ Len(hist[k]) \in Nat
           /\ \A m \in DOMAIN hist[k] : hist[k][m] \in Entries
BY DEF TypeInv

LEMMA LogIs ==
    ASSUME TypeInv
    PROVE  /\ Log \subseteq Keys \X Entries
           /\ \A p \in Log : p[2][3] \in Nat
           /\ \A k \in Keys : \A m \in DOMAIN hist[k] : <<k, hist[k][m]>> \in Log
<1>1. \A k \in Keys : \A m \in DOMAIN hist[k] : hist[k][m] \in Entries
  BY HistIs
<1>2. Log \subseteq Keys \X Entries
  BY <1>1 DEF Log
<1>3. \A p \in Log : p[2][3] \in Nat
  BY <1>2 DEF Entries
<1> QED BY <1>2, <1>3 DEF Log

LEMMA SameStore ==
    ASSUME StoreInv, UNCHANGED <<queue, hist, answers, accepted, raced>>
    PROVE  StoreInv'
<1>1. Active' = Active /\ Log' = Log /\ AcceptedIds' = AcceptedIds
  BY DEF Active, Log, AcceptedIds, Id
<1>2. FromAccepted' /\ CardsAccepted'
  BY <1>1 DEF StoreInv, FromAccepted, CardsAccepted, Id
<1>3. QueueTrue' /\ AnswersTrue'
  BY <1>1 DEF StoreInv, QueueTrue, AnswersTrue, Id
<1>4. AppliedOnce'
  BY DEF StoreInv, AppliedOnce
<1>5. NextInOrder' /\ WrittenInOrder'
  BY <1>1 DEF StoreInv, NextInOrder, WrittenInOrder
<1> QED BY <1>2, <1>3, <1>4, <1>5 DEF StoreInv

\* Card n of the batch in the poll's slot goes into the store under key k, or is refused.
Puts(taken, n, k) ==
    LET e == <<queue[slot].sid, queue[slot].seq, n>> IN
    /\ slot \in Active /\ slot \in Queue /\ n = queue[slot].next + 1
    /\ n <= Len(queue[slot].cards) /\ k = queue[slot].cards[n]
    /\ queue[slot].next \in Nat /\ queue[slot].cards \in Seq(Keys)
    /\ Active' = Active
    /\ queue'[slot].next = n /\ queue'[slot].cards = queue[slot].cards
    /\ queue'[slot].bits = IF taken THEN queue[slot].bits \cup {n} ELSE queue[slot].bits
    /\ \A j \in Queue : Id(queue'[j]) = Id(queue[j])
    /\ \A j \in Queue \ {slot} : queue'[j] = queue[j]
    /\ \A q \in Keys : \A m \in DOMAIN hist[q] :
          m \in DOMAIN hist'[q] /\ hist'[q][m] = hist[q][m] /\ m < Len(hist[q]) + 1
    /\ \A q \in Keys : \A m \in DOMAIN hist'[q] :
          \/ m \in DOMAIN hist[q]
          \/ taken /\ q = k /\ m = Len(hist[k]) + 1 /\ hist'[q][m] = e
    /\ taken => \E m \in DOMAIN hist'[k] : hist'[k][m] = e

LEMMA StoreGrows ==
    ASSUME UdpAssumption, TypeInv, PutCard
    PROVE  \E taken \in BOOLEAN, n \in 1 .. MaxBatch, k \in Keys : Puts(taken, n, k)
<1>1. PICK taken \in BOOLEAN, n \in 1 .. MaxBatch, k \in Keys :
              /\ slot \in Active /\ n = queue[slot].next + 1 /\ n <= Len(queue[slot].cards)
              /\ k = queue[slot].cards[n]
              /\ Active' = Active
              /\ queue'[slot].next = n /\ queue'[slot].cards = queue[slot].cards
              /\ queue'[slot].bits = IF taken THEN queue[slot].bits \cup {n} ELSE queue[slot].bits
              /\ \A j \in Queue : Id(queue'[j]) = Id(queue[j])
              /\ \A j \in Queue \ {slot} : queue'[j] = queue[j]
              /\ \A q \in Keys \ {k} : hist'[q] = hist[q]
              /\ hist'[k] = IF taken THEN Append(hist[k], <<queue[slot].sid, queue[slot].seq, n>>)
                            ELSE hist[k]
  BY PutCardIs
<1> DEFINE e == <<queue[slot].sid, queue[slot].seq, n>>
<1>2. slot \in Queue /\ queue[slot] \in Batch
  BY <1>1 DEF TypeInv, TypeOK, Active
<1>3. queue[slot].next \in Nat /\ queue[slot].cards \in Seq(Keys)
  BY <1>2, SMTT(30) DEF Batch
<1>4. hist[k] \in Seq(Entries) /\ DOMAIN hist[k] = 1 .. Len(hist[k]) /\ Len(hist[k]) \in Nat
  BY HistIs
<1>5. hist'[k] = IF taken THEN Append(hist[k], e) ELSE hist[k]
  BY <1>1
<1> HIDE DEF e
<1>6. taken => /\ DOMAIN hist'[k] = 1 .. Len(hist[k]) + 1 /\ hist'[k][Len(hist[k]) + 1] = e
               /\ \A m \in DOMAIN hist[k] : hist'[k][m] = hist[k][m]
  BY <1>4, <1>5
<1>7. \A q \in Keys : \A m \in DOMAIN hist[q] :
         m \in DOMAIN hist'[q] /\ hist'[q][m] = hist[q][m] /\ m < Len(hist[q]) + 1
  <2> TAKE q \in Keys
  <2> TAKE m \in DOMAIN hist[q]
  <2>1. CASE q # k
    <3>1. hist'[q] = hist[q]
      BY <2>1, <1>1
    <3>2. m \in 1 .. Len(hist[q]) /\ Len(hist[q]) \in Nat
      BY HistIs
    <3> QED BY <3>1, <3>2
  <2>2. CASE q = k
    BY <2>2, <1>4, <1>5, <1>6
  <2> QED BY <2>1, <2>2
<1>8. \A q \in Keys : \A m \in DOMAIN hist'[q] :
         \/ m \in DOMAIN hist[q]
         \/ taken /\ q = k /\ m = Len(hist[k]) + 1 /\ hist'[q][m] = e
  <2> TAKE q \in Keys
  <2> TAKE m \in DOMAIN hist'[q]
  <2>1. CASE q # k
    BY <2>1, <1>1
  <2>2. CASE q = k
    <3>1. ~taken => hist'[k] = hist[k]
      BY <1>5
    <3>2. taken => m \in 1 .. Len(hist[k]) + 1
      BY <2>2, <1>6
    <3>3. m \in 1 .. Len(hist[k]) + 1 => m \in DOMAIN hist[k] \/ m = Len(hist[k]) + 1
      BY <1>4
    <3> QED BY <2>2, <1>6, <3>1, <3>2, <3>3
  <2> QED BY <2>1, <2>2
<1>9. taken => \E m \in DOMAIN hist'[k] : hist'[k][m] = e
  BY <1>4, <1>6
<1>10. Puts(taken, n, k)
  BY <1>1, <1>2, <1>3, <1>7, <1>8, <1>9 DEF Puts, e
<1> QED BY <1>10

LEMMA LogGrows ==
    ASSUME UdpAssumption, TypeInv, NEW taken \in BOOLEAN, NEW n \in 1 .. MaxBatch, NEW k \in Keys,
           Puts(taken, n, k)
    PROVE  Log' = IF taken THEN Log \cup {<<k, Card(Id(queue[slot]), n)>>} ELSE Log
<1> DEFINE e == <<queue[slot].sid, queue[slot].seq, n>>
<1>1. e = Card(Id(queue[slot]), n)
  BY DEF Card, Id
<1>2. /\ \A q \in Keys : \A m \in DOMAIN hist[q] :
            m \in DOMAIN hist'[q] /\ hist'[q][m] = hist[q][m]
      /\ \A q \in Keys : \A m \in DOMAIN hist'[q] :
            \/ m \in DOMAIN hist[q]
            \/ taken /\ q = k /\ hist'[q][m] = e
      /\ taken => \E m \in DOMAIN hist'[k] : hist'[k][m] = e
  BY DEF Puts
<1> HIDE DEF e
<1>3. Log' \subseteq IF taken THEN Log \cup {<<k, e>>} ELSE Log
  BY <1>2 DEF Log
<1>4. Log \subseteq Log'
  BY <1>2 DEF Log
<1>5. taken => <<k, e>> \in Log'
  BY <1>2 DEF Log
<1> QED BY <1>1, <1>3, <1>4, <1>5

\* A waiting batch is true of the log, and stays so when a card of another one is written.
LEMMA OtherBatch ==
    ASSUME NEW b, NEW log, NEW k, NEW id, NEW n, BatchTrue(b, log), id # Id(b),
           id = <<id[1], id[2]>>
    PROVE  BatchTrue(b, log \cup {<<k, Card(id, n)>>})
<1>1. BatchOf(Card(id, n)) = id
  BY DEF BatchOf, Card
<1>2. \A c : Card(Id(b), c) # Card(id, n)
  BY DEF Card, Id
<1> QED BY <1>1, <1>2 DEF BatchTrue

\* The batch being written stays true when its next card is written or refused.
LEMMA ThisBatch ==
    ASSUME NEW b \in Batch, NEW d \in Batch, NEW log, NEW taken \in BOOLEAN,
           BatchTrue(b, log), \A p \in log : p[2][3] \in Nat,
           Id(d) = Id(b), d.cards = b.cards, d.next = b.next + 1,
           d.bits = IF taken THEN b.bits \cup {d.next} ELSE b.bits
    PROVE  BatchTrue(d, IF taken THEN log \cup {<<d.cards[d.next], Card(Id(d), d.next)>>} ELSE log)
<1> DEFINE x   == <<d.cards[d.next], Card(Id(d), d.next)>>
           new == IF taken THEN log \cup {x} ELSE log
<1>1. b.next \in Nat /\ b.bits \subseteq 1 .. b.next
  BY DEF Batch, BatchTrue
<1>2. BatchOf(x[2]) = Id(d) /\ x[2][3] = d.next
  BY DEF BatchOf, Card, Id
<1>3. x \notin log
  <2>1. ~(d.next <= b.next)
    BY <1>1
  <2> QED BY <1>2, <2>1 DEF BatchTrue
<1>4. d.bits \subseteq 1 .. d.next
  BY <1>1
<1>5. \A c \in 1 .. b.next : <<d.cards[c], Card(Id(d), c)>> # x
  BY <1>1 DEF Card
<1> HIDE DEF x
<1>6. \A p \in new : BatchOf(p[2]) = Id(d) => p[2][3] <= d.next
  <2>1. \A p \in log : BatchOf(p[2]) = Id(d) => p[2][3] <= b.next /\ p[2][3] \in Nat
    BY DEF BatchTrue
  <2> QED BY <1>1, <1>2, <2>1
<1>7. \A c \in 1 .. d.next : c \in d.bits <=> <<d.cards[c], Card(Id(d), c)>> \in new
  <2> TAKE c \in 1 .. d.next
  <2>1. CASE c = d.next
    <3>1. d.next \notin b.bits
      BY <1>1
    <3> QED BY <1>3, <2>1, <3>1 DEF x
  <2>2. CASE c \in 1 .. b.next
    <3>1. c \in d.bits <=> c \in b.bits
      BY <1>1, <2>2
    <3>2. c \in b.bits <=> <<d.cards[c], Card(Id(d), c)>> \in log
      BY <2>2 DEF BatchTrue
    <3> QED BY <1>5, <2>2, <3>1, <3>2
  <2> QED BY <1>1, <2>1, <2>2
<1> QED BY <1>4, <1>6, <1>7 DEF BatchTrue, x

\* An answer stays true when a card of another batch is written.
LEMMA OtherAnswer ==
    ASSUME NEW a, NEW r, NEW log, NEW k, NEW id, NEW n, AnswerTrue(a, r, log), id # a.id,
           id = <<id[1], id[2]>>, a.id = <<a.id[1], a.id[2]>>
    PROVE  AnswerTrue(a, r, log \cup {<<k, Card(id, n)>>})
<1>1. \A c : Card(a.id, c) # Card(id, n)
  BY DEF Card
<1> QED BY <1>1 DEF AnswerTrue

LEMMA PutCardKeeps ==
    ASSUME UdpAssumption, TypeInv, TypeInv', StoreInv, PutCard
    PROVE  FromAccepted' /\ CardsAccepted' /\ QueueTrue' /\ AnswersTrue' /\ AppliedOnce'
<1>0. PICK taken \in BOOLEAN, n \in 1 .. MaxBatch, k \in Keys : Puts(taken, n, k)
  BY StoreGrows
<1> DEFINE id == Id(queue[slot])
           x  == <<k, Card(id, n)>>
<1>1. /\ slot \in Active /\ slot \in Queue /\ n = queue[slot].next + 1
      /\ Active' = Active /\ queue'[slot].next = n /\ queue[slot].next \in Nat
      /\ \A j \in Queue : Id(queue'[j]) = Id(queue[j])
      /\ \A j \in Queue \ {slot} : queue'[j] = queue[j]
      /\ queue'[slot].cards = queue[slot].cards /\ k = queue[slot].cards[n]
      /\ queue'[slot].bits = IF taken THEN queue[slot].bits \cup {n} ELSE queue[slot].bits
  BY <1>0 DEF Puts
<1>2. /\ accepted' = accepted /\ answers' = answers /\ AcceptedIds' = AcceptedIds
      /\ id \in Ids /\ Active \subseteq Queue /\ id = <<id[1], id[2]>>
  <2>1. accepted' = accepted /\ answers' = answers
    BY DEF PutCard, ghosts
  <2>2. AcceptedIds' = AcceptedIds
    BY <2>1 DEF AcceptedIds, Id
  <2>3. id \in Ids
    BY <1>1 DEF TypeInv
  <2>4. id = <<id[1], id[2]>>
    BY DEF Id
  <2>5. Active \subseteq Queue
    BY DEF Active
  <2> QED BY <2>1, <2>2, <2>3, <2>4, <2>5
<1>3. Log' = IF taken THEN Log \cup {x} ELSE Log
  BY <1>0, LogGrows
<1>4. \A j \in Active \ {slot} : Id(queue[j]) # id
  BY <1>1 DEF StoreInv, FromAccepted
<1>5. BatchOf(x[2]) = id /\ x[2][3] = n /\ id \in AcceptedIds
  BY <1>1, <1>2 DEF BatchOf, Card, StoreInv, FromAccepted
<1> HIDE DEF id, x
<1>6. FromAccepted'
  BY <1>1, <1>2, <1>3, <1>5 DEF StoreInv, FromAccepted
<1>7. CardsAccepted'
  <2>1. \A j \in Active : queue'[j].cards = queue[j].cards
    BY <1>1, <1>2
  <2> QED BY <1>1, <1>2, <2>1 DEF StoreInv, CardsAccepted
<1>8. QueueTrue'
  <2> SUFFICES ASSUME NEW j \in Active PROVE BatchTrue(queue'[j], Log')
    BY <1>1 DEF QueueTrue
  <2>1. BatchTrue(queue[j], Log)
    BY DEF StoreInv, QueueTrue
  <2>2. CASE j # slot
    <3>1. queue'[j] = queue[j] /\ Id(queue[j]) # id
      BY <1>1, <1>2, <1>4, <2>2
    <3>2. BatchTrue(queue[j], Log \cup {x})
      BY <1>2, <2>1, <3>1, OtherBatch DEF x
    <3> QED BY <1>3, <2>1, <3>1, <3>2
  <2>3. CASE j = slot
    <3>1. queue[slot] \in Batch /\ queue'[slot] \in Batch
      BY <1>1 DEF TypeInv, TypeOK
    <3>2. Id(queue'[slot]) = id /\ x = <<queue'[slot].cards[n], Card(id, n)>>
      BY <1>1 DEF x, id
    <3>3. \A p \in Log : p[2][3] \in Nat
      BY LogIs
    <3>4. BatchTrue(queue'[slot], IF taken THEN Log \cup {x} ELSE Log)
      BY <1>1, <2>1, <2>3, <3>1, <3>2, <3>3, ThisBatch DEF id
    <3> QED BY <1>3, <2>3, <3>4
  <2> QED BY <2>2, <2>3
<1>9. AnswersTrue'
  <2> SUFFICES ASSUME NEW a \in answers, NEW i \in DOMAIN accepted, Id(accepted[i]) = a.id
               PROVE  AnswerTrue(a, accepted[i], Log')
    BY <1>2 DEF AnswersTrue
  <2>1. AnswerTrue(a, accepted[i], Log)
    BY DEF StoreInv, AnswersTrue
  <2>2. a.id # id /\ a.id = <<a.id[1], a.id[2]>>
    BY <1>1 DEF StoreInv, FromAccepted, Id, id
  <2>3. AnswerTrue(a, accepted[i], Log \cup {x})
    BY <1>2, <2>1, <2>2, OtherAnswer DEF x
  <2> QED BY <1>3, <2>1, <2>3
<1>10. \A q \in Keys : \A m \in DOMAIN hist[q] : hist[q][m] # x[2]
  <2>1. \A p \in Log : BatchOf(p[2]) = id => p[2][3] <= queue[slot].next
    BY <1>1 DEF StoreInv, QueueTrue, BatchTrue, id
  <2>2. ~(n <= queue[slot].next)
    BY <1>1, SMTT(30)
  <2>3. \A p \in Log : p[2] # x[2]
    BY <1>5, <2>1, <2>2
  <2> QED BY <2>3, LogIs
<1>11. AppliedOnce'
  <2>1. \A q \in Keys : \A m \in DOMAIN hist'[q] :
           \/ m \in DOMAIN hist[q] /\ hist'[q][m] = hist[q][m]
           \/ m = Len(hist[k]) + 1 /\ hist'[q][m] = x[2]
    <3>1. x[2] = <<queue[slot].sid, queue[slot].seq, n>>
      BY DEF x, Card, Id, id
    <3>2. \A q \in Keys : \A m \in DOMAIN hist'[q] :
             \/ m \in DOMAIN hist[q] /\ hist'[q][m] = hist[q][m]
             \/ /\ q = k /\ m = Len(hist[k]) + 1
                /\ hist'[q][m] = <<queue[slot].sid, queue[slot].seq, n>>
      BY <1>0, ZenonT(30) DEF Puts
    <3> QED BY <3>1, <3>2
  <2> QED BY <1>10, <2>1 DEF StoreInv, AppliedOnce
<1> QED BY <1>6, <1>7, <1>8, <1>9, <1>11

LEMMA BatchWriteKeeps ==
    ASSUME UdpAssumption, TypeInv, NumbersNoted, StoreInv,
           NEW i \in Slots, NEW seq \in 1 .. MaxSeq, NEW r \in Requests, BatchWrite(i, seq, r)
    PROVE  FromAccepted' /\ CardsAccepted' /\ QueueTrue' /\ AnswersTrue' /\ AppliedOnce'
<1>0. PICK j \in Queue \ Active : Enters(j, i, seq, r)
  BY EntryIs
<1> DEFINE id  == <<sess[i].sid, seq>>
           new == [sid |-> sess[i].sid, seq |-> seq, cards |-> r.cards, dur |-> r.dur]
           len == Len(accepted)
<1>1. /\ Active' = Active \cup {j} /\ Id(queue'[j]) = id
      /\ queue'[j].next = 0 /\ queue'[j].bits = {} /\ queue'[j].cards = Parsed(r.cards)
      /\ \A n \in Queue \ {j} : queue'[n] = queue[n]
  BY <1>0 DEF Enters

<1>2. \A n \in Active : n \in Queue \ {j}
  BY DEF Active
<1>3. hist' = hist /\ answers' = answers /\ accepted' = Append(accepted, new)
  BY DEF BatchWrite
<1>4. accepted \in Seq(Taken) /\ len \in Nat /\ DOMAIN accepted = 1 .. len
  BY NumbersAre
<1>5. Id(new) = id /\ new.cards = r.cards
  BY DEF Id
<1>6. id \notin AcceptedIds
  BY FreshIsNew DEF BatchWrite
<1> HIDE DEF id, new, len
<1>7. /\ DOMAIN accepted' = 1 .. len + 1 /\ accepted'[len + 1] = new
      /\ \A n \in 1 .. len : accepted'[n] = accepted[n]
  BY <1>3, <1>4 DEF len
<1>8. \A n \in 1 .. len : Id(accepted[n]) \in AcceptedIds /\ Id(accepted[n]) # id
  BY <1>4, <1>6 DEF AcceptedIds
<1>9. AcceptedIds \subseteq AcceptedIds' /\ id \in AcceptedIds'
  <2>1. \A n \in 1 .. len : Id(accepted[n]) \in AcceptedIds'
    BY <1>4, <1>7 DEF AcceptedIds
  <2>2. id \in AcceptedIds'
    BY <1>4, <1>5, <1>7 DEF AcceptedIds
  <2> QED BY <1>4, <2>1, <2>2 DEF AcceptedIds
<1>10. Log' = Log
  BY <1>3 DEF Log
<1>11. FromAccepted'
  BY <1>1, <1>2, <1>3, <1>6, <1>9, <1>10 DEF StoreInv, FromAccepted
<1>12. CardsAccepted'
  <2> SUFFICES ASSUME NEW q \in Active', NEW n \in 1 .. len + 1, Id(accepted'[n]) = Id(queue'[q])
               PROVE  queue'[q].cards = Parsed(accepted'[n].cards)
    BY <1>7 DEF CardsAccepted
  <2>1. CASE q = j
    <3>1. n = len + 1
      BY <1>1, <1>4, <1>7, <1>8, <2>1
    <3> QED BY <1>1, <1>5, <1>7, <2>1, <3>1
  <2>2. CASE q \in Active
    <3>1. queue'[q] = queue[q] /\ Id(queue[q]) # id
      BY <1>1, <1>2, <1>6, <2>2 DEF StoreInv, FromAccepted
    <3>2. n \in 1 .. len
      BY <1>4, <1>5, <1>7, <3>1
    <3> QED BY <1>4, <1>7, <2>2, <3>1, <3>2, SMTT(30) DEF StoreInv, CardsAccepted
  <2> QED BY <1>1, <2>1, <2>2
<1>13. QueueTrue'
  <2> SUFFICES ASSUME NEW q \in Active' PROVE BatchTrue(queue'[q], Log)
    BY <1>10 DEF QueueTrue
  <2>1. CASE q = j
    <3>1. \A p \in Log : BatchOf(p[2]) # id
      BY <1>6 DEF StoreInv, FromAccepted
    <3> QED BY <1>1, <2>1, <3>1 DEF BatchTrue
  <2>2. CASE q \in Active
    BY <1>1, <1>2, <2>2 DEF StoreInv, QueueTrue
  <2> QED BY <1>1, <2>1, <2>2
<1>14. AnswersTrue'
  <2> SUFFICES ASSUME NEW a \in answers, NEW n \in 1 .. len + 1, Id(accepted'[n]) = a.id
               PROVE  AnswerTrue(a, accepted'[n], Log)
    BY <1>3, <1>7, <1>10 DEF AnswersTrue
  <2>1. a.id # id
    BY <1>6 DEF StoreInv, FromAccepted
  <2>2. n \in 1 .. len
    BY <1>4, <1>5, <1>7, <2>1
  <2> QED BY <1>4, <1>7, <2>2 DEF StoreInv, AnswersTrue
<1>15. AppliedOnce'
  BY <1>3 DEF StoreInv, AppliedOnce
<1> QED BY <1>11, <1>12, <1>13, <1>14, <1>15

\* The answer to a batch whose last card is behind it says what the log says.
LEMMA AnswerIsTrue ==
    ASSUME UdpAssumption, NEW b \in Batch, NEW r \in Taken, NEW log, BatchTrue(b, log),
           b.cards = Parsed(r.cards), b.next = Len(b.cards)
    PROVE  AnswerTrue(Answer(b), r, log)
<1>1. Answer(b).id = Id(b) /\ Answer(b).count = Len(b.cards) /\ Answer(b).bits = b.bits
  BY DEF Answer
<1>2. r.cards \in Seq(Keys \cup {TooLong}) /\ b.cards \in Seq(Keys)
  BY DEF Taken, Batch
<1>3. \A c \in 1 .. Len(b.cards) : b.cards[c] = r.cards[c]
  BY <1>2, ParsedIs, SMTT(30)
<1> HIDE DEF Answer
<1> QED BY <1>1, <1>3 DEF BatchTrue, AnswerTrue

LEMMA FinishBatchKeeps ==
    ASSUME UdpAssumption, TypeInv, StoreInv, FinishBatch
    PROVE  FromAccepted' /\ CardsAccepted' /\ QueueTrue' /\ AnswersTrue' /\ AppliedOnce'
<1> DEFINE b == queue[slot]
<1>1. /\ slot \in Active /\ slot \in Queue /\ b.next = Len(b.cards) /\ Active' = Active \ {slot}
      /\ \A j \in Queue \ {slot} : queue'[j] = queue[j]
  BY FinishBatchIs
<1>2. hist' = hist /\ accepted' = accepted /\ Log' = Log /\ AcceptedIds' = AcceptedIds
  BY DEF FinishBatch, Log, AcceptedIds, Id
<1>3. \A j \in Active' : j \in Active /\ j # slot /\ queue'[j] = queue[j]
  BY <1>1 DEF Active
<1>4. answers' \subseteq answers \cup {Answer(b)}
  BY ReplyIs
<1>5. Answer(b).id = Id(b) /\ Id(b) \in AcceptedIds /\ \A j \in Active' : Id(queue[j]) # Id(b)
  BY <1>1, <1>3 DEF Answer, StoreInv, FromAccepted
<1>6. ASSUME NEW n \in DOMAIN accepted, Id(accepted[n]) = Id(b)
      PROVE  AnswerTrue(Answer(b), accepted[n], Log)
  <2>1. accepted[n] \in Taken /\ b \in Batch
    BY <1>1 DEF TypeInv, TypeOK
  <2>2. BatchTrue(b, Log) /\ b.cards = Parsed(accepted[n].cards)
    BY <1>1, <1>6 DEF StoreInv, QueueTrue, CardsAccepted
  <2> HIDE DEF b
  <2> QED BY <1>1, <2>1, <2>2, AnswerIsTrue
<1> HIDE DEF b
<1>7. FromAccepted'
  BY <1>2, <1>3, <1>4, <1>5 DEF StoreInv, FromAccepted
<1>8. CardsAccepted' /\ QueueTrue'
  BY <1>2, <1>3 DEF StoreInv, CardsAccepted, QueueTrue
<1>9. AnswersTrue'
  BY <1>2, <1>4, <1>5, <1>6 DEF StoreInv, AnswersTrue
<1>10. AppliedOnce'
  BY <1>2 DEF StoreInv, AppliedOnce
<1> QED BY <1>7, <1>8, <1>9, <1>10

LEMMA RestartKeeps == ASSUME StoreInv, Restart PROVE StoreInv'
<1>1. Active' = {}
  BY DEF Restart, NoBatch, Active
<1>2. UNCHANGED <<hist, answers, accepted, raced>> /\ Log' = Log /\ AcceptedIds' = AcceptedIds
  BY DEF Restart, Log, AcceptedIds, Id
<1>3. FromAccepted' /\ CardsAccepted' /\ QueueTrue'
  BY <1>1, <1>2 DEF StoreInv, FromAccepted, CardsAccepted, QueueTrue
<1>4. AnswersTrue' /\ AppliedOnce'
  BY <1>2 DEF StoreInv, AnswersTrue, AppliedOnce, Id
<1>5. NextInOrder' /\ WrittenInOrder'
  BY <1>1, <1>2 DEF StoreInv, NextInOrder, WrittenInOrder
<1> QED BY <1>3, <1>4, <1>5 DEF StoreInv

-----------------------------------------------------------------------------
(* The order of the writes of a key.                                       *)

LEMMA AtIs ==
    ASSUME TypeInv, AcceptedOnce, NEW id \in AcceptedIds
    PROVE  At(id, accepted) \in 1 .. Len(accepted) /\ Id(accepted[At(id, accepted)]) = id
<1>1. \E n \in DOMAIN accepted : Id(accepted[n]) = id
  BY DEF AcceptedIds
<1>2. DOMAIN accepted = 1 .. Len(accepted)
  BY DEF TypeInv
<1> QED BY <1>1, <1>2 DEF At

LEMMA PutCardOrder ==
    ASSUME UdpAssumption, TypeInv, NumbersNoted, StoreInv, PutCard
    PROVE  NextInOrder' /\ WrittenInOrder'
<1>0. PICK taken \in BOOLEAN, n \in 1 .. MaxBatch, k \in Keys : Puts(taken, n, k)
  BY StoreGrows
<1> DEFINE id == Id(queue[slot])
           x  == <<k, Card(id, n)>>
<1>1. /\ slot \in Active /\ slot \in Queue /\ n = queue[slot].next + 1
      /\ Active' = Active /\ queue'[slot].next = n /\ queue[slot].next \in Nat
      /\ \A j \in Queue : Id(queue'[j]) = Id(queue[j])
      /\ \A j \in Queue \ {slot} : queue'[j] = queue[j]
      /\ queue'[slot].cards = queue[slot].cards /\ k = queue[slot].cards[n]
      /\ n <= Len(queue[slot].cards) /\ queue[slot].cards \in Seq(Keys)
  BY <1>0 DEF Puts
<1>2. accepted' = accepted /\ raced' = raced /\ Active \subseteq Queue
  BY DEF PutCard, ghosts, Active
<1>3. Log' \subseteq Log \cup {x}
  BY <1>0, LogGrows
<1>4. BatchOf(x[2]) = id /\ x[1] = k /\ id \in AcceptedIds
  BY <1>1 DEF BatchOf, Card, Id, StoreInv, FromAccepted
<1>5. At(id, accepted) \in Nat
  BY <1>4, AtIs DEF NumbersNoted
<1>6. Waits(queue[slot], k)
  <2>1. Len(queue[slot].cards) \in Nat
    BY <1>1
  <2>2. n \in queue[slot].next + 1 .. Len(queue[slot].cards)
    BY <1>1, <2>1
  <2> QED BY <1>1, <2>2 DEF Waits
<1>7. \A j \in Active, q \in Keys : Waits(queue'[j], q) => Waits(queue[j], q)
  <2> TAKE j \in Active, q \in Keys
  <2>1. CASE j # slot
    BY <1>1, <1>2, <2>1
  <2>2. CASE j = slot
    <3>1. Len(queue[slot].cards) \in Nat
      BY <1>1
    <3>2. n + 1 .. Len(queue[slot].cards) \subseteq queue[slot].next + 1 .. Len(queue[slot].cards)
      BY <1>1, <3>1
    <3> QED BY <1>1, <2>2, <3>2 DEF Waits
  <2> QED BY <2>1, <2>2
<1>8. \A q \in Keys : \A m \in DOMAIN hist'[q] :
         \/ m \in DOMAIN hist[q] /\ hist'[q][m] = hist[q][m] /\ m < Len(hist[q]) + 1
         \/ q = k /\ m = Len(hist[k]) + 1 /\ hist'[q][m] = x[2]
  <2>1. x[2] = <<queue[slot].sid, queue[slot].seq, n>>
    BY DEF Card, Id
  <2>2. \A q \in Keys : \A m \in DOMAIN hist'[q] :
           \/ m \in DOMAIN hist[q] /\ hist'[q][m] = hist[q][m] /\ m < Len(hist[q]) + 1
           \/ /\ q = k /\ m = Len(hist[k]) + 1
              /\ hist'[q][m] = <<queue[slot].sid, queue[slot].seq, n>>
    BY <1>0, ZenonT(30) DEF Puts
  <2> HIDE DEF x, id
  <2> QED BY <2>1, <2>2, ZenonT(30)
<1> HIDE DEF id, x
<1>9. NextInOrder'
  <2> SUFFICES ASSUME NEW q \in Keys \ raced
      PROVE /\ \A i, j \in Active : Waits(queue'[i], q) /\ Waits(queue'[j], q) => i = j
            /\ \A p \in Log', j \in Active : p[1] = q /\ Waits(queue'[j], q) =>
                  At(BatchOf(p[2]), accepted) <= At(Id(queue'[j]), accepted)
    BY <1>1, <1>2 DEF NextInOrder
  <2>1. \A i, j \in Active : Waits(queue'[i], q) /\ Waits(queue'[j], q) => i = j
    BY <1>7 DEF StoreInv, NextInOrder
  <2>2. ASSUME NEW p \in Log', NEW j \in Active, p[1] = q, Waits(queue'[j], q)
        PROVE  At(BatchOf(p[2]), accepted) <= At(Id(queue'[j]), accepted)
    <3>1. Waits(queue[j], q) /\ Id(queue'[j]) = Id(queue[j])
      BY <1>1, <1>2, <1>7, <2>2
    <3>2. CASE p \in Log
      BY <2>2, <3>1, <3>2 DEF StoreInv, NextInOrder
    <3>3. CASE p = x
      <4>1. j = slot
        BY <1>1, <1>4, <1>6, <2>2, <3>1, <3>3 DEF StoreInv, NextInOrder
      <4> QED BY <1>4, <1>5, <3>1, <3>3, <4>1 DEF id
    <3> QED BY <1>3, <3>2, <3>3
  <2> QED BY <2>1, <2>2
<1>10. WrittenInOrder'
  <2> SUFFICES ASSUME NEW q \in Keys \ raced, NEW m \in DOMAIN hist'[q], NEW c \in DOMAIN hist'[q],
                      m < c
      PROVE At(BatchOf(hist'[q][m]), accepted) <= At(BatchOf(hist'[q][c]), accepted)
    BY <1>2 DEF WrittenInOrder
  <2>1. CASE c \in DOMAIN hist[q] /\ hist'[q][c] = hist[q][c] /\ c < Len(hist[q]) + 1
    <3>1. Len(hist[q]) \in Nat /\ m \in Int /\ c \in Int
      <4>1. Len(hist[q]) \in Nat /\ DOMAIN hist[q] = 1 .. Len(hist[q])
        BY HistIs
      <4>2. c \in 1 .. Len(hist[q])
        BY <2>1, <4>1
      <4>3. m \in 1 .. Len(hist[q]) \/ (q = k /\ m = Len(hist[k]) + 1)
        BY <1>8, <4>1
      <4> QED BY <4>1, <4>2, <4>3
    <3>2. m \in DOMAIN hist[q] /\ hist'[q][m] = hist[q][m]
      BY <1>8, <2>1, <3>1, SMTT(30)
    <3> QED BY <2>1, <3>2 DEF StoreInv, WrittenInOrder
  <2>2. CASE q = k /\ c = Len(hist[k]) + 1 /\ hist'[q][c] = x[2]
    <3>1. m \in DOMAIN hist[q] /\ hist'[q][m] = hist[q][m]
      <4>1. Len(hist[k]) \in Nat
        BY HistIs
      <4> QED BY <1>8, <2>2, <4>1
    <3>2. <<k, hist[q][m]>> \in Log
      BY <2>2, <3>1, LogIs
    <3>3. At(BatchOf(hist[q][m]), accepted) <= At(id, accepted)
      BY <1>1, <1>6, <2>2, <3>2 DEF StoreInv, NextInOrder, id
    <3> QED BY <1>4, <2>2, <3>1, <3>3
  <2> QED BY <1>8, <2>1, <2>2
<1> QED BY <1>9, <1>10

LEMMA BatchWriteOrder ==
    ASSUME UdpAssumption, TypeInv, TypeInv', NumbersNoted, NumbersNoted', StoreInv,
           NEW i \in Slots, NEW seq \in 1 .. MaxSeq, NEW r \in Requests, BatchWrite(i, seq, r)
    PROVE  NextInOrder' /\ WrittenInOrder'
<1>0. PICK j \in Queue \ Active : Enters(j, i, seq, r)
  BY EntryIs
<1> DEFINE id  == <<sess[i].sid, seq>>
           new == [sid |-> sess[i].sid, seq |-> seq, cards |-> r.cards, dur |-> r.dur]
           len == Len(accepted)
<1>1. /\ Active' = Active \cup {j} /\ Id(queue'[j]) = id
      /\ queue'[j].next = 0 /\ queue'[j].cards = Parsed(r.cards)
      /\ \A n \in Queue \ {j} : queue'[n] = queue[n]
  BY <1>0 DEF Enters
<1>2. \A n \in Active : n \in Queue \ {j} /\ queue'[n] = queue[n]
  BY <1>1 DEF Active
<1>3. /\ hist' = hist /\ accepted' = Append(accepted, new) /\ Log' = Log
      /\ raced' = raced \cup {k \in Waiting : \E n \in DOMAIN Parsed(r.cards) : r.cards[n] = k}
  BY DEF BatchWrite, Log
<1>4. accepted \in Seq(Taken) /\ len \in Nat /\ DOMAIN accepted = 1 .. len
  BY NumbersAre
<1>5. Id(new) = id
  BY DEF Id
<1>6. id \notin AcceptedIds
  BY FreshIsNew DEF BatchWrite
<1> HIDE DEF id, new, len
<1>7. /\ DOMAIN accepted' = 1 .. len + 1 /\ accepted'[len + 1] = new
      /\ \A n \in 1 .. len : accepted'[n] = accepted[n]
  BY <1>3, <1>4 DEF len
\* Every accepted batch keeps its place, and the new one comes behind them all.
<1>8. \A d \in AcceptedIds : At(d, accepted') = At(d, accepted) /\ At(d, accepted) \in 1 .. len
  <2> TAKE d \in AcceptedIds
  <2>1. At(d, accepted) \in 1 .. len /\ Id(accepted[At(d, accepted)]) = d
    BY AtIs DEF NumbersNoted, len
  <2>2. \A m, n \in 1 .. len + 1 : Id(accepted'[m]) = Id(accepted'[n]) => m = n
    BY <1>7 DEF NumbersNoted, AcceptedOnce, Id
  <2>3. At(d, accepted) \in 1 .. len + 1 /\ Id(accepted'[At(d, accepted)]) = d
    BY <1>4, <1>7, <2>1
  <2>4. At(d, accepted') \in 1 .. len + 1 /\ Id(accepted'[At(d, accepted')]) = d
    <3> HIDE DEF At
    <3>1. \E n \in DOMAIN accepted' : Id(accepted'[n]) = d
      BY <1>7, <2>3
    <3> QED BY <1>7, <3>1 DEF At
  <2> QED BY <2>1, <2>2, <2>3, <2>4
<1>9. At(id, accepted') = len + 1
  <2>1. \E n \in DOMAIN accepted' : Id(accepted'[n]) = id
    BY <1>4, <1>5, <1>7
  <2>2. At(id, accepted') \in 1 .. len + 1 /\ Id(accepted'[At(id, accepted')]) = id
    BY <1>7, <2>1 DEF At
  <2>3. \A n \in 1 .. len : Id(accepted'[n]) # id
    BY <1>4, <1>6, <1>7 DEF AcceptedIds
  <2> QED BY <1>4, <2>2, <2>3
<1>10. \A p \in Log : BatchOf(p[2]) \in AcceptedIds
  BY DEF StoreInv, FromAccepted
<1>11. ASSUME NEW k \in Keys \ raced', NEW q \in Active, Waits(queue[q], k)
       PROVE  ~Waits(queue'[j], k)
  <2>1. k \in Waiting
    BY <1>11 DEF Waits, Waiting
  <2>2. ~ \E n \in DOMAIN Parsed(r.cards) : r.cards[n] = k
    BY <1>3, <1>11, <2>1
  <2>3. r.cards \in Seq(Keys \cup {TooLong})
    BY DEF UdpAssumption
  <2>4. /\ Parsed(r.cards) \in Seq(Keys)
        /\ \A n \in DOMAIN Parsed(r.cards) : Parsed(r.cards)[n] = r.cards[n]
    BY <2>3, ParsedIs
  <2>5. DOMAIN Parsed(r.cards) = 1 .. Len(Parsed(r.cards))
    BY <2>4
  <2>6. \A n \in 1 .. Len(Parsed(r.cards)) : Parsed(r.cards)[n] # k
    BY <2>2, <2>4, <2>5
  <2>7. queue'[j].next + 1 = 1
    BY <1>1
  <2> QED BY <1>1, <2>6, <2>7 DEF Waits
<1>12. NextInOrder'
  <2> SUFFICES ASSUME NEW k \in Keys \ raced'
      PROVE /\ \A m, n \in Active' : Waits(queue'[m], k) /\ Waits(queue'[n], k) => m = n
            /\ \A p \in Log, n \in Active' : p[1] = k /\ Waits(queue'[n], k) =>
                  At(BatchOf(p[2]), accepted') <= At(Id(queue'[n]), accepted')
    BY <1>3 DEF NextInOrder
  <2>1. k \in Keys \ raced
    BY <1>3
  <2>2. \A m, n \in Active' : Waits(queue'[m], k) /\ Waits(queue'[n], k) => m = n
    BY <1>1, <1>2, <1>11, <2>1 DEF StoreInv, NextInOrder
  <2>3. ASSUME NEW p \in Log, NEW n \in Active', p[1] = k, Waits(queue'[n], k)
        PROVE  At(BatchOf(p[2]), accepted') <= At(Id(queue'[n]), accepted')
    <3>1. CASE n = j
      BY <1>1, <1>4, <1>8, <1>9, <1>10, <3>1
    <3>2. CASE n \in Active
      <4>1. queue'[n] = queue[n] /\ Id(queue[n]) \in AcceptedIds
        BY <1>2, <3>2 DEF StoreInv, FromAccepted
      <4>2. At(BatchOf(p[2]), accepted) <= At(Id(queue[n]), accepted)
        BY <2>1, <2>3, <3>2, <4>1 DEF StoreInv, NextInOrder
      <4> QED BY <1>8, <1>10, <4>1, <4>2
    <3> QED BY <1>1, <3>1, <3>2
  <2> QED BY <2>2, <2>3
<1>13. WrittenInOrder'
  <2> SUFFICES ASSUME NEW k \in Keys \ raced', NEW m \in DOMAIN hist[k], NEW n \in DOMAIN hist[k],
                      m < n
      PROVE At(BatchOf(hist[k][m]), accepted') <= At(BatchOf(hist[k][n]), accepted')
    BY <1>3 DEF WrittenInOrder
  <2>1. k \in Keys \ raced
    BY <1>3
  <2>2. BatchOf(hist[k][m]) \in AcceptedIds /\ BatchOf(hist[k][n]) \in AcceptedIds
    BY <1>10, LogIs
  <2>3. At(BatchOf(hist[k][m]), accepted) <= At(BatchOf(hist[k][n]), accepted)
    BY <2>1 DEF StoreInv, WrittenInOrder
  <2> QED BY <1>8, <2>2, <2>3
<1> QED BY <1>12, <1>13

LEMMA FinishBatchOrder ==
    ASSUME UdpAssumption, TypeInv, StoreInv, FinishBatch PROVE NextInOrder' /\ WrittenInOrder'
<1>1. \A j \in Active' : j \in Active /\ queue'[j] = queue[j]
  BY FinishBatchIs DEF Active
<1>2. UNCHANGED <<hist, accepted, raced>> /\ Log' = Log
  BY DEF FinishBatch, Log
<1>3. NextInOrder'
  BY <1>1, <1>2 DEF StoreInv, NextInOrder
<1>4. WrittenInOrder'
  BY <1>2 DEF StoreInv, WrittenInOrder
<1> QED BY <1>3, <1>4

-----------------------------------------------------------------------------
(* The theorems.                                                           *)

LEMMA StoreStep ==
    ASSUME UdpAssumption, TypeInv, TypeInv', NumbersNoted, NumbersNoted', StoreInv, [Next]_vars
    PROVE  StoreInv'
<1>1. CASE Hello \/ PollBegin \/ UNCHANGED vars
  BY <1>1, SameStore DEF Hello, PollBegin, vars, ghosts
<1>2. ASSUME NEW i \in Slots, NEW seq \in 1 .. MaxSeq, NEW r \in Requests,
             BatchWrite(i, seq, r) \/ BadBatch(i, seq, r) \/ Read(i, seq, r)
      PROVE  StoreInv'
  <2>1. CASE BatchWrite(i, seq, r)
    BY <2>1, BatchWriteKeeps, BatchWriteOrder DEF StoreInv
  <2>2. CASE BadBatch(i, seq, r) \/ Read(i, seq, r)
    BY <2>2, SameStore DEF BadBatch, Read, ghosts
  <2> QED BY <1>2, <2>1, <2>2
<1>3. CASE PutCard
  BY <1>3, PutCardKeeps, PutCardOrder DEF StoreInv
<1>4. CASE FinishBatch
  BY <1>4, FinishBatchKeeps, FinishBatchOrder DEF StoreInv
<1>5. CASE Restart
  BY <1>5, RestartKeeps
<1> QED BY <1>1, <1>2, <1>3, <1>4, <1>5 DEF Next, Receive, PollStep

LEMMA UdpInvariant == Spec => []UdpInv
<1>1. Init => UdpInv
  BY UdpAssumption, UdpInit
<1>2. UdpInv /\ [Next]_vars => UdpInv'
  BY UdpAssumption, TypeStep, NumbersStep, StoreStep DEF UdpInv
<1> QED BY <1>1, <1>2, PTL DEF Spec

\* The ranges of the UDP log; a batch is never written beyond its last card, nor a poll
\* beyond its share.
THEOREM UdpTyped == Spec => []TypeOK
<1>1. UdpInv => TypeOK
  BY DEF UdpInv, TypeInv
<1> QED BY <1>1, UdpInvariant, PTL

\* However often, late or out of order datagrams arrive, and whatever sessions are evicted
\* or the device restarted, no card of a batch is written twice.
THEOREM WrittenOnce == Spec => []AppliedOnce
<1>1. UdpInv => AppliedOnce
  BY DEF UdpInv, StoreInv
<1> QED BY <1>1, UdpInvariant, PTL

\* An answer's count and bitmap are what the store took of its batch.
THEOREM AnswersTrueOfStore == Spec => []AnswersTellTheTruth
<1>1. UdpInv => AnswersTellTheTruth
  <2> SUFFICES ASSUME UdpInv, NEW a \in answers, NEW n \in DOMAIN accepted,
                      Id(accepted[n]) = a.id
      PROVE /\ a.count = Len(Parsed(accepted[n].cards))
            /\ a.bits = {c \in 1 .. a.count : \E h \in DOMAIN hist[accepted[n].cards[c]] :
                           hist[accepted[n].cards[c]][h] = a.id \o <<c>>}
    BY DEF AnswersTellTheTruth
  <2>1. /\ a.count = Len(Parsed(accepted[n].cards)) /\ a.bits \subseteq 1 .. a.count
        /\ \A c \in 1 .. a.count : c \in a.bits <=> <<accepted[n].cards[c], Card(a.id, c)>> \in Log
    BY DEF UdpInv, StoreInv, AnswersTrue, AnswerTrue
  <2>2. \A c \in 1 .. a.count : accepted[n].cards[c] \in Keys
    <3>1. accepted[n] \in Taken
      BY DEF UdpInv, TypeInv
    <3>2. accepted[n].cards \in Seq(Keys \cup {TooLong})
      BY <3>1 DEF Taken
    <3>3. /\ Parsed(accepted[n].cards) \in Seq(Keys)
          /\ \A c \in DOMAIN Parsed(accepted[n].cards) :
                Parsed(accepted[n].cards)[c] = accepted[n].cards[c]
      BY <3>2, ParsedIs, UdpAssumption
    <3> QED BY <2>1, <3>3
  <2>3. \A c \in 1 .. a.count : a.id \o <<c>> = Card(a.id, c)
    <3>1. a.id = <<accepted[n].sid, accepted[n].seq>>
      BY DEF Id
    <3>2. accepted[n] \in Taken
      BY DEF UdpInv, TypeInv
    <3>3. accepted[n].sid \in Nat /\ accepted[n].seq \in Nat
      BY <3>2, UdpAssumption DEF Taken, Sids, UdpAssumption
    <3>4. \A c \in Nat : a.id \o <<c>> = <<accepted[n].sid, accepted[n].seq, c>>
      BY <3>1, <3>3, Joined, ZenonT(30)
    <3>5. \A c \in 1 .. a.count : c \in Nat
      OBVIOUS
    <3>6. a.id[1] = accepted[n].sid /\ a.id[2] = accepted[n].seq
      BY <3>1
    <3> TAKE c \in 1 .. a.count
    <3>7. Card(a.id, c) = <<accepted[n].sid, accepted[n].seq, c>>
      BY <3>6, Zenon DEF Card
    <3>8. a.id \o <<c>> = <<accepted[n].sid, accepted[n].seq, c>>
      BY <3>4, <3>5
    <3> QED BY <3>7, <3>8, Zenon
  <2>4. \A k \in Keys : \A c \in 1 .. a.count : <<k, Card(a.id, c)>> \in Log <=>
           \E h \in DOMAIN hist[k] : hist[k][h] = Card(a.id, c)
    BY DEF Log, Card
  <2>5. \A c \in 1 .. a.count : c \in a.bits <=>
           \E h \in DOMAIN hist[accepted[n].cards[c]] :
              hist[accepted[n].cards[c]][h] = a.id \o <<c>>
    <3> TAKE c \in 1 .. a.count
    <3>1. accepted[n].cards[c] \in Keys
      BY <2>2
    <3>2. <<accepted[n].cards[c], Card(a.id, c)>> \in Log <=>
             \E h \in DOMAIN hist[accepted[n].cards[c]] :
                hist[accepted[n].cards[c]][h] = Card(a.id, c)
      BY <2>4, <3>1
    <3>3. a.id \o <<c>> = Card(a.id, c)
      BY <2>3
    <3>4. c \in a.bits <=> <<accepted[n].cards[c], Card(a.id, c)>> \in Log
      BY <2>1
    <3> QED BY <3>2, <3>3, <3>4
  <2> QED BY <2>1, <2>5
<1> QED BY <1>1, UdpInvariant, PTL

\* A key ends up with the card of the batch accepted last, unless two batches with a card
\* for it waited at the same time.
THEOREM LastWins == Spec => []LastBatchWins
<1>1. UdpInv => LastBatchWins
  BY DEF UdpInv, StoreInv, WrittenInOrder, LastBatchWins, Position, At, BatchOf
<1> QED BY <1>1, UdpInvariant, PTL

=============================================================================
