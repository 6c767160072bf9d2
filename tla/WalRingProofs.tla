---------------------------- MODULE WalRingProofs ----------------------------
(***************************************************************************)
(* The request ring proved for every ring, pool, FIFO depth and number of  *)
(* requests: each slot has one owner, its bytes are the owner's, network   *)
(* buffers are held exactly while needed, a free WAL entry is always       *)
(* found, and answers come in the order of the requests.                   *)
(***************************************************************************)
EXTENDS WalRing, FiniteSetTheorems, TLAPS

-----------------------------------------------------------------------------
(***************************************************************************)
(* The inductive invariant.                                                *)
(***************************************************************************)
Tok(id) == req[id].tok
Served(id) == req[id].state = "done"

\* Where the id of a request under way is: the signal still to be pushed on either side, or in a
\* FIFO.  (An id whose signal was given up is nowhere.)
Ids0 == IF core0.pc = "push" THEN {core0.id} ELSE {}
Ids1 == IF core1.pc \in {"work", "push"} THEN {core1.id} ELSE {}
In(q) == {q[i] : i \in 1 .. Len(q)}

\* A signalled id is used, and the request stands where the signal is.
Signals ==
    /\ used = {id \in Ids : req[id].state # "empty"}
    /\ \A id \in In(fwd) \cup Ids0 : Pending(id)
    /\ \A id \in In(rev) : Served(id)
    /\ core1.pc = "work" => Pending(core1.id)
    /\ core1.pc = "push" => Served(core1.id)

\* Requests are under way in the order they were sent.
Less(A, B) == \A a \in A, b \in B : Tok(a) < Tok(b)
Increasing(q) == \A i, j \in 1 .. Len(q) : i < j => Tok(q[i]) < Tok(q[j])

Order ==
    /\ Increasing(fwd) /\ Increasing(rev)
    /\ Less(In(rev), Ids1) /\ Less(In(rev), In(fwd)) /\ Less(In(rev), Ids0)
    /\ Less(Ids1, In(fwd)) /\ Less(Ids1, Ids0) /\ Less(In(fwd), Ids0)
    /\ \A id \in In(rev) \cup Ids1 \cup In(fwd) \cup Ids0 : answered < Tok(id)

\* No two requests have one number, and the number of the append still arriving is the last.
Numbered ==
    /\ \A i, j \in used : Tok(i) = Tok(j) => i = j
    /\ \A i \in used : Tok(i) <= sent
    /\ answered <= sent
    /\ cur # NoDelta => cur.tok <= sent /\ answered < cur.tok /\ \A i \in used : Tok(i) < cur.tok

\* The slots in use: by a request not yet served, by an unsent answer.
Appending(id) == Pending(id) /\ req[id].op = "append"
Answering(id) == Served(id) /\ req[id].op = "read" /\ resp[id].count > 0

\* Nothing is held by two, and nothing held is free.
Held ==
    /\ cur # NoDelta => cur.slot \notin free
    /\ \A i \in Ids : Appending(i) => req[i].slot \notin free
    /\ \A e \in entries : e.slot \notin free
    /\ \A i \in Ids : Answering(i) => resp[i].slot \notin free

Apart ==
    /\ cur # NoDelta => /\ \A i \in Ids : Appending(i) => req[i].slot # cur.slot
                        /\ \A e \in entries : e.slot # cur.slot
                        /\ \A i \in Ids : Answering(i) => resp[i].slot # cur.slot
    /\ \A i, j \in Ids : Appending(i) /\ Appending(j) /\ req[i].slot = req[j].slot => i = j
    /\ \A i \in Ids, e \in entries : Appending(i) => req[i].slot # e.slot
    /\ \A i, j \in Ids : Appending(i) /\ Answering(j) => req[i].slot # resp[j].slot
    /\ \A e, f \in entries : e.slot = f.slot => e = f
    /\ \A e \in entries, i \in Ids : Answering(i) => e.slot # resp[i].slot
    /\ \A i, j \in Ids : Answering(i) /\ Answering(j) /\ resp[i].slot = resp[j].slot => i = j

\* What the slots hold.
Contents ==
    /\ cur # NoDelta => data[cur.slot].toks = {cur.tok}
    /\ \A i \in Ids : Appending(i) => data[req[i].slot] = [toks |-> {req[i].tok}, whole |-> ~req[i].zc]
    /\ \A e \in entries : data[e.slot] = [toks |-> {e.tok}, whole |-> TRUE]
    /\ \A i \in Ids : Answering(i) => data[resp[i].slot].toks = resp[i].toks

RingInv == TypeOK /\ Signals /\ Order /\ Numbered /\ Held /\ Apart /\ Contents /\ BuffersHeld

-----------------------------------------------------------------------------
(***************************************************************************)
(* Requests and queues.                                                    *)
(***************************************************************************)
\* The constants are sizes, and an id is a number.
LEMMA RingSizes ==
    /\ RingSize \in Nat \ {0} /\ FifoDepth \in Nat \ {0} /\ MaxReqs \in Nat /\ MaxClients \in Nat
    /\ IsFiniteSet(Slots) /\ Cardinality(Slots) \in Nat /\ 0 \in Ids
<1>1. /\ RingSize \in Nat \ {0} /\ FifoDepth \in Nat \ {0} /\ MaxReqs \in Nat /\ MaxClients \in Nat
      /\ IsFiniteSet(Slots)
  BY RingAssumption
<1> QED
  BY <1>1, FS_CardinalityType DEF Ids

\* The kinds of requests.
NoopReqs == [state : {"pending", "done"}, op : {"noop"}, tok : Tokens, zc : {FALSE}]
ReadReqs == [state : {"pending", "done"}, op : {"read"}, tok : Tokens, zc : {FALSE}, key : Keys]
AppendReqs == [state : {"pending", "done"}, op : {"append"}, tok : Tokens, zc : BOOLEAN,
               key : Keys, tomb : BOOLEAN, slot : Slots]

LEMMA ReqKinds == ReqType = {EmptyReq} \cup NoopReqs \cup ReadReqs \cup AppendReqs
BY DEF ReqType, NoopReqs, ReadReqs, AppendReqs

\* The fields of a request.
LEMMA ReqFields ==
    ASSUME NEW r \in ReqType
    PROVE  /\ r.state \in {"empty", "pending", "done"} /\ r.op \in {"noop", "read", "append"}
           /\ r.zc \in BOOLEAN
           /\ r.state = "empty" => r = EmptyReq
           /\ r.state # "empty" => r.tok \in Tokens
           /\ r.state = "empty" => r.tok = 0 /\ r.op = "noop" /\ ~r.zc
           /\ r.op = "read" => r.key \in Keys
           /\ r.op = "append" => r.key \in Keys /\ r.tomb \in BOOLEAN /\ r.slot \in Slots
           /\ r.zc => r.op = "append"
<1>1. CASE r = EmptyReq
  BY <1>1 DEF EmptyReq
<1>2. CASE r \in NoopReqs
  BY <1>2 DEF NoopReqs
<1>3. CASE r \in ReadReqs
  BY <1>3 DEF ReadReqs
<1>4. CASE r \in AppendReqs
  BY <1>4 DEF AppendReqs
<1> QED
  BY <1>1, <1>2, <1>3, <1>4, ReqKinds

\* Marking a request DONE leaves the rest of it.
LEMMA MarkDone ==
    ASSUME NEW r \in ReqType, r.state # "empty"
    PROVE  LET d == [r EXCEPT !.state = "done"]
           IN  /\ d \in ReqType /\ d.state = "done" /\ d.op = r.op /\ d.tok = r.tok /\ d.zc = r.zc
               /\ r.op = "append" => d.slot = r.slot
<1>1. CASE r = EmptyReq
  BY <1>1 DEF EmptyReq
<1>2. CASE r \in NoopReqs
  BY <1>2, ReqKinds DEF NoopReqs
<1>3. CASE r \in ReadReqs
  BY <1>3, ReqKinds DEF ReadReqs
<1>4. CASE r \in AppendReqs
  BY <1>4, ReqKinds DEF AppendReqs
<1> QED
  BY <1>1, <1>2, <1>3, <1>4, ReqKinds

\* The first of a queue and the others.
LEMMA TailIn ==
    ASSUME NEW S, NEW q \in Seq(S), q # <<>>
    PROVE  /\ Head(q) \in S /\ Head(q) \in In(q) /\ Tail(q) \in Seq(S) /\ In(Tail(q)) \subseteq In(q)
           /\ Len(Tail(q)) = Len(q) - 1 /\ Len(q) \in Nat \ {0}
           /\ \A i \in 1 .. Len(Tail(q)) : Tail(q)[i] = q[i + 1]
<1>1. Len(q) \in Nat \ {0}
  OBVIOUS
<1>2. Head(q) = q[1] /\ q[1] \in S
  OBVIOUS
<1>3. Tail(q) \in Seq(S) /\ Len(Tail(q)) = Len(q) - 1
  OBVIOUS
<1>4. \A i \in 1 .. Len(Tail(q)) : Tail(q)[i] = q[i + 1]
  OBVIOUS
<1>5. In(Tail(q)) \subseteq In(q)
  BY <1>1, <1>3, <1>4 DEF In
<1>6. Head(q) \in In(q)
  BY <1>1, <1>2 DEF In
<1> QED
  BY <1>1, <1>2, <1>3, <1>4, <1>5, <1>6

LEMMA AppendIn ==
    ASSUME NEW S, NEW q \in Seq(S), NEW x \in S
    PROVE  /\ Append(q, x) \in Seq(S) /\ In(Append(q, x)) = In(q) \cup {x}
           /\ Len(Append(q, x)) = Len(q) + 1 /\ Len(q) \in Nat
           /\ Append(q, x)[Len(q) + 1] = x
           /\ \A i \in 1 .. Len(q) : Append(q, x)[i] = q[i]
<1>1. Len(q) \in Nat /\ Append(q, x) \in Seq(S) /\ Len(Append(q, x)) = Len(q) + 1
  OBVIOUS
<1>2. Append(q, x)[Len(q) + 1] = x
  OBVIOUS
<1>3. \A i \in 1 .. Len(q) : Append(q, x)[i] = q[i]
  OBVIOUS
<1>4. In(Append(q, x)) = In(q) \cup {x}
  <2>1. \A i \in 1 .. Len(q) + 1 : i = Len(q) + 1 \/ i \in 1 .. Len(q)
    BY <1>1
  <2>2. In(Append(q, x)) \subseteq In(q) \cup {x}
    BY <1>1, <1>2, <1>3, <2>1 DEF In
  <2>3. In(q) \cup {x} \subseteq In(Append(q, x))
    BY <1>1, <1>2, <1>3 DEF In
  <2> QED
    BY <2>2, <2>3
<1> QED
  BY <1>1, <1>2, <1>3, <1>4

\* What is in a queue of ids is an id.
LEMMA InIds ==
    ASSUME TypeOK
    PROVE  /\ In(fwd) \subseteq Ids /\ In(rev) \subseteq Ids /\ Ids0 \subseteq Ids /\ Ids1 \subseteq Ids
           /\ core0.id \in Ids /\ core1.id \in Ids
<1>1. fwd \in Seq(Ids) /\ rev \in Seq(Ids) /\ core0.id \in Ids /\ core1.id \in Ids
  BY DEF TypeOK
<1>2. \A q \in Seq(Ids) : In(q) \subseteq Ids
  BY DEF In
<1> QED
  BY <1>1, <1>2 DEF Ids0, Ids1

\* A request is filled in and its signal is to be pushed.
LEMMA DispatchFacts ==
    ASSUME TypeOK, Signals, NEW r \in ReqType, r.state = "pending", Dispatch(r)
    PROVE  \E id \in Ids :
              /\ req[id].state = "empty" /\ id \notin used /\ used' = used \cup {id}
              /\ core0' = [pc |-> "push", id |-> id] /\ req' \in [Ids -> ReqType]
              /\ req'[id] = r /\ \A i \in Ids : i # id => req'[i] = req[i]
<1>1. PICK id \in Ids : /\ LowestUnused(id) /\ used' = used \cup {id}
                        /\ req' = [req EXCEPT ![id] = r] /\ Signal(id)
  BY DEF Dispatch
<1>2. req \in [Ids -> ReqType]
  BY DEF TypeOK
<1>3. id \notin used /\ req[id].state = "empty"
  BY <1>1 DEF LowestUnused, Signals
<1>4. core0' = [pc |-> "push", id |-> id]
  BY <1>1 DEF Signal
<1>5. req' \in [Ids -> ReqType] /\ req'[id] = r /\ \A i \in Ids : i # id => req'[i] = req[i]
  BY <1>1, <1>2
<1> QED
  BY <1>1, <1>3, <1>4, <1>5

\* The request Core 1 worked on is marked DONE, with its response.
LEMMA DoneFacts ==
    ASSUME TypeOK, Signals, core1.pc = "work", NEW response \in RespType, Done(response)
    PROVE  /\ core1.id \in Ids /\ Pending(core1.id) /\ req'[core1.id].state = "done"
           /\ req' \in [Ids -> ReqType] /\ resp' \in [Ids -> RespType]
           /\ \A i \in Ids : /\ req'[i].tok = req[i].tok /\ req'[i].zc = req[i].zc
                             /\ req'[i].op = req[i].op
                             /\ req'[i].state = "empty" <=> req[i].state = "empty"
                             /\ i # core1.id => req'[i] = req[i] /\ resp'[i] = resp[i]
           /\ resp'[core1.id] = response
           /\ core1' = [pc |-> "push", id |-> core1.id]
<1> DEFINE id == core1.id
           d == [req[id] EXCEPT !.state = "done"]
<1>1. id \in Ids /\ req \in [Ids -> ReqType] /\ resp \in [Ids -> RespType]
  BY DEF TypeOK
<1>2. Pending(id)
  BY DEF Signals
<1>3. req[id] \in ReqType /\ req[id].state # "empty" /\ req[id].state = "pending"
  BY <1>1, <1>2 DEF Pending
<1>4. d \in ReqType /\ d.state = "done" /\ d.op = req[id].op /\ d.tok = req[id].tok /\ d.zc = req[id].zc
  BY <1>3, MarkDone
<1>5. req' = [req EXCEPT ![id] = d]
  BY DEF Done
<1>6. resp' = [resp EXCEPT ![id] = response]
  BY DEF Done
<1>7. core1' = [pc |-> "push", id |-> core1.id]
  <2>1. core1 \in [pc : {"drain", "work", "push", "compact", "overrun"}, id : Ids]
    BY DEF TypeOK
  <2> QED
    BY <2>1 DEF Done
<1> HIDE DEF d
<1>8. req' \in [Ids -> ReqType] /\ req'[id] = d /\ \A i \in Ids : i # id => req'[i] = req[i]
  BY <1>1, <1>4, <1>5
<1>9. resp' \in [Ids -> RespType] /\ resp'[id] = response /\ \A i \in Ids : i # id => resp'[i] = resp[i]
  BY <1>1, <1>6
<1>10. ASSUME NEW i \in Ids
       PROVE  /\ req'[i].tok = req[i].tok /\ req'[i].zc = req[i].zc /\ req'[i].op = req[i].op
              /\ req'[i].state = "empty" <=> req[i].state = "empty"
              /\ i # id => req'[i] = req[i] /\ resp'[i] = resp[i]
  <2>1. CASE i = id
    BY <1>3, <1>4, <1>8, <2>1
  <2>2. CASE i # id
    BY <1>8, <1>9, <2>2
  <2> QED
    BY <2>1, <2>2
<1> QED
  BY <1>1, <1>2, <1>4, <1>7, <1>8, <1>9, <1>10 DEF Served

-----------------------------------------------------------------------------
(***************************************************************************)
(* What a step that touches little leaves as it was.                       *)
(***************************************************************************)
\* No slot gets a holder and none is written.
LEMMA SlotsSame ==
    ASSUME RingInv, UNCHANGED <<free, data, entries>>, cur' \in {cur, NoDelta},
           \A i \in Ids : Appending(i)' => Appending(i) /\ req'[i] = req[i],
           \A i \in Ids : Answering(i)' => Answering(i) /\ resp'[i] = resp[i]
    PROVE  Held' /\ Apart' /\ Contents'
<1>1. Held'
  BY DEF RingInv, Held
<1>2. Apart'
  BY DEF RingInv, Apart
<1>3. Contents'
  BY DEF RingInv, Contents
<1> QED
  BY <1>1, <1>2, <1>3

\* The queues are the same, and no signal appears.
LEMMA OrderSame ==
    ASSUME RingInv, UNCHANGED <<fwd, rev, answered>>, Ids0' \subseteq Ids0, Ids1' \subseteq Ids1,
           \A i \in In(fwd) \cup In(rev) \cup Ids0 \cup Ids1 : Tok(i)' = Tok(i)
    PROVE  Order'
<1>1. Order
  BY DEF RingInv
<1>2. In(fwd)' = In(fwd) /\ In(rev)' = In(rev)
  BY DEF In
<1>3. Increasing(fwd)' /\ Increasing(rev)'
  BY <1>1 DEF Order, Increasing, In
<1>4. /\ Less(In(rev), Ids1)' /\ Less(In(rev), In(fwd))' /\ Less(In(rev), Ids0)'
      /\ Less(Ids1, In(fwd))' /\ Less(Ids1, Ids0)' /\ Less(In(fwd), Ids0)'
  BY <1>1, <1>2 DEF Order, Less
<1>5. \A id \in In(rev)' \cup Ids1' \cup In(fwd)' \cup Ids0' : answered' < Tok(id)'
  BY <1>1, <1>2 DEF Order
<1> QED
  BY <1>3, <1>4, <1>5 DEF Order

\* Requests, their numbers and the ids in use are the same.
LEMMA NumbersSame ==
    ASSUME RingInv, UNCHANGED <<used, sent, answered, pbufs>>, cur' \in {cur, NoDelta},
           req' \in [Ids -> ReqType],
           \A i \in Ids : req'[i].tok = req[i].tok /\ req'[i].zc = req[i].zc
    PROVE  Numbered' /\ BuffersHeld'
<1>1. used \subseteq Ids
  BY DEF RingInv, TypeOK
<1>2. \A i \in used : Tok(i)' = Tok(i)
  BY <1>1 DEF Tok
<1>3. Numbered'
  BY <1>2 DEF RingInv, Numbered
<1>4. BuffersHeld'
  BY DEF RingInv, BuffersHeld
<1> QED
  BY <1>3, <1>4

-----------------------------------------------------------------------------
(***************************************************************************)
(* Core 0.                                                                 *)
(***************************************************************************)
\* Steps that dispatch: the request is new, numbered last, and only its signal is to be pushed.
\* (its number is sent', or that of the append whose value has arrived)
LEMMA DispatchKeeps ==
    ASSUME RingInv, NEW r \in ReqType, r.state = "pending", Dispatch(r), core0.pc = "poll",
           UNCHANGED <<fwd, rev, core1, answered>>,
           \/ r.tok = sent' /\ sent' = sent + 1 /\ cur = NoDelta
           \/ r.tok = cur.tok /\ sent' = sent /\ cur # NoDelta,
           cur' = NoDelta
    PROVE  Signals' /\ Order' /\ Numbered'
<1>1. TypeOK /\ Signals /\ Order /\ Numbered
  BY DEF RingInv
<1>2. PICK id \in Ids :
        /\ req[id].state = "empty" /\ id \notin used /\ used' = used \cup {id}
        /\ core0' = [pc |-> "push", id |-> id] /\ req' \in [Ids -> ReqType]
        /\ req'[id] = r /\ \A i \in Ids : i # id => req'[i] = req[i]
  BY <1>1, DispatchFacts
<1>3. Ids0 = {} /\ Ids0' = {id} /\ Ids1' = Ids1 /\ In(fwd)' = In(fwd) /\ In(rev)' = In(rev)
  BY <1>2 DEF Ids0, Ids1, In
<1>4. /\ In(fwd) \subseteq Ids /\ In(rev) \subseteq Ids /\ Ids1 \subseteq Ids
      /\ core1.id \in Ids
  BY <1>1, InIds
<1>5. /\ \A i \in In(fwd) \cup In(rev) \cup Ids1 : i # id /\ i \in used /\ req'[i] = req[i]
      /\ \A i \in used : req'[i] = req[i] /\ i # id
  BY <1>1, <1>2, <1>4 DEF Signals, Pending, Served, Ids1, TypeOK
<1>6. \A i \in Ids : req[i].state # "empty" => req[i].tok \in Nat
  BY <1>1, ReqFields DEF TypeOK, Tokens
<1>7. sent \in Nat /\ answered \in Nat /\ (cur # NoDelta => cur.tok \in Nat) /\ r.tok \in Nat
  BY <1>1, RingSizes, ReqFields DEF TypeOK, Deltas, Tokens
<1>8. /\ \A i \in used : Tok(i) < r.tok /\ Tok(i) \in Nat
      /\ answered < r.tok /\ r.tok <= sent' /\ sent <= sent'
  BY <1>1, <1>6, <1>7 DEF Numbered, Signals, Tok
<1>9. Signals'
  <2>1. used' = {i \in Ids : req'[i].state # "empty"}
    BY <1>1, <1>2 DEF Signals
  <2>2. \A i \in In(fwd)' \cup Ids0' : Pending(i)'
    BY <1>1, <1>2, <1>3, <1>5 DEF Signals, Pending
  <2>3. \A i \in In(rev)' : Served(i)'
    BY <1>1, <1>3, <1>5 DEF Signals, Served
  <2>4. (core1'.pc = "work" => Pending(core1.id)') /\ (core1'.pc = "push" => Served(core1.id)')
    BY <1>1, <1>5 DEF Signals, Pending, Served, Ids1
  <2> QED
    BY <2>1, <2>2, <2>3, <2>4 DEF Signals
<1>10. Order'
  <2>1. \A i \in In(fwd) \cup In(rev) \cup Ids1 : Tok(i)' = Tok(i) /\ Tok(i) < r.tok
    BY <1>5, <1>8 DEF Tok
  <2>2. Tok(id)' = r.tok
    BY <1>2 DEF Tok
  <2>3. Increasing(fwd)' /\ Increasing(rev)'
    BY <1>1, <2>1 DEF Order, Increasing, In
  <2>4. Less(In(rev), Ids1)' /\ Less(In(rev), In(fwd))' /\ Less(Ids1, In(fwd))'
    BY <1>1, <1>3, <2>1 DEF Order, Less
  <2>5. Less(In(rev), Ids0)' /\ Less(Ids1, Ids0)' /\ Less(In(fwd), Ids0)'
    BY <1>3, <2>1, <2>2 DEF Less
  <2>6. \A i \in In(rev)' \cup Ids1' \cup In(fwd)' \cup Ids0' : answered' < Tok(i)'
    BY <1>1, <1>3, <1>8, <2>1, <2>2 DEF Order
  <2> QED
    BY <2>3, <2>4, <2>5, <2>6 DEF Order
<1>11. Numbered'
  <2>1. \A i \in used : Tok(i)' = Tok(i)
    BY <1>5 DEF Tok
  <2>2. Tok(id)' = r.tok
    BY <1>2 DEF Tok
  <2>3. \A i, j \in used' : Tok(i)' = Tok(j)' => i = j
    <3> SUFFICES ASSUME NEW i \in used', NEW j \in used', Tok(i)' = Tok(j)' PROVE i = j
      OBVIOUS
    <3>1. CASE i \in used /\ j \in used
      BY <1>1, <2>1, <3>1 DEF Numbered
    <3>2. CASE i \in used /\ j = id
      BY <1>7, <1>8, <2>1, <2>2, <3>2
    <3>3. CASE i = id /\ j \in used
      BY <1>7, <1>8, <2>1, <2>2, <3>3
    <3> QED
      BY <1>2, <3>1, <3>2, <3>3
  <2>4. \A i \in used' : Tok(i)' <= sent'
    BY <1>2, <1>7, <1>8, <2>1, <2>2
  <2> QED
    BY <1>7, <1>8, <2>3, <2>4 DEF Numbered
<1> QED
  BY <1>9, <1>10, <1>11

\* A request without a slot of its own: a no-op or a read.
LEMMA PlainKeeps ==
    ASSUME RingInv, Receiving, sent' = sent + 1,
           NEW r \in NoopReqs \cup ReadReqs, r.state = "pending", r.tok = sent', Dispatch(r),
           UNCHANGED <<conn, cur, pbufs, free, data, resp, fwd, rev, core1Vars, answered, refused, lost, clients>>
    PROVE  RingInv'
<1>1. TypeOK /\ Signals /\ core0.pc = "poll" /\ cur = NoDelta /\ sent < MaxReqs
  BY DEF RingInv, Receiving
<1>2. r \in ReqType /\ r.op # "append" /\ r.zc = FALSE
  BY ReqKinds DEF NoopReqs, ReadReqs
<1>3. PICK id \in Ids :
        /\ req[id].state = "empty" /\ id \notin used /\ used' = used \cup {id}
        /\ core0' = [pc |-> "push", id |-> id] /\ req' \in [Ids -> ReqType]
        /\ req'[id] = r /\ \A i \in Ids : i # id => req'[i] = req[i]
  BY <1>1, <1>2, DispatchFacts
<1>4. Signals' /\ Order' /\ Numbered'
  BY <1>1, <1>2, DispatchKeeps DEF core1Vars
<1>5. TypeOK'
  <2>1. sent' \in 0 .. MaxReqs
    BY <1>1, RingSizes DEF TypeOK
  <2>2. core0' \in [pc : {"poll", "push", "overrun"}, id : Ids] /\ used' \subseteq Ids
    BY <1>1, <1>3 DEF TypeOK
  <2> QED
    BY <1>1, <1>3, <2>1, <2>2 DEF TypeOK, core1Vars
<1>6. Held' /\ Apart' /\ Contents'
  <2>1. \A i \in Ids : Appending(i)' => Appending(i) /\ req'[i] = req[i]
    BY <1>2, <1>3 DEF Appending, Pending
  <2>2. \A i \in Ids : Answering(i)' => Answering(i) /\ resp'[i] = resp[i]
    BY <1>3 DEF Answering, Served
  <2> QED
    BY <2>1, <2>2, SlotsSame DEF core1Vars
<1>7. BuffersHeld'
  <2>1. \A i \in Ids : req[i].zc => req'[i] = req[i]
    BY <1>1, <1>3, ReqFields DEF TypeOK
  <2>2. \A i \in Ids : req'[i].zc => req[i].zc /\ req'[i] = req[i]
    BY <1>2, <1>3
  <2> QED
    BY <2>1, <2>2 DEF RingInv, BuffersHeld
<1> QED
  BY <1>4, <1>5, <1>6, <1>7 DEF RingInv

\* A refused request takes a number and nothing else.
LEMMA RefuseKeeps == ASSUME RingInv, RefuseBad PROVE RingInv'
<1>1. /\ sent' = sent + 1 /\ sent < MaxReqs /\ refused' = refused \cup {sent'} /\ cur = NoDelta
      /\ UNCHANGED <<core0Vars, ringVars, core1Vars, answered, lost, clients>>
  BY DEF RefuseBad, Receiving
<1>2. TypeOK /\ sent \in Nat /\ answered \in Nat
  BY RingSizes DEF RingInv, TypeOK
<1>3. TypeOK'
  <2>1. sent' \in 0 .. MaxReqs /\ refused' \subseteq Tokens
    BY <1>1, <1>2, RingSizes DEF TypeOK, Tokens
  <2> QED
    BY <1>1, <1>2, <2>1 DEF TypeOK, core0Vars, ringVars, core1Vars
<1>4. Signals' /\ Held' /\ Apart' /\ Contents' /\ BuffersHeld'
  BY <1>1 DEF RingInv, Signals, Held, Apart, Contents, BuffersHeld, Appending, Answering, Pending,
     Served, In, Ids0, core0Vars, ringVars, core1Vars
<1>5. Order'
  BY <1>1, OrderSame DEF RingInv, Ids0, Ids1, Tok, core0Vars, ringVars, core1Vars
<1>6. Numbered'
  <2>1. \A i \in used : Tok(i) \in Nat
    BY <1>2, ReqFields DEF RingInv, TypeOK, Signals, Tok, Tokens
  <2>2. \A i \in used : Tok(i)' = Tok(i)
    BY <1>1 DEF Tok, ringVars
  <2> QED
    BY <1>1, <1>2, <2>1, <2>2 DEF RingInv, Numbered, core0Vars
<1> QED
  BY <1>3, <1>4, <1>5, <1>6 DEF RingInv

LEMMA RecvNoopKeeps == ASSUME RingInv, RecvNoop PROVE RingInv'
<1> DEFINE r == [state |-> "pending", op |-> "noop", tok |-> sent', zc |-> FALSE]
<1>1. sent' = sent + 1 /\ sent' \in Tokens
  BY RingSizes DEF RingInv, TypeOK, RecvNoop, Receiving, Tokens
<1>2. r \in NoopReqs /\ r.state = "pending" /\ r.tok = sent'
  BY <1>1 DEF NoopReqs
<1>3. Receiving /\ Dispatch(r)
  BY DEF RecvNoop
<1>4. UNCHANGED <<conn, cur, pbufs, free, data, resp, fwd, rev, core1Vars, answered, refused, lost, clients>>
  BY DEF RecvNoop
<1> HIDE DEF r
<1> QED
  BY <1>1, <1>2, <1>3, <1>4, PlainKeeps

LEMMA RecvReadKeeps == ASSUME RingInv, NEW k \in Keys, RecvRead(k) PROVE RingInv'
<1> DEFINE r == [state |-> "pending", op |-> "read", tok |-> sent', zc |-> FALSE, key |-> k]
<1>1. sent' = sent + 1 /\ sent' \in Tokens
  BY RingSizes DEF RingInv, TypeOK, RecvRead, Receiving, Tokens
<1>2. r \in ReadReqs /\ r.state = "pending" /\ r.tok = sent'
  BY <1>1 DEF ReadReqs
<1>3. Receiving /\ Dispatch(r)
  BY DEF RecvRead
<1>4. UNCHANGED <<conn, cur, pbufs, free, data, resp, fwd, rev, core1Vars, answered, refused, lost, clients>>
  BY DEF RecvRead
<1> HIDE DEF r
<1> QED
  BY <1>1, <1>2, <1>3, <1>4, PlainKeeps

\* A slot is claimed: nobody held it, and it holds the new request's delta.
LEMMA ClaimFacts ==
    ASSUME RingInv, NEW s \in Slots, NEW whole \in BOOLEAN, ClaimSlot(s, whole)
    PROVE  /\ sent' = sent + 1 /\ sent' \in Tokens /\ sent' \in 0 .. MaxReqs
           /\ cur = NoDelta /\ core0.pc = "poll"
           /\ free' \subseteq free /\ s \notin free' /\ free' \subseteq Slots
           /\ data' \in [Slots -> [toks : SUBSET Tokens, whole : BOOLEAN]]
           /\ data'[s] = [toks |-> {sent'}, whole |-> whole]
           /\ \A x \in Slots : x # s => data'[x] = data[x]
           /\ \A i \in Ids : (Appending(i) => req[i].slot # s) /\ (Answering(i) => resp[i].slot # s)
           /\ \A e \in entries : e.slot # s
<1>1. TypeOK /\ Held /\ s \in free
  BY DEF RingInv, ClaimSlot
<1>2. sent' = sent + 1 /\ sent' \in Tokens /\ sent' \in 0 .. MaxReqs
  BY <1>1, RingSizes DEF TypeOK, ClaimSlot, Receiving, Tokens
<1>3. data \in [Slots -> [toks : SUBSET Tokens, whole : BOOLEAN]]
  BY <1>1 DEF TypeOK
<1>4. data' = [data EXCEPT ![s] = [toks |-> {sent'}, whole |-> whole]]
  BY DEF ClaimSlot
<1>5. [toks |-> {sent'}, whole |-> whole] \in [toks : SUBSET Tokens, whole : BOOLEAN]
  BY <1>2
<1>6. /\ data' \in [Slots -> [toks : SUBSET Tokens, whole : BOOLEAN]]
      /\ data'[s] = [toks |-> {sent'}, whole |-> whole]
      /\ \A x \in Slots : x # s => data'[x] = data[x]
  BY <1>3, <1>4, <1>5
<1>7. free' \subseteq free /\ s \notin free' /\ free' \subseteq Slots
  BY <1>1 DEF ClaimSlot, TypeOK
<1>8. /\ \A i \in Ids : (Appending(i) => req[i].slot # s) /\ (Answering(i) => resp[i].slot # s)
      /\ \A e \in entries : e.slot # s
  BY <1>1 DEF Held
<1> QED
  BY <1>2, <1>6, <1>7, <1>8 DEF ClaimSlot, Receiving

\* The slots of requests, entries and answers are slots.
LEMMA SlotsOf ==
    ASSUME TypeOK
    PROVE  /\ \A i \in Ids : Appending(i) => req[i].slot \in Slots
           /\ \A i \in Ids : Answering(i) => resp[i].slot \in Slots
           /\ \A e \in entries : e.slot \in Slots
           /\ cur # NoDelta => cur.slot \in Slots
<1>1. \A i \in Ids : Appending(i) => req[i].slot \in Slots
  BY ReqFields DEF TypeOK, Appending, Pending
<1>2. ASSUME NEW i \in Ids, Answering(i) PROVE resp[i].slot \in Slots
  <2>1. resp[i] \in RespType /\ resp[i] # EmptyResp
    BY <1>2 DEF TypeOK, Answering, EmptyResp
  <2> QED
    BY <2>1 DEF RespType
<1>3. \A e \in entries : e.slot \in Slots
  BY DEF TypeOK, Entries
<1>4. cur # NoDelta => cur.slot \in Slots
  BY DEF TypeOK, Deltas
<1> QED
  BY <1>1, <1>2, <1>3, <1>4

\* A new append holds slot s, nobody else does, and s holds its delta.
LEMMA AppendSlots ==
    ASSUME RingInv, NEW id \in Ids, NEW s \in Slots, NEW r \in AppendReqs,
           req[id].state = "empty", req'[id] = r, r.state = "pending", r.slot = s,
           \A i \in Ids : i # id => req'[i] = req[i],
           UNCHANGED <<resp, entries>>, cur' = NoDelta, free' \subseteq free, s \notin free',
           \A x \in Slots : x # s => data'[x] = data[x],
           data'[s] = [toks |-> {r.tok}, whole |-> ~r.zc],
           \A i \in Ids : (Appending(i) => req[i].slot # s) /\ (Answering(i) => resp[i].slot # s),
           \A e \in entries : e.slot # s
    PROVE  Held' /\ Apart' /\ Contents'
<1>1. /\ \A i \in Ids : i # id => (Appending(i)' <=> Appending(i)) /\ (Answering(i)' <=> Answering(i))
      /\ Appending(id)' /\ ~Answering(id)' /\ ~Appending(id) /\ ~Answering(id)
      /\ req'[id].slot = s
  BY DEF Appending, Answering, Pending, Served, AppendReqs
<1>2. Held /\ Apart /\ Contents /\ TypeOK
  BY DEF RingInv
<1>3. Held'
  BY <1>1, <1>2 DEF Held
<1>4. Apart'
  <2>1. /\ \A i, j \in Ids : Appending(i)' /\ Appending(j)' /\ req'[i].slot = req'[j].slot => i = j
        /\ \A i \in Ids, e \in entries : Appending(i)' => req'[i].slot # e.slot
        /\ \A i, j \in Ids : Appending(i)' /\ Answering(j)' => req'[i].slot # resp[j].slot
    BY <1>1, <1>2 DEF Apart
  <2>2. /\ \A e, f \in entries : e.slot = f.slot => e = f
        /\ \A e \in entries, i \in Ids : Answering(i)' => e.slot # resp[i].slot
        /\ \A i, j \in Ids : Answering(i)' /\ Answering(j)' /\ resp[i].slot = resp[j].slot => i = j
    BY <1>1, <1>2 DEF Apart
  <2> QED
    BY <2>1, <2>2 DEF Apart
<1>5. Contents'
  <2>1. /\ \A i \in Ids : Appending(i) => req[i].slot \in Slots
        /\ \A i \in Ids : Answering(i) => resp[i].slot \in Slots
        /\ \A e \in entries : e.slot \in Slots
    BY <1>2, SlotsOf
  <2>2. \A i \in Ids : Appending(i)' =>
            data'[req'[i].slot] = [toks |-> {req'[i].tok}, whole |-> ~req'[i].zc]
    <3> SUFFICES ASSUME NEW i \in Ids, Appending(i)'
                 PROVE  data'[req'[i].slot] = [toks |-> {req'[i].tok}, whole |-> ~req'[i].zc]
      OBVIOUS
    <3>1. CASE i = id
      BY <3>1
    <3>2. CASE i # id
      <4>1. Appending(i) /\ req'[i] = req[i] /\ req[i].slot \in Slots /\ req[i].slot # s
        BY <1>1, <2>1, <3>2
      <4>2. data[req[i].slot] = [toks |-> {req[i].tok}, whole |-> ~req[i].zc]
        BY <1>2, <4>1 DEF Contents
      <4> QED
        BY <4>1, <4>2
    <3> QED
      BY <3>1, <3>2
  <2>3. \A e \in entries : data'[e.slot] = [toks |-> {e.tok}, whole |-> TRUE]
    BY <1>2, <2>1 DEF Contents
  <2>4. \A i \in Ids : Answering(i)' => data'[resp[i].slot].toks = resp[i].toks
    BY <1>1, <1>2, <2>1 DEF Contents
  <2> QED
    BY <2>2, <2>3, <2>4 DEF Contents
<1> QED
  BY <1>3, <1>4, <1>5

\* The network buffer of a new request is held if its value is read from there.
LEMMA NewBuffer ==
    ASSUME RingInv, NEW id \in Ids, req[id].state = "empty",
           \A i \in Ids : i # id => req'[i] = req[i],
           pbufs' = IF req'[id].zc THEN pbufs \cup {req'[id].tok} ELSE pbufs
    PROVE  BuffersHeld'
<1>1. ~req[id].zc
  BY ReqFields DEF RingInv, TypeOK
<1>2. pbufs = {req[i].tok : i \in {j \in Ids : req[j].zc}}
  BY DEF RingInv, BuffersHeld
<1>3. CASE req'[id].zc
  BY <1>1, <1>2, <1>3 DEF BuffersHeld
<1>4. CASE ~req'[id].zc
  BY <1>1, <1>2, <1>4 DEF BuffersHeld
<1> QED
  BY <1>3, <1>4

LEMMA RecvAppendKeeps ==
    ASSUME RingInv, NEW k \in Keys, NEW tomb \in BOOLEAN, NEW s \in Slots, NEW zc \in BOOLEAN,
           RecvAppend(k, tomb, s, zc)
    PROVE  RingInv'
<1> DEFINE r == [state |-> "pending", op |-> "append", tok |-> sent', zc |-> zc,
                 key |-> k, tomb |-> tomb, slot |-> s]
<1>1. ClaimSlot(s, ~zc) /\ Dispatch(r)
  BY DEF RecvAppend, DispatchAppend
<1>2. /\ pbufs' = IF zc THEN pbufs \cup {sent'} ELSE pbufs
      /\ UNCHANGED <<conn, cur, resp, fwd, rev, core1Vars, answered, refused, lost, clients>>
  BY DEF RecvAppend
<1>3. (~zc) \in BOOLEAN
  OBVIOUS
<1>4. /\ sent' = sent + 1 /\ sent' \in Tokens /\ sent' \in 0 .. MaxReqs
      /\ cur = NoDelta /\ core0.pc = "poll"
      /\ free' \subseteq free /\ s \notin free' /\ free' \subseteq Slots
      /\ data' \in [Slots -> [toks : SUBSET Tokens, whole : BOOLEAN]]
      /\ data'[s] = [toks |-> {sent'}, whole |-> ~zc]
      /\ \A x \in Slots : x # s => data'[x] = data[x]
      /\ \A i \in Ids : (Appending(i) => req[i].slot # s) /\ (Answering(i) => resp[i].slot # s)
      /\ \A e \in entries : e.slot # s
  BY <1>1, <1>3, ClaimFacts
<1>5. r \in AppendReqs /\ r.state = "pending" /\ r.tok = sent' /\ r.zc = zc /\ r.slot = s
  BY <1>4 DEF AppendReqs
<1> HIDE DEF r
<1>6. TypeOK /\ Signals /\ r \in ReqType
  BY <1>5, ReqKinds DEF RingInv
<1>7. PICK id \in Ids :
        /\ req[id].state = "empty" /\ id \notin used /\ used' = used \cup {id}
        /\ core0' = [pc |-> "push", id |-> id] /\ req' \in [Ids -> ReqType]
        /\ req'[id] = r /\ \A i \in Ids : i # id => req'[i] = req[i]
  BY <1>1, <1>5, <1>6, DispatchFacts
<1>8. Signals' /\ Order' /\ Numbered'
  BY <1>1, <1>2, <1>4, <1>5, <1>6, DispatchKeeps DEF core1Vars
<1>9. TypeOK'
  <2>1. pbufs' \subseteq Tokens
    BY <1>2, <1>4, <1>6 DEF TypeOK
  <2>2. core0' \in [pc : {"poll", "push", "overrun"}, id : Ids] /\ used' \subseteq Ids
    BY <1>6, <1>7 DEF TypeOK
  <2> QED
    BY <1>2, <1>4, <1>6, <1>7, <2>1, <2>2 DEF TypeOK, core1Vars
<1>10. Held' /\ Apart' /\ Contents'
  BY <1>2, <1>4, <1>5, <1>7, AppendSlots DEF core1Vars
<1>11. BuffersHeld'
  BY <1>2, <1>5, <1>7, NewBuffer
<1> QED
  BY <1>8, <1>9, <1>10, <1>11 DEF RingInv

LEMMA RecvAppendHeaderKeeps ==
    ASSUME RingInv, NEW k \in Keys, NEW tomb \in BOOLEAN, NEW s \in Slots,
           RecvAppendHeader(k, tomb, s)
    PROVE  RingInv'
<1> DEFINE d == [tok |-> sent', key |-> k, tomb |-> tomb, slot |-> s]
<1>1. ClaimSlot(s, FALSE) /\ cur' = d
      /\ UNCHANGED <<conn, core0, used, pbufs, req, resp, fwd, rev, core1Vars, answered, refused, lost, clients>>
  BY DEF RecvAppendHeader
<1>2. /\ sent' = sent + 1 /\ sent' \in Tokens /\ sent' \in 0 .. MaxReqs
      /\ cur = NoDelta /\ core0.pc = "poll"
      /\ free' \subseteq free /\ s \notin free' /\ free' \subseteq Slots
      /\ data' \in [Slots -> [toks : SUBSET Tokens, whole : BOOLEAN]]
      /\ data'[s] = [toks |-> {sent'}, whole |-> FALSE]
      /\ \A x \in Slots : x # s => data'[x] = data[x]
      /\ \A i \in Ids : (Appending(i) => req[i].slot # s) /\ (Answering(i) => resp[i].slot # s)
      /\ \A e \in entries : e.slot # s
  BY <1>1, ClaimFacts
<1>3. d \in Deltas /\ d.slot = s /\ d.tok = sent'
  BY <1>2 DEF Deltas
<1> HIDE DEF d
<1>4. TypeOK /\ Signals /\ Order /\ Numbered /\ Held /\ Apart /\ Contents /\ BuffersHeld
  BY DEF RingInv
<1>5. TypeOK'
  BY <1>1, <1>2, <1>3, <1>4 DEF TypeOK, core1Vars
<1>6. Signals' /\ BuffersHeld'
  BY <1>1, <1>4 DEF Signals, BuffersHeld, Pending, Served, In, Ids0, core1Vars
<1>7. Order'
  BY <1>1, OrderSame DEF Ids0, Ids1, Tok, core1Vars
<1>8. Numbered'
  <2>1. sent \in Nat /\ answered \in Nat
    BY <1>4, RingSizes DEF TypeOK
  <2>2. \A i \in used : Tok(i) \in Nat /\ Tok(i) <= sent
    BY <1>4, ReqFields DEF TypeOK, Numbered, Signals, Tok, Tokens
  <2>3. answered <= sent
    BY <1>4 DEF Numbered
  <2>4. \A i \in used : Tok(i)' = Tok(i)
    BY <1>1 DEF Tok
  <2>5. \A i \in used : Tok(i) <= sent' /\ Tok(i) < d.tok
    BY <1>2, <1>3, <2>1, <2>2
  <2>6. answered <= sent' /\ answered < d.tok /\ d.tok <= sent'
    BY <1>2, <1>3, <2>1, <2>3
  <2> QED
    BY <1>1, <1>4, <2>4, <2>5, <2>6 DEF Numbered
<1>9. \A i \in Ids : (Appending(i)' <=> Appending(i)) /\ (Answering(i)' <=> Answering(i))
  BY <1>1 DEF Appending, Answering, Pending, Served
<1>10. Held'
  BY <1>1, <1>2, <1>3, <1>4, <1>9 DEF Held, core1Vars
<1>11. Apart'
  BY <1>1, <1>2, <1>3, <1>4, <1>9 DEF Apart, core1Vars
<1>12. Contents'
  <2>1. /\ \A i \in Ids : Appending(i) => req[i].slot \in Slots
        /\ \A i \in Ids : Answering(i) => resp[i].slot \in Slots
        /\ \A e \in entries : e.slot \in Slots
    BY <1>4, SlotsOf
  <2> QED
    BY <1>1, <1>2, <1>3, <1>4, <1>9, <2>1 DEF Contents, core1Vars
<1> QED
  BY <1>5, <1>6, <1>7, <1>8, <1>10, <1>11, <1>12 DEF RingInv

\* The value arrives behind the delta's header.
LEMMA MarkWhole ==
    ASSUME NEW p \in [toks : SUBSET Tokens, whole : BOOLEAN]
    PROVE  [p EXCEPT !.whole = TRUE] = [toks |-> p.toks, whole |-> TRUE]
<1> DEFINE n == [p EXCEPT !.whole = TRUE]
<1>1. n \in [toks : SUBSET Tokens, whole : BOOLEAN] /\ n.toks = p.toks /\ n.whole = TRUE
  OBVIOUS
<1> HIDE DEF n
<1>2. n = [toks |-> n.toks, whole |-> n.whole]
  BY <1>1
<1>3. n = [toks |-> p.toks, whole |-> TRUE]
  BY <1>1, <1>2
<1> QED
  BY <1>3 DEF n

LEMMA RecvAppendRestKeeps == ASSUME RingInv, RecvAppendRest PROVE RingInv'
<1> DEFINE r == [state |-> "pending", op |-> "append", tok |-> cur.tok, zc |-> FALSE,
                 key |-> cur.key, tomb |-> cur.tomb, slot |-> cur.slot]
           s == cur.slot
<1>1. Dispatch(r) /\ core0.pc = "poll" /\ cur # NoDelta /\ cur' = NoDelta
  BY DEF RecvAppendRest, DispatchAppend
<1>2. /\ data' = [data EXCEPT ![s].whole = TRUE]
      /\ UNCHANGED <<conn, pbufs, free, resp, fwd, rev, core1Vars, ghosts>>
  BY DEF RecvAppendRest
<1>3. TypeOK /\ Signals /\ Held /\ Apart /\ Contents
  BY DEF RingInv
<1>4. cur \in Deltas /\ s \in Slots /\ cur.tok \in Tokens /\ cur.key \in Keys /\ cur.tomb \in BOOLEAN
  BY <1>1, <1>3 DEF TypeOK, Deltas
<1>5. r \in AppendReqs /\ r.state = "pending" /\ r.tok = cur.tok /\ r.zc = FALSE /\ r.slot = s
  BY <1>4 DEF AppendReqs
<1> DEFINE new == [data[s] EXCEPT !.whole = TRUE]
<1>6. data[s] \in [toks : SUBSET Tokens, whole : BOOLEAN] /\ data[s].toks = {cur.tok}
  BY <1>1, <1>3, <1>4 DEF TypeOK, Contents
<1>7. new = [toks |-> {cur.tok}, whole |-> TRUE] /\ new \in [toks : SUBSET Tokens, whole : BOOLEAN]
  BY <1>4, <1>6, MarkWhole
<1>8. data' = [data EXCEPT ![s] = new]
  BY <1>2
<1> HIDE DEF r, s, new
<1>9. data \in [Slots -> [toks : SUBSET Tokens, whole : BOOLEAN]]
  BY <1>3 DEF TypeOK
<1>10. /\ data' \in [Slots -> [toks : SUBSET Tokens, whole : BOOLEAN]]
       /\ data'[s] = new /\ \A x \in Slots : x # s => data'[x] = data[x]
  BY <1>4, <1>7, <1>8, <1>9
<1>11. r \in ReqType
  BY <1>5, ReqKinds
<1>12. PICK id \in Ids :
        /\ req[id].state = "empty" /\ id \notin used /\ used' = used \cup {id}
        /\ core0' = [pc |-> "push", id |-> id] /\ req' \in [Ids -> ReqType]
        /\ req'[id] = r /\ \A i \in Ids : i # id => req'[i] = req[i]
  BY <1>1, <1>3, <1>5, <1>11, DispatchFacts
<1>13. Signals' /\ Order' /\ Numbered'
  BY <1>1, <1>2, <1>5, <1>11, DispatchKeeps DEF core1Vars, ghosts
<1>14. TypeOK'
  <2>1. core0' \in [pc : {"poll", "push", "overrun"}, id : Ids] /\ used' \subseteq Ids
    BY <1>3, <1>12 DEF TypeOK
  <2> QED
    BY <1>1, <1>2, <1>3, <1>10, <1>12, <2>1 DEF TypeOK, core1Vars, ghosts
<1>15. Held' /\ Apart' /\ Contents'
  <2>1. s \notin free
    BY <1>1, <1>3 DEF Held, s
  <2>2. /\ \A i \in Ids : (Appending(i) => req[i].slot # s) /\ (Answering(i) => resp[i].slot # s)
        /\ \A e \in entries : e.slot # s
    BY <1>1, <1>3 DEF Apart, s
  <2>3. data'[s] = [toks |-> {r.tok}, whole |-> ~r.zc]
    BY <1>5, <1>7, <1>10
  <2>4. UNCHANGED <<resp, entries>> /\ cur' = NoDelta /\ free' \subseteq free /\ s \notin free'
    BY <1>1, <1>2, <2>1 DEF core1Vars
  <2> QED
    BY <2>4, <1>4, <1>5, <1>10, <1>12, <2>2, <2>3, AppendSlots
<1>16. BuffersHeld'
  BY <1>2, <1>5, <1>12, NewBuffer
<1> QED
  BY <1>13, <1>14, <1>15, <1>16 DEF RingInv

\* The client leaves, another comes: neither touches a request.
LEMMA ClientKeeps == ASSUME RingInv, Disconnect \/ Accept PROVE RingInv'
<1>1. /\ UNCHANGED <<core0, used, pbufs, ringVars, core1Vars, answered, refused, lost, sent>>
      /\ cur' \in {cur, NoDelta}
  BY DEF Disconnect, Accept, ghosts
<1>2. TypeOK'
  <2>1. conn' \in BOOLEAN /\ clients' \in 0 .. MaxClients
    <3>1. conn \in BOOLEAN /\ clients \in 0 .. MaxClients /\ MaxClients \in Nat
      BY RingSizes DEF RingInv, TypeOK
    <3>2. CASE Disconnect
      BY <3>1, <3>2 DEF Disconnect, ghosts
    <3>3. CASE Accept
      BY <3>1, <3>3 DEF Accept
    <3> QED
      BY <3>2, <3>3
  <2> QED
    BY <1>1, <2>1 DEF RingInv, TypeOK, ringVars, core1Vars
<1>3. Signals'
  BY <1>1 DEF RingInv, Signals, Pending, Served, In, Ids0, ringVars, core1Vars
<1>4. Order'
  BY <1>1, OrderSame DEF Ids0, Ids1, Tok, ringVars, core1Vars
<1>5. Numbered' /\ BuffersHeld'
  BY <1>1, NumbersSame DEF RingInv, TypeOK, ringVars
<1>6. Held' /\ Apart' /\ Contents'
  BY <1>1, SlotsSame DEF Appending, Answering, Pending, Served, ringVars, core1Vars
<1> QED
  BY <1>2, <1>3, <1>4, <1>5, <1>6 DEF RingInv

\* Steps that only move a signal: what they say of the queues is left to each.
LEMMA SignalMoves ==
    ASSUME RingInv, UNCHANGED <<conn, cur, used, pbufs, free, data, req, resp, entries, nextSeq,
                                answered, refused, sent, clients>>
    PROVE  Numbered' /\ BuffersHeld' /\ Held' /\ Apart' /\ Contents'
<1>1. Numbered' /\ BuffersHeld'
  BY NumbersSame DEF RingInv, TypeOK
<1>2. Held' /\ Apart' /\ Contents'
  BY SlotsSame DEF Appending, Answering, Pending, Served
<1> QED
  BY <1>1, <1>2

LEMMA OverrunKeeps == ASSUME RingInv, Overrun PROVE RingInv'
<1>1. UNCHANGED <<conn, cur, used, pbufs, ringVars, entries, nextSeq, ghosts>>
  BY DEF Overrun
<1>2. core0' = [core0 EXCEPT !.pc = "overrun"] /\ core1' = [core1 EXCEPT !.pc = "overrun"]
  BY DEF Overrun
<1>3. TypeOK'
  <2>1. core0' \in [pc : {"poll", "push", "overrun"}, id : Ids]
    BY <1>2 DEF RingInv, TypeOK
  <2>2. core1' \in [pc : {"drain", "work", "push", "compact", "overrun"}, id : Ids]
    BY <1>2 DEF RingInv, TypeOK
  <2> QED
    BY <1>1, <2>1, <2>2 DEF RingInv, TypeOK, ringVars, ghosts
<1>4. core0'.pc = "overrun" /\ core1'.pc = "overrun"
  BY <1>2 DEF RingInv, TypeOK
<1>5. Ids0' = {} /\ Ids1' = {}
  BY <1>4 DEF Ids0, Ids1
<1>6. Signals'
  BY <1>1, <1>4, <1>5 DEF RingInv, Signals, Pending, Served, In, ringVars
<1>7. Order'
  BY <1>1, <1>5, OrderSame DEF Tok, ringVars, ghosts
<1> QED
  BY <1>1, <1>3, <1>6, <1>7, SignalMoves DEF RingInv, ringVars, ghosts

\* A signal is given up: the request is nowhere any more.
LEMMA GiveUpKeeps == ASSUME RingInv, GiveUpForward \/ GiveUpReverse PROVE RingInv'
<1>1. /\ UNCHANGED <<conn, cur, used, pbufs, ringVars, entries, nextSeq, answered, refused, sent, clients>>
      /\ \/ core0' = [pc |-> "poll", id |-> 0] /\ core1' = core1 /\ lost' = lost \cup {core0.id}
         \/ core1' = [pc |-> "drain", id |-> 0] /\ core0' = core0 /\ lost' = lost \cup {core1.id}
  BY DEF GiveUpForward, GiveUpReverse, core0Vars, core1Vars, ringVars
<1>2. TypeOK'
  <2>1. core0' \in [pc : {"poll", "push", "overrun"}, id : Ids]
    BY <1>1, RingSizes DEF RingInv, TypeOK
  <2>2. core1' \in [pc : {"drain", "work", "push", "compact", "overrun"}, id : Ids]
    BY <1>1, RingSizes DEF RingInv, TypeOK
  <2>3. lost' \subseteq Ids
    BY <1>1 DEF RingInv, TypeOK
  <2> QED
    BY <1>1, <2>1, <2>2, <2>3 DEF RingInv, TypeOK, ringVars
<1>3. Ids0' \subseteq Ids0 /\ Ids1' \subseteq Ids1
  BY <1>1 DEF Ids0, Ids1
<1>4. Signals'
  <2>1. /\ core1'.pc = "work" => core1' = core1
        /\ core1'.pc = "push" => core1' = core1
    BY <1>1
  <2> QED
    BY <1>1, <1>3, <2>1 DEF RingInv, Signals, Pending, Served, In, ringVars
<1>5. Order'
  BY <1>1, <1>3, OrderSame DEF Tok, ringVars
<1> QED
  BY <1>1, <1>2, <1>4, <1>5, SignalMoves DEF RingInv, ringVars

\* A queue whose tokens ascend keeps so with a later one behind, and without its first.
LEMMA AppendIncreasing ==
    ASSUME NEW q \in Seq(Ids), NEW x \in Ids, Increasing(q), \A i \in In(q) : Tok(i) < Tok(x)
    PROVE  Increasing(Append(q, x))
<1> DEFINE n == Append(q, x)
<1>1. /\ Len(n) = Len(q) + 1 /\ Len(q) \in Nat /\ n[Len(q) + 1] = x
      /\ \A i \in 1 .. Len(q) : n[i] = q[i]
  BY AppendIn
<1> HIDE DEF n
<1> SUFFICES ASSUME NEW i \in 1 .. Len(n), NEW j \in 1 .. Len(n), i < j PROVE Tok(n[i]) < Tok(n[j])
  BY DEF Increasing, n
<1>2. i \in 1 .. Len(q)
  BY <1>1
<1>3. CASE j \in 1 .. Len(q)
  BY <1>1, <1>2, <1>3 DEF Increasing
<1>4. CASE j = Len(q) + 1
  BY <1>1, <1>2, <1>4 DEF In
<1> QED
  BY <1>1, <1>3, <1>4

LEMMA TailIncreasing ==
    ASSUME NEW q \in Seq(Ids), q # <<>>, Increasing(q)
    PROVE  Increasing(Tail(q)) /\ \A i \in In(Tail(q)) : Tok(Head(q)) < Tok(i)
<1> DEFINE n == Tail(q)
<1>1. /\ Len(n) = Len(q) - 1 /\ Len(q) \in Nat \ {0} /\ Head(q) = q[1]
      /\ \A i \in 1 .. Len(n) : n[i] = q[i + 1]
  BY TailIn
<1> HIDE DEF n
<1>2. \A i \in 1 .. Len(n) : i + 1 \in 1 .. Len(q) /\ 1 \in 1 .. Len(q) /\ 1 < i + 1
  BY <1>1
<1>3. Increasing(n)
  <2> SUFFICES ASSUME NEW i \in 1 .. Len(n), NEW j \in 1 .. Len(n), i < j PROVE Tok(n[i]) < Tok(n[j])
    BY DEF Increasing
  <2>1. i + 1 < j + 1
    BY <1>1
  <2> QED
    BY <1>1, <1>2, <2>1 DEF Increasing
<1>4. \A i \in In(n) : Tok(Head(q)) < Tok(i)
  BY <1>1, <1>2 DEF Increasing, In
<1> QED
  BY <1>3, <1>4 DEF n

LEMMA PushForwardKeeps == ASSUME RingInv, PushForward PROVE RingInv'
<1> DEFINE x == core0.id
<1>1. /\ core0.pc = "push" /\ Len(fwd) < FifoDepth /\ fwd' = Append(fwd, x)
      /\ core0' = [pc |-> "poll", id |-> 0]
      /\ UNCHANGED <<conn, cur, used, pbufs, free, data, req, resp, rev, core1Vars, ghosts>>
  BY DEF PushForward, Room
<1>2. TypeOK /\ Signals /\ Order /\ fwd \in Seq(Ids) /\ x \in Ids /\ FifoDepth \in Nat
  BY RingSizes DEF RingInv, TypeOK
<1>3. fwd' \in Seq(Ids) /\ In(fwd)' = In(fwd) \cup {x} /\ Len(fwd') = Len(fwd) + 1 /\ Len(fwd) \in Nat
  BY <1>1, <1>2, AppendIn DEF In
<1>4. Ids0 = {x} /\ Ids0' = {} /\ Ids1' = Ids1 /\ In(rev)' = In(rev)
  BY <1>1 DEF Ids0, Ids1, In, core1Vars
<1>5. TypeOK'
  <2>1. core0' \in [pc : {"poll", "push", "overrun"}, id : Ids]
    BY <1>1, RingSizes
  <2>2. Len(fwd') <= FifoDepth
    BY <1>1, <1>2, <1>3
  <2> QED
    BY <1>1, <1>2, <1>3, <2>1, <2>2 DEF TypeOK, core1Vars, ghosts
<1>6. Signals'
  BY <1>1, <1>2, <1>3, <1>4 DEF Signals, Pending, Served, core1Vars
<1>7. Order'
  <2>1. Increasing(fwd')
    BY <1>1, <1>2, <1>4, AppendIncreasing DEF Order, Less
  <2>2. Increasing(fwd)' /\ Increasing(rev)'
    BY <1>1, <1>2, <2>1 DEF Order, Increasing, Tok
  <2>3. /\ Less(In(rev), Ids1)' /\ Less(In(rev), In(fwd))' /\ Less(In(rev), Ids0)'
        /\ Less(Ids1, In(fwd))' /\ Less(Ids1, Ids0)' /\ Less(In(fwd), Ids0)'
    BY <1>1, <1>2, <1>3, <1>4 DEF Order, Less, Tok
  <2>4. \A i \in In(rev)' \cup Ids1' \cup In(fwd)' \cup Ids0' : answered' < Tok(i)'
    BY <1>1, <1>2, <1>3, <1>4 DEF Order, Tok, ghosts
  <2> QED
    BY <2>2, <2>3, <2>4 DEF Order
<1> QED
  BY <1>1, <1>5, <1>6, <1>7, SignalMoves DEF RingInv, core1Vars, ghosts

-----------------------------------------------------------------------------
(***************************************************************************)
(* Core 1.                                                                 *)
(***************************************************************************)
LEMMA PushReverseKeeps == ASSUME RingInv, PushReverse PROVE RingInv'
<1> DEFINE x == core1.id
<1>1. /\ core1.pc = "push" /\ Len(rev) < FifoDepth /\ rev' = Append(rev, x)
      /\ core1' = [pc |-> "drain", id |-> 0]
      /\ UNCHANGED <<core0Vars, free, data, req, resp, fwd, entries, nextSeq, ghosts>>
  BY DEF PushReverse, Room
<1>2. TypeOK /\ Signals /\ Order /\ rev \in Seq(Ids) /\ x \in Ids /\ FifoDepth \in Nat
  BY RingSizes DEF RingInv, TypeOK
<1>3. rev' \in Seq(Ids) /\ In(rev)' = In(rev) \cup {x} /\ Len(rev') = Len(rev) + 1 /\ Len(rev) \in Nat
  BY <1>1, <1>2, AppendIn DEF In
<1>4. Ids1 = {x} /\ Ids1' = {} /\ Ids0' = Ids0 /\ In(fwd)' = In(fwd)
  BY <1>1 DEF Ids0, Ids1, In, core0Vars
<1>5. TypeOK'
  <2>1. core1' \in [pc : {"drain", "work", "push", "compact", "overrun"}, id : Ids]
    BY <1>1, RingSizes
  <2>2. Len(rev') <= FifoDepth
    BY <1>1, <1>2, <1>3
  <2> QED
    BY <1>1, <1>2, <1>3, <2>1, <2>2 DEF TypeOK, core0Vars, ghosts
<1>6. Signals'
  BY <1>1, <1>2, <1>3, <1>4 DEF Signals, Pending, Served, core0Vars
<1>7. Order'
  <2>1. Increasing(rev')
    BY <1>1, <1>2, <1>4, AppendIncreasing DEF Order, Less
  <2>2. Increasing(fwd)' /\ Increasing(rev)'
    BY <1>1, <1>2, <2>1 DEF Order, Increasing, Tok
  <2>3. /\ Less(In(rev), Ids1)' /\ Less(In(rev), In(fwd))' /\ Less(In(rev), Ids0)'
        /\ Less(Ids1, In(fwd))' /\ Less(Ids1, Ids0)' /\ Less(In(fwd), Ids0)'
    BY <1>1, <1>2, <1>3, <1>4 DEF Order, Less, Tok
  <2>4. \A i \in In(rev)' \cup Ids1' \cup In(fwd)' \cup Ids0' : answered' < Tok(i)'
    BY <1>1, <1>2, <1>3, <1>4 DEF Order, Tok, ghosts
  <2> QED
    BY <2>2, <2>3, <2>4 DEF Order
<1> QED
  BY <1>1, <1>5, <1>6, <1>7, SignalMoves DEF RingInv, core0Vars, ghosts

LEMMA PopKeeps == ASSUME RingInv, Pop PROVE RingInv'
<1> DEFINE x == Head(fwd)
<1>1. /\ core1.pc = "drain" /\ fwd # <<>> /\ fwd' = Tail(fwd)
      /\ core1' = [pc |-> "work", id |-> x]
      /\ UNCHANGED <<core0Vars, free, data, req, resp, rev, entries, nextSeq, ghosts>>
  BY DEF Pop, NextSignal
<1>2. TypeOK /\ Signals /\ Order /\ fwd \in Seq(Ids)
  BY DEF RingInv, TypeOK
<1>3. /\ fwd' \in Seq(Ids) /\ In(fwd)' \subseteq In(fwd) /\ x \in In(fwd) /\ x \in Ids
      /\ Len(fwd') = Len(fwd) - 1 /\ Len(fwd) \in Nat \ {0}
  BY <1>1, <1>2, TailIn DEF In
<1>4. Ids1 = {} /\ Ids1' = {x} /\ Ids0' = Ids0 /\ In(rev)' = In(rev)
  BY <1>1 DEF Ids0, Ids1, In, core0Vars
<1>5. TypeOK'
  <2>1. core1' \in [pc : {"drain", "work", "push", "compact", "overrun"}, id : Ids]
    BY <1>1, <1>3
  <2>2. Len(fwd') <= FifoDepth
    BY <1>2, <1>3, RingSizes DEF TypeOK
  <2> QED
    BY <1>1, <1>2, <1>3, <2>1, <2>2 DEF TypeOK, core0Vars, ghosts
<1>6. Signals'
  BY <1>1, <1>2, <1>3, <1>4 DEF Signals, Pending, Served, core0Vars
<1>7. Order'
  <2>1. Increasing(fwd') /\ \A i \in In(fwd') : Tok(x) < Tok(i)
    BY <1>1, <1>2, TailIncreasing DEF Order
  <2>2. Increasing(fwd)' /\ Increasing(rev)'
    BY <1>1, <1>2, <2>1 DEF Order, Increasing, Tok
  <2>3. Less(Ids1, In(fwd))'
    BY <1>1, <1>4, <2>1 DEF Less, Tok, In
  <2>4. /\ Less(In(rev), Ids1)' /\ Less(In(rev), In(fwd))' /\ Less(In(rev), Ids0)'
        /\ Less(Ids1, Ids0)' /\ Less(In(fwd), Ids0)'
    BY <1>1, <1>2, <1>3, <1>4 DEF Order, Less, Tok
  <2>5. \A i \in In(rev)' \cup Ids1' \cup In(fwd)' \cup Ids0' : answered' < Tok(i)'
    BY <1>1, <1>2, <1>3, <1>4 DEF Order, Tok, ghosts
  <2> QED
    BY <2>2, <2>3, <2>4, <2>5 DEF Order
<1> QED
  BY <1>1, <1>5, <1>6, <1>7, SignalMoves DEF RingInv, core0Vars, ghosts

LEMMA IdleKeeps == ASSUME RingInv, Idle PROVE RingInv'
<1>1. /\ core1.pc = "drain" /\ core1' = [pc |-> "compact", id |-> 0]
      /\ UNCHANGED <<core0Vars, ringVars, entries, nextSeq, ghosts>>
  BY DEF Idle
<1>2. Ids1' = {} /\ Ids0' = Ids0
  BY <1>1 DEF Ids0, Ids1, core0Vars
<1>3. TypeOK'
  <2>1. core1' \in [pc : {"drain", "work", "push", "compact", "overrun"}, id : Ids]
    BY <1>1, RingSizes
  <2> QED
    BY <1>1, <2>1 DEF RingInv, TypeOK, core0Vars, ringVars, ghosts
<1>4. Signals'
  BY <1>1, <1>2 DEF RingInv, Signals, Pending, Served, In, core0Vars, ringVars
<1>5. Order'
  BY <1>1, <1>2, OrderSame DEF Tok, core0Vars, ringVars, ghosts
<1> QED
  BY <1>1, <1>3, <1>4, <1>5, SignalMoves DEF RingInv, core0Vars, ringVars, ghosts

\* A request is done: the numbers and the order stay, and the request awaits its signal.
LEMMA DoneKeeps ==
    ASSUME RingInv, core1.pc = "work", NEW response \in RespType, Done(response),
           UNCHANGED <<core0Vars, fwd, rev, ghosts>>
    PROVE  Signals' /\ Order' /\ Numbered' /\ BuffersHeld'
<1> DEFINE x == core1.id
<1>1. TypeOK /\ Signals /\ Order /\ x \in Ids
  BY DEF RingInv, TypeOK
<1>2. /\ Pending(x) /\ req'[x].state = "done" /\ req' \in [Ids -> ReqType]
      /\ \A i \in Ids : /\ req'[i].tok = req[i].tok /\ req'[i].zc = req[i].zc
                        /\ req'[i].state = "empty" <=> req[i].state = "empty"
                        /\ i # x => req'[i] = req[i]
      /\ core1' = [pc |-> "push", id |-> x]
  BY <1>1, DoneFacts
<1>3. Ids1 = {x} /\ Ids1' = {x} /\ Ids0' = Ids0 /\ In(fwd)' = In(fwd) /\ In(rev)' = In(rev)
  BY <1>2 DEF Ids0, Ids1, In, core0Vars
<1>4. In(fwd) \subseteq Ids /\ In(rev) \subseteq Ids /\ Ids0 \subseteq Ids
  BY <1>1, InIds
<1>5. Signals'
  <2>1. x \notin In(rev)
    BY <1>1, <1>2 DEF Signals, Pending, Served
  <2>2. x \notin In(fwd) /\ x \notin Ids0
    <3>1. req[x].tok \in Nat
      <4>1. req[x] \in ReqType /\ req[x].state # "empty"
        BY <1>1, <1>2 DEF TypeOK, Pending
      <4>2. req[x].tok \in Tokens
        BY <4>1, ReqFields
      <4> QED
        BY <4>2 DEF Tokens
    <3>2. ~(Tok(x) < Tok(x))
      BY <3>1 DEF Tok
    <3> QED
      BY <1>1, <1>3, <3>2 DEF Order, Less
  <2>3. used' = {i \in Ids : req'[i].state # "empty"}
    BY <1>1, <1>2 DEF Signals, core0Vars
  <2>4. \A i \in In(fwd)' \cup Ids0' : Pending(i)'
    BY <1>1, <1>2, <1>3, <1>4, <2>2 DEF Signals, Pending
  <2>5. \A i \in In(rev)' : Served(i)'
    BY <1>1, <1>2, <1>3, <1>4, <2>1 DEF Signals, Served
  <2>6. (core1'.pc = "work" => Pending(core1.id)') /\ (core1'.pc = "push" => Served(core1.id)')
    BY <1>2 DEF Served
  <2> QED
    BY <2>3, <2>4, <2>5, <2>6 DEF Signals
<1>6. Order'
  <2>1. \A i \in In(fwd) \cup In(rev) \cup Ids0 \cup Ids1 : Tok(i)' = Tok(i)
    BY <1>1, <1>2, <1>3, <1>4 DEF Tok
  <2>2. UNCHANGED <<fwd, rev, answered>> /\ Ids0' \subseteq Ids0 /\ Ids1' \subseteq Ids1
    BY <1>3 DEF ghosts
  <2> QED
    BY <2>1, <2>2, OrderSame
<1>7. Numbered' /\ BuffersHeld'
  <2>1. UNCHANGED <<used, sent, answered, pbufs>> /\ cur' \in {cur, NoDelta}
    BY DEF core0Vars, ghosts
  <2> QED
    BY <1>2, <2>1, NumbersSame
<1> QED
  BY <1>5, <1>6, <1>7

\* Types of a step of Core 1 that serves a request.
LEMMA ServedTyped ==
    ASSUME RingInv, core1.pc = "work", NEW response \in RespType, Done(response),
           UNCHANGED <<core0Vars, fwd, rev, ghosts>>, free' \subseteq Slots,
           data' \in [Slots -> [toks : SUBSET Tokens, whole : BOOLEAN]],
           entries' \subseteq Entries, nextSeq' \in Nat \ {0}
    PROVE  TypeOK'
<1>1. TypeOK /\ Signals
  BY DEF RingInv
<1>2. core1.id \in Ids /\ req' \in [Ids -> ReqType] /\ resp' \in [Ids -> RespType]
      /\ core1' = [pc |-> "push", id |-> core1.id]
  BY <1>1, DoneFacts
<1>3. core1' \in [pc : {"drain", "work", "push", "compact", "overrun"}, id : Ids]
  BY <1>2
<1> QED
  BY <1>1, <1>2, <1>3 DEF TypeOK, core0Vars, ghosts

\* A no-op, or a read of nothing.
LEMMA ServeNothingKeeps == ASSUME RingInv, ServeNoop \/ ServeReadNothing PROVE RingInv'
<1> DEFINE x == core1.id
<1>1. /\ core1.pc = "work" /\ req[x].op \in {"noop", "read"} /\ Done(EmptyResp)
      /\ UNCHANGED <<core0Vars, free, data, fwd, rev, entries, nextSeq, ghosts>>
  BY DEF ServeNoop, ServeReadNothing, Working
<1>2. TypeOK /\ Signals /\ EmptyResp \in RespType
  BY DEF RingInv, RespType
<1>3. TypeOK'
  BY <1>1, <1>2, ServedTyped DEF TypeOK
<1>4. Signals' /\ Order' /\ Numbered' /\ BuffersHeld'
  BY <1>1, <1>2, DoneKeeps
<1>5. /\ x \in Ids /\ req'[x].state = "done" /\ resp'[x] = EmptyResp
      /\ \A i \in Ids : i # x => req'[i] = req[i] /\ resp'[i] = resp[i]
  BY <1>1, <1>2, DoneFacts
<1>6. Held' /\ Apart' /\ Contents'
  <2>1. \A i \in Ids : i = x => ~Appending(i)' /\ ~Answering(i)'
    BY <1>5 DEF Appending, Answering, Pending, Served, EmptyResp
  <2>2. \A i \in Ids : Appending(i)' => Appending(i) /\ req'[i] = req[i]
    BY <1>5, <2>1 DEF Appending, Pending
  <2>3. \A i \in Ids : Answering(i)' => Answering(i) /\ resp'[i] = resp[i]
    BY <1>5, <2>1 DEF Answering, Served
  <2>4. cur' \in {cur, NoDelta} /\ UNCHANGED <<free, data, entries>>
    BY <1>1 DEF core0Vars
  <2> QED
    BY <2>2, <2>3, <2>4, SlotsSame
<1> QED
  BY <1>3, <1>4, <1>6 DEF RingInv

\* Entries of different slots are no more than the slots, less one that none of them has.
LEMMA EntriesFit ==
    ASSUME RingInv, NEW F \in SUBSET entries, NEW T \in SUBSET Slots, \A e \in F : e.slot \in T
    PROVE  IsFiniteSet(F) /\ Cardinality(F) \in Nat /\ Cardinality(F) <= Cardinality(T)
<1> DEFINE f == [e \in F |-> e.slot]
<1>1. IsFiniteSet(T)
  BY RingSizes, FS_Subset
<1>2. \A e, g \in F : e.slot = g.slot => e = g
  BY DEF RingInv, Apart
<1>3. f \in Injection(F, T)
  BY <1>2 DEF Injection, IsInjective
<1>4. IsFiniteSet(F) /\ Cardinality(F) <= Cardinality(T)
  BY <1>1, <1>3, FS_Injection
<1> QED
  BY <1>4, FS_CardinalityType

LEMMA ServeAppendKeeps == ASSUME RingInv, ServeAppend PROVE RingInv'
<1> DEFINE x == core1.id
           r == req[x]
           s == r.slot
           new == [tok |-> r.tok, key |-> r.key, tomb |-> r.tomb, slot |-> s, seq |-> nextSeq]
<1>1. core1.pc = "work" /\ r.op = "append" /\ Done(EmptyResp)
  BY DEF ServeAppend, Working
<1>2. /\ data' = [data EXCEPT ![s] = Arrived(@, r.zc)] /\ entries' = entries \cup {new}
      /\ nextSeq' = nextSeq + 1
      /\ UNCHANGED <<core0Vars, free, fwd, rev, ghosts>>
  BY DEF ServeAppend
<1>3. TypeOK /\ Signals /\ Held /\ Apart /\ Contents /\ EmptyResp \in RespType
  BY DEF RingInv, RespType
<1>4. /\ x \in Ids /\ Pending(x) /\ req'[x].state = "done" /\ resp'[x] = EmptyResp
      /\ \A i \in Ids : i # x => req'[i] = req[i] /\ resp'[i] = resp[i]
  BY <1>1, <1>3, DoneFacts
<1>5. Appending(x)
  BY <1>1, <1>4 DEF Appending
<1>6. r \in ReqType /\ r.state # "empty"
  BY <1>3, <1>4 DEF TypeOK, Pending
<1>7. r.tok \in Tokens /\ r.key \in Keys /\ r.tomb \in BOOLEAN /\ s \in Slots /\ r.zc \in BOOLEAN
  BY <1>1, <1>6, ReqFields
<1>8. nextSeq \in Nat \ {0} /\ nextSeq + 1 \in Nat \ {0}
  BY <1>3 DEF TypeOK
<1>9. new \in Entries /\ new.slot = s /\ new.tok = r.tok
  BY <1>7, <1>8 DEF Entries
<1> HIDE DEF x, r, s, new
<1>10. /\ data \in [Slots -> [toks : SUBSET Tokens, whole : BOOLEAN]]
       /\ data[s] = [toks |-> {r.tok}, whole |-> ~r.zc]
  BY <1>3, <1>4, <1>5 DEF TypeOK, Contents, r, s
<1>11. Arrived(data[s], r.zc) = [toks |-> {r.tok}, whole |-> TRUE]
  <2>1. data[s] \in [toks : SUBSET Tokens, whole : BOOLEAN] /\ data[s].toks = {r.tok}
    BY <1>7, <1>10
  <2>2. CASE r.zc = TRUE
    BY <2>1, <2>2, MarkWhole DEF Arrived
  <2>3. CASE r.zc = FALSE
    BY <1>10, <2>3 DEF Arrived
  <2> QED
    BY <1>7, <2>2, <2>3
<1>12. [toks |-> {r.tok}, whole |-> TRUE] \in [toks : SUBSET Tokens, whole : BOOLEAN]
  BY <1>7
<1>13. /\ data' \in [Slots -> [toks : SUBSET Tokens, whole : BOOLEAN]]
       /\ data'[s] = [toks |-> {r.tok}, whole |-> TRUE]
       /\ \A p \in Slots : p # s => data'[p] = data[p]
  BY <1>2, <1>7, <1>10, <1>11, <1>12
<1>14. TypeOK'
  <2>1. entries' \subseteq Entries /\ nextSeq' \in Nat \ {0} /\ free' \subseteq Slots
    BY <1>2, <1>3, <1>8, <1>9 DEF TypeOK
  <2> QED
    BY <1>1, <1>2, <1>3, <1>13, <2>1, ServedTyped
<1>15. Signals' /\ Order' /\ Numbered' /\ BuffersHeld'
  BY <1>1, <1>2, <1>3, DoneKeeps
<1>16. /\ \A i \in Ids : Appending(i)' => Appending(i) /\ req'[i] = req[i] /\ i # x
       /\ \A i \in Ids : Answering(i)' => Answering(i) /\ resp'[i] = resp[i]
  BY <1>4 DEF Appending, Answering, Pending, Served, EmptyResp
<1>17. cur' = cur /\ free' = free
  BY <1>2 DEF core0Vars
<1>18. /\ s \notin free
       /\ \A e \in entries : e.slot # s
       /\ \A i \in Ids : Appending(i) /\ i # x => req[i].slot # s
       /\ \A i \in Ids : Answering(i) => resp[i].slot # s
       /\ cur # NoDelta => cur.slot # s
  BY <1>3, <1>4, <1>5 DEF Held, Apart, r, s
<1>19. Held'
  BY <1>2, <1>3, <1>9, <1>16, <1>17, <1>18 DEF Held
<1>20. Apart'
  <2>1. /\ \A i, j \in Ids : Appending(i)' /\ Appending(j)' /\ req'[i].slot = req'[j].slot => i = j
        /\ \A i, j \in Ids : Appending(i)' /\ Answering(j)' => req'[i].slot # resp'[j].slot
        /\ \A i, j \in Ids : Answering(i)' /\ Answering(j)' /\ resp'[i].slot = resp'[j].slot => i = j
    BY <1>3, <1>16 DEF Apart
  <2>2. /\ \A i \in Ids, e \in entries' : Appending(i)' => req'[i].slot # e.slot
        /\ \A e, f \in entries' : e.slot = f.slot => e = f
        /\ \A e \in entries', i \in Ids : Answering(i)' => e.slot # resp'[i].slot
    BY <1>2, <1>3, <1>9, <1>16, <1>18 DEF Apart
  <2>3. cur # NoDelta => /\ \A i \in Ids : Appending(i)' => req'[i].slot # cur.slot
                         /\ \A e \in entries' : e.slot # cur.slot
                         /\ \A i \in Ids : Answering(i)' => resp'[i].slot # cur.slot
    BY <1>2, <1>3, <1>9, <1>16, <1>18 DEF Apart
  <2> QED
    BY <1>17, <2>1, <2>2, <2>3 DEF Apart
<1>21. Contents'
  <2>1. /\ \A i \in Ids : Appending(i) => req[i].slot \in Slots
        /\ \A i \in Ids : Answering(i) => resp[i].slot \in Slots
        /\ \A e \in entries : e.slot \in Slots
        /\ cur # NoDelta => cur.slot \in Slots
    BY <1>3, SlotsOf
  <2>2. cur # NoDelta => data'[cur.slot].toks = {cur.tok}
    BY <1>3, <1>13, <1>18, <2>1 DEF Contents
  <2>3. ASSUME NEW i \in Ids, Appending(i)'
        PROVE  data'[req'[i].slot] = [toks |-> {req'[i].tok}, whole |-> ~req'[i].zc]
    <3>1. Appending(i) /\ req'[i] = req[i] /\ req[i].slot # s /\ req[i].slot \in Slots
      BY <1>16, <1>18, <2>1, <2>3
    <3>2. data[req[i].slot] = [toks |-> {req[i].tok}, whole |-> ~req[i].zc]
      BY <1>3, <3>1 DEF Contents
    <3> QED
      BY <1>13, <3>1, <3>2
  <2>4. \A e \in entries' : data'[e.slot] = [toks |-> {e.tok}, whole |-> TRUE]
    BY <1>2, <1>3, <1>9, <1>13, <1>18, <2>1 DEF Contents
  <2>5. \A i \in Ids : Answering(i)' => data'[resp'[i].slot].toks = resp'[i].toks
    BY <1>3, <1>13, <1>16, <1>18, <2>1 DEF Contents
  <2> QED
    BY <1>17, <2>2, <2>3, <2>4, <2>5 DEF Contents
<1> QED
  BY <1>14, <1>15, <1>19, <1>20, <1>21 DEF RingInv

LEMMA ServeReadKeeps == ASSUME RingInv, ServeRead PROVE RingInv'
<1> DEFINE x == core1.id
           found == Of(req[x].key)
           packed(last) == UNION {data[e.slot].toks : e \in {f \in found : f.seq <= last}}
           answer(s, last) == [slot |-> s, toks |-> packed(last), count |-> Cardinality(found)]
<1>1. core1.pc = "work" /\ req[x].op = "read" /\ UNCHANGED <<core0Vars, fwd, rev, entries, nextSeq, ghosts>>
  BY DEF ServeRead, Working
<1>2. PICK s \in free, last \in {e.seq : e \in found} :
        /\ data' = [data EXCEPT ![s] = [toks |-> packed(last), whole |-> TRUE]]
        /\ free' = free \ {s}
        /\ Done(answer(s, last))
  BY DEF ServeRead
<1> DEFINE p == packed(last)
           a == answer(s, last)
<1>3. TypeOK /\ Signals /\ Held /\ Apart /\ Contents
  BY DEF RingInv
<1>4. s \in Slots /\ data \in [Slots -> [toks : SUBSET Tokens, whole : BOOLEAN]]
  BY <1>3 DEF TypeOK
<1>5. found \in SUBSET entries /\ found # {}
  BY DEF Of
<1>6. p \subseteq Tokens
  <2>1. \A e \in entries : data[e.slot].toks \subseteq Tokens
    BY <1>3, <1>4, SlotsOf
  <2> QED
    BY <1>5, <2>1
<1>7. Cardinality(found) \in 1 .. Cardinality(Slots)
  <2>1. \A e \in found : e.slot \in Slots
    BY <1>3, <1>5, SlotsOf
  <2>2. IsFiniteSet(found) /\ Cardinality(found) \in Nat /\ Cardinality(found) <= Cardinality(Slots)
    BY <1>5, <2>1, EntriesFit
  <2>3. Cardinality(found) # 0
    BY <1>5, <2>2, FS_EmptySet
  <2> QED
    BY <2>2, <2>3, RingSizes
<1> HIDE DEF x, found, packed
<1>8. a \in RespType /\ a.slot = s /\ a.toks = p
  BY <1>4, <1>6, <1>7 DEF RespType
<1>9. Done(a) /\ data' = [data EXCEPT ![s] = [toks |-> p, whole |-> TRUE]]
  BY <1>2
<1>10. [toks |-> p, whole |-> TRUE] \in [toks : SUBSET Tokens, whole : BOOLEAN]
  BY <1>6
<1> HIDE DEF a, p
<1>11. /\ data' \in [Slots -> [toks : SUBSET Tokens, whole : BOOLEAN]]
       /\ data'[s].toks = p /\ \A q \in Slots : q # s => data'[q] = data[q]
  BY <1>4, <1>9, <1>10
<1>12. /\ x \in Ids /\ Pending(x) /\ req'[x].state = "done" /\ resp'[x] = a
       /\ \A i \in Ids : i # x => req'[i] = req[i] /\ resp'[i] = resp[i]
  BY <1>1, <1>3, <1>8, <1>9, DoneFacts DEF x
<1>13. TypeOK'
  <2>1. free' \subseteq Slots /\ entries' \subseteq Entries /\ nextSeq' \in Nat \ {0}
    BY <1>1, <1>2, <1>3 DEF TypeOK
  <2> QED
    BY <1>1, <1>8, <1>9, <1>11, <2>1, ServedTyped
<1>14. Signals' /\ Order' /\ Numbered' /\ BuffersHeld'
  BY <1>1, <1>8, <1>9, DoneKeeps
<1>15. /\ \A i \in Ids : Appending(i)' => Appending(i) /\ req'[i] = req[i] /\ i # x
       /\ \A i \in Ids : Answering(i)' => i = x \/ (Answering(i) /\ resp'[i] = resp[i])
  BY <1>12 DEF Appending, Answering, Pending, Served
<1>16. cur' = cur /\ entries' = entries
  BY <1>1 DEF core0Vars
<1>17. /\ \A e \in entries : e.slot # s
       /\ \A i \in Ids : Appending(i) => req[i].slot # s
       /\ \A i \in Ids : Answering(i) => resp[i].slot # s
       /\ cur # NoDelta => cur.slot # s
  BY <1>2, <1>3 DEF Held
<1>18. Held'
  BY <1>2, <1>3, <1>8, <1>12, <1>15, <1>16, <1>17 DEF Held
<1>19. Apart'
  <2>1. /\ \A i, j \in Ids : Appending(i)' /\ Appending(j)' /\ req'[i].slot = req'[j].slot => i = j
        /\ \A i, j \in Ids : Appending(i)' /\ Answering(j)' => req'[i].slot # resp'[j].slot
        /\ \A i, j \in Ids : Answering(i)' /\ Answering(j)' /\ resp'[i].slot = resp'[j].slot => i = j
    BY <1>3, <1>8, <1>12, <1>15, <1>17 DEF Apart
  <2>2. /\ \A i \in Ids, e \in entries : Appending(i)' => req'[i].slot # e.slot
        /\ \A e, f \in entries : e.slot = f.slot => e = f
        /\ \A e \in entries, i \in Ids : Answering(i)' => e.slot # resp'[i].slot
    BY <1>3, <1>8, <1>12, <1>15, <1>17 DEF Apart
  <2>3. cur # NoDelta => /\ \A i \in Ids : Appending(i)' => req'[i].slot # cur.slot
                         /\ \A e \in entries : e.slot # cur.slot
                         /\ \A i \in Ids : Answering(i)' => resp'[i].slot # cur.slot
    BY <1>3, <1>8, <1>12, <1>15, <1>17 DEF Apart
  <2> QED
    BY <1>16, <2>1, <2>2, <2>3 DEF Apart
<1>20. Contents'
  <2>1. /\ \A i \in Ids : Appending(i) => req[i].slot \in Slots
        /\ \A i \in Ids : Answering(i) => resp[i].slot \in Slots
        /\ \A e \in entries : e.slot \in Slots
        /\ cur # NoDelta => cur.slot \in Slots
    BY <1>3, SlotsOf
  <2>2. cur # NoDelta => data'[cur.slot].toks = {cur.tok}
    BY <1>3, <1>11, <1>17, <2>1 DEF Contents
  <2>3. ASSUME NEW i \in Ids, Appending(i)'
        PROVE  data'[req'[i].slot] = [toks |-> {req'[i].tok}, whole |-> ~req'[i].zc]
    <3>1. Appending(i) /\ req'[i] = req[i] /\ req[i].slot # s /\ req[i].slot \in Slots
      BY <1>15, <1>17, <2>1, <2>3
    <3>2. data[req[i].slot] = [toks |-> {req[i].tok}, whole |-> ~req[i].zc]
      BY <1>3, <3>1 DEF Contents
    <3> QED
      BY <1>11, <3>1, <3>2
  <2>4. \A e \in entries : data'[e.slot] = [toks |-> {e.tok}, whole |-> TRUE]
    BY <1>3, <1>11, <1>17, <2>1 DEF Contents
  <2>5. \A i \in Ids : Answering(i)' => data'[resp'[i].slot].toks = resp'[i].toks
    BY <1>3, <1>8, <1>11, <1>12, <1>15, <1>17, <2>1 DEF Contents
  <2> QED
    BY <1>16, <2>2, <2>3, <2>4, <2>5 DEF Contents
<1> QED
  BY <1>13, <1>14, <1>18, <1>19, <1>20 DEF RingInv

\* Entries are dropped, and their slots go back to the pool.
LEMMA CompactKeeps == ASSUME RingInv, Compact PROVE RingInv'
<1>1. PICK k \in Keys : entries' = entries \ Dropped(k) /\ free' = free \cup Released(k)
  BY DEF Compact
<1>2. /\ core1.pc = "compact" /\ core1' = [pc |-> "drain", id |-> 0]
      /\ UNCHANGED <<core0Vars, data, req, resp, fwd, rev, nextSeq, ghosts>>
  BY DEF Compact
<1>3. TypeOK /\ Held /\ Apart /\ Contents
  BY DEF RingInv
<1>4. Dropped(k) \subseteq entries /\ Released(k) = {e.slot : e \in Dropped(k)}
  BY DEF Dropped, Older, Of, Released
<1>5. TypeOK'
  <2>1. entries' \subseteq Entries /\ free' \subseteq Slots
    BY <1>1, <1>3, <1>4, SlotsOf DEF TypeOK
  <2>2. core1' \in [pc : {"drain", "work", "push", "compact", "overrun"}, id : Ids]
    BY <1>2, RingSizes
  <2> QED
    BY <1>2, <1>3, <2>1, <2>2 DEF TypeOK, core0Vars, ghosts
<1>6. Ids1' = {} /\ Ids0' = Ids0
  BY <1>2 DEF Ids0, Ids1, core0Vars
<1>7. Signals'
  BY <1>2, <1>6 DEF RingInv, Signals, Pending, Served, In, core0Vars
<1>8. Order'
  BY <1>2, <1>6, OrderSame DEF Tok, ghosts
<1>9. Numbered' /\ BuffersHeld'
  BY <1>2, NumbersSame DEF RingInv, TypeOK, core0Vars, ghosts
<1>10. \A i \in Ids : (Appending(i)' <=> Appending(i)) /\ (Answering(i)' <=> Answering(i))
  BY <1>2 DEF Appending, Answering, Pending, Served
<1>11. cur' = cur /\ req' = req /\ resp' = resp /\ data' = data
  BY <1>2 DEF core0Vars
<1>12. Held'
  <2>1. cur # NoDelta => cur.slot \notin free'
    BY <1>1, <1>3, <1>4 DEF Held, Apart
  <2>2. \A i \in Ids : Appending(i) => req[i].slot \notin free'
    BY <1>1, <1>3, <1>4 DEF Held, Apart
  <2>3. \A e \in entries' : e.slot \notin free'
    BY <1>1, <1>3, <1>4 DEF Held, Apart
  <2>4. \A i \in Ids : Answering(i) => resp[i].slot \notin free'
    BY <1>1, <1>3, <1>4 DEF Held, Apart
  <2> QED
    BY <1>10, <1>11, <2>1, <2>2, <2>3, <2>4 DEF Held
<1>13. Apart'
  BY <1>1, <1>3, <1>10, <1>11 DEF Apart
<1>14. Contents'
  BY <1>1, <1>3, <1>10, <1>11 DEF Contents
<1> QED
  BY <1>5, <1>7, <1>8, <1>9, <1>12, <1>13, <1>14 DEF RingInv

\* An answer is sent: what its request held is released.
LEMMA DrainKeeps ==
    ASSUME RingInv, Drain
    PROVE  RingInv' /\ (answered' = answered \/ (answered' > answered /\ answered' = req[Head(rev)].tok))
<1> DEFINE x == Head(rev)
<1>1. /\ rev # <<>> /\ rev' = Tail(rev)
      /\ (answered' = req[x].tok /\ UNCHANGED refused)
         \/ (refused' = refused \cup {req[x].tok} /\ UNCHANGED answered)
      /\ free' = free \cup AnswerSlot(x) /\ pbufs' = pbufs \ ReleasedBuffer(x)
      /\ used' = used \ {x} /\ req' = [req EXCEPT ![x] = EmptyReq] /\ resp' = [resp EXCEPT ![x] = EmptyResp]
      /\ UNCHANGED <<conn, cur, core0, data, fwd, core1Vars, lost, sent, clients>>
  BY DEF Drain
<1>2. TypeOK /\ Signals /\ Order /\ Numbered /\ Held /\ Apart /\ Contents /\ BuffersHeld /\ rev \in Seq(Ids)
  BY DEF RingInv, TypeOK
<1>3. /\ rev' \in Seq(Ids) /\ In(rev)' \subseteq In(rev) /\ x \in In(rev) /\ x \in Ids
      /\ Len(rev') = Len(rev) - 1 /\ Len(rev) \in Nat \ {0}
  BY <1>1, <1>2, TailIn DEF In
<1>4. Served(x) /\ req[x] \in ReqType /\ req[x].state = "done"
  BY <1>2, <1>3 DEF Signals, Served, TypeOK
<1>5. req[x].tok \in Tokens /\ req[x].tok \in Nat /\ x \in used
  BY <1>2, <1>3, <1>4, ReqFields DEF Signals, Tokens
<1>6. EmptyReq \in ReqType /\ EmptyReq.state = "empty" /\ EmptyReq.zc = FALSE /\ EmptyResp \in RespType
  BY DEF ReqType, RespType, EmptyReq
<1>7. /\ req' \in [Ids -> ReqType] /\ req'[x] = EmptyReq /\ \A i \in Ids : i # x => req'[i] = req[i]
      /\ resp' \in [Ids -> RespType] /\ \A i \in Ids : i # x => resp'[i] = resp[i]
  BY <1>1, <1>2, <1>3, <1>6 DEF TypeOK
<1> HIDE DEF x
<1>8. TypeOK'
  <2>1. free' \subseteq Slots
    <3>1. AnswerSlot(x) \subseteq Slots
      <4>1. Answering(x) => resp[x].slot \in Slots
        BY <1>2, <1>3, SlotsOf
      <4> QED
        BY <1>4, <4>1 DEF AnswerSlot, Answering
    <3> QED
      BY <1>1, <1>2, <3>1 DEF TypeOK
  <2>2. Len(rev') <= FifoDepth
    BY <1>2, <1>3, RingSizes DEF TypeOK
  <2>3. answered' \in 0 .. MaxReqs
    BY <1>1, <1>2, <1>5, RingSizes DEF Tokens, TypeOK
  <2>4. refused' \subseteq Tokens
    BY <1>1, <1>2, <1>5 DEF TypeOK
  <2> QED
    BY <1>1, <1>2, <1>3, <1>7, <2>1, <2>2, <2>3, <2>4 DEF TypeOK, core1Vars
<1>9. /\ Ids0' = Ids0 /\ Ids1' = Ids1 /\ In(fwd)' = In(fwd)
      /\ In(fwd) \subseteq Ids /\ In(rev) \subseteq Ids /\ Ids0 \subseteq Ids /\ Ids1 \subseteq Ids
  BY <1>1, <1>2, InIds DEF Ids0, Ids1, In, core1Vars
<1>10. /\ \A i \in In(rev') : Tok(x) < Tok(i)
       /\ \A i \in In(fwd) \cup Ids0 \cup Ids1 : Tok(x) < Tok(i)
       /\ answered < Tok(x)
       /\ Increasing(rev')
  <2>1. Increasing(rev') /\ \A i \in In(rev') : Tok(x) < Tok(i)
    BY <1>1, <1>2, TailIncreasing DEF Order, x
  <2> QED
    BY <1>2, <1>3, <2>1 DEF Order, Less
<1>11. ~(Tok(x) < Tok(x))
  BY <1>5 DEF Tok
<1>12. /\ \A i \in In(rev') \cup In(fwd) \cup Ids0 \cup Ids1 : i # x /\ i \in Ids /\ req'[i] = req[i]
       /\ In(rev') = In(rev)'
  <2>1. In(rev') = In(rev)'
    BY DEF In
  <2> QED
    BY <1>3, <1>7, <1>9, <1>10, <1>11, <2>1
<1>13. Signals'
  <2>1. used' = {i \in Ids : req'[i].state # "empty"}
    BY <1>1, <1>2, <1>6, <1>7 DEF Signals
  <2>2. \A i \in In(fwd)' \cup Ids0' : Pending(i)'
    BY <1>2, <1>9, <1>12 DEF Signals, Pending
  <2>3. \A i \in In(rev)' : Served(i)'
    BY <1>2, <1>3, <1>12 DEF Signals, Served
  <2>4. (core1'.pc = "work" => Pending(core1.id)') /\ (core1'.pc = "push" => Served(core1.id)')
    BY <1>1, <1>2, <1>12 DEF Signals, Pending, Served, Ids1, core1Vars
  <2> QED
    BY <2>1, <2>2, <2>3, <2>4 DEF Signals
<1>14. Order'
  <2>1. \A i \in In(rev)' \cup In(fwd) \cup Ids0 \cup Ids1 : Tok(i)' = Tok(i)
    BY <1>12 DEF Tok
  <2>2. Increasing(fwd)' /\ Increasing(rev)'
    BY <1>1, <1>2, <1>10, <2>1, SMTT(30) DEF Order, Increasing, In
  <2>3. /\ Less(In(rev), Ids1)' /\ Less(In(rev), In(fwd))' /\ Less(In(rev), Ids0)'
        /\ Less(Ids1, In(fwd))' /\ Less(Ids1, Ids0)' /\ Less(In(fwd), Ids0)'
    BY <1>2, <1>3, <1>9, <2>1 DEF Order, Less
  <2>4. \A i \in In(rev)' \cup Ids1' \cup In(fwd)' \cup Ids0' : answered' < Tok(i)'
    <3> SUFFICES ASSUME NEW i \in In(rev') \cup Ids1 \cup In(fwd) \cup Ids0 PROVE answered' < Tok(i)'
      BY <1>9, <1>12
    <3>1. Tok(i)' = Tok(i) /\ Tok(x) < Tok(i)
      BY <1>10, <1>12, <2>1
    <3>2. answered < Tok(i)
      BY <1>2, <1>3, <1>12 DEF Order
    <3> QED
      BY <1>1, <3>1, <3>2 DEF Tok
  <2> QED
    BY <2>2, <2>3, <2>4 DEF Order
<1>15. Numbered'
  <2>1. \A i \in used' : i \in used /\ Tok(i)' = Tok(i)
    BY <1>1, <1>2, <1>7 DEF Tok, TypeOK
  <2>2. answered' <= sent' /\ (cur' # NoDelta => answered' < cur'.tok)
    BY <1>1, <1>2, <1>5 DEF Numbered, Tok
  <2> QED
    BY <1>1, <1>2, <2>1, <2>2 DEF Numbered
<1>16. BuffersHeld'
  <2>1. \A i \in Ids : i # x /\ req[i].zc => req[i].tok # req[x].tok
    <3> SUFFICES ASSUME NEW i \in Ids, i # x, req[i].zc PROVE req[i].tok # req[x].tok
      OBVIOUS
    <3>1. req[i].state # "empty"
      BY <1>2, ReqFields DEF TypeOK
    <3>2. i \in used
      BY <1>2, <3>1 DEF Signals
    <3> QED
      BY <1>2, <1>5, <3>2 DEF Numbered, Tok
  <2>2. ReleasedBuffer(x) = {t \in {req[x].tok} : req[x].zc}
    BY DEF ReleasedBuffer
  <2>3. pbufs' = {req[i].tok : i \in {j \in Ids : req[j].zc /\ j # x}}
    BY <1>1, <1>2, <1>3, <2>1, <2>2 DEF BuffersHeld
  <2>4. {j \in Ids : req'[j].zc} = {j \in Ids : req[j].zc /\ j # x}
    BY <1>6, <1>7
  <2>5. {req'[i].tok : i \in {j \in Ids : req[j].zc /\ j # x}} = {req[i].tok : i \in {j \in Ids : req[j].zc /\ j # x}}
    BY <1>7
  <2> QED
    BY <2>3, <2>4, <2>5 DEF BuffersHeld
<1>17. /\ \A i \in Ids : Appending(i)' => Appending(i) /\ req'[i] = req[i]
       /\ \A i \in Ids : Answering(i)' => Answering(i) /\ resp'[i] = resp[i] /\ i # x
  BY <1>6, <1>7 DEF Appending, Answering, Pending, Served
<1>18. cur' = cur /\ entries' = entries /\ data' = data
  BY <1>1 DEF core1Vars
<1>19. Held'
  <2>1. \A t \in AnswerSlot(x) : Answering(x) /\ t = resp[x].slot
    BY <1>4 DEF AnswerSlot, Answering
  <2>2. cur # NoDelta => cur.slot \notin free'
    BY <1>1, <1>2, <1>3, <2>1 DEF Held, Apart
  <2>3. \A i \in Ids : Appending(i) => req[i].slot \notin free'
    BY <1>1, <1>2, <1>3, <2>1 DEF Held, Apart
  <2>4. \A e \in entries : e.slot \notin free'
    BY <1>1, <1>2, <1>3, <2>1 DEF Held, Apart
  <2>5. \A i \in Ids : Answering(i) /\ i # x => resp[i].slot \notin free'
    BY <1>1, <1>2, <1>3, <2>1 DEF Held, Apart
  <2> QED
    BY <1>17, <1>18, <2>2, <2>3, <2>4, <2>5 DEF Held
<1>20. Apart'
  BY <1>2, <1>17, <1>18 DEF Apart
<1>21. Contents'
  BY <1>2, <1>17, <1>18 DEF Contents
<1>22. answered' = answered \/ (answered' > answered /\ answered' = req[x].tok)
  BY <1>1, <1>2, <1>5, <1>10, RingSizes DEF TypeOK, Tok
<1> QED
  BY <1>8, <1>13, <1>14, <1>15, <1>16, <1>19, <1>20, <1>21, <1>22 DEF RingInv, x

-----------------------------------------------------------------------------
(***************************************************************************)
(* The invariant, and what it gives.                                       *)
(***************************************************************************)
\* At start nothing is under way and every slot is free.
LEMMA RingInit == Init => RingInv
<1> SUFFICES ASSUME Init PROVE RingInv
  OBVIOUS
<1>1. TypeOK
  <2>1. req \in [Ids -> ReqType] /\ resp \in [Ids -> RespType]
    BY DEF Init, ReqType, RespType
  <2>2. core0 \in [pc : {"poll", "push", "overrun"}, id : Ids]
    BY RingSizes DEF Init
  <2>3. core1 \in [pc : {"drain", "work", "push", "compact", "overrun"}, id : Ids]
    BY RingSizes DEF Init
  <2>4. data \in [Slots -> [toks : SUBSET Tokens, whole : BOOLEAN]]
    BY DEF Init
  <2>5. fwd \in Seq(Ids) /\ Len(fwd) = 0 /\ rev \in Seq(Ids) /\ Len(rev) = 0
    BY DEF Init
  <2>6. answered \in 0 .. MaxReqs /\ sent \in 0 .. MaxReqs /\ clients \in 0 .. MaxClients
    BY RingSizes DEF Init
  <2>7. Len(fwd) <= FifoDepth /\ Len(rev) <= FifoDepth /\ nextSeq \in Nat \ {0}
    BY <2>5, RingSizes DEF Init
  <2>8. /\ conn \in BOOLEAN /\ cur \in Deltas \cup {NoDelta} /\ used \subseteq Ids /\ lost \subseteq Ids
        /\ pbufs \subseteq Tokens /\ free \subseteq Slots /\ entries \subseteq Entries
        /\ refused \subseteq Tokens
    BY DEF Init
  <2> QED
    BY <2>1, <2>2, <2>3, <2>4, <2>5, <2>6, <2>7, <2>8 DEF TypeOK
<1>2. \A i \in Ids : req[i] = EmptyReq /\ req[i].state = "empty" /\ req[i].zc = FALSE
  BY DEF Init, EmptyReq
<1>3. In(fwd) = {} /\ In(rev) = {} /\ Ids0 = {} /\ Ids1 = {}
  BY DEF Init, In, Ids0, Ids1
<1>4. Signals
  BY <1>2, <1>3 DEF Init, Signals
<1>5. Order
  <2>1. Len(fwd) = 0 /\ Len(rev) = 0
    BY DEF Init
  <2> QED
    BY <1>3, <2>1 DEF Order, Less, Increasing
<1>6. Numbered /\ BuffersHeld
  BY <1>2 DEF Init, Numbered, BuffersHeld
<1>7. Held /\ Apart /\ Contents
  BY <1>2 DEF Init, Held, Apart, Contents, Appending, Answering, Pending, Served
<1> QED
  BY <1>1, <1>4, <1>5, <1>6, <1>7 DEF RingInv

\* Every step keeps the invariant.
LEMMA RingStep == RingInv /\ [Next]_vars => RingInv'
<1> SUFFICES ASSUME RingInv, [Next]_vars PROVE RingInv'
  OBVIOUS
<1>1. CASE Receive
  BY <1>1, RecvNoopKeeps, RecvReadKeeps, RecvAppendKeeps, RecvAppendHeaderKeeps, RecvAppendRestKeeps,
     OverrunKeeps, RefuseKeeps DEF Receive, RefuseFull
<1>2. CASE Disconnect \/ Accept \/ Signal0 \/ Drain
  BY <1>2, ClientKeeps, PushForwardKeeps, GiveUpKeeps, DrainKeeps DEF Signal0
<1>3. CASE Serve
  BY <1>3, ServeNothingKeeps, ServeAppendKeeps, ServeReadKeeps DEF Serve
<1>4. CASE Pop \/ PushReverse \/ GiveUpReverse \/ Idle \/ Compact
  BY <1>4, PopKeeps, PushReverseKeeps, GiveUpKeeps, IdleKeeps, CompactKeeps
<1>5. CASE UNCHANGED vars
  <2>1. UNCHANGED <<core0Vars, ringVars, core1Vars, ghosts>>
    BY <1>5 DEF vars
  <2>2. TypeOK'
    BY <2>1 DEF RingInv, TypeOK, core0Vars, ringVars, core1Vars, ghosts
  <2>3. Signals'
    BY <2>1 DEF RingInv, Signals, Pending, Served, In, Ids0, core0Vars, ringVars, core1Vars
  <2>4. Order'
    BY <2>1, OrderSame DEF Ids0, Ids1, Tok, core0Vars, ringVars, core1Vars, ghosts
  <2> QED
    BY <2>1, <2>2, <2>3, <2>4, SignalMoves DEF RingInv, core0Vars, ringVars, core1Vars, ghosts
<1> QED
  BY <1>1, <1>2, <1>3, <1>4, <1>5 DEF Next, Core0Step, Core1Step

LEMMA RingAlways == Spec => []RingInv
BY RingInit, RingStep, PTL DEF Spec

\* Every variable keeps to its range: the FIFOs never pass their depth, the number of deltas an
\* answer tells of never passes the number of slots.
THEOREM RingTyped == Spec => []TypeOK
<1>1. RingInv => TypeOK
  BY DEF RingInv
<1> QED
  BY RingAlways, <1>1, PTL

\* Who is an owner, by kind.
LEMMA OwnerKinds ==
    ASSUME NEW s \in Slots, NEW o \in Owners(s)
    PROVE  \/ o = <<"cur", 0>> /\ cur # NoDelta /\ cur.slot = s
           \/ \E i \in Ids : o = <<"req", i>> /\ Appending(i) /\ req[i].slot = s
           \/ \E e \in entries : o = <<"entry", e.seq>> /\ e.slot = s
           \/ \E i \in Ids : o = <<"resp", i>> /\ Answering(i) /\ resp[i].slot = s
BY DEF Owners, Appending, Answering, Pending, Served, Waiting, AnswerSlot

\* A slot never has two owners, and none while it is free, however the claims, hand-overs and
\* releases of the two cores interleave (slot_free, slot_claim, slot_release).
THEOREM OwnedOnce == Spec => []SlotsOwnedOnce
<1>1. RingInv => SlotsOwnedOnce
  <2> SUFFICES ASSUME Held, Apart, NEW s \in Slots, NEW o \in Owners(s), NEW p \in Owners(s)
               PROVE  s \notin free /\ o = p
    BY DEF RingInv, SlotsOwnedOnce
  <2>1. s \notin free
    BY OwnerKinds DEF Held
  <2>2. CASE o = <<"cur", 0>> /\ cur # NoDelta /\ cur.slot = s
    <3>1. /\ \A i \in Ids : Appending(i) => req[i].slot # s
          /\ \A e \in entries : e.slot # s
          /\ \A i \in Ids : Answering(i) => resp[i].slot # s
      BY <2>2 DEF Apart
    <3>2. p = <<"cur", 0>>
      BY <3>1, OwnerKinds
    <3> QED
      BY <2>1, <2>2, <3>2
  <2>3. ASSUME NEW i \in Ids, o = <<"req", i>>, Appending(i), req[i].slot = s PROVE o = p
    BY <2>3, OwnerKinds DEF Apart
  <2>4. ASSUME NEW e \in entries, o = <<"entry", e.seq>>, e.slot = s PROVE o = p
    BY <2>4, OwnerKinds DEF Apart
  <2>5. ASSUME NEW i \in Ids, o = <<"resp", i>>, Answering(i), resp[i].slot = s PROVE o = p
    BY <2>5, OwnerKinds DEF Apart
  <2> QED
    BY <2>1, <2>2, <2>3, <2>4, <2>5, OwnerKinds
<1> QED
  BY RingAlways, <1>1, PTL

\* An entry's slot holds that append's whole delta, an unsent answer's slot what was packed for it.
THEOREM Intact == Spec => []DataIntact
<1>1. RingInv => DataIntact
  <2>1. \A i \in Ids : Waiting(i) => Answering(i)
    BY DEF Waiting, Answering, Served, AnswerSlot
  <2> QED
    BY <2>1 DEF RingInv, Contents, DataIntact
<1> QED
  BY RingAlways, <1>1, PTL

\* wal_do_append always finds a free entry: the entries and the append being served hold
\* different slots.
THEOREM AlwaysAnEntry == Spec => []EntryFree
<1>1. RingInv => EntryFree
  <2> SUFFICES ASSUME RingInv, Working("append") PROVE Cardinality(entries) < Cardinality(Slots)
    BY DEF EntryFree
  <2> DEFINE s == req[core1.id].slot
  <2>1. core1.id \in Ids /\ Appending(core1.id)
    BY DEF RingInv, TypeOK, Signals, Working, Appending
  <2>2. s \in Slots
    BY <2>1, SlotsOf DEF RingInv
  <2>3. \A e \in entries : e.slot \in Slots \ {s}
    BY <2>1, SlotsOf DEF RingInv, Apart
  <2> HIDE DEF s
  <2>4. Cardinality(entries) \in Nat /\ Cardinality(entries) <= Cardinality(Slots \ {s})
    BY <2>3, EntriesFit
  <2>5. Cardinality(Slots \ {s}) = Cardinality(Slots) - 1
    BY <2>2, RingSizes, FS_RemoveElement
  <2> QED
    BY <2>4, <2>5, RingSizes
<1> QED
  BY RingAlways, <1>1, PTL

\* Core 0 holds exactly the network buffers of the zero-copy requests not yet answered.
THEOREM Buffers == Spec => []BuffersHeld
<1>1. RingInv => BuffersHeld
  BY DEF RingInv
<1> QED
  BY RingAlways, <1>1, PTL

(***************************************************************************)
(* Refused requests: none of them is among those under way.                *)
(***************************************************************************)
RefusedInv ==
    /\ \A t \in refused : t <= sent
    /\ \A i \in used : Tok(i) \notin refused
    /\ cur # NoDelta => cur.tok \notin refused

\* A request that is dispatched has not been refused.
LEMMA DispatchedUnrefused ==
    ASSUME RingInv, RefusedInv, NEW r, r.tok \notin refused, Dispatch(r), UNCHANGED refused
    PROVE  \A i \in used' : Tok(i)' \notin refused'
<1>1. PICK id \in Ids : LowestUnused(id) /\ used' = used \cup {id} /\ req' = [req EXCEPT ![id] = r]
  BY DEF Dispatch
<1>2. req \in [Ids -> ReqType] /\ used \subseteq Ids /\ id \notin used
  BY <1>1 DEF RingInv, TypeOK, LowestUnused
<1>3. req'[id] = r /\ \A i \in used : req'[i] = req[i]
  BY <1>1, <1>2
<1> QED
  BY <1>1, <1>3 DEF RefusedInv, Tok

LEMMA RefusedStep == RingInv /\ RefusedInv /\ [Next]_vars => RefusedInv'
<1> SUFFICES ASSUME RingInv, RefusedInv, [Next]_vars PROVE RefusedInv'
  OBVIOUS
<1>1. /\ TypeOK /\ sent \in Nat /\ \A t \in refused : t \in Nat /\ t <= sent
      /\ \A i \in used : Tok(i) \in Nat /\ Tok(i) <= sent
      /\ cur # NoDelta => cur.tok \in Nat /\ cur.tok <= sent
  <2>1. TypeOK /\ sent \in Nat /\ \A t \in refused : t \in Nat
    BY RingSizes DEF RingInv, TypeOK, Tokens
  <2>2. \A i \in used : Tok(i) \in Nat
    BY <2>1, ReqFields DEF RingInv, TypeOK, Signals, Tok, Tokens
  <2>3. cur # NoDelta => cur.tok \in Nat
    BY <2>1 DEF TypeOK, Deltas, Tokens
  <2> QED
    BY <2>1, <2>2, <2>3 DEF RingInv, RefusedInv, Numbered
<1>2. sent + 1 \notin refused
  BY <1>1
<1>3. CASE RefuseBad \/ RefuseFull
  <2>1. refused' = refused \cup {sent + 1} /\ sent' = sent + 1 /\ UNCHANGED <<used, cur, req>>
    BY <1>3 DEF RefuseBad, RefuseFull, core0Vars, ringVars
  <2>2. \A i \in used : Tok(i)' = Tok(i)
    BY <2>1 DEF Tok
  <2> QED
    BY <1>1, <2>1, <2>2 DEF RefusedInv
<1>4. ASSUME NEW r, Dispatch(r), r.tok = sent + 1, sent' = sent + 1, UNCHANGED <<cur, refused>>
      PROVE  RefusedInv'
  BY <1>1, <1>2, <1>4, DispatchedUnrefused DEF RefusedInv
<1>5. CASE RecvNoop
  <2> DEFINE r == [state |-> "pending", op |-> "noop", tok |-> sent', zc |-> FALSE]
  <2>1. Dispatch(r) /\ r.tok = sent + 1 /\ sent' = sent + 1 /\ UNCHANGED <<cur, refused>>
    BY <1>5 DEF RecvNoop
  <2> HIDE DEF r
  <2> QED
    BY <1>4, <2>1
<1>6. ASSUME NEW k \in Keys, RecvRead(k) PROVE RefusedInv'
  <2> DEFINE r == [state |-> "pending", op |-> "read", tok |-> sent', zc |-> FALSE, key |-> k]
  <2>1. Dispatch(r) /\ r.tok = sent + 1 /\ sent' = sent + 1 /\ UNCHANGED <<cur, refused>>
    BY <1>6 DEF RecvRead
  <2> HIDE DEF r
  <2> QED
    BY <1>4, <2>1
<1>7. ASSUME NEW k \in Keys, NEW tomb \in BOOLEAN, NEW s \in Slots, NEW zc \in BOOLEAN,
             RecvAppend(k, tomb, s, zc)
      PROVE  RefusedInv'
  <2> DEFINE r == [state |-> "pending", op |-> "append", tok |-> sent', zc |-> zc,
                   key |-> k, tomb |-> tomb, slot |-> s]
  <2>1. Dispatch(r) /\ r.tok = sent + 1 /\ sent' = sent + 1 /\ UNCHANGED <<cur, refused>>
    BY <1>7 DEF RecvAppend, DispatchAppend, ClaimSlot
  <2> HIDE DEF r
  <2> QED
    BY <1>4, <2>1
<1>8. ASSUME NEW k \in Keys, NEW tomb \in BOOLEAN, NEW s \in Slots, RecvAppendHeader(k, tomb, s)
      PROVE  RefusedInv'
  <2>1. sent' = sent + 1 /\ cur'.tok = sent + 1 /\ UNCHANGED <<used, req, refused>>
    BY <1>8 DEF RecvAppendHeader, ClaimSlot
  <2>2. \A i \in used : Tok(i)' = Tok(i)
    BY <2>1 DEF Tok
  <2> QED
    BY <1>1, <1>2, <2>1, <2>2 DEF RefusedInv
<1>9. CASE RecvAppendRest
  <2> DEFINE r == [state |-> "pending", op |-> "append", tok |-> cur.tok, zc |-> FALSE,
                   key |-> cur.key, tomb |-> cur.tomb, slot |-> cur.slot]
  <2>1. Dispatch(r) /\ r.tok = cur.tok /\ cur # NoDelta /\ cur' = NoDelta /\ UNCHANGED <<sent, refused>>
    BY <1>9 DEF RecvAppendRest, DispatchAppend, ghosts
  <2> HIDE DEF r
  <2>2. \A i \in used' : Tok(i)' \notin refused'
    BY <2>1, DispatchedUnrefused DEF RefusedInv
  <2> QED
    BY <2>1, <2>2 DEF RefusedInv
<1>10. CASE Drain
  <2> DEFINE x == Head(rev)
  <2>1. /\ used' = used \ {x} /\ req' = [req EXCEPT ![x] = EmptyReq] /\ UNCHANGED <<cur, sent>>
        /\ refused' \subseteq refused \cup {Tok(x)}
        /\ rev # <<>>
    BY <1>10 DEF Drain, Tok
  <2>2. x \in In(rev) /\ x \in used
    <3>1. x \in In(rev) /\ x \in Ids
      BY <1>1, <2>1, TailIn DEF TypeOK
    <3> QED
      BY <3>1 DEF RingInv, Signals, Served
  <2>3. req \in [Ids -> ReqType] /\ used \subseteq Ids
    BY <1>1 DEF TypeOK
  <2> HIDE DEF x
  <2>4. \A i \in used' : Tok(i)' = Tok(i) /\ i \in used /\ Tok(i) # Tok(x)
    BY <2>1, <2>2, <2>3 DEF Tok, RingInv, Numbered
  <2>5. cur # NoDelta => Tok(x) < cur.tok
    BY <2>2 DEF RingInv, Numbered
  <2> QED
    BY <1>1, <2>1, <2>2, <2>4, <2>5 DEF RefusedInv
<1>11. CASE Serve
  <2>1. /\ UNCHANGED <<cur, sent, refused, used>> /\ core1.pc = "work"
        /\ req' = [req EXCEPT ![core1.id].state = "done"]
    BY <1>11 DEF Serve, ServeNoop, ServeAppend, ServeReadNothing, ServeRead, Done, Working, core0Vars, ghosts
  <2>2. req \in [Ids -> ReqType] /\ used \subseteq Ids /\ core1.id \in Ids
    BY <1>1 DEF TypeOK
  <2> DEFINE d == [req[core1.id] EXCEPT !.state = "done"]
  <2>3. req[core1.id] \in ReqType /\ req[core1.id].state # "empty"
    BY <1>1, <2>1, <2>2 DEF TypeOK, RingInv, Signals, Pending
  <2>4. d.tok = req[core1.id].tok
    BY <2>3, MarkDone
  <2>5. req' = [req EXCEPT ![core1.id] = d]
    BY <2>1
  <2> HIDE DEF d
  <2>6. \A i \in used : Tok(i)' = Tok(i)
    BY <2>2, <2>4, <2>5 DEF Tok
  <2> QED
    BY <2>1, <2>6 DEF RefusedInv
<1>12. CASE \/ Overrun \/ Disconnect \/ Accept \/ Signal0 \/ Pop \/ PushReverse \/ GiveUpReverse
            \/ Idle \/ Compact \/ UNCHANGED vars
  <2>1. UNCHANGED <<sent, refused, used, req>> /\ cur' \in {cur, NoDelta}
    BY <1>12 DEF Overrun, Disconnect, Accept, Signal0, PushForward, GiveUpForward, Pop, PushReverse,
       GiveUpReverse, Idle, Compact, vars, core0Vars, ringVars, core1Vars, ghosts
  <2>2. \A i \in used : Tok(i)' = Tok(i)
    BY <2>1 DEF Tok
  <2> QED
    BY <2>1, <2>2 DEF RefusedInv
<1> QED
  BY <1>3, <1>5, <1>6, <1>7, <1>8, <1>9, <1>10, <1>11, <1>12 DEF Next, Core0Step, Core1Step, Receive

LEMMA RefusedAlways == Spec => []RefusedInv
<1>1. Init => RefusedInv
  BY DEF Init, RefusedInv
<1> QED
  BY <1>1, RefusedStep, RingAlways, PTL DEF Spec

\* Acknowledgements come in the order of the requests, at most one for each and none for a
\* request refused on arrival, across lost signals and reconnects (drain_responses, send_error).
THEOREM InOrder == Spec => AnswersInOrder
<1>1. RingInv /\ RefusedInv /\ [Next]_vars
        => [answered' # answered => answered' > answered /\ answered' \notin refused]_vars
  <2> SUFFICES ASSUME RingInv, RefusedInv, [Next]_vars, answered' # answered
               PROVE  answered' > answered /\ answered' \notin refused
    OBVIOUS
  <2>1. CASE Drain
    <3>1. answered' > answered /\ answered' = Tok(Head(rev))
      BY <2>1, DrainKeeps DEF Tok
    <3>2. Head(rev) \in used
      <4>1. rev # <<>> /\ rev \in Seq(Ids)
        BY <2>1 DEF Drain, RingInv, TypeOK
      <4>2. Head(rev) \in In(rev) /\ Head(rev) \in Ids
        BY <4>1, TailIn
      <4> QED
        BY <4>2 DEF RingInv, Signals, Served
    <3> QED
      BY <3>1, <3>2 DEF RefusedInv
  <2>2. CASE ~Drain
    <3>1. answered' = answered
      BY <2>2 DEF Next, Core0Step, Core1Step, Receive, RecvNoop, RecvRead, RecvAppend, RecvAppendHeader,
         RecvAppendRest, Overrun, RefuseBad, RefuseFull, Disconnect, Accept, Signal0, PushForward,
         GiveUpForward, Serve, ServeNoop, ServeAppend, ServeReadNothing, ServeRead, Pop, PushReverse,
         GiveUpReverse, Idle, Compact, vars, ghosts
    <3> QED
      BY <3>1
  <2> QED
    BY <2>1, <2>2
<1> QED
  BY RingAlways, RefusedAlways, <1>1, PTL DEF Spec, AnswersInOrder
=============================================================================
