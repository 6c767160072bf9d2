----------------------------- MODULE ServerProofs -----------------------------
(***************************************************************************)
(* What Core 0 serves over TCP, proved for every value of the constants.   *)
(* The connections: the ranges, that connections and slots stay paired,    *)
(* and that no request is carried out twice.  The catalogue: that cards    *)
(* are read under the names they were written with.  The query engine:     *)
(* that its answer is what the query means, by the path of a query through *)
(* the engine: conditions compiled, sorted, scanned, rows, groups.         *)
(***************************************************************************)
EXTENDS HttpConn, Query, FiniteSetTheorems, WellFoundedInduction, TLAPS

(*****************************************************************************)
(* The pool of connections.                                                  *)
(*****************************************************************************)
SlotRecs == [inUse : BOOLEAN, pend : BOOLEAN, keep : BOOLEAN, polls : 0 .. PollMax,
             flight : 0 .. 2, buf : {"empty", "part", "whole"}]
PcbRecs  == [st : {"none", "open", "closing"}, arg : Slots \cup {NoSlot},
             recv : BOOLEAN, queued : 0 .. 2]
Dues     == {"none", "waiting", "over", "piped", "unanswered"}

(***************************************************************************)
(* The invariant, its parts named.                                         *)
(***************************************************************************)
PoolTyped == slots \in [Slots -> SlotRecs] /\ pcb \in [Clients -> PcbRecs] /\ cut \subseteq Slots
RestTyped ==
    /\ inbox \in [Clients -> Seq(Segments)] /\ due \in [Clients -> Dues]
    /\ sends \in 0 .. MaxSends /\ refusals \in 0 .. MaxRefused

\* Only a connection lwIP still has can call back, and then with a slot; one that lwIP
\* closed by itself has its slot written off.
CallbacksLive ==
    \A c \in Clients :
        /\ Live(c) => pcb[c].arg \in Slots
        /\ ~Live(c) => pcb[c].queued = 0
        /\ pcb[c].recv => Live(c)
        /\ pcb[c].st = "closing" => pcb[c].arg \in cut

PoolInv == PoolTyped /\ CallbacksLive /\ SlotHasOwner /\ NoRequestTwice
HttpInv == PoolInv /\ RestTyped

LEMMA HttpInit == ConnAssumption /\ Init => HttpInv
BY DEF ConnAssumption, Init, HttpInv, PoolInv, PoolTyped, RestTyped, CallbacksLive, SlotHasOwner,
       NoRequestTwice, Live, Slots, NoSlot, Free, NoPcb, SlotRecs, PcbRecs, Dues

(***************************************************************************)
(* What happens to the pool: a connection ends with its slot, or goes on   *)
(* in it.                                                                  *)
(***************************************************************************)
Frees(c) ==
    /\ slots' = [slots EXCEPT ![pcb[c].arg].inUse = FALSE]
    /\ pcb' = [pcb EXCEPT ![c] = NoPcb]

LEMMA PoolFrees ==
    ASSUME ConnAssumption, PoolInv, NEW c \in Clients, Live(c), Frees(c), UNCHANGED cut
    PROVE  PoolInv'
<1> DEFINE s == pcb[c].arg
<1>1. s \in Slots
  BY DEF PoolInv, CallbacksLive
<1>2. /\ slots' \in [Slots -> SlotRecs] /\ ~slots'[s].inUse
      /\ \A r \in Slots \ {s} : slots'[r] = slots[r]
  <2>1. slots'[s] = [slots[s] EXCEPT !.inUse = FALSE]
    BY <1>1 DEF Frees, PoolInv, PoolTyped
  <2>2. slots'[s] \in SlotRecs /\ ~slots'[s].inUse
    BY <1>1, <2>1, ZenonT(30) DEF PoolInv, PoolTyped, SlotRecs
  <2> QED
    BY <1>1, <2>2 DEF Frees, PoolInv, PoolTyped
<1>3. /\ pcb' \in [Clients -> PcbRecs] /\ pcb'[c] = NoPcb
      /\ \A d \in Clients \ {c} : pcb'[d] = pcb[d]
  BY DEF Frees, PoolInv, PoolTyped, NoPcb, PcbRecs, NoSlot
<1>4. PoolTyped' /\ CallbacksLive'
  BY <1>2, <1>3 DEF PoolInv, PoolTyped, CallbacksLive, Live, NoPcb
<1>5. SlotHasOwner'
  <2>1. \A d \in Clients : Live(d)' => d # c /\ Live(d) /\ pcb'[d] = pcb[d] /\ pcb[d].arg # s
    BY <1>3 DEF Live, NoPcb, PoolInv, SlotHasOwner
  <2>2. \A d \in Clients : d # c /\ Live(d) => Live(d)' /\ pcb'[d] = pcb[d]
    BY <1>3 DEF Live
  <2> QED
    BY <1>2, <2>1, <2>2 DEF PoolInv, SlotHasOwner, CallbacksLive
<1>6. NoRequestTwice'
  BY <1>2, <1>3 DEF PoolInv, SlotHasOwner, CallbacksLive, NoRequestTwice, Live, NoPcb
<1> QED
  BY <1>4, <1>5, <1>6 DEF PoolInv

\* The slot stays in use and is written by its own connection only.
Keeps(c, sr, pr) ==
    /\ slots' = [slots EXCEPT ![pcb[c].arg] = sr] /\ sr.inUse
    /\ pcb' = [pcb EXCEPT ![c] = pr] /\ pr.st = pcb[c].st /\ pr.arg = pcb[c].arg
    /\ pr.recv => sr.buf # "whole"

LEMMA PoolKeeps ==
    ASSUME ConnAssumption, PoolInv, NEW c \in Clients, Live(c), UNCHANGED cut,
           NEW sr \in SlotRecs, NEW pr \in PcbRecs, Keeps(c, sr, pr)
    PROVE  PoolInv'
<1> DEFINE s == pcb[c].arg
<1>1. s \in Slots
  BY DEF PoolInv, CallbacksLive
<1>2. /\ slots' \in [Slots -> SlotRecs] /\ slots'[s] = sr
      /\ \A r \in Slots \ {s} : slots'[r] = slots[r]
  BY <1>1 DEF Keeps, PoolInv, PoolTyped
<1>3. /\ pcb' \in [Clients -> PcbRecs] /\ pcb'[c] = pr
      /\ \A d \in Clients \ {c} : pcb'[d] = pcb[d]
  BY DEF Keeps, PoolInv, PoolTyped
<1>4. \A d \in Clients : (Live(d)' <=> Live(d)) /\ pcb'[d].arg = pcb[d].arg
                         /\ pcb'[d].st = pcb[d].st
  BY <1>3 DEF Keeps, Live
<1>5. \A r \in Slots : slots'[r].inUse <=> slots[r].inUse
  BY <1>2 DEF Keeps, PoolInv, SlotHasOwner
<1>6. PoolTyped' /\ CallbacksLive'
  BY <1>2, <1>3, <1>4 DEF Keeps, PoolInv, PoolTyped, CallbacksLive
<1>7. SlotHasOwner'
  BY <1>4, <1>5 DEF PoolInv, SlotHasOwner, CallbacksLive
<1>8. NoRequestTwice'
  BY <1>2, <1>3, <1>4 DEF Keeps, PoolInv, NoRequestTwice, SlotHasOwner, CallbacksLive
<1> QED
  BY <1>6, <1>7, <1>8 DEF PoolInv

\* http_accept takes a slot that is free and has no connection.
LEMMA PoolAccepts ==
    ASSUME ConnAssumption, PoolInv, NEW c \in Clients, Accept(c)
    PROVE  PoolInv'
<1>1. PICK s \in Slots :
        /\ ~slots[s].inUse
        /\ slots' = [slots EXCEPT ![s] = [Free EXCEPT !.inUse = TRUE]]
        /\ pcb' = [pcb EXCEPT ![c] = [st |-> "open", arg |-> s, recv |-> TRUE, queued |-> 0]]
        /\ cut' = cut \ {s}
  BY DEF Accept
<1>2. ~Live(c)
  BY DEF Accept, Live
<1>3. /\ slots' \in [Slots -> SlotRecs] /\ slots'[s].inUse /\ slots'[s].buf = "empty"
      /\ \A r \in Slots \ {s} : slots'[r] = slots[r]
  <2>1. [Free EXCEPT !.inUse = TRUE] \in SlotRecs
        /\ [Free EXCEPT !.inUse = TRUE].inUse /\ [Free EXCEPT !.inUse = TRUE].buf = "empty"
    <3>1. Free \in SlotRecs
      BY DEF ConnAssumption, Free, SlotRecs
    <3>2. [Free EXCEPT !.inUse = TRUE] \in SlotRecs
      BY <3>1 DEF SlotRecs
    <3> QED
      BY <3>2 DEF Free
  <2> QED
    BY <1>1, <2>1 DEF PoolInv, PoolTyped
<1>4. /\ pcb' \in [Clients -> PcbRecs]
      /\ pcb'[c] = [st |-> "open", arg |-> s, recv |-> TRUE, queued |-> 0]
      /\ \A d \in Clients \ {c} : pcb'[d] = pcb[d]
  BY <1>1 DEF PoolInv, PoolTyped, PcbRecs
<1>5. Live(c)' /\ \A d \in Clients \ {c} : (Live(d)' <=> Live(d)) /\ (Live(d) => pcb[d].arg # s)
  BY <1>1, <1>4 DEF Live, PoolInv, SlotHasOwner
<1>6. PoolTyped' /\ CallbacksLive'
  <2>1. PoolTyped'
    BY <1>1, <1>3, <1>4 DEF PoolInv, PoolTyped
  <2>2. ASSUME NEW d \in Clients \ {c}, pcb[d].st = "closing" PROVE pcb[d].arg \in cut'
    BY <1>1, <1>5, <2>2 DEF PoolInv, CallbacksLive, Live
  <2> QED
    BY <1>4, <1>5, <2>1, <2>2 DEF PoolInv, CallbacksLive
<1>7. SlotHasOwner'
  <2>1. \A r \in Slots \ cut' : slots'[r].inUse => \E d \in Clients : Live(d)' /\ pcb'[d].arg = r
    <3> SUFFICES ASSUME NEW r \in Slots \ cut', slots'[r].inUse
                 PROVE  \E d \in Clients : Live(d)' /\ pcb'[d].arg = r
      OBVIOUS
    <3>1. CASE r = s
      BY <1>4, <1>5, <3>1
    <3>2. CASE r # s
      <4>1. PICK d \in Clients : Live(d) /\ pcb[d].arg = r
        BY <1>1, <1>3, <3>2 DEF PoolInv, SlotHasOwner
      <4> QED
        BY <1>2, <1>4, <1>5, <4>1
    <3> QED
      BY <3>1, <3>2
  <2>2. \A d, e \in Clients : Live(d)' /\ Live(e)' /\ d # e => pcb'[d].arg # pcb'[e].arg
    BY <1>4, <1>5 DEF PoolInv, SlotHasOwner
  <2>3. \A d \in Clients : Live(d)' => slots'[pcb'[d].arg].inUse
    BY <1>3, <1>4, <1>5 DEF PoolInv, SlotHasOwner, CallbacksLive
  <2> QED
    BY <2>1, <2>2, <2>3 DEF SlotHasOwner
<1>8. NoRequestTwice'
  BY <1>3, <1>4, <1>5 DEF PoolInv, NoRequestTwice, CallbacksLive
<1> QED
  BY <1>6, <1>7, <1>8 DEF PoolInv

\* A FIN that meets no receive callback: lwIP closes, and the slot is written off.
LEMMA PoolDrops ==
    ASSUME ConnAssumption, PoolInv, NEW c \in Clients, Drop(c)
    PROVE  PoolInv'
<1>1. CASE UNCHANGED <<slots, pcb, cut>>
  BY <1>1 DEF PoolInv, PoolTyped, CallbacksLive, SlotHasOwner, NoRequestTwice, Live
<1>2. CASE pcb' = [pcb EXCEPT ![c].st = "closing"] /\ cut' = cut \cup {pcb[c].arg}
  <2>1. slots' = slots /\ pcb[c].st = "open" /\ ~pcb[c].recv /\ pcb[c].arg \in Slots
    BY DEF Drop, PoolInv, CallbacksLive, Live
  <2>2. /\ pcb' \in [Clients -> PcbRecs] /\ pcb'[c].st = "closing" /\ pcb'[c].arg = pcb[c].arg
        /\ ~pcb'[c].recv /\ pcb'[c].queued = pcb[c].queued
        /\ \A d \in Clients \ {c} : pcb'[d] = pcb[d]
    <3>1. pcb'[c] = [pcb[c] EXCEPT !.st = "closing"]
      BY <1>2 DEF PoolInv, PoolTyped
    <3>2. pcb'[c] \in PcbRecs
      BY <3>1 DEF PoolInv, PoolTyped, PcbRecs
    <3> QED
      BY <1>2, <2>1, <3>1, <3>2 DEF PoolInv, PoolTyped, PcbRecs
  <2>3. \A d \in Clients : (Live(d)' <=> Live(d)) /\ pcb'[d].arg = pcb[d].arg
    BY <2>1, <2>2 DEF Live
  <2>4. PoolTyped' /\ CallbacksLive'
    BY <1>2, <2>1, <2>2, <2>3 DEF PoolInv, PoolTyped, CallbacksLive
  <2>5. SlotHasOwner' /\ NoRequestTwice'
    BY <1>2, <2>1, <2>2, <2>3 DEF PoolInv, SlotHasOwner, NoRequestTwice
  <2> QED
    BY <2>4, <2>5 DEF PoolInv
<1> QED
  BY <1>1, <1>2 DEF Drop

\* The client acknowledged that FIN: the connection is gone, its slot is not.
LEMMA PoolVanishes ==
    ASSUME ConnAssumption, PoolInv, NEW c \in Clients, Vanish(c)
    PROVE  PoolInv'
<1>1. slots' = slots /\ cut' = cut /\ pcb' = [pcb EXCEPT ![c] = NoPcb] /\ pcb[c].arg \in cut
      /\ Live(c)
  BY DEF Vanish, PoolInv, CallbacksLive, Live
<1>2. /\ pcb' \in [Clients -> PcbRecs] /\ pcb'[c] = NoPcb
      /\ \A d \in Clients \ {c} : pcb'[d] = pcb[d]
  BY <1>1 DEF PoolInv, PoolTyped, NoPcb, PcbRecs, NoSlot
<1>3. ~Live(c)' /\ \A d \in Clients \ {c} : (Live(d)' <=> Live(d))
  BY <1>2 DEF Live, NoPcb
<1>4. PoolTyped' /\ CallbacksLive'
  BY <1>1, <1>2, <1>3 DEF PoolInv, PoolTyped, CallbacksLive, NoPcb
<1>5. \A r \in Slots \ cut' : slots'[r].inUse => \E d \in Clients : Live(d)' /\ pcb'[d].arg = r
  BY <1>1, <1>2, <1>3 DEF PoolInv, SlotHasOwner
<1>6. SlotHasOwner' /\ NoRequestTwice'
  BY <1>1, <1>2, <1>3, <1>5 DEF PoolInv, SlotHasOwner, NoRequestTwice
<1> QED
  BY <1>4, <1>6 DEF PoolInv

(***************************************************************************)
(* The callbacks.                                                          *)
(***************************************************************************)
\* http_close_conn and http_err end the connection and free the slot.
LEMMA PoolCloses ==
    ASSUME ConnAssumption, PoolInv, NEW c \in Clients, Live(c),
           Close(c, pcb[c].arg) \/ Reset(c)
    PROVE  PoolInv'
<1>1. Frees(c) /\ UNCHANGED cut
  BY DEF Close, Reset, ClosedPcb, Frees
<1> QED
  BY <1>1, PoolFrees

LEMMA PoolReceives ==
    ASSUME ConnAssumption, PoolInv, NEW c \in Clients, Receive(c)
    PROVE  PoolInv'
<1> DEFINE s == pcb[c].arg
<1>1. Live(c) /\ s \in Slots /\ pcb[c].recv /\ slots[s].inUse
  BY DEF Receive, PoolInv, CallbacksLive, SlotHasOwner, Live
<1>2. slots[s] \in SlotRecs /\ pcb[c] \in PcbRecs /\ 0 \in 0 .. PollMax
  BY <1>1 DEF ConnAssumption, PoolInv, PoolTyped
<1>3. CASE Close(c, s)
  BY <1>1, <1>3, PoolCloses
<1>4. CASE slots' = [slots EXCEPT ![s].buf = "part"] /\ UNCHANGED <<pcb, cut>>
  <2> DEFINE sr == [slots[s] EXCEPT !.buf = "part"]
  <2>1. sr \in SlotRecs /\ sr.inUse /\ sr.buf = "part"
    BY <1>1, <1>2 DEF SlotRecs
  <2>2. slots' = [slots EXCEPT ![s] = sr] /\ pcb' = [pcb EXCEPT ![c] = pcb[c]]
    BY <1>4 DEF PoolInv, PoolTyped
  <2>3. Keeps(c, sr, pcb[c])
    BY <1>1, <2>1, <2>2 DEF Keeps
  <2> QED
    BY <1>1, <1>2, <1>4, <2>1, <2>3, PoolKeeps
<1>5. ASSUME NEW n \in 0 .. 2, AnswerBad(c, s, n) PROVE PoolInv'
  <2> DEFINE m == IF n = 2 THEN 2 ELSE 0
  <2>1. m \in 0 .. 2
    OBVIOUS
  <2> DEFINE sr == [slots[s] EXCEPT !.flight = m, !.pend = TRUE, !.polls = 0]
             pr == [pcb[c] EXCEPT !.recv = FALSE, !.queued = n]
  <2>2. sr \in SlotRecs /\ sr.inUse
    <3> HIDE DEF m
    <3> QED
      BY <1>1, <1>2, <2>1 DEF SlotRecs
  <2>3. pr \in PcbRecs /\ ~pr.recv /\ pr.st = pcb[c].st /\ pr.arg = pcb[c].arg
    BY <1>2 DEF PcbRecs
  <2>4. slots' = [slots EXCEPT ![s] = sr] /\ pcb' = [pcb EXCEPT ![c] = pr] /\ UNCHANGED cut
    BY <1>5 DEF AnswerBad
  <2>5. Keeps(c, sr, pr)
    BY <2>2, <2>3, <2>4 DEF Keeps
  <2> QED
    BY <1>1, <2>2, <2>3, <2>4, <2>5, PoolKeeps
<1>6. ASSUME NEW keep \in BOOLEAN, NEW n \in 0 .. 2, Dispatch(c, s, keep, n) PROVE PoolInv'
  <2>1. CASE n = 0 /\ ~keep
    <3>1. Frees(c) /\ UNCHANGED cut
      BY <1>6, <2>1 DEF Dispatch, ClosedPcb, Frees
    <3> QED
      BY <1>1, <3>1, PoolFrees
  <2>2. CASE ~(n = 0 /\ ~keep)
    <3> DEFINE ready == n = 0 /\ keep
               b  == IF ready THEN "empty" ELSE "whole"
               sr == [slots[s] EXCEPT !.flight = n, !.keep = keep, !.pend = ~keep,
                                      !.polls = 0, !.buf = b]
               pr == [pcb[c] EXCEPT !.recv = ready, !.queued = n]
    <3>1. sr \in SlotRecs /\ sr.inUse /\ sr.buf = b
      BY <1>1, <1>2 DEF SlotRecs
    <3>2. pr \in PcbRecs /\ pr.recv = ready /\ pr.st = pcb[c].st /\ pr.arg = pcb[c].arg
      BY <1>2 DEF PcbRecs
    <3>3. slots' = [slots EXCEPT ![s] = sr] /\ pcb' = [pcb EXCEPT ![c] = pr] /\ UNCHANGED cut
      BY <1>6, <2>2 DEF Dispatch, Emptied
    <3>4. Keeps(c, sr, pr)
      <4>1. ready => b # "whole"
        OBVIOUS
      <4> HIDE DEF sr, pr, ready, b
      <4> QED
        BY <1>1, <3>1, <3>2, <3>3, <4>1 DEF Keeps
    <3> QED
      BY <1>1, <3>1, <3>2, <3>3, <3>4, PoolKeeps
  <2> QED
    BY <2>1, <2>2
<1> QED
  BY <1>3, <1>4, <1>5, <1>6 DEF Receive

\* http_sent: the acknowledgement that empties the buffer of a keep-alive connection is the
\* one that lets it listen again.
LEMMA PoolSent ==
    ASSUME ConnAssumption, PoolInv, NEW c \in Clients, Sent(c)
    PROVE  PoolInv'
<1> DEFINE s == pcb[c].arg
<1>1. Live(c) /\ s \in Slots /\ slots[s].inUse /\ pcb[c].queued > 0
  BY DEF Sent, PoolInv, CallbacksLive, SlotHasOwner
<1>2. slots[s] \in SlotRecs /\ pcb[c] \in PcbRecs
  BY <1>1 DEF PoolInv, PoolTyped
<1>3. CASE Close(c, s)
  BY <1>1, <1>3, PoolCloses
<1>4. CASE ~Close(c, s)
  <2> DEFINE unsent == Left(s)
             ready  == Ready(s)
             b      == IF ready THEN "empty" ELSE slots[s].buf
             re     == ready \/ pcb[c].recv
             sr     == [slots[s] EXCEPT !.flight = unsent, !.buf = b]
             pr     == [pcb[c] EXCEPT !.queued = @ - 1, !.recv = re]
  <2>1. unsent \in 0 .. 2
    BY <1>2 DEF Left, SlotRecs
  <2>2. ready \in BOOLEAN /\ re \in BOOLEAN /\ b \in {"empty", "part", "whole"}
    BY <1>2 DEF Ready, SlotRecs, PcbRecs
  <2>3. sr \in SlotRecs /\ sr.inUse /\ sr.buf = b
    <3> HIDE DEF unsent, b
    <3> QED
      BY <1>1, <1>2, <2>1, <2>2 DEF SlotRecs
  <2>4. pr \in PcbRecs /\ pr.recv = re /\ pr.st = pcb[c].st /\ pr.arg = pcb[c].arg
    <3>1. pcb[c].queued - 1 \in 0 .. 2
      BY <1>1, <1>2 DEF PcbRecs
    <3> HIDE DEF re
    <3> QED
      BY <1>2, <2>2, <3>1 DEF PcbRecs
  <2>5. slots' = [slots EXCEPT ![s] = sr] /\ pcb' = [pcb EXCEPT ![c] = pr] /\ UNCHANGED cut
    BY <1>4 DEF Sent, Emptied
  <2>6. re => b # "whole"
    BY <1>1 DEF PoolInv, NoRequestTwice
  <2>7. Keeps(c, sr, pr)
    <3> HIDE DEF sr, pr, re, b
    <3> QED
      BY <2>3, <2>4, <2>5, <2>6 DEF Keeps
  <2> HIDE DEF sr, pr
  <2> QED
    BY <1>1, <2>3, <2>4, <2>5, <2>7, PoolKeeps
<1> QED
  BY <1>3, <1>4

\* http_poll counts, or closes.
LEMMA PoolPolls ==
    ASSUME ConnAssumption, PoolInv, NEW c \in Clients, Poll(c)
    PROVE  PoolInv'
<1> DEFINE s == pcb[c].arg
<1>1. Live(c) /\ s \in Slots /\ slots[s].inUse /\ slots[s] \in SlotRecs /\ pcb[c] \in PcbRecs
  BY DEF Poll, Live, PoolInv, PoolTyped, CallbacksLive, SlotHasOwner
<1>2. CASE GivesUp(s)
  BY <1>1, <1>2, PoolCloses DEF Poll
<1>3. CASE ~GivesUp(s)
  <2> DEFINE sr == [slots[s] EXCEPT !.polls = @ + 1]
  <2>1. slots[s].polls + 1 \in 0 .. PollMax
    BY <1>1, <1>3 DEF ConnAssumption, GivesUp, SlotRecs
  <2>2. sr \in SlotRecs /\ sr.inUse /\ sr.buf = slots[s].buf
    BY <1>1, <2>1 DEF SlotRecs
  <2>3. slots' = [slots EXCEPT ![s] = sr] /\ pcb' = [pcb EXCEPT ![c] = pcb[c]] /\ UNCHANGED cut
    BY <1>3 DEF Poll, PoolInv, PoolTyped
  <2>4. Keeps(c, sr, pcb[c])
    <3> HIDE DEF sr
    <3> QED
      BY <1>1, <2>2, <2>3 DEF Keeps, PoolInv, NoRequestTwice
  <2> HIDE DEF sr
  <2> QED
    BY <1>1, <2>2, <2>3, <2>4, PoolKeeps
<1> QED
  BY <1>2, <1>3

(***************************************************************************)
(* Every step.                                                             *)
(***************************************************************************)
LEMMA PoolStep == ConnAssumption /\ PoolInv /\ [Next]_vars => PoolInv'
<1> SUFFICES ASSUME ConnAssumption, PoolInv, [Next]_vars PROVE PoolInv'
  OBVIOUS
<1>1. ASSUME NEW c \in Clients, Lwip(c) PROVE PoolInv'
  BY <1>1, PoolReceives, PoolDrops, PoolSent, PoolPolls, PoolVanishes DEF Lwip
<1>2. ASSUME NEW c \in Clients, Accept(c) PROVE PoolInv'
  BY <1>2, PoolAccepts
<1>3. ASSUME NEW c \in Clients, Reset(c) PROVE PoolInv'
  BY <1>3, PoolCloses DEF Reset, Live
<1>4. CASE UNCHANGED <<slots, pcb, cut>>
  BY <1>4 DEF PoolInv, PoolTyped, CallbacksLive, SlotHasOwner, NoRequestTwice, Live
<1>5. ASSUME NEW c \in Clients, Refuse(c) \/ \E seg \in Segments : Send(c, seg) PROVE PoolInv'
  BY <1>4, <1>5 DEF Refuse, Send
<1> QED
  BY <1>1, <1>2, <1>3, <1>4, <1>5 DEF Next, vars

LEMMA DueTyped ==
    ASSUME RestTyped, NEW c \in Clients, NEW n \in 0 .. 2, Told(c) \/ Answered(c, n)
    PROVE  due' \in [Clients -> Dues]
BY DEF RestTyped, Told, Answered, Dues

LEMMA RestStep ==
    ConnAssumption /\ RestTyped /\ [Next]_vars => RestTyped'
<1> SUFFICES ASSUME ConnAssumption, RestTyped, [Next]_vars PROVE RestTyped'
  OBVIOUS
<1> DEFINE Typed(i) == i \in [Clients -> Seq(Segments)]
<1>1. ASSUME NEW c \in Clients
      PROVE  /\ Typed([inbox EXCEPT ![c] = <<>>])
             /\ inbox[c] # <<>> => Typed([inbox EXCEPT ![c] = Tail(@)])
  BY DEF RestTyped
<1>2. ASSUME NEW c \in Clients, NEW s, Close(c, s), UNCHANGED sends PROVE RestTyped'
  <2>1. due' \in [Clients -> Dues]
    BY <1>2, DueTyped DEF Close
  <2> QED
    BY <1>1, <1>2, <2>1 DEF Close, RestTyped
<1>3. ASSUME NEW c \in Clients, Receive(c) PROVE RestTyped'
  <2> DEFINE s == pcb[c].arg
  <2>1. CASE Close(c, s)
    BY <1>2, <1>3, <2>1 DEF Receive
  <2>2. CASE UNCHANGED <<due, refusals>> /\ inbox' = [inbox EXCEPT ![c] = Tail(@)]
    BY <1>1, <1>3, <2>2 DEF Receive, RestTyped
  <2>3. ASSUME NEW n \in 0 .. 2, Writes(n), Answered(c, n),
               inbox' \in {[inbox EXCEPT ![c] = Tail(@)], [inbox EXCEPT ![c] = <<>>]}
        PROVE  RestTyped'
    <3>1. due' \in [Clients -> Dues]
      BY <2>3, DueTyped
    <3>2. refusals' \in 0 .. MaxRefused
      BY <2>3 DEF Writes, RestTyped, ConnAssumption
    <3>3. Typed(inbox') /\ UNCHANGED sends
      BY <1>1, <1>3, <2>3 DEF Receive
    <3> QED
      BY <3>1, <3>2, <3>3 DEF RestTyped
  <2>4. ASSUME NEW n \in 0 .. 2, AnswerBad(c, s, n), inbox' = [inbox EXCEPT ![c] = Tail(@)]
        PROVE  RestTyped'
    BY <2>3, <2>4 DEF AnswerBad
  <2>5. ASSUME NEW n \in 0 .. 2, NEW k \in BOOLEAN, Dispatch(c, s, k, n) PROVE RestTyped'
    BY <2>3, <2>5 DEF Dispatch
  <2> QED
    BY <1>3, <2>1, <2>2, <2>4, <2>5 DEF Receive
<1>4. ASSUME NEW c \in Clients, Sent(c) \/ Poll(c) PROVE RestTyped'
  <2>1. CASE Close(c, pcb[c].arg)
    BY <1>2, <1>4, <2>1 DEF Sent, Poll
  <2>2. CASE ~Close(c, pcb[c].arg)
    <3>1. UNCHANGED <<inbox, sends, refusals>> /\ (Told(c) \/ UNCHANGED due)
      BY <1>4, <2>2 DEF Sent, Poll
    <3> QED
      BY <3>1, DueTyped DEF RestTyped
  <2> QED
    BY <2>1, <2>2
<1>5. ASSUME NEW c \in Clients, Drop(c) PROVE RestTyped'
  BY <1>1, <1>5 DEF Drop, RestTyped
<1>6. ASSUME NEW c \in Clients, Reset(c) \/ Vanish(c) PROVE RestTyped'
  <2>1. due' \in [Clients -> Dues]
    BY <1>6, DueTyped DEF Reset, Vanish
  <2> QED
    BY <1>1, <1>6, <2>1 DEF Reset, Vanish, RestTyped
<1>7. ASSUME NEW c \in Clients, Accept(c) \/ Refuse(c) PROVE RestTyped'
  <2>1. sends' = sends + 1 /\ sends < MaxSends /\ UNCHANGED <<inbox, refusals>>
        /\ (due' = [due EXCEPT ![c] = "none"] \/ due' = [due EXCEPT ![c] = "over"])
    BY <1>7 DEF Accept, Refuse
  <2>2. due' \in [Clients -> Dues]
    BY <2>1 DEF RestTyped, Dues
  <2> QED
    BY <2>1, <2>2 DEF RestTyped, ConnAssumption
<1>8. ASSUME NEW c \in Clients, NEW seg \in Segments, Send(c, seg) PROVE RestTyped'
  <2>1. Typed(inbox')
    BY <1>8 DEF Send, RestTyped
  <2>2. due' \in [Clients -> Dues]
    BY <1>8 DEF Send, RestTyped, Dues
  <2> QED
    BY <1>8, <2>1, <2>2 DEF Send, RestTyped, ConnAssumption
<1>9. CASE UNCHANGED vars
  BY <1>9 DEF vars, RestTyped
<1> QED
  BY <1>3, <1>4, <1>5, <1>6, <1>7, <1>8, <1>9 DEF Next, Lwip

LEMMA HttpInvariant == Spec => []HttpInv
<1>1. ConnAssumption
  BY ConnAssumption
<1>2. Init => HttpInv
  BY <1>1, HttpInit
<1>3. HttpInv /\ [Next]_vars => HttpInv'
  BY <1>1, PoolStep, RestStep DEF HttpInv
<1> QED
  BY <1>2, <1>3, PTL DEF Spec

(***************************************************************************)
(* The theorems.                                                           *)
(***************************************************************************)
\* Every range holds: what is in flight never wraps below zero, polls stop at their limit.
THEOREM HttpTyped == Spec => []TypeOK
<1>1. HttpInv => TypeOK
  BY DEF HttpInv, PoolInv, PoolTyped, RestTyped, SlotRecs, PcbRecs, Dues, TypeOK
<1> QED
  BY <1>1, HttpInvariant, PTL

\* http_accept, http_close_conn, http_err and lwIP's own closing keep slots and connections
\* in pairs: no two share one, and none is lost but to a FIN that meets no callback.
THEOREM SlotsPaired == Spec => []SlotHasOwner
<1>1. HttpInv => SlotHasOwner
  BY DEF HttpInv, PoolInv
<1> QED
  BY <1>1, HttpInvariant, PTL

\* http_recv and http_sent never listen with a dispatched request in the buffer: no request
\* on a keep-alive connection is carried out a second time.
THEOREM RequestsOnce == Spec => []NoRequestTwice
<1>1. HttpInv => NoRequestTwice
  BY DEF HttpInv, PoolInv
<1> QED
  BY <1>1, HttpInvariant, PTL

(*****************************************************************************)
(* The catalogue: an invariant of its schemas and cards, kept by every step. *)
(*****************************************************************************)
WroteOk(w) == DOMAIN w = Ords /\ \A p \in Ords : DOMAIN w[p] = Ids

SizesOk(ss) == DOMAIN ss = Ords /\ \A p \in Ords : ss[p] # None => ss[p].bucket \in 0 .. 7

CatalogueInv ==
    SchemasOk(schemas) /\ CardsOk(cards) /\ WroteOk(wrote) /\ SizesOk(sizes) /\ CardsReadAsWritten

\* What the constants are, by name.
LEMMA CatalogueConstants ==
    ASSUME CatalogueAssumption
    PROVE  /\ SeedPack \in Ords /\ UserPack \in Ords /\ SeedPack # UserPack /\ 0 \in Ids
           /\ FieldMax \in Nat \ {0} /\ ByteMod \in Nat \ {0} /\ IsFiniteSet(Ids) /\ Ids \subseteq Nat
           /\ Ords \subseteq Nat /\ SeedSchema # None /\ UserSchema # None
           /\ SchemaOk(SeedSchema) /\ SchemaOk(UserSchema) /\ CardOk(AdminCard)
           /\ None \notin SchemaRec /\ PackNames \cup {"pack"} \subseteq STRING
           /\ \A f \in Fields : f.name \in STRING /\ f.type \in STRING /\ f.to \in Nat
           /\ \A i \in DOMAIN SeedCards : CardOk(SeedCards[i])
BY DEF CatalogueAssumption, SchemaOk

\* What is known of one card agrees with the fields of its schema.
ReadsAs(fields, w) == \A o \in DOMAIN w : NamesAt(fields, o) = {w[o]}

\* Nothing is known of some cards; what is known of one that is written is what its schema says.
LEMMA NothingReads == ASSUME NEW fields PROVE ReadsAs(fields, Nothing)
BY DEF ReadsAs, Nothing

LEMMA WrittenReads == ASSUME NEW fields, NEW c PROVE ReadsAs(fields, Written(fields, c))
<1> DEFINE D == {x \in DOMAIN c : \E n \in NamesAt(fields, x) : NamesAt(fields, x) = {n}}
<1>1. Written(fields, c) = [o \in D |-> CHOOSE n \in NamesAt(fields, o) : TRUE]
  BY DEF Written
<1>2. ASSUME NEW o \in D PROVE NamesAt(fields, o) = {CHOOSE n \in NamesAt(fields, o) : TRUE}
  <2>1. PICK n \in NamesAt(fields, o) : NamesAt(fields, o) = {n}
    OBVIOUS
  <2> QED
    BY <2>1
<1> HIDE DEF D
<1> QED
  BY <1>1, <1>2 DEF ReadsAs

\* A schema without fields says nothing of an ordinal.
LEMMA NoNames == ASSUME NEW w, ReadsAs(<<>>, w) PROVE DOMAIN w = {}
<1>1. \A o : NamesAt(<<>>, o) = {}
  BY DEF NamesAt, Range
<1> QED
  BY <1>1 DEF ReadsAs

\* CardsReadAsWritten, card by card.
LEMMA ReadAsWritten == CardsReadAsWritten <=> \A p \in Ords, i \in Ids : ReadsAs(SchemaFields(p), wrote[p][i])
BY DEF CardsReadAsWritten, ReadsAs

LEMMA ReadAsWrittenNext ==
    CardsReadAsWritten' <=> \A p \in Ords, i \in Ids : ReadsAs(SchemaFields(p)', wrote'[p][i])
BY DEF CardsReadAsWritten, ReadsAs

\* The device starts with schemas and cards in range.
LEMMA QueryStarts ==
    ASSUME CatalogueAssumption, QueryAssumption, QueryInit PROVE CatalogueInv
<1>1. PICK s \in Starts : /\ schemas = s.schemas /\ cards = s.cards
                          /\ wrote = [p \in Ords |-> [i \in Ids |->
                                IF s.cards[p][i] = None THEN Nothing ELSE Written(SchemaFields(p), s.cards[p][i])]]
  BY DEF QueryInit
<1>2. SchemasOk(schemas) /\ CardsOk(cards)
  BY <1>1 DEF QueryAssumption
<1>3. WroteOk(wrote)
  BY <1>1 DEF WroteOk
<1>4. CardsReadAsWritten
  BY <1>1, NothingReads, WrittenReads, ReadAsWritten
<1>5. SizesOk(sizes)
  BY DEF QueryInit, SizesOk
<1> QED
  BY <1>2, <1>3, <1>4, <1>5 DEF CatalogueInv

\* A schema is written, or removed.
LEMMA WritesSchema ==
    ASSUME CatalogueAssumption, CatalogueInv, NEW p \in Ords, NEW s, Write(p, s), SchemaOk(s)
    PROVE  /\ SchemasOk(schemas') /\ schemas'[p] = s /\ SchemaFields(p)' = s.fields
           /\ \A o \in Ords \ {p} : SchemaFields(o)' = SchemaFields(o)
<1>1. SchemasOk(schemas') /\ schemas'[p] = s /\ \A o \in Ords \ {p} : schemas'[o] = schemas[o]
  BY DEF CatalogueInv, SchemasOk, Write
<1>2. s # None
  BY CatalogueConstants DEF SchemaOk
<1> QED
  BY <1>1, <1>2 DEF SchemaFields

LEMMA WritesNone ==
    ASSUME CatalogueInv, NEW p \in Ords, Write(p, None)
    PROVE  SchemasOk(schemas') /\ \A o \in Ords \ {p} : SchemaFields(o)' = SchemaFields(o)
<1>1. SchemasOk(schemas') /\ \A o \in Ords \ {p} : schemas'[o] = schemas[o]
  BY DEF CatalogueInv, SchemasOk, Write
<1> QED
  BY <1>1 DEF SchemaFields

\* A schema built from its name and fields has those fields.
LEMMA PlainFields == ASSUME NEW n, NEW f PROVE Plain(n, f).fields = f
BY DEF Plain, Card

LEMMA CardIsOk ==
    ASSUME NEW n \in STRING, NEW f, FieldsOk(f), NEW b \in BOOLEAN, NEW m \in BOOLEAN
    PROVE  SchemaOk(Card(n, f, b, m))
<1>1. f \in Seq(FieldRec) /\ 0 \in 0 .. 7 /\ {} \in SUBSET Ords
  BY DEF FieldsOk
<1>2. Card(n, f, b, m) \in SchemaRec
  BY <1>1 DEF Card, SchemaRec
<1>3. Card(n, f, b, m).fields = f
  BY DEF Card
<1> QED
  BY <1>2, <1>3 DEF SchemaOk

LEMMA PlainOk == ASSUME NEW n \in STRING, NEW f, FieldsOk(f) PROVE SchemaOk(Plain(n, f))
BY CardIsOk DEF Plain

\* A new pack has no fields.
LEMMA NoFields == ASSUME CatalogueAssumption PROVE FieldsOk(<<>>)
BY DEF CatalogueAssumption, FieldsOk

\* The fields of a pack are in order.
LEMMA SchemaFieldsOk ==
    ASSUME CatalogueAssumption, CatalogueInv, NEW p \in Ords PROVE FieldsOk(SchemaFields(p))
BY NoFields DEF CatalogueInv, SchemasOk, SchemaOk, SchemaFields

\* The next free ordinal below the limit is not reduced.
LEMMA SmallRemainder == ASSUME NEW b \in Nat \ {0}, NEW a \in 0 .. b - 1 PROVE a % b = a
OBVIOUS

\* The next ordinal is the number of fields, or of a full schema one that its last field may have.
LEMMA NextIsLength ==
    ASSUME CatalogueAssumption, NEW fields, FieldsOk(fields)
    PROVE  /\ Len(fields) < FieldMax => NextOrd(fields) = Len(fields)
           /\ Len(fields) = FieldMax => NextOrd(fields) \in {0, FieldMax - 1}
<1> DEFINE L == Len(fields)
           Is(n) == /\ \A i \in DOMAIN fields : fields[i].ord < n
                    /\ n = 0 \/ \E i \in DOMAIN fields : fields[i].ord = n - 1
           top == IF L > 0 /\ fields[L].ord # L - 1 THEN L - 1 ELSE L
<1>1. FieldMax \in Nat \ {0} /\ L \in 0 .. FieldMax /\ DOMAIN fields = 1 .. L
  BY CatalogueConstants DEF FieldsOk
<1>2. \A i \in 1 .. L : fields[i].ord = i - 1 \/ (i = FieldMax /\ fields[i].ord = 0)
  BY <1>1 DEF FieldsOk
<1> HIDE DEF L
<1>3. Is(top)
  <2>1. CASE L > 0 /\ fields[L].ord # L - 1
    <3>1. L = FieldMax /\ fields[L].ord = 0 /\ L > 1
      BY <1>1, <1>2, <2>1
    <3>2. fields[L - 1].ord = L - 2
      BY <1>1, <1>2, <3>1
    <3> QED
      BY <1>1, <1>2, <2>1, <3>1, <3>2
  <2>2. CASE ~(L > 0 /\ fields[L].ord # L - 1)
    BY <1>1, <1>2, <2>2, SMTT(30)
  <2> QED
    BY <2>1, <2>2
<1>4. ASSUME NEW a \in Nat, NEW b \in Nat, Is(a), Is(b) PROVE ~(a < b)
  BY <1>1, <1>2, <1>4
<1>5. top \in 0 .. FieldMax
  BY <1>1
<1>6. (CHOOSE n \in 0 .. FieldMax : Is(n)) = top
  <2>1. \A n \in 0 .. FieldMax : Is(n) => n = top
    BY <1>1, <1>3, <1>4, <1>5
  <2> HIDE DEF Is, top
  <2> QED
    BY <1>3, <1>5, <2>1
<1>7. NextOrd(fields) = top % FieldMax
  BY <1>6 DEF NextOrd
<1>8. L < FieldMax => top = L
  BY <1>1, <1>2
<1>9. L = FieldMax => top \in {FieldMax - 1, FieldMax}
  BY <1>1
<1>10. FieldMax % FieldMax = 0
  BY <1>1
<1> HIDE DEF top
<1>11. top < FieldMax => top % FieldMax = top
  BY <1>1, <1>5, SmallRemainder
<1>12. L = FieldMax => top % FieldMax \in {0, FieldMax - 1}
  BY <1>1, <1>9, <1>10, <1>11
<1>13. L < FieldMax => top % FieldMax = L
  BY <1>1, <1>8, <1>11
<1> QED
  BY <1>7, <1>12, <1>13 DEF L

\* What POST /admin/meta/{n} makes of the fields: fields in order, and the old ones among them.
LEMMA AddedOk ==
    ASSUME CatalogueAssumption, NEW fields, FieldsOk(fields), NEW f \in Fields
    PROVE  /\ FieldsOk(Added(fields, f))
           /\ Len(fields) < FieldMax =>
                \A i \in DOMAIN fields : /\ i \in DOMAIN Added(fields, f)
                                         /\ Added(fields, f)[i].name = fields[i].name
                                         /\ Added(fields, f)[i].ord = fields[i].ord
           /\ Len(fields) < FieldMax => \A i \in DOMAIN Added(fields, f) : Added(fields, f)[i].ord = i - 1
<1> DEFINE m == IF Len(fields) < FieldMax THEN Len(fields) ELSE FieldMax - 1
           kept == SubSeq(fields, 1, m)
           to == f.to % ByteMod
           new == [name |-> f.name, ord |-> NextOrd(fields), type |-> f.type, to |-> to]
           retyped == [i \in DOMAIN kept |->
                        IF kept[i].name = f.name THEN [kept[i] EXCEPT !.type = f.type, !.to = to] ELSE kept[i]]
<1>1. /\ FieldMax \in Nat \ {0} /\ Len(fields) \in 0 .. FieldMax /\ m \in 0 .. FieldMax - 1
      /\ DOMAIN fields = 1 .. Len(fields) /\ f.name \in STRING /\ f.type \in STRING /\ to \in 0 .. ByteMod - 1
      /\ m <= Len(fields)
  <2>1. to \in 0 .. ByteMod - 1
    <3>1. f.to \in Nat /\ ByteMod \in Nat \ {0}
      BY CatalogueConstants
    <3> QED
      BY <3>1
  <2> HIDE DEF to
  <2> QED
    BY <2>1, CatalogueConstants DEF FieldsOk
<1> HIDE DEF to
<1>2. /\ kept \in Seq(FieldRec) /\ Len(kept) = m /\ DOMAIN kept = 1 .. m
      /\ \A i \in 1 .. m : kept[i] = fields[i] /\ kept[i].ord = i - 1 /\ kept[i] \in FieldRec
  <2>1. fields \in Seq(FieldRec) /\ \A i \in DOMAIN fields : fields[i].ord = i - 1 \/ i = FieldMax
    BY DEF FieldsOk
  <2>2. /\ kept \in Seq(FieldRec) /\ Len(kept) = m /\ DOMAIN kept = 1 .. m
        /\ \A i \in 1 .. m : kept[i] = fields[i] /\ i \in DOMAIN fields /\ i # FieldMax
    <3> HIDE DEF m
    <3> QED
      BY <1>1, <2>1
  <2> HIDE DEF kept, m
  <2> QED
    BY <2>1, <2>2
<1>3. new.ord \in 0 .. FieldMax - 1 /\ new \in FieldRec /\ (new.ord = m \/ (m + 1 = FieldMax /\ new.ord = 0))
      /\ (Len(fields) < FieldMax => new.ord = m)
  BY <1>1, NextIsLength DEF FieldRec
<1>4. /\ retyped \in Seq(FieldRec) /\ Len(retyped) = m /\ DOMAIN retyped = 1 .. m
      /\ \A i \in 1 .. m : /\ retyped[i].name = fields[i].name /\ retyped[i].ord = i - 1
                           /\ retyped[i].ord = fields[i].ord
  <2>1. \A i \in 1 .. m : [kept[i] EXCEPT !.type = f.type, !.to = to] \in FieldRec
    BY <1>1, <1>2, ZenonT(60) DEF FieldRec
  <2> HIDE DEF kept, m
  <2>2. retyped \in [1 .. m -> FieldRec]
    BY <1>2, <2>1
  <2>3. retyped \in Seq(FieldRec) /\ Len(retyped) = m
    <3> HIDE DEF retyped
    <3>1. m \in Nat
      BY <1>1
    <3> QED
      BY <2>2, <3>1
  <2>4. ASSUME NEW i \in 1 .. m
        PROVE  retyped[i].name = kept[i].name /\ retyped[i].ord = kept[i].ord
    BY <1>2 DEF FieldRec
  <2> QED
    BY <1>2, <2>2, <2>3, <2>4
<1>5. /\ Append(kept, new) \in Seq(FieldRec) /\ Len(Append(kept, new)) = m + 1
      /\ DOMAIN Append(kept, new) = 1 .. m + 1 /\ Append(kept, new)[m + 1] = new
      /\ \A i \in 1 .. m : Append(kept, new)[i] = kept[i]
  <2> HIDE DEF kept, new, m
  <2> QED
    BY <1>1, <1>2, <1>3
<1>6. Added(fields, f) = IF \E i \in DOMAIN fields : fields[i].name = f.name THEN retyped ELSE Append(kept, new)
  BY DEF Added, to
<1> HIDE DEF m, kept, new, retyped
<1>7. FieldsOk(retyped)
  BY <1>1, <1>4 DEF FieldsOk
<1>8. FieldsOk(Append(kept, new))
  BY <1>1, <1>2, <1>3, <1>5 DEF FieldsOk
<1>9. Len(fields) < FieldMax => m = Len(fields)
  BY DEF m
<1>10. CASE \E i \in DOMAIN fields : fields[i].name = f.name
  <2>1. Added(fields, f) = retyped
    BY <1>6, <1>10
  <2> QED
    BY <1>1, <1>4, <1>7, <1>9, <2>1
<1>11. CASE ~\E i \in DOMAIN fields : fields[i].name = f.name
  <2> DEFINE app == Append(kept, new)
  <2>1. Added(fields, f) = app
    BY <1>6, <1>11
  <2>2. /\ DOMAIN app = 1 .. m + 1 /\ app[m + 1] = new /\ \A i \in 1 .. m : app[i] = fields[i] /\ fields[i].ord = i - 1
        /\ FieldsOk(app)
    BY <1>2, <1>5, <1>8
  <2> HIDE DEF app
  <2>3. ASSUME Len(fields) < FieldMax PROVE \A i \in DOMAIN app : app[i].ord = i - 1
    BY <1>1, <1>3, <1>9, <2>2, <2>3
  <2>4. ASSUME Len(fields) < FieldMax, NEW i \in DOMAIN fields PROVE i \in DOMAIN app /\ app[i] = fields[i]
    <3>1. i \in 1 .. m
      BY <1>1, <1>9, <2>4
    <3> QED
      BY <1>1, <2>2, <3>1
  <2> QED
    BY <2>1, <2>2, <2>3, <2>4
<1> QED
  BY <1>10, <1>11

\* What the fields of a schema that is not full say of an ordinal.
LEMMA NamesInOrder ==
    ASSUME NEW fields, NEW l \in Nat, DOMAIN fields = 1 .. l, \A i \in DOMAIN fields : fields[i].ord = i - 1, NEW o
    PROVE  /\ NamesAt(fields, o) # {} => o + 1 \in DOMAIN fields /\ o \in Nat
           /\ \A i \in DOMAIN fields : NamesAt(fields, i - 1) = {fields[i].name}
<1>1. ASSUME NEW n \in NamesAt(fields, o) PROVE o + 1 \in DOMAIN fields /\ o \in Nat
  <2>1. PICK i \in DOMAIN fields : fields[i].ord = o
    BY <1>1 DEF NamesAt, Range
  <2> QED
    BY <2>1
<1>2. ASSUME NEW i \in DOMAIN fields PROVE NamesAt(fields, i - 1) = {fields[i].name}
  <2>1. \A j \in DOMAIN fields : fields[j].ord = i - 1 => j = i
    OBVIOUS
  <2>2. {g \in Range(fields) : g.ord = i - 1} = {fields[i]}
    BY <2>1 DEF Range
  <2> QED
    BY <2>2 DEF NamesAt
<1> QED
  BY <1>1, <1>2

\* What was read under a name before a field is added, or changed, is read under it after.
LEMMA AddedReads ==
    ASSUME CatalogueAssumption, NEW fields, FieldsOk(fields), Len(fields) < FieldMax, NEW f \in Fields,
           NEW w, ReadsAs(fields, w)
    PROVE  ReadsAs(Added(fields, f), w)
<1> DEFINE b == Added(fields, f)
<1>1. /\ FieldsOk(b) /\ \A i \in DOMAIN b : b[i].ord = i - 1
      /\ \A i \in DOMAIN fields : i \in DOMAIN b /\ b[i].name = fields[i].name /\ b[i].ord = fields[i].ord
  BY AddedOk
<1> HIDE DEF b
<1>2. /\ Len(fields) \in Nat /\ DOMAIN fields = 1 .. Len(fields) /\ Len(b) \in Nat /\ DOMAIN b = 1 .. Len(b)
      /\ \A i \in DOMAIN fields : fields[i].ord = i - 1
  BY <1>1, CatalogueConstants DEF FieldsOk
<1>3. ASSUME NEW o \in DOMAIN w PROVE NamesAt(b, o) = {w[o]}
  <2>1. NamesAt(fields, o) = {w[o]}
    BY DEF ReadsAs
  <2>2. o + 1 \in DOMAIN fields /\ o \in Nat
    BY <1>2, <2>1, NamesInOrder
  <2> DEFINE i == o + 1
  <2>3. i - 1 = o /\ i \in DOMAIN fields /\ i \in DOMAIN b
    BY <1>1, <2>2
  <2> HIDE DEF i
  <2>4. NamesAt(fields, i - 1) = {fields[i].name} /\ NamesAt(b, i - 1) = {b[i].name}
    BY <1>1, <1>2, <2>3, NamesInOrder
  <2> QED
    BY <1>1, <2>1, <2>3, <2>4
<1> QED
  BY <1>3 DEF ReadsAs, b

\* Cards are written, and schemas as the lemmas above say.
LEMMA CardsKept ==
    ASSUME CatalogueInv, UNCHANGED cards PROVE CardsOk(cards')
BY DEF CatalogueInv

\* A card that is written has values in range.
LEMMA PutKeeps ==
    ASSUME CatalogueInv, NEW p \in Ords, NEW i \in Ids, NEW c, c # None => CardOk(c),
           cards' = [cards EXCEPT ![p][i] = c]
    PROVE  CardsOk(cards')
BY DEF CatalogueInv, CardsOk

\* A set of naturals has a least member.
LEMMA LeastNumber ==
    ASSUME NEW S, S \subseteq Nat, S # {} PROVE \E m \in S : \A i \in S : m <= i
<1>1. PICK m \in S : \A i \in S : ~(<<i, m>> \in OpToRel(<, Nat))
  BY NatLessThanWellFounded, WFMin
<1>2. \A i \in S : ~(i < m)
  BY <1>1 DEF OpToRel
<1> QED
  BY <1>2

\* Min and Max of sets of numbers.
LEMMA MinIs ==
    ASSUME NEW S, S \subseteq Nat, S # {} PROVE Min(S) \in S /\ \A y \in S : Min(S) <= y
BY LeastNumber DEF Min

\* The bucket of a size is one of eight.
LEMMA BucketOk == ASSUME NEW n PROVE Bucket(n) \in 0 .. 7
<1> DEFINE S == {b \in 0 .. 7 : b = 7 \/ n < Base ^ (b + 1)}
<1>1. S \subseteq Nat /\ 7 \in S /\ S \subseteq 0 .. 7
  OBVIOUS
<1>2. Bucket(n) = Min(S)
  BY DEF Bucket
<1> HIDE DEF S
<1>3. Min(S) \in S
  BY <1>1, MinIs
<1> QED
  BY <1>1, <1>2, <1>3

\* A step that writes none of this.
LEMMA NothingWritten ==
    ASSUME CatalogueInv, UNCHANGED <<schemas, cards, wrote, sizes>> PROVE CatalogueInv'
<1>1. \A p \in Ords : SchemaFields(p)' = SchemaFields(p)
  BY DEF SchemaFields
<1>2. CardsReadAsWritten'
  BY <1>1, ReadAsWritten, ReadAsWrittenNext DEF CatalogueInv
<1> QED
  BY <1>2 DEF CatalogueInv

\* Every schema's fields stay, and what is known of the cards.
LEMMA FieldsStay ==
    ASSUME CatalogueAssumption, CatalogueInv, SchemasOk(schemas'), CardsOk(cards'), SizesOk(sizes'), UNCHANGED wrote,
           \A p \in Ords : SchemaFields(p)' = SchemaFields(p)
    PROVE  CatalogueInv'
<1>1. CardsReadAsWritten'
  <2>1. \A p \in Ords, i \in Ids : ReadsAs(SchemaFields(p), wrote[p][i])
    BY ReadAsWritten DEF CatalogueInv
  <2> QED
    BY <2>1, ReadAsWrittenNext
<1> QED
  BY <1>1 DEF CatalogueInv

\* The fields of one schema change, and nothing is known of its cards afterwards.
LEMMA PackOrphaned ==
    ASSUME CatalogueAssumption, CatalogueInv, SchemasOk(schemas'), CardsOk(cards'), UNCHANGED sizes,
           NEW p \in Ords, Orphaned(p), \A o \in Ords \ {p} : SchemaFields(o)' = SchemaFields(o)
    PROVE  CatalogueInv'
<1>1. WroteOk(wrote') /\ \A i \in Ids : wrote'[p][i] = Nothing
  BY DEF Orphaned, CatalogueInv, WroteOk
<1>2. \A o \in Ords \ {p} : wrote'[o] = wrote[o]
  BY DEF Orphaned, CatalogueInv, WroteOk
<1>3. \A o \in Ords, i \in Ids : ReadsAs(SchemaFields(o), wrote[o][i])
  BY ReadAsWritten DEF CatalogueInv
<1>4. ASSUME NEW o \in Ords, NEW i \in Ids PROVE ReadsAs(SchemaFields(o)', wrote'[o][i])
  <2>1. CASE o = p
    BY <1>1, <2>1, NothingReads
  <2>2. CASE o # p
    BY <1>2, <1>3, <2>2
  <2> QED
    BY <2>1, <2>2
<1>5. CardsReadAsWritten'
  BY <1>4, ReadAsWrittenNext
<1> QED
  BY <1>1, <1>5 DEF CatalogueInv

\* One card is written or removed.
LEMMA CardKnown ==
    ASSUME CatalogueAssumption, CatalogueInv, UNCHANGED <<schemas, sizes>>, CardsOk(cards'), NEW p \in Ords, NEW i \in Ids,
           NEW w, ReadsAs(SchemaFields(p), w), wrote' = [wrote EXCEPT ![p][i] = w]
    PROVE  CatalogueInv'
<1>1. \A o \in Ords, j \in Ids : ReadsAs(SchemaFields(o), wrote[o][j])
  BY ReadAsWritten DEF CatalogueInv
<1>2. WroteOk(wrote') /\ \A o \in Ords, j \in Ids : wrote'[o][j] = IF o = p /\ j = i THEN w ELSE wrote[o][j]
  BY DEF CatalogueInv, WroteOk
<1>3. \A o \in Ords : SchemaFields(o)' = SchemaFields(o)
  BY DEF SchemaFields
<1>4. CardsReadAsWritten'
  BY <1>1, <1>2, <1>3, ReadAsWrittenNext
<1> QED
  BY <1>2, <1>4 DEF CatalogueInv

\* admin_add_field appends: the fields before it stay where they are.
LEMMA FieldAdded ==
    ASSUME CatalogueAssumption, CatalogueInv, NEW p \in Ords, NEW f \in Fields, AddField(p, f)
    PROVE  CatalogueInv'
<1> DEFINE old == IF schemas[p] = None THEN Plain("pack", <<>>) ELSE schemas[p]
           name == old.name
           new == Plain(name, Added(old.fields, f))
           a == SchemaFields(p)
<1>1. FieldsOk(a) /\ old.fields = a /\ Write(p, new)
  BY SchemaFieldsOk, PlainFields DEF SchemaFields, AddField
<1>2. new.fields = Added(a, f) /\ UNCHANGED <<cards, sizes>>
  BY <1>1, PlainFields DEF AddField
<1>3. IF Len(a) < FieldMax THEN UNCHANGED wrote ELSE Orphaned(p)
  BY <1>1 DEF AddField
<1>4. name \in STRING
  <2>1. schemas[p] # None => schemas[p].name \in STRING
    BY DEF CatalogueInv, SchemasOk, SchemaOk, SchemaRec
  <2>2. Plain("pack", <<>>).name = "pack"
    BY DEF Plain, Card
  <2>3. "pack" \in STRING
    BY CatalogueConstants
  <2>4. CASE schemas[p] = None
    <3>1. name = Plain("pack", <<>>).name
      BY <2>4
    <3> HIDE DEF name
    <3> QED
      BY <2>2, <2>3, <3>1
  <2>5. CASE schemas[p] # None
    BY <2>1, <2>5
  <2> QED
    BY <2>4, <2>5
<1> HIDE DEF a, old, name
<1>5. FieldsOk(Added(a, f)) /\ new = Plain(name, Added(a, f))
  BY <1>1, AddedOk
<1>6. SchemaOk(new)
  BY <1>4, <1>5, PlainOk
<1> HIDE DEF new
<1>7. /\ SchemasOk(schemas') /\ SchemaFields(p)' = new.fields
      /\ \A o \in Ords \ {p} : SchemaFields(o)' = SchemaFields(o)
  BY <1>1, <1>6, WritesSchema
<1>8. CardsOk(cards') /\ SizesOk(sizes')
  BY <1>2, CardsKept DEF CatalogueInv
<1>9. CASE Len(a) < FieldMax
  <2>1. \A o \in Ords, i \in Ids : ReadsAs(SchemaFields(o), wrote[o][i])
    BY ReadAsWritten DEF CatalogueInv
  <2>2. UNCHANGED wrote
    BY <1>3, <1>9
  <2>3. ASSUME NEW i \in Ids PROVE ReadsAs(SchemaFields(p)', wrote[p][i])
    <3>1. ReadsAs(a, wrote[p][i])
      BY <2>1 DEF a
    <3>2. ReadsAs(new.fields, wrote[p][i])
      BY <1>1, <1>2, <1>9, <3>1, AddedReads
    <3> QED
      BY <1>7, <3>2
  <2>4. CardsReadAsWritten'
    BY <1>7, <2>1, <2>2, <2>3, ReadAsWrittenNext
  <2> QED
    BY <1>7, <1>8, <2>2, <2>4 DEF CatalogueInv
<1>10. CASE ~(Len(a) < FieldMax)
  BY <1>2, <1>3, <1>7, <1>8, <1>10, PackOrphaned
<1> QED
  BY <1>9, <1>10

\* Some cards of a pack go, and nothing is known of the rest.
LEMMA PackDeleted ==
    ASSUME CatalogueAssumption, CatalogueInv, NEW p \in Ords, DeletePack(p)
    PROVE  CatalogueInv'
<1>1. /\ SchemasOk(schemas') /\ \A o \in Ords \ {p} : SchemaFields(o)' = SchemaFields(o)
  BY WritesNone DEF DeletePack
<1>2. CardsOk(cards')
  <2> DEFINE gone == Scan(p, DeleteMax)
  <2>1. cards' = [cards EXCEPT ![p] = [i \in Ids |-> IF i \in gone THEN None ELSE @[i]]]
    BY DEF DeletePack
  <2> HIDE DEF gone
  <2> QED
    BY <2>1 DEF CatalogueInv, CardsOk
<1> QED
  BY <1>1, <1>2, PackOrphaned DEF DeletePack

\* Each of the admin's routes, and the cards' routes.
LEMMA ChangeKeeps ==
    ASSUME CatalogueAssumption, QueryAssumption, CatalogueInv, Change PROVE CatalogueInv'
<1>1. ASSUME NEW p \in Ords, NEW n \in PackNames, NewPack(p, n) PROVE CatalogueInv'
  <2>1. PICK m \in BOOLEAN : Write(p, Card(n, <<>>, FALSE, m))
    BY <1>1 DEF NewPack
  <2>2. SchemaOk(Card(n, <<>>, FALSE, m))
    BY NoFields, CardIsOk, CatalogueConstants
  <2>3. SchemasOk(schemas') /\ \A o \in Ords \ {p} : SchemaFields(o)' = SchemaFields(o)
    BY <2>1, <2>2, WritesSchema
  <2>4. CardsOk(cards') /\ Orphaned(p) /\ UNCHANGED sizes
    BY <1>1, CardsKept DEF NewPack
  <2> QED
    BY <2>3, <2>4, PackOrphaned
<1>2. ASSUME NEW p \in Ords, NEW f \in Fields, AddField(p, f) PROVE CatalogueInv'
  BY <1>2, FieldAdded
<1>3. ASSUME NEW p \in Ords, SetKids(p, Ords) PROVE CatalogueInv'
  <2> DEFINE s == [schemas[p] EXCEPT !.kids = Ords]
  <2>1. Write(p, s) /\ UNCHANGED <<cards, wrote, sizes>> /\ schemas[p] # None
    BY <1>3 DEF SetKids
  <2>2. s.fields = schemas[p].fields /\ SchemaOk(schemas[p])
    BY <2>1 DEF CatalogueInv, SchemasOk
  <2>3. s \in SchemaRec
    BY <2>2 DEF SchemaOk, SchemaRec
  <2> HIDE DEF s
  <2>4. SchemaOk(s) /\ SchemaFields(p) = s.fields
    BY <2>1, <2>2, <2>3 DEF SchemaOk, SchemaFields
  <2>5. /\ SchemasOk(schemas') /\ \A o \in Ords \ {p} : SchemaFields(o)' = SchemaFields(o)
        /\ SchemaFields(p)' = s.fields
    BY <2>1, <2>4, WritesSchema
  <2>6. CardsOk(cards') /\ SizesOk(sizes') /\ \A o \in Ords : SchemaFields(o)' = SchemaFields(o)
    BY <2>1, <2>4, <2>5, CardsKept DEF CatalogueInv
  <2> QED
    BY <2>1, <2>5, <2>6, FieldsStay
<1>4. ASSUME NEW p \in Ords, DeletePack(p) PROVE CatalogueInv'
  BY <1>4, PackDeleted
<1>5. ASSUME NEW p \in Ords, NEW i \in Ids, NEW c \in NewCards, PutCard(p, i, c) PROVE CatalogueInv'
  <2>1. CardsOk(cards')
    BY <1>5, PutKeeps DEF PutCard, QueryAssumption
  <2>2. ReadsAs(SchemaFields(p), Written(SchemaFields(p), c))
    BY WrittenReads
  <2> QED
    BY <1>5, <2>1, <2>2, CardKnown DEF PutCard
<1>6. ASSUME NEW p \in Ords, NEW i \in Ids, DeleteCard(p, i) PROVE CatalogueInv'
  <2>1. CardsOk(cards')
    BY <1>6, PutKeeps DEF DeleteCard
  <2>2. ReadsAs(SchemaFields(p), Nothing)
    BY NothingReads
  <2> QED
    BY <1>6, <2>1, <2>2, CardKnown DEF DeleteCard
<1>7. ASSUME UNCHANGED <<schemas, cards, wrote, sizes>> PROVE CatalogueInv'
  BY <1>7, NothingWritten
<1> QED
  BY <1>1, <1>2, <1>3, <1>4, <1>5, <1>6, <1>7 DEF Change, Read, Evict, Persist

\* The boot writes the users' schema, and seeds what is missing.
LEMMA RestartKeeps ==
    ASSUME CatalogueAssumption, CatalogueInv, Restart PROVE CatalogueInv'
<1>1. PICK n : Boot(n)
  BY DEF Restart
<1> DEFINE seeds == IF schemas[SeedPack] = None /\ ~OnSd(SeedPack) THEN First(DOMAIN SeedCards, n) ELSE {}
           admin == cards[UserPack][0] = None /\ n > Cardinality(seeds)
           known == IF SchemaFields(UserPack) = UserSchema.fields THEN wrote[UserPack] ELSE [i \in Ids |-> Nothing]
<1>2. /\ SeedPack \in Ords /\ UserPack \in Ords /\ SeedPack # UserPack /\ 0 \in Ids
      /\ SchemaOk(SeedSchema) /\ SchemaOk(UserSchema) /\ CardOk(AdminCard) /\ SeedSchema # None /\ UserSchema # None
      /\ \A i \in DOMAIN SeedCards : CardOk(SeedCards[i])
  BY CatalogueConstants
<1>3. /\ schemas' = [schemas EXCEPT ![UserPack] = UserSchema, ![SeedPack] = IF @ = None THEN SeedSchema ELSE @]
      /\ cards' = [cards EXCEPT ![SeedPack] = [i \in Ids |-> IF i \in seeds THEN SeedCards[i] ELSE @[i]],
                                ![UserPack][0] = IF admin THEN AdminCard ELSE @]
      /\ wrote' = [wrote EXCEPT
            ![SeedPack] = [i \in Ids |-> IF i \in seeds THEN Written(SeedSchema.fields, SeedCards[i]) ELSE @[i]],
            ![UserPack] = IF admin THEN [known EXCEPT ![0] = Written(UserSchema.fields, AdminCard)] ELSE known]
      /\ sizes' = [p \in Ords |-> None]
  BY <1>1 DEF Boot
<1>4. /\ schemas[SeedPack] # None => seeds = {}
      /\ \A i \in seeds : CardOk(SeedCards[i])
  BY <1>2 DEF First
<1> HIDE DEF seeds, admin
<1>5. /\ SchemasOk(schemas')
      /\ SchemaFields(UserPack)' = UserSchema.fields
      /\ SchemaFields(SeedPack)' = IF schemas[SeedPack] = None THEN SeedSchema.fields ELSE SchemaFields(SeedPack)
      /\ \A o \in Ords \ {UserPack, SeedPack} : SchemaFields(o)' = SchemaFields(o)
  <2>1. /\ DOMAIN schemas' = Ords /\ schemas'[UserPack] = UserSchema
        /\ schemas'[SeedPack] = IF schemas[SeedPack] = None THEN SeedSchema ELSE schemas[SeedPack]
        /\ \A o \in Ords \ {UserPack, SeedPack} : schemas'[o] = schemas[o]
    BY <1>2, <1>3 DEF CatalogueInv, SchemasOk
  <2>2. SchemasOk(schemas')
    BY <1>2, <2>1 DEF CatalogueInv, SchemasOk
  <2> QED
    BY <1>2, <2>1, <2>2 DEF SchemaFields
<1>6. CardsOk(cards')
  <2>1. DOMAIN cards = Ords /\ \A o \in Ords : DOMAIN cards[o] = Ids /\ \A i \in Ids : cards[o][i] # None => CardOk(cards[o][i])
    BY DEF CatalogueInv, CardsOk
  <2>2. /\ DOMAIN cards' = Ords
        /\ cards'[SeedPack] = [i \in Ids |-> IF i \in seeds THEN SeedCards[i] ELSE cards[SeedPack][i]]
        /\ cards'[UserPack] = [cards[UserPack] EXCEPT ![0] = IF admin THEN AdminCard ELSE @]
        /\ \A o \in Ords \ {UserPack, SeedPack} : cards'[o] = cards[o]
    BY <1>2, <1>3, <2>1
  <2>3. ASSUME NEW o \in Ords PROVE DOMAIN cards'[o] = Ids /\ \A i \in Ids : cards'[o][i] # None => CardOk(cards'[o][i])
    <3>1. CASE o = SeedPack
      BY <1>4, <2>1, <2>2, <3>1
    <3>2. CASE o = UserPack
      <4> DEFINE c == cards[UserPack]  a == IF admin THEN AdminCard ELSE c[0]
      <4>1. cards'[UserPack] = [c EXCEPT ![0] = a] /\ DOMAIN c = Ids /\ \A i \in Ids : c[i] # None => CardOk(c[i])
        BY <1>2, <2>1, <2>2
      <4>2. a # None => CardOk(a)
        BY <1>2, <4>1
      <4> HIDE DEF a, c
      <4>3. \A i \in Ids : cards'[UserPack][i] = IF i = 0 THEN a ELSE c[i]
        BY <1>2, <4>1
      <4> QED
        BY <3>2, <4>1, <4>2, <4>3
    <3>3. CASE o \in Ords \ {UserPack, SeedPack}
      BY <2>1, <2>2, <3>3
    <3> QED
      BY <3>1, <3>2, <3>3
  <2> QED
    BY <2>2, <2>3 DEF CardsOk
<1>7. WroteOk(wrote) /\ \A o \in Ords, i \in Ids : ReadsAs(SchemaFields(o), wrote[o][i])
  BY ReadAsWritten DEF CatalogueInv
<1>8. DOMAIN known = Ids /\ \A i \in Ids : ReadsAs(UserSchema.fields, known[i])
  <2>1. CASE SchemaFields(UserPack) = UserSchema.fields
    BY <1>2, <1>7, <2>1 DEF WroteOk
  <2>2. CASE SchemaFields(UserPack) # UserSchema.fields
    BY <2>2, NothingReads
  <2> QED
    BY <2>1, <2>2
<1> HIDE DEF known
<1>9. /\ DOMAIN wrote' = Ords /\ \A o \in Ords \ {UserPack, SeedPack} : wrote'[o] = wrote[o]
      /\ wrote'[SeedPack] = [i \in Ids |-> IF i \in seeds THEN Written(SeedSchema.fields, SeedCards[i]) ELSE wrote[SeedPack][i]]
      /\ wrote'[UserPack] = IF admin THEN [known EXCEPT ![0] = Written(UserSchema.fields, AdminCard)] ELSE known
  BY <1>2, <1>3, <1>7 DEF WroteOk
<1>10. WroteOk(wrote')
  <2>1. DOMAIN wrote'[UserPack] = Ids /\ DOMAIN wrote'[SeedPack] = Ids
    BY <1>8, <1>9
  <2> QED
    BY <1>7, <1>9, <2>1 DEF WroteOk
<1>11. ASSUME NEW i \in Ids PROVE ReadsAs(SchemaFields(UserPack)', wrote'[UserPack][i])
  <2>1. ReadsAs(UserSchema.fields, Written(UserSchema.fields, AdminCard))
    BY WrittenReads
  <2>2. wrote'[UserPack][i] \in {known[i], Written(UserSchema.fields, AdminCard)}
    BY <1>2, <1>8, <1>9
  <2> QED
    BY <1>5, <1>8, <2>1, <2>2
<1>12. ASSUME NEW i \in Ids PROVE ReadsAs(SchemaFields(SeedPack)', wrote'[SeedPack][i])
  <2>1. ReadsAs(SeedSchema.fields, Written(SeedSchema.fields, SeedCards[i]))
    BY WrittenReads
  <2>2. wrote'[SeedPack][i] = IF i \in seeds THEN Written(SeedSchema.fields, SeedCards[i]) ELSE wrote[SeedPack][i]
    BY <1>9
  <2>3. ReadsAs(SchemaFields(SeedPack), wrote[SeedPack][i])
    BY <1>2, <1>7
  <2>4. CASE schemas[SeedPack] # None
    BY <1>4, <1>5, <2>2, <2>3, <2>4
  <2>5. CASE schemas[SeedPack] = None
    <3>1. ReadsAs(<<>>, wrote[SeedPack][i])
      BY <2>3, <2>5 DEF SchemaFields
    <3>2. DOMAIN wrote[SeedPack][i] = {}
      BY <3>1, NoNames
    <3>3. ReadsAs(SeedSchema.fields, wrote[SeedPack][i])
      BY <3>2 DEF ReadsAs
    <3> QED
      BY <1>5, <2>1, <2>2, <2>5, <3>3
  <2> QED
    BY <2>4, <2>5
<1>13. CardsReadAsWritten'
  <2>1. ASSUME NEW o \in Ords, NEW i \in Ids PROVE ReadsAs(SchemaFields(o)', wrote'[o][i])
    <3>1. CASE o \in Ords \ {UserPack, SeedPack}
      BY <1>5, <1>7, <1>9, <3>1
    <3> QED
      BY <1>11, <1>12, <3>1
  <2> QED
    BY <2>1, ReadAsWrittenNext
<1>14. SizesOk(sizes')
  BY <1>3 DEF SizesOk
<1> QED
  BY <1>5, <1>6, <1>10, <1>13, <1>14 DEF CatalogueInv

\* The flush of the pack sizes keeps the fields it writes back with them.
LEMMA FlushKeeps ==
    ASSUME CatalogueAssumption, CatalogueInv, NEW p \in Ords, Flush(p)
    PROVE  CatalogueInv'
<1>1. CardsOk(cards') /\ UNCHANGED wrote
  BY CardsKept DEF Flush
<1>2. sizes[p].bucket \in 0 .. 7 /\ DOMAIN sizes = Ords
  BY DEF Flush, CatalogueInv, SizesOk
<1>3. SizesOk(sizes')
  <2>1. sizes' = [sizes EXCEPT ![p].dirty = FALSE]
    BY DEF Flush
  <2>2. DOMAIN sizes' = Ords /\ sizes'[p] = [sizes[p] EXCEPT !.dirty = FALSE] /\ \A o \in Ords \ {p} : sizes'[o] = sizes[o]
    BY <1>2, <2>1
  <2>3. sizes'[p].bucket = sizes[p].bucket
    BY <2>2
  <2> QED
    BY <1>2, <2>2, <2>3 DEF CatalogueInv, SizesOk
<1>4. CASE schemas[p] = None
  <2>1. UNCHANGED schemas
    BY <1>4 DEF Flush
  <2> QED
    BY <1>1, <1>3, <2>1, FieldsStay DEF SchemaFields, CatalogueInv
<1>5. CASE schemas[p] # None
  <2> DEFINE s == [schemas[p] EXCEPT !.bucket = sizes[p].bucket]
  <2>1. Write(p, s)
    BY <1>5 DEF Flush
  <2>2. s.fields = schemas[p].fields /\ SchemaOk(schemas[p])
    BY <1>5 DEF CatalogueInv, SchemasOk
  <2>3. s \in SchemaRec
    BY <1>2, <2>2 DEF SchemaOk, SchemaRec
  <2> HIDE DEF s
  <2>4. SchemaOk(s) /\ SchemaFields(p) = s.fields
    BY <1>5, <2>2, <2>3 DEF SchemaOk, SchemaFields
  <2>5. /\ SchemasOk(schemas') /\ \A o \in Ords \ {p} : SchemaFields(o)' = SchemaFields(o)
        /\ SchemaFields(p)' = s.fields
    BY <2>1, <2>4, WritesSchema
  <2>6. \A o \in Ords : SchemaFields(o)' = SchemaFields(o)
    BY <2>4, <2>5
  <2> QED
    BY <1>1, <1>3, <2>5, <2>6, FieldsStay
<1> QED
  BY <1>4, <1>5

\* The sizes that a query learns are buckets.
LEMMA AskKeeps ==
    ASSUME CatalogueAssumption, CatalogueInv, NEW q, Ask(q) PROVE CatalogueInv'
<1>1. UNCHANGED <<schemas, cards, wrote>>
  BY DEF Ask
<1>2. ASSUME NEW p \in Ords, NEW n PROVE Counted(p, n) # None => Counted(p, n).bucket \in 0 .. 7
  <2>1. sizes[p] # None => sizes[p].bucket \in 0 .. 7
    BY DEF CatalogueInv, SizesOk
  <2> QED
    BY <2>1, BucketOk DEF Counted
<1>3. SizesOk(sizes')
  <2>1. CASE UNCHANGED sizes
    BY <2>1 DEF CatalogueInv
  <2>2. CASE ~UNCHANGED sizes
    <3> DEFINE scanned == ~Denied(q) /\ FirstBad(q) = 0
               new(p) == IF scanned /\ p = Packs(q)[1].ord THEN Counted(p, Cardinality(Scan(p, ScanMax)))
                         ELSE IF p \in Searched(q) THEN Counted(p, Cardinality(Scan(p, JoinMax))) ELSE sizes[p]
    <3>1. sizes' = [p \in Ords |-> new(p)]
      BY <2>2 DEF Ask
    <3>2. ASSUME NEW p \in Ords PROVE new(p) # None => new(p).bucket \in 0 .. 7
      <4>1. sizes[p] # None => sizes[p].bucket \in 0 .. 7
        BY DEF CatalogueInv, SizesOk
      <4> QED
        BY <1>2, <4>1
    <3> HIDE DEF new
    <3> QED
      BY <3>1, <3>2 DEF SizesOk
  <2> QED
    BY <2>1, <2>2
<1> QED
  BY <1>1, <1>3, CardsKept, FieldsStay DEF CatalogueInv, SchemaFields

\* Every step of the device keeps the schemas in range, and cards are read as they were written.
LEMMA QuerySteps ==
    ASSUME CatalogueAssumption, QueryAssumption, CatalogueInv, [QueryNext]_queryVars PROVE CatalogueInv'
<1>1. CASE \E q \in Queries : Ask(Parsed(q))
  BY <1>1, AskKeeps
<1>2. CASE \E p \in Ords : Flush(p)
  BY <1>2, FlushKeeps
<1>3. CASE Restart
  BY <1>3, RestartKeeps
<1>4. CASE Change
  BY <1>4, ChangeKeeps
<1>5. CASE UNCHANGED queryVars
  BY <1>5, NothingWritten DEF queryVars
<1> QED
  BY <1>1, <1>2, <1>3, <1>4, <1>5 DEF QueryNext

\* Whatever the admin and the boot do to the catalogue (admin_add_field, admin_delete_pack, the flush of the
\* sizes, user_auth_init), every schema's fields stay numbered in order and every card's values in range.
THEOREM CatalogueWellFormed == QuerySpec => []CatalogueInv
<1>1. QueryInit => CatalogueInv
  BY CatalogueAssumption, QueryAssumption, QueryStarts
<1>2. CatalogueInv /\ [QueryNext]_queryVars => CatalogueInv'
  BY CatalogueAssumption, QueryAssumption, QuerySteps
<1> QED
  BY <1>1, <1>2, PTL DEF QuerySpec

\* A schema is changed by read, change and write of its whole card (web_server.c), and two of them at every boot
\* (user_auth_init): a value of a card is read under the name it was written with, as long as its schema stays
\* and is not full.
THEOREM CardsKeepTheirFields == QuerySpec => []CardsReadAsWritten
<1>1. CatalogueInv => CardsReadAsWritten
  BY DEF CatalogueInv
<1> QED
  BY <1>1, CatalogueWellFormed, PTL

(*****************************************************************************)
(* Least and greatest numbers, ranks, and sets listed in order.              *)
(*****************************************************************************)
LEMMA MinUnique ==
    ASSUME NEW S, S \subseteq Int, NEW x \in S, \A y \in S : x <= y PROVE Min(S) = x
<1>1. Min(S) \in S /\ \A y \in S : Min(S) <= y
  BY DEF Min
<1>2. Min(S) \in Int /\ x \in Int /\ Min(S) <= x /\ x <= Min(S)
  BY <1>1
<1> QED
  BY <1>2

LEMMA MaxUnique ==
    ASSUME NEW S, S \subseteq Int, NEW x \in S, \A y \in S : y <= x PROVE Max(S) = x
<1>1. Max(S) \in S /\ \A y \in S : Max(S) >= y
  BY DEF Max
<1>2. Max(S) \in Int /\ x \in Int /\ Max(S) <= x /\ x <= Max(S)
  BY <1>1
<1> QED
  BY <1>2

\* The numbers of a finite set below one of it, and how they are ranked.
Below(S, i) == {j \in S : j < i}

\* A limit that is not met leaves nothing out.
LEMMA FirstAll ==
    ASSUME NEW S, S \subseteq Nat, IsFiniteSet(S), NEW n \in Nat, Cardinality(S) <= n
    PROVE  First(S, n) = S
<1>1. ASSUME NEW i \in S PROVE Cardinality({j \in S : j < i}) < n
  <2>1. {j \in S : j < i} \in SUBSET (S \ {i})
    OBVIOUS
  <2>2. IsFiniteSet(S \ {i}) /\ Cardinality(S \ {i}) = Cardinality(S) - 1 /\ Cardinality(S) \in Nat
    BY FS_RemoveElement, FS_CardinalityType
  <2>3. /\ Cardinality({j \in S : j < i}) <= Cardinality(S \ {i}) /\ IsFiniteSet({j \in S : j < i})
    BY <2>1, <2>2, FS_Subset
  <2>4. Cardinality({j \in S : j < i}) \in Nat
    BY <2>3, FS_CardinalityType
  <2> QED
    BY <2>2, <2>3, <2>4
<1> QED
  BY <1>1 DEF First

\* Fewer numbers are below a member than there are members.
LEMMA BelowSize ==
    ASSUME NEW S, S \subseteq Nat, IsFiniteSet(S), NEW i
    PROVE  IsFiniteSet(Below(S, i)) /\ Cardinality(Below(S, i)) \in Nat
           /\ (i \in S => Cardinality(Below(S, i)) < Cardinality(S))
<1>1. IsFiniteSet(Below(S, i)) /\ Cardinality(Below(S, i)) \in Nat
  BY FS_Subset, FS_CardinalityType DEF Below
<1>2. ASSUME i \in S PROVE Cardinality(Below(S, i)) < Cardinality(S)
  <2>1. Below(S, i) \in SUBSET S /\ Below(S, i) # S
    BY <1>2 DEF Below
  <2>2. Cardinality(Below(S, i)) <= Cardinality(S) /\ Cardinality(Below(S, i)) # Cardinality(S)
    BY <2>1, FS_Subset
  <2> QED
    BY <1>1, <2>2, FS_CardinalityType
<1> QED
  BY <1>1, <1>2

\* A greater member has more numbers below it.
LEMMA BelowGrows ==
    ASSUME NEW S, S \subseteq Nat, IsFiniteSet(S), NEW i \in S, NEW j \in S, i < j
    PROVE  Cardinality(Below(S, i)) < Cardinality(Below(S, j))
<1>1. Below(Below(S, j), i) = Below(S, i)
  <2>1. ASSUME NEW k \in S, k < i PROVE k < j
    <3>1. k \in Nat /\ i \in Nat /\ j \in Nat
      OBVIOUS
    <3> QED
      BY <2>1, <3>1
  <2> QED
    BY <2>1 DEF Below
<1>2. IsFiniteSet(Below(S, j)) /\ Below(S, j) \subseteq Nat /\ i \in Below(S, j)
  BY BelowSize DEF Below
<1> QED
  BY <1>1, <1>2, BelowSize

\* Each rank is some number's.
LEMMA SameRank ==
    ASSUME NEW S, S \subseteq Nat, IsFiniteSet(S), NEW i \in S, NEW j \in S,
           Cardinality(Below(S, i)) = Cardinality(Below(S, j))
    PROVE  i = j
<1>1. i \in Nat /\ j \in Nat /\ Cardinality(Below(S, i)) \in Nat
  BY BelowSize
<1>2. ASSUME i < j PROVE FALSE
  <2>1. Cardinality(Below(S, i)) < Cardinality(Below(S, j))
    BY <1>2, BelowGrows
  <2> QED
    BY <1>1, <2>1
<1>3. ASSUME j < i PROVE FALSE
  <2>1. Cardinality(Below(S, j)) < Cardinality(Below(S, i))
    BY <1>3, BelowGrows
  <2> QED
    BY <1>1, <2>1
<1> QED
  BY <1>1, <1>2, <1>3

\* Every rank is taken.
LEMMA RankTaken ==
    ASSUME NEW S, S \subseteq Nat, IsFiniteSet(S), NEW k \in 0 .. Cardinality(S) - 1
    PROVE  \E i \in S : Cardinality(Below(S, i)) = k
<1> DEFINE n == Cardinality(S)
           f == [i \in S |-> Cardinality(Below(S, i))]
<1>1. n \in Nat
  BY FS_CardinalityType
<1>2. IsFiniteSet(0 .. n - 1) /\ Cardinality(0 .. n - 1) = n
  BY <1>1, FS_Interval
<1>3. f \in [S -> 0 .. n - 1]
  <2>1. ASSUME NEW i \in S PROVE Cardinality(Below(S, i)) \in 0 .. n - 1
    <3>1. Cardinality(Below(S, i)) \in Nat /\ Cardinality(Below(S, i)) < n
      BY BelowSize
    <3> QED
      BY <1>1, <3>1
  <2> QED
    BY <2>1
<1>4. ASSUME NEW i \in S, NEW j \in S, f[i] = f[j] PROVE i = j
  <2>1. Cardinality(Below(S, i)) = Cardinality(Below(S, j))
    BY <1>4
  <2> QED
    BY <2>1, SameRank
<1> HIDE DEF f
<1>5. f \in Surjection(S, 0 .. n - 1)
  <2>1. f \in Injection(S, 0 .. n - 1)
    BY <1>3, <1>4 DEF Injection, IsInjective
  <2> QED
    BY <1>2, <2>1, FS_Injection
<1> QED
  BY <1>1, <1>5 DEF Surjection, f

\* InOrder lists every member of a set once, in increasing order.
LEMMA InOrderIs ==
    ASSUME NEW S, S \subseteq Nat, IsFiniteSet(S)
    PROVE  /\ Cardinality(S) \in Nat /\ InOrder(S) \in [1 .. Cardinality(S) -> S]
           /\ Len(InOrder(S)) = Cardinality(S) /\ DOMAIN InOrder(S) = 1 .. Cardinality(S)
           /\ \A i \in S : \E k \in 1 .. Cardinality(S) : InOrder(S)[k] = i
           /\ \A j, k \in 1 .. Cardinality(S) : j < k => InOrder(S)[j] < InOrder(S)[k]
           /\ \A k \in 1 .. Cardinality(S) : Cardinality(Below(S, InOrder(S)[k])) = k - 1
<1> DEFINE n == Cardinality(S)
           r(i) == Cardinality(Below(S, i))
<1>1. n \in Nat
  BY FS_CardinalityType
<1>2. InOrder(S) = [k \in 1 .. n |-> CHOOSE i \in S : r(i) = k - 1]
  BY DEF InOrder, Below
<1>3. ASSUME NEW k \in 1 .. n PROVE InOrder(S)[k] \in S /\ r(InOrder(S)[k]) = k - 1
  <2>1. k - 1 \in 0 .. n - 1
    BY <1>1
  <2>2. \E i \in S : r(i) = k - 1
    BY <2>1, RankTaken
  <2> QED
    BY <1>2, <2>2
<1>4. InOrder(S) \in [1 .. n -> S]
  BY <1>2, <1>3
<1>5. Len(InOrder(S)) = n
  BY <1>1, <1>4
<1>6. ASSUME NEW i \in S PROVE \E k \in 1 .. n : InOrder(S)[k] = i
  <2>1. r(i) \in Nat /\ r(i) < n
    BY BelowSize
  <2> DEFINE k == r(i) + 1  j == InOrder(S)[k]
  <2>2. k \in 1 .. n /\ k - 1 = r(i)
    BY <1>1, <2>1
  <2> HIDE DEF k
  <2>3. j \in S /\ r(j) = r(i)
    BY <1>3, <2>2
  <2> HIDE DEF j
  <2>6. j = i
    BY <2>3, SameRank
  <2> QED
    BY <2>2, <2>6 DEF j
<1>7. ASSUME NEW j \in 1 .. n, NEW k \in 1 .. n, j < k PROVE InOrder(S)[j] < InOrder(S)[k]
  <2>1. r(InOrder(S)[j]) = j - 1 /\ r(InOrder(S)[k]) = k - 1 /\ InOrder(S)[j] \in S /\ InOrder(S)[k] \in S
    BY <1>3
  <2>2. ~(r(InOrder(S)[k]) < r(InOrder(S)[j])) /\ r(InOrder(S)[k]) # r(InOrder(S)[j])
    BY <1>1, <1>7, <2>1
  <2> HIDE DEF r
  <2>3. InOrder(S)[j] # InOrder(S)[k]
    BY <2>2
  <2>4. ~(InOrder(S)[k] < InOrder(S)[j])
    BY <2>1, <2>2, BelowGrows DEF r
  <2>5. InOrder(S)[j] \in Nat /\ InOrder(S)[k] \in Nat
    BY <2>1
  <2> QED
    BY <2>3, <2>4, <2>5
<1>8. \A k \in 1 .. n : Cardinality(Below(S, InOrder(S)[k])) = k - 1
  BY <1>3
<1> QED
  BY <1>1, <1>4, <1>5, <1>6, <1>7, <1>8

\* The size of a set in two parts.
LEMMA DisjointSizes ==
    ASSUME NEW A, NEW B, IsFiniteSet(A), IsFiniteSet(B), A \cap B = {}
    PROVE  Cardinality(A \cup B) = Cardinality(A) + Cardinality(B)
<1>1. /\ Cardinality(A \cup B) = Cardinality(A) + Cardinality(B) - Cardinality(A \cap B)
      /\ Cardinality(A) \in Nat /\ Cardinality(B) \in Nat
  BY FS_Union, FS_CardinalityType
<1>2. Cardinality(A \cap B) = 0
  BY FS_EmptySet
<1> QED
  BY <1>1, <1>2

\* A scan lists the ids of the SRAM index, then the others: some of the set, each at a place.
LEMMA ListingIs ==
    ASSUME NEW p, NEW S, S \subseteq Nat, IsFiniteSet(S)
    PROVE  /\ Len(Listing(p, S)) \in Nat /\ DOMAIN Listing(p, S) = 1 .. Len(Listing(p, S))
           /\ \A k \in DOMAIN Listing(p, S) : Listing(p, S)[k] \in S
<1> DEFINE A == S \cap Sram(p)  B == S \ Sram(p)  a == InOrder(A)  b == InOrder(B)
           m == Cardinality(A)  n == Cardinality(B)
<1>1. A \subseteq Nat /\ IsFiniteSet(A) /\ B \subseteq Nat /\ IsFiniteSet(B) /\ A \subseteq S /\ B \subseteq S
  BY FS_Subset
<1>2. Listing(p, S) = a \o b
  BY DEF Listing
<1> HIDE DEF A, B
<1>3. m \in Nat /\ n \in Nat /\ a \in [1 .. m -> A] /\ b \in [1 .. n -> B]
  BY <1>1, InOrderIs
<1> HIDE DEF a, b, m, n
<1>4. a \in [1 .. m -> S] /\ b \in [1 .. n -> S]
  BY <1>1, <1>3
<1>5. a \in Seq(S) /\ b \in Seq(S)
  BY <1>3, <1>4
<1>6. a \o b \in Seq(S)
  BY <1>5
<1> DEFINE l == Listing(p, S)
<1>7. l \in Seq(S)
  BY <1>2, <1>6
<1> HIDE DEF l
<1> QED
  BY <1>7 DEF l

\* When those in the SRAM index come before the others, a scan is in the order of the ids.
LEMMA ListingInOrder ==
    ASSUME NEW p, NEW S, S \subseteq Nat, IsFiniteSet(S), \A i \in S \cap Sram(p), j \in S \ Sram(p) : i < j
    PROVE  Listing(p, S) = InOrder(S)
<1> DEFINE A == S \cap Sram(p)  B == S \ Sram(p)  a == InOrder(A)  b == InOrder(B)  s == InOrder(S)
           m == Cardinality(A)  n == Cardinality(B)  l == Cardinality(S)
<1>1. /\ A \subseteq Nat /\ IsFiniteSet(A) /\ B \subseteq Nat /\ IsFiniteSet(B) /\ A \cap B = {} /\ A \cup B = S
      /\ \A i \in A, j \in B : i < j
  BY FS_Subset
<1>2. Listing(p, S) = a \o b
  BY DEF Listing
<1> HIDE DEF A, B
<1>3. /\ m \in Nat /\ a \in [1 .. m -> A] /\ Len(a) = m /\ DOMAIN a = 1 .. m
      /\ \A k \in 1 .. m : Cardinality(Below(A, a[k])) = k - 1
  BY <1>1, InOrderIs
<1>4. /\ n \in Nat /\ b \in [1 .. n -> B] /\ Len(b) = n /\ DOMAIN b = 1 .. n
      /\ \A k \in 1 .. n : Cardinality(Below(B, b[k])) = k - 1
  BY <1>1, InOrderIs
<1>5. /\ l \in Nat /\ s \in [1 .. l -> S] /\ DOMAIN s = 1 .. l
      /\ \A k \in 1 .. l : Cardinality(Below(S, s[k])) = k - 1
  BY InOrderIs
<1>6. l = m + n
  BY <1>1, DisjointSizes
<1> HIDE DEF a, b, s, m, n, l
<1>7. a \in Seq(S) /\ b \in Seq(S)
  <2>1. a \in [1 .. m -> S] /\ b \in [1 .. n -> S]
    BY <1>1, <1>3, <1>4
  <2> QED
    BY <1>3, <1>4, <2>1
<1> DEFINE c == a \o b
<1>8. /\ DOMAIN c = 1 .. m + n /\ \A k \in 1 .. m : c[k] = a[k]
      /\ \A k \in m + 1 .. m + n : c[k] = b[k - m] /\ k - m \in 1 .. n
  <2>1. Len(a) = m /\ Len(b) = n /\ m \in Nat /\ n \in Nat
    BY <1>3, <1>4
  <2>2. Len(c) = m + n /\ c \in Seq(S)
    BY <1>7, <2>1
  <2>3. DOMAIN c = 1 .. m + n
    <3> HIDE DEF c
    <3> QED
      BY <2>1, <2>2
  <2>4. \A k \in 1 .. m + n : c[k] = IF k <= m THEN a[k] ELSE b[k - m]
    BY <1>7, <2>1
  <2>5. /\ \A k \in 1 .. m : k \in 1 .. m + n /\ k <= m
        /\ \A k \in m + 1 .. m + n : k \in 1 .. m + n /\ ~(k <= m) /\ k - m \in 1 .. n
    BY <2>1
  <2> HIDE DEF c
  <2> QED
    BY <2>3, <2>4, <2>5
<1> HIDE DEF c
<1>9. ASSUME NEW k \in 1 .. m PROVE c[k] = s[k]
  <2>1. a[k] \in A /\ a[k] \in S /\ k \in 1 .. l /\ s[k] \in S
    BY <1>1, <1>3, <1>4, <1>5, <1>6
  <2>2. ASSUME NEW j \in B PROVE ~(j < a[k])
    <3>1. a[k] < j /\ a[k] \in Nat /\ j \in Nat
      BY <1>1, <2>1
    <3> QED
      BY <3>1
  <2>3. Below(S, a[k]) = Below(A, a[k])
    BY <1>1, <2>2 DEF Below
  <2>4. a[k] = s[k]
    BY <1>3, <1>5, <2>1, <2>3, SameRank
  <2> QED
    BY <1>8, <2>4
<1>10. ASSUME NEW k \in m + 1 .. m + n PROVE c[k] = s[k]
  <2> DEFINE j == k - m
  <2>1. j \in 1 .. n /\ k \in 1 .. l /\ c[k] = b[j]
    BY <1>3, <1>4, <1>6, <1>8
  <2>2. b[j] \in B /\ b[j] \in S /\ s[k] \in S
    BY <1>1, <1>4, <1>5, <2>1
  <2>3. Below(S, b[j]) = A \cup Below(B, b[j]) /\ A \cap Below(B, b[j]) = {}
    BY <1>1, <2>2 DEF Below
  <2>4. IsFiniteSet(Below(B, b[j])) /\ Cardinality(Below(B, b[j])) = j - 1
    BY <1>1, <1>4, <2>1, BelowSize
  <2>5. Cardinality(Below(S, b[j])) = m + (j - 1)
    BY <1>1, <2>3, <2>4, DisjointSizes DEF m
  <2>6. m + (j - 1) = k - 1
    BY <1>3
  <2>7. Cardinality(Below(S, s[k])) = k - 1
    BY <1>5, <2>1
  <2> HIDE DEF j
  <2>8. b[j] = s[k]
    BY <2>2, <2>5, <2>6, <2>7, SameRank
  <2> QED
    BY <2>1, <2>8
<1>11. \A k \in 1 .. m + n : k \in 1 .. m \/ k \in m + 1 .. m + n
  BY <1>3, <1>4
<1>12. c = [k \in 1 .. m + n |-> c[k]] /\ s = [k \in 1 .. m + n |-> s[k]]
  <2>1. c = [k \in 1 .. m + n |-> c[k]]
    <3>1. c \in Seq(S)
      BY <1>7 DEF c
    <3> QED
      BY <1>8, <3>1
  <2> QED
    BY <1>5, <1>6, <2>1
<1>13. c = s
  BY <1>9, <1>10, <1>11, <1>12
<1> QED
  BY <1>2, <1>13 DEF c, s

(*****************************************************************************)
(* Functions defined by recursion over a finite set: what the folds compute. *)
(*****************************************************************************)
\* Max of a finite set of naturals.
LEMMA MaxIs ==
    ASSUME NEW S, S \subseteq Nat, IsFiniteSet(S), S # {} PROVE Max(S) \in S /\ \A y \in S : y <= Max(S)
<1> DEFINE n == Cardinality(S)
           o == InOrder(S)
<1>1. n \in Nat /\ n # 0
  BY FS_CardinalityType, FS_EmptySet
<1>2. /\ o \in [1 .. n -> S] /\ \A i \in S : \E k \in 1 .. n : o[k] = i
      /\ \A j, k \in 1 .. n : j < k => o[j] < o[k]
  BY InOrderIs
<1> HIDE DEF o, n
<1>3. n \in 1 .. n /\ o[n] \in S
  BY <1>1, <1>2
<1>4. ASSUME NEW y \in S PROVE y <= o[n]
  <2>1. PICK k \in 1 .. n : o[k] = y
    BY <1>2
  <2>2. k = n \/ k < n
    BY <1>1
  <2>3. y = o[n] \/ y < o[n]
    BY <1>2, <1>3, <2>1, <2>2
  <2>4. y \in Nat /\ o[n] \in Nat
    BY <1>3
  <2> QED
    BY <2>3, <2>4
<1>5. S \subseteq Int
  OBVIOUS
<1>6. Max(S) = o[n]
  BY <1>3, <1>4, <1>5, MaxUnique
<1> QED
  BY <1>3, <1>4, <1>6

\* A function of the subsets of a finite set that is defined from smaller subsets.
Chooses(D, ch) == \A s \in SUBSET D : s # {} => ch[s] \in s
Recurs(D, base, st, ch, it) ==
    \A s \in SUBSET D : it[s] = IF s = {} THEN base ELSE st[ch[s]][it[s \ {ch[s]}]]

LEMMA Recursion ==
    ASSUME NEW D, IsFiniteSet(D), NEW V, NEW base \in V, NEW st \in [D -> [V -> V]], NEW ch, Chooses(D, ch)
    PROVE  \E it \in [SUBSET D -> V] : Recurs(D, base, st, ch, it)
<1>0. \A s \in SUBSET D : s # {} => ch[s] \in s
  BY DEF Chooses
<1> DEFINE U(n) == {s \in SUBSET D : Cardinality(s) <= n}
           Eq(it, s) == it[s] = IF s = {} THEN base ELSE st[ch[s]][it[s \ {ch[s]}]]
           Good(n) == \E it \in [U(n) -> V] : \A s \in U(n) : Eq(it, s)
           Bad == {n \in Nat : ~Good(n)}
<1>1. \A s \in SUBSET D : IsFiniteSet(s) /\ Cardinality(s) \in Nat /\ Cardinality(s) <= Cardinality(D)
  BY FS_Subset, FS_CardinalityType
<1>2. ASSUME NEW s \in SUBSET D, s # {}, NEW n \in Nat, s \in U(n)
      PROVE  n > 0 /\ s \ {ch[s]} \in U(n - 1) /\ ch[s] \in D
  <2>1. ch[s] \in s /\ Cardinality(s) \in Nat /\ Cardinality(s) # 0 /\ Cardinality(s) <= n
    BY <1>0, <1>1, <1>2, FS_EmptySet
  <2>2. Cardinality(s \ {ch[s]}) = Cardinality(s) - 1
    BY <1>1, <2>1, FS_RemoveElement
  <2> QED
    BY <2>1, <2>2
<1>3. ASSUME NEW n \in Bad, \A m \in Bad : n <= m PROVE FALSE
  <2>1. CASE n = 0
    <3> DEFINE it == [s \in U(0) |-> base]
    <3>1. ASSUME NEW s \in U(0), s # {} PROVE FALSE
      <4>1. 0 \in Nat /\ s \in SUBSET D
        OBVIOUS
      <4>2. 0 > 0
        BY <1>2, <3>1, <4>1
      <4> QED
        BY <4>2
    <3>2. it \in [U(0) -> V] /\ \A s \in U(0) : Eq(it, s)
      BY <3>1
    <3>3. Good(0)
      BY <3>2
    <3> QED
      BY <2>1, <3>3
  <2>2. CASE n # 0
    <3>1. n \in Nat /\ n - 1 \in Nat /\ n - 1 \notin Bad
      <4>1. n \in Nat
        OBVIOUS
      <4>2. n - 1 \in Nat /\ ~(n <= n - 1)
        BY <2>2, <4>1
      <4> HIDE DEF Bad
      <4> QED
        BY <1>3, <4>1, <4>2
    <3>2. PICK old \in [U(n - 1) -> V] : \A s \in U(n - 1) : Eq(old, s)
      BY <3>1
    <3> DEFINE it == [s \in U(n) |-> IF s = {} THEN base ELSE st[ch[s]][old[s \ {ch[s]}]]]
    <3>3. it \in [U(n) -> V]
      <4>1. ASSUME NEW s \in U(n), s # {} PROVE st[ch[s]][old[s \ {ch[s]}]] \in V
        <5>1. s \ {ch[s]} \in U(n - 1) /\ ch[s] \in D
          BY <1>2, <3>1, <4>1
        <5>2. old[s \ {ch[s]}] \in V
          BY <5>1
        <5>3. st[ch[s]] \in [V -> V]
          BY <5>1
        <5> QED
          BY <5>2, <5>3
      <4> QED
        BY <4>1
    <3>4. ASSUME NEW s \in U(n - 1) PROVE it[s] = old[s]
      <4>1. s \in SUBSET D /\ Cardinality(s) \in Nat /\ Cardinality(s) <= n - 1
        BY <1>1
      <4>2. s \in U(n)
        BY <3>1, <4>1
      <4>3. Eq(old, s)
        BY <3>2
      <4> QED
        BY <4>2, <4>3
    <3>5. ASSUME NEW s \in U(n) PROVE Eq(it, s)
      <4>1. CASE s = {}
        BY <4>1
      <4>2. CASE s # {}
        <5>1. s \ {ch[s]} \in U(n - 1)
          BY <1>2, <3>1, <4>2
        <5>2. it[s \ {ch[s]}] = old[s \ {ch[s]}]
          BY <3>4, <5>1
        <5>3. it[s] = st[ch[s]][old[s \ {ch[s]}]]
          BY <4>2
        <5> HIDE DEF it
        <5> QED
          BY <4>2, <5>2, <5>3
      <4> QED
        BY <4>1, <4>2
    <3> HIDE DEF it
    <3>6. Good(n)
      BY <3>3, <3>5
    <3> QED
      BY <3>6
  <2> QED
    BY <2>1, <2>2
<1>4. Cardinality(D) \in Nat /\ U(Cardinality(D)) = SUBSET D
  BY <1>1, FS_CardinalityType
<1> HIDE DEF Good
<1>5. Bad = {}
  BY <1>3, LeastNumber
<1>6. Good(Cardinality(D))
  BY <1>4, <1>5
<1> QED
  BY <1>4, <1>6 DEF Good, Recurs

\* The prefixes of a sequence's domain.
LEMMA Prefix ==
    ASSUME NEW n \in Nat, NEW k \in 1 .. n
    PROVE  /\ 1 .. k \in SUBSET (1 .. n) /\ 1 .. k # {} /\ Max(1 .. k) = k /\ (1 .. k) \ {Max(1 .. k)} = 1 .. k - 1
<1>1. Max(1 .. k) = k
  <2>1. 1 .. k \subseteq Int /\ k \in 1 .. k /\ \A y \in 1 .. k : y <= k
    OBVIOUS
  <2> QED
    BY <2>1, MaxUnique
<1>2. (1 .. k) \ {k} = 1 .. k - 1
  OBVIOUS
<1> QED
  BY <1>1, <1>2

\* A fact that passes from each number to the next.
LEMMA Onward ==
    ASSUME NEW n \in Nat, NEW S, 0 \in S, \A k \in 1 .. n : k - 1 \in S => k \in S
    PROVE  \A k \in 0 .. n : k \in S
<1> SUFFICES ASSUME {k \in 0 .. n : k \notin S} # {} PROVE FALSE
  OBVIOUS
<1>1. PICK k \in {k \in 0 .. n : k \notin S} : \A j \in {j \in 0 .. n : j \notin S} : k <= j
  <2>1. {k \in 0 .. n : k \notin S} \subseteq Nat
    OBVIOUS
  <2> QED
    BY <2>1, LeastNumber
<1>2. k \in 1 .. n /\ k - 1 \in 0 .. n /\ ~(k <= k - 1)
  BY <1>1
<1>3. k - 1 \in S
  BY <1>1, <1>2
<1> QED
  BY <1>1, <1>2, <1>3

(*****************************************************************************)
(* Sums over sets of rows.                                                   *)
(*****************************************************************************)
\* Of the subsets with some property one has no part, by one element less, that has it too.
LEMMA SmallestSubset ==
    ASSUME NEW D, IsFiniteSet(D), NEW B \in SUBSET SUBSET D, B # {}
    PROVE  \E s \in B : \A x \in s : s \ {x} \notin B
<1>1. \A s \in B : IsFiniteSet(s) /\ Cardinality(s) \in Nat
  BY FS_Subset, FS_CardinalityType
<1> DEFINE N == {Cardinality(s) : s \in B}
<1>2. PICK m \in N : \A i \in N : m <= i
  <2>1. N \subseteq Nat /\ N # {}
    BY <1>1
  <2> QED
    BY <2>1, LeastNumber
<1>3. PICK s \in B : Cardinality(s) = m
  OBVIOUS
<1>4. ASSUME NEW x \in s, s \ {x} \in B PROVE FALSE
  <2>1. Cardinality(s \ {x}) = Cardinality(s) - 1 /\ Cardinality(s) \in Nat
    BY <1>1, FS_RemoveElement
  <2>2. m <= Cardinality(s \ {x})
    BY <1>2, <1>4
  <2> QED
    BY <1>3, <2>1, <2>2
<1> QED
  BY <1>4

\* The fold that adds up a function's values is the function that the recursion defines.
LEMMA SumIsRecursive ==
    ASSUME NEW D, IsFiniteSet(D), NEW f \in [D -> Int]
    PROVE  \E it \in [SUBSET D -> Int] : \A S \in SUBSET D :
              /\ it[S] = IF S = {} THEN 0 ELSE f[CHOOSE x \in S : TRUE] + it[S \ {CHOOSE x \in S : TRUE}]
              /\ SumFunctionOnSet(f, S) = it[S]
<1> DEFINE any(s) == CHOOSE x \in s : TRUE
           Eq(it, s) == it[s] = IF s = {} THEN 0 ELSE f[any(s)] + it[s \ {any(s)}]
<1>1. ASSUME NEW S \in SUBSET D PROVE \E it \in [SUBSET S -> Int] : \A s \in SUBSET S : Eq(it, s)
  <2> DEFINE ch == [s \in SUBSET S |-> any(s)]
             st == [x \in S |-> [v \in Int |-> f[x] + v]]
  <2>1. IsFiniteSet(S) /\ \A x \in S : f[x] \in Int
    BY FS_Subset
  <2>2. st \in [S -> [Int -> Int]]
    BY <2>1
  <2>3. \A s \in SUBSET S : s # {} => ch[s] \in s /\ ch[s] = any(s)
    OBVIOUS
  <2>4. 0 \in Int /\ \A x \in S, v \in Int : st[x][v] = f[x] + v
    OBVIOUS
  <2> HIDE DEF st, ch
  <2>5. PICK it \in [SUBSET S -> Int] : \A s \in SUBSET S :
           it[s] = IF s = {} THEN 0 ELSE st[ch[s]][it[s \ {ch[s]}]]
    <3>1. Chooses(S, ch)
      BY <2>3 DEF Chooses
    <3> DEFINE V == Int  base == 0
    <3>2. IsFiniteSet(S) /\ base \in V /\ st \in [S -> [V -> V]]
      BY <2>1, <2>2
    <3> HIDE DEF V, base
    <3>3. \E it \in [SUBSET S -> V] : Recurs(S, base, st, ch, it)
      BY <3>1, <3>2, Recursion
    <3> QED
      BY <3>3 DEF V, base, Recurs
  <2>6. ASSUME NEW s \in SUBSET S PROVE Eq(it, s)
    <3>1. CASE s = {}
      BY <2>5, <3>1
    <3>2. CASE s # {}
      <4>1. ch[s] = any(s) /\ any(s) \in S /\ s \ {any(s)} \in SUBSET S
        BY <2>3, <3>2
      <4>2. it[s \ {any(s)}] \in Int
        BY <4>1
      <4>3. st[any(s)][it[s \ {any(s)}]] = f[any(s)] + it[s \ {any(s)}]
        BY <2>4, <4>1, <4>2
      <4> HIDE DEF any
      <4> QED
        BY <2>5, <3>2, <4>1, <4>3
    <3> QED
      BY <3>1, <3>2
  <2> QED
    BY <2>6
<1>2. PICK it \in [SUBSET D -> Int] : \A s \in SUBSET D : Eq(it, s)
  BY <1>1
<1>3. ASSUME NEW S \in SUBSET D PROVE SumFunctionOnSet(f, S) = it[S]
  <2> DEFINE Is(g) == g = [s \in SUBSET S |-> IF s = {} THEN 0 ELSE f[any(s)] + g[s \ {any(s)}]]
             h == CHOOSE g : Is(g)
  <2>1. SumFunctionOnSet(f, S) = h[S]
    BY DEF SumFunctionOnSet, FoldFunctionOnSet, MapThenFoldSet
  <2>2. \E g : Is(g)
    <3>1. PICK g \in [SUBSET S -> Int] : \A s \in SUBSET S : Eq(g, s)
      BY <1>1
    <3> HIDE DEF any
    <3>2. Is(g)
      BY <3>1
    <3> QED
      BY <3>2
  <2>3. Is(h)
    BY <2>2
  <2>4. \A s \in SUBSET S : Eq(h, s)
    <3> HIDE DEF h, any
    <3> QED
      BY <2>3
  <2> HIDE DEF h, Is
  <2> DEFINE B == {s \in SUBSET S : h[s] # it[s]}
  <2>5. ASSUME NEW s \in B, \A x \in s : s \ {x} \notin B PROVE FALSE
    <3>1. s \in SUBSET S /\ s \in SUBSET D /\ h[s] # it[s] /\ Eq(h, s) /\ Eq(it, s)
      BY <1>2, <2>4
    <3>2. s # {}
      BY <3>1
    <3>3. any(s) \in s
      BY <3>2
    <3>4. s \ {any(s)} \notin B
      BY <2>5, <3>3
    <3>5. h[s \ {any(s)}] = it[s \ {any(s)}]
      BY <3>1, <3>4
    <3> HIDE DEF any
    <3> QED
      BY <3>1, <3>5
  <2>6. B = {}
    <3>1. IsFiniteSet(S) /\ B \in SUBSET SUBSET S
      BY FS_Subset
    <3> HIDE DEF B
    <3> QED
      BY <2>5, <3>1, SmallestSubset
  <2> QED
    BY <2>1, <2>6
<1> QED
  BY <1>2, <1>3

\* A sum takes its terms in any order.
LEMMA SumAdds ==
    ASSUME NEW D, IsFiniteSet(D), NEW f \in [D -> Int]
    PROVE  /\ SumFunctionOnSet(f, {}) = 0
           /\ \A S \in SUBSET D : /\ SumFunctionOnSet(f, S) \in Int
                                  /\ \A x \in S : SumFunctionOnSet(f, S) = f[x] + SumFunctionOnSet(f, S \ {x})
<1> DEFINE any(s) == CHOOSE x \in s : TRUE
<1>1. PICK it \in [SUBSET D -> Int] : \A S \in SUBSET D :
         /\ it[S] = IF S = {} THEN 0 ELSE f[any(S)] + it[S \ {any(S)}]
         /\ SumFunctionOnSet(f, S) = it[S]
  BY SumIsRecursive, ZenonT(60)
<1>a. \A s : s # {} => any(s) \in s
  OBVIOUS
<1> HIDE DEF any
<1> DEFINE B == {s \in SUBSET D : \E x \in s : it[s] # f[x] + it[s \ {x}]}
<1>2. ASSUME NEW s \in B, \A x \in s : s \ {x} \notin B PROVE FALSE
  <2>1. PICK x \in s : it[s] # f[x] + it[s \ {x}]
    OBVIOUS
  <2> DEFINE c == any(s)
  <2>2. c \in s
    BY <1>a
  <2>3. s \in SUBSET D /\ it[s] = f[c] + it[s \ {c}] /\ c # x
    BY <1>1, <2>1
  <2> HIDE DEF c
  <2>4. s \ {c} \in SUBSET D /\ s \ {x} \in SUBSET D /\ (s \ {c}) \ {x} = (s \ {x}) \ {c}
    BY <2>3
  <2>5. it[s \ {c}] = f[x] + it[(s \ {c}) \ {x}]
    <3>1. s \ {c} \notin B /\ x \in s \ {c}
      BY <1>2, <2>2, <2>3
    <3> QED
      BY <2>4, <3>1
  <2>6. it[s \ {x}] = f[c] + it[(s \ {x}) \ {c}]
    <3>1. s \ {x} \notin B /\ c \in s \ {x}
      BY <1>2, <2>1, <2>2, <2>3
    <3> QED
      BY <2>4, <3>1
  <2>7. f[c] \in Int /\ f[x] \in Int /\ it[(s \ {c}) \ {x}] \in Int
    BY <2>1, <2>2, <2>3
  <2> DEFINE a == it[(s \ {c}) \ {x}]
  <2>8. it[s] = f[c] + (f[x] + a) /\ it[s \ {x}] = f[c] + a
    BY <2>3, <2>4, <2>5, <2>6
  <2> HIDE DEF a
  <2>9. a \in Int
    BY <2>7 DEF a
  <2> QED
    BY <2>1, <2>7, <2>8, <2>9
<1>3. B = {}
  <2>1. B \in SUBSET SUBSET D
    OBVIOUS
  <2> HIDE DEF B
  <2> QED
    BY <1>2, <2>1, SmallestSubset
<1>4. \A S \in SUBSET D : \A x \in S : it[S] = f[x] + it[S \ {x}]
  BY <1>3
<1>5. \A S \in SUBSET D : \A x \in S : S \ {x} \in SUBSET D
  OBVIOUS
<1> QED
  BY <1>1, <1>4, <1>5

\* Terms that are not negative only add.
LEMMA SumGrows ==
    ASSUME NEW D, IsFiniteSet(D), NEW f \in [D -> Nat], NEW T \in SUBSET D, NEW S \in SUBSET T
    PROVE  SumFunctionOnSet(f, S) <= SumFunctionOnSet(f, T)
<1> DEFINE s(S1) == SumFunctionOnSet(f, S1)
           B == {U \in SUBSET D : S \subseteq U /\ ~(s(S) <= s(U))}
<1>1. /\ \A U \in SUBSET D : s(U) \in Int /\ \A x \in U : s(U) = f[x] + s(U \ {x})
      /\ \A x \in D : f[x] \in Nat
  <2>1. f \in [D -> Int]
    OBVIOUS
  <2> QED
    BY <2>1, SumAdds
<1> HIDE DEF s
<1>2. ASSUME NEW U \in B, \A x \in U : U \ {x} \notin B PROVE FALSE
  <2>1. S \subseteq U /\ U \in SUBSET D /\ ~(s(S) <= s(U)) /\ S \in SUBSET D
    OBVIOUS
  <2>2. S # U
    BY <1>1, <2>1
  <2>3. PICK x \in U : x \notin S
    BY <2>1, <2>2
  <2>4. U \ {x} \in SUBSET D /\ S \subseteq U \ {x} /\ U \ {x} \notin B
    BY <1>2, <2>1, <2>3
  <2>5. s(S) <= s(U \ {x})
    BY <2>4
  <2>6. s(U) = f[x] + s(U \ {x}) /\ f[x] \in Nat /\ s(U \ {x}) \in Int /\ s(S) \in Int
    BY <1>1, <2>1, <2>4
  <2> QED
    BY <2>1, <2>5, <2>6
<1>3. B = {}
  <2>1. B \in SUBSET SUBSET D
    OBVIOUS
  <2> HIDE DEF B
  <2> QED
    BY <1>2, <2>1, SmallestSubset
<1> QED
  BY <1>3 DEF s

(*****************************************************************************)
(* Names, fields and values of a query on a catalogue that is not stale.     *)
(*****************************************************************************)
\* A query as the parser leaves it, on schemas and cards that the engine sees as they are.
Clean(q) ==
    /\ q.from \in Seq(STRING) /\ q.where \in Seq(Range(q.where))
    /\ q.select \in Seq(Range(q.select)) /\ \A s \in Range(q.select) : s.agg \in Aggregates
    /\ WellFormed(q) /\ ~Stale(q) /\ ~Gap(q)
    /\ \A i \in DOMAIN q.from : Fresh(q.from[i]) = RefPacks(q)[i]
    /\ Cardinality(Index(RefPacks(q)[1].ord)) <= ScanMax
    /\ \A w \in JoinedConds(q) : LET p == RefPacks(q)[PackOf(q, w.pack)].ord IN
          /\ Cardinality(Index(p)) <= JoinMax
          /\ Cardinality({i \in Keys(p) : Passes(cards[p][i], FieldIn(q, w), w.op, w.val)}) <= ListMax

Meets(q, c, w) == \E d \in Related(q, c, w.pack) : Passes(d, FieldIn(q, w), w.op, w.val)

\* The engine's limits are numbers.
LEMMA Limits ==
    ASSUME QueryAssumption
    PROVE  /\ SelectMax \in Nat /\ FromMax \in Nat /\ WhereMax \in Nat /\ ScanMax \in Nat /\ JoinMax \in Nat
           /\ ListMax \in Nat /\ RowMax \in Nat /\ AggRows \in Nat /\ AggGroups \in Nat
BY DEF QueryAssumption

\* What a search for the first place returns.
LEMMA Selected ==
    ASSUME NEW n \in Nat, NEW I \in SUBSET (1 .. n), NEW x, x = IF I # {} THEN Min(I) ELSE 0
    PROVE  x \in 0 .. n /\ (x # 0 => x \in I) /\ (I # {} => x # 0)
<1>1. I \subseteq Nat
  OBVIOUS
<1>2. I # {} => Min(I) \in I
  BY <1>1, MinIs
<1>3. CASE I = {}
  <2>1. x = 0
    BY <1>3
  <2> QED
    BY <1>3, <2>1
<1>4. CASE I # {}
  <2>1. x = Min(I) /\ x \in I
    BY <1>2, <1>4
  <2>2. x \in 1 .. n
    BY <2>1
  <2> QED
    BY <2>1, <2>2
<1> QED
  BY <1>3, <1>4

\* find_field returns a field of the schema, and misses none.
LEMMA FieldOfIs ==
    ASSUME NEW pk, FieldsOk(pk.fields), NEW n
    PROVE  /\ FieldOf(pk, n) \in 0 .. Len(pk.fields)
           /\ FieldOf(pk, n) # 0 => FieldOf(pk, n) \in DOMAIN pk.fields
           /\ (\E i \in DOMAIN pk.fields : pk.fields[i].name = n) => FieldOf(pk, n) # 0
<1> DEFINE I == {i \in 1 .. Len(pk.fields) : pk.fields[i].name = n}
<1>1. FieldOf(pk, n) = IF I # {} THEN Min(I) ELSE 0
  BY DEF FieldOf, SelectInSeq
<1>2. Len(pk.fields) \in Nat /\ DOMAIN pk.fields = 1 .. Len(pk.fields)
  BY DEF FieldsOk
<1>3. I \in SUBSET (1 .. Len(pk.fields))
  OBVIOUS
<1>4. (\E i \in DOMAIN pk.fields : pk.fields[i].name = n) => I # {}
  BY <1>2
<1> HIDE DEF I
<1>5. FieldOf(pk, n) \in 0 .. Len(pk.fields) /\ (FieldOf(pk, n) # 0 => FieldOf(pk, n) \in I) /\ (I # {} => FieldOf(pk, n) # 0)
  BY <1>1, <1>2, <1>3, Selected
<1> QED
  BY <1>2, <1>3, <1>4, <1>5

\* find_lookup_to returns the link to a pack, when there is one: its byte is then the whole ordinal.
LEMMA LinkToIs ==
    ASSUME CatalogueAssumption, NEW from, FieldsOk(from.fields), NEW to, to.ord \in Nat, RefLink(from, to) > 0
    PROVE  /\ LinkTo(from, to) = RefLink(from, to) /\ RefLink(from, to) # 0
           /\ RefLink(from, to) \in DOMAIN from.fields /\ from.fields[RefLink(from, to)].type = "link"
<1> DEFINE l == Len(from.fields)
           I == {i \in 1 .. l : from.fields[i].type = "link" /\ from.fields[i].to = to.ord}
           J == {i \in 1 .. l : from.fields[i].type = "link" /\ from.fields[i].to = to.ord % ByteMod}
<1>1. RefLink(from, to) = IF I # {} THEN Min(I) ELSE 0
  BY DEF RefLink, SelectInSeq
<1>2. LinkTo(from, to) = IF J # {} THEN Min(J) ELSE 0
  BY DEF LinkTo, SelectInSeq
<1>3. /\ l \in Nat /\ DOMAIN from.fields = 1 .. l /\ I \in SUBSET (1 .. l)
      /\ \A i \in I : from.fields[i].type = "link" /\ from.fields[i].to = to.ord
  BY DEF FieldsOk
<1>4. \A i \in 1 .. l : from.fields[i].to \in 0 .. ByteMod - 1
  <2>1. from.fields \in Seq(FieldRec)
    BY DEF FieldsOk
  <2>2. \A i \in 1 .. l : from.fields[i] \in FieldRec
    BY <1>3, <2>1
  <2> QED
    BY <2>2 DEF FieldRec
<1>5. ByteMod \in Nat \ {0}
  BY CatalogueConstants
<1>6. I # {} => I = J
  <2>1. ASSUME NEW i \in I PROVE to.ord % ByteMod = to.ord
    <3>1. to.ord \in 0 .. ByteMod - 1
      BY <1>3, <1>4
    <3> QED
      BY <1>5, <3>1, SmallRemainder
  <2> QED
    BY <2>1
<1> HIDE DEF I, J, l
<1>7. RefLink(from, to) \in 0 .. l /\ (RefLink(from, to) # 0 => RefLink(from, to) \in I)
  BY <1>1, <1>3, Selected
<1>8. RefLink(from, to) # 0
  BY <1>3, <1>7
<1>9. I # {}
  BY <1>7, <1>8
<1> QED
  BY <1>1, <1>2, <1>3, <1>6, <1>7, <1>8, <1>9

\* A pack of a query is one of those it names.
LEMMA PackOfIs ==
    ASSUME NEW q, q.from \in Seq(STRING), q.from # <<>>, NEW n
    PROVE  PackOf(q, n) \in 0 .. Len(q.from) /\ (n = "" => PackOf(q, n) = 1) /\ 1 \in DOMAIN q.from
<1> DEFINE I == {i \in 1 .. Len(q.from) : q.from[i] = n}
<1>1. Len(q.from) \in Nat \ {0} /\ DOMAIN q.from = 1 .. Len(q.from)
  OBVIOUS
<1>2. PackOf(q, n) = IF n = "" THEN 1 ELSE IF I # {} THEN Min(I) ELSE 0
  BY DEF PackOf, SelectInSeq
<1>3. I \in SUBSET (1 .. Len(q.from))
  OBVIOUS
<1> HIDE DEF I
<1>4. (IF I # {} THEN Min(I) ELSE 0) \in 0 .. Len(q.from)
  BY <1>1, <1>3, Selected
<1> DEFINE m == IF I # {} THEN Min(I) ELSE 0
<1>5. PackOf(q, n) \in {1, m} /\ m \in 0 .. Len(q.from) /\ (n = "" => PackOf(q, n) = 1)
  BY <1>2, <1>4
<1> DEFINE l == Len(q.from)
<1> HIDE DEF m
<1>6. l \in Nat \ {0} /\ m \in 0 .. l
  <2>1. l \in Nat \ {0}
    BY <1>1
  <2>2. m \in 0 .. l
    BY <1>5
  <2> QED
    BY <2>1, <2>2
<1> HIDE DEF l
<1>7. PackOf(q, n) = 1 \/ PackOf(q, n) = m
  BY <1>5
<1>8. PackOf(q, n) \in 0 .. l
  BY <1>6, <1>7
<1>9. 1 \in DOMAIN q.from
  <2>1. DOMAIN q.from = 1 .. l
    BY <1>1 DEF l
  <2> QED
    BY <1>6, <2>1
<1> QED
  BY <1>5, <1>8, <1>9 DEF l

\* A pack found by its name is one of the catalogue, with its fields.
LEMMA NamedOk ==
    ASSUME CatalogueAssumption, CatalogueInv, NEW n, Named(n, AllSchemas) # None
    PROVE  Named(n, AllSchemas).ord \in Ords /\ FieldsOk(Named(n, AllSchemas).fields)
<1> DEFINE S == {p \in AllSchemas : schemas[p].name = n}
           pk == Named(n, AllSchemas)
<1>1. S # {} /\ pk = [ord |-> Min(S), name |-> n, fields |-> schemas[Min(S)].fields]
  BY DEF Named
<1>2. S \subseteq Nat /\ \A p \in S : p \in Ords /\ schemas[p] # None
  BY CatalogueConstants DEF AllSchemas
<1> HIDE DEF S
<1>3. Min(S) \in S
  BY <1>1, <1>2, MinIs
<1> HIDE DEF pk
<1>4. pk.ord = Min(S) /\ pk.fields = schemas[Min(S)].fields
  BY <1>1
<1>5. Min(S) \in Ords /\ FieldsOk(schemas[Min(S)].fields)
  BY <1>2, <1>3 DEF CatalogueInv, SchemasOk, SchemaOk
<1> QED
  BY <1>4, <1>5 DEF pk

\* A scan whose limit is not met lists the whole of the index.
LEMMA ScanWhole ==
    ASSUME CatalogueAssumption, NEW p, NEW n \in Nat, Cardinality(Index(p)) <= n
    PROVE  Scan(p, n) = Index(p) /\ Index(p) \subseteq Ids
<1> DEFINE A == Index(p) \cap Sram(p)  B == Index(p) \ Sram(p)
<1>1. Index(p) \subseteq Ids
  BY DEF Index, Keys
<1>2. Ids \subseteq Nat /\ IsFiniteSet(Ids)
  BY CatalogueConstants
<1>3. Index(p) \subseteq Nat /\ IsFiniteSet(Index(p))
  BY <1>1, <1>2, FS_Subset
<1>4. A \subseteq Nat /\ B \subseteq Nat /\ IsFiniteSet(A) /\ IsFiniteSet(B) /\ A \cap B = {} /\ A \cup B = Index(p)
  BY <1>3, FS_Subset
<1>5. Scan(p, n) = First(A, n) \cup First(B, n - Cardinality(First(A, n)))
  BY DEF Scan
<1> HIDE DEF A, B
<1>6. Cardinality(A) \in Nat /\ Cardinality(B) \in Nat /\ Cardinality(A) + Cardinality(B) <= n
  BY <1>4, DisjointSizes, FS_CardinalityType
<1>7. First(A, n) = A
  <2>1. Cardinality(A) <= n
    BY <1>6
  <2> QED
    BY <1>4, <2>1, FirstAll
<1> DEFINE r == n - Cardinality(A)
<1>8. r \in Nat /\ Cardinality(B) <= r
  BY <1>6
<1> HIDE DEF r
<1>9. First(B, r) = B
  BY <1>4, <1>8, FirstAll
<1> QED
  BY <1>1, <1>4, <1>5, <1>7, <1>9 DEF r

\* The keys of a pack are those of its cards.
LEMMA KeysOk ==
    ASSUME CatalogueAssumption, CatalogueInv, NEW p \in Ords
    PROVE  /\ Keys(p) \subseteq Ids /\ Keys(p) \subseteq Nat /\ IsFiniteSet(Keys(p))
           /\ \A i \in Keys(p) : i \in Ids /\ cards[p][i] # None /\ CardOk(cards[p][i])
<1>1. IsFiniteSet(Ids) /\ Ids \subseteq Nat
  BY CatalogueConstants
<1>2. Keys(p) \in SUBSET Ids
  BY DEF Keys
<1>3. IsFiniteSet(Keys(p))
  BY <1>1, <1>2, FS_Subset
<1> QED
  BY <1>1, <1>2, <1>3 DEF Keys, CatalogueInv, CardsOk

\* extract_field_str returns a value in range.
LEMMA ValueOk ==
    ASSUME CatalogueAssumption, NEW c, CardOk(c), NEW f PROVE Value(c, f) \in Blank .. LongMax
<1>1. LongMax \in Nat
  BY DEF CatalogueAssumption
<1> QED
  BY <1>1 DEF Value, CardOk, Blank

\* The names of a query are resolved, by the engine as in the reference.
LEMMA Resolved ==
    ASSUME CatalogueAssumption, CatalogueInv, NEW q, Clean(q)
    PROVE  /\ Packs(q) = RefPacks(q) /\ ~Denied(q) /\ 1 \in DOMAIN q.from
           /\ \A i \in DOMAIN q.from : RefPacks(q)[i].ord \in Ords /\ FieldsOk(RefPacks(q)[i].fields)
<1>1. \A i \in DOMAIN q.from : /\ Resolve(q.from[i]) = RefPacks(q)[i] /\ RefPacks(q)[i] # None
                               /\ RefPacks(q)[i].ord # UserPack
  BY DEF Clean, WellFormed, Stale
<1>2. Packs(q) = RefPacks(q) /\ \A i \in DOMAIN q.from : RefPacks(q)[i] = Named(q.from[i], AllSchemas)
  BY <1>1 DEF Packs, RefPacks
<1>3. q.from # <<>> /\ q.from \in Seq(STRING)
  BY DEF Clean, WellFormed
<1>4. ~Denied(q)
  BY <1>1, <1>2, <1>3 DEF Denied
<1>5. 1 \in DOMAIN q.from
  BY <1>3
<1> QED
  BY <1>1, <1>2, <1>4, <1>5, NamedOk

\* Conditions and selected fields name packs and fields that are there.
LEMMA Placement ==
    ASSUME CatalogueAssumption, CatalogueInv, NEW q, Clean(q), NEW x \in Range(q.where) \cup Range(q.select)
    PROVE  /\ PackOf(q, x.pack) \in DOMAIN q.from /\ PackOf(q, x.pack) \in Nat \ {0}
           /\ FieldOf(RefPacks(q)[PackOf(q, x.pack)], x.field) # 0
           /\ FieldOf(RefPacks(q)[PackOf(q, x.pack)], x.field) \in DOMAIN RefPacks(q)[PackOf(q, x.pack)].fields
           /\ PackOf(q, x.pack) # 1 =>
                LET li == RefLink(RefPacks(q)[1], RefPacks(q)[PackOf(q, x.pack)]) IN
                /\ LinkTo(RefPacks(q)[1], RefPacks(q)[PackOf(q, x.pack)]) = li /\ li # 0 /\ li \in DOMAIN RefPacks(q)[1].fields /\ RefPacks(q)[1].fields[li].type = "link"
<1> DEFINE pi == PackOf(q, x.pack)
           pk == RefPacks(q)[pi]
           fi == FieldOf(pk, x.field)
           li == RefLink(RefPacks(q)[1], pk)
<1>1. q.from \in Seq(STRING) /\ q.from # <<>> /\ pi > 0 /\ fi > 0 /\ (pi > 1 => li > 0)
  BY DEF Clean, WellFormed
<1>2. pi \in 0 .. Len(q.from)
  BY <1>1, PackOfIs
<1>3. pi \in DOMAIN q.from /\ pi \in Nat \ {0}
  BY <1>1, <1>2
<1>4. FieldsOk(pk.fields) /\ FieldsOk(RefPacks(q)[1].fields) /\ pk.ord \in Nat
  BY <1>3, Resolved, CatalogueConstants
<1>5. fi # 0 /\ fi \in DOMAIN pk.fields
  <2> HIDE DEF pk
  <2>1. fi \in 0 .. Len(pk.fields) /\ (fi # 0 => fi \in DOMAIN pk.fields)
    BY <1>4, FieldOfIs
  <2> QED
    BY <1>1, <2>1
<1>6. pi # 1 => /\ LinkTo(RefPacks(q)[1], pk) = li /\ li # 0
                /\ li \in DOMAIN RefPacks(q)[1].fields /\ RefPacks(q)[1].fields[li].type = "link"
  <2>1. pi # 1 => li > 0
    BY <1>1, <1>3
  <2> HIDE DEF pi, pk
  <2>2. li > 0 => /\ LinkTo(RefPacks(q)[1], pk) = li /\ li # 0
                  /\ li \in DOMAIN RefPacks(q)[1].fields /\ RefPacks(q)[1].fields[li].type = "link"
    BY <1>4, LinkToIs
  <2> QED
    BY <2>1, <2>2
<1> QED
  BY <1>3, <1>5, <1>6

(*****************************************************************************)
(* A condition as the engine compiles it passes the cards that it means.     *)
(*****************************************************************************)
\* A condition on the primary pack is compiled as it is.
LEMMA CompiledPlain ==
    ASSUME CatalogueAssumption, CatalogueInv, NEW q, Clean(q), NEW w \in Range(q.where), PackOf(q, w.pack) = 1
    PROVE  /\ Compiled(q, RefPacks(q), w) = Cond(FieldIn(q, w), w.op, w.val)
           /\ \A c : Related(q, c, w.pack) = {c}
<1>1. FieldOf(RefPacks(q)[1], w.field) # 0
  BY Placement
<1>2. FieldIn(q, w) = RefPacks(q)[1].fields[FieldOf(RefPacks(q)[1], w.field)]
  BY DEF FieldIn
<1>3. Compiled(q, RefPacks(q), w) = Cond(RefPacks(q)[1].fields[FieldOf(RefPacks(q)[1], w.field)], w.op, w.val)
  BY <1>1 DEF Compiled
<1> QED
  BY <1>2, <1>3 DEF Related

\* The cards of a joined pack that meet a condition.
Met(q, w) ==
    LET p == RefPacks(q)[PackOf(q, w.pack)].ord IN {i \in Keys(p) : Passes(cards[p][i], FieldIn(q, w), w.op, w.val)}

\* Those that the indexes let the scan find: all of them when they cover the pack.
Found(q, w) == Met(q, w) \cap Index(RefPacks(q)[PackOf(q, w.pack)].ord)

LEMMA FoundAll ==
    ASSUME NEW q, Covered(q), NEW w \in Range(q.where), PackOf(q, w.pack) > 1 PROVE Found(q, w) = Met(q, w)
BY DEF Covered, JoinedConds, Found, Met

\* Ids that fit in the text of a list are all listed, and none is cut.
LEMMA ListedAll ==
    ASSUME NEW S, S \subseteq Nat, IsFiniteSet(S), ListMax \in Nat, Cardinality(S) <= ListMax
    PROVE  Listed(S) = S
<1>1. Cardinality(S) \in Nat /\ Cardinality(S) <= ListMax + 1 /\ ListMax + 1 \in Nat
  BY FS_CardinalityType
<1>2. First(S, ListMax) = S /\ First(S, ListMax + 1) = S
  BY <1>1, FirstAll
<1> QED
  BY <1>2 DEF Listed

\* A condition on a joined pack is compiled into the list of the cards that meet it, as far as they are found.
LEMMA CompiledJoin ==
    ASSUME CatalogueAssumption, QueryAssumption, CatalogueInv, NEW q, Clean(q), NEW w \in Range(q.where),
           PackOf(q, w.pack) # 1
    PROVE  LET link == RefPacks(q)[1].fields[RefLink(RefPacks(q)[1], RefPacks(q)[PackOf(q, w.pack)])] IN
           Compiled(q, RefPacks(q), w) = IF Found(q, w) = {} THEN Stop("empty") ELSE Cond(link, "IN", Found(q, w))
<1> DEFINE pi == PackOf(q, w.pack)
           pk == RefPacks(q)[pi]
           fi == FieldOf(pk, w.field)
           li == RefLink(RefPacks(q)[1], pk)
           p == pk.ord
<1>1. pi \in DOMAIN q.from /\ pi > 1 /\ fi # 0 /\ li # 0 /\ LinkTo(RefPacks(q)[1], pk) = li /\ w \in JoinedConds(q)
  BY Placement, SMTT(30) DEF JoinedConds
<1>2. p \in Ords /\ JoinMax \in Nat /\ ListMax \in Nat
  BY <1>1, Resolved, Limits
<1>3. FieldIn(q, w) = pk.fields[fi]
  BY DEF FieldIn
<1>4. /\ Cardinality(Index(p)) <= JoinMax /\ Cardinality(Met(q, w)) <= ListMax
  BY <1>1 DEF Clean, Met
<1>5. Keys(p) \subseteq Nat /\ IsFiniteSet(Keys(p))
  BY <1>2, KeysOk
<1>6. Scan(p, JoinMax) = Index(p)
  BY <1>2, <1>4, ScanWhole
<1>7. \A i \in Keys(p) : JoinPasses(cards[p][i], FieldIn(q, w), w.op, w.val) = Passes(cards[p][i], FieldIn(q, w), w.op, w.val)
  BY <1>1 DEF Clean, Gap
<1>8. Matches(pk, pk.fields[fi], w) = Found(q, w)
  <2>1. Matches(pk, pk.fields[fi], w) = {i \in Index(p) \cap Keys(p) : JoinPasses(cards[p][i], pk.fields[fi], w.op, w.val)}
    BY <1>6 DEF Matches
  <2>2. Found(q, w) = {i \in Keys(p) : Passes(cards[p][i], FieldIn(q, w), w.op, w.val)} \cap Index(p)
    BY DEF Found, Met
  <2> HIDE DEF pk, p, fi
  <2> QED
    BY <1>3, <1>7, <2>1, <2>2
<1>9. Met(q, w) \in SUBSET Keys(p) /\ Found(q, w) \in SUBSET Met(q, w)
  BY DEF Met, Found
<1>10. Found(q, w) \subseteq Nat /\ IsFiniteSet(Found(q, w)) /\ Cardinality(Found(q, w)) <= ListMax
  <2>1. IsFiniteSet(Met(q, w)) /\ Met(q, w) \subseteq Nat
    BY <1>5, <1>9, FS_Subset
  <2>2. /\ IsFiniteSet(Found(q, w)) /\ Cardinality(Found(q, w)) <= Cardinality(Met(q, w))
        /\ Cardinality(Met(q, w)) \in Nat /\ Cardinality(Found(q, w)) \in Nat
    BY <1>9, <2>1, FS_Subset, FS_CardinalityType
  <2> QED
    BY <1>2, <1>4, <1>9, <2>1, <2>2
<1>11. Listed(Found(q, w)) = Found(q, w)
  BY <1>2, <1>10, ListedAll
<1>12. Compiled(q, RefPacks(q), w) =
         IF Matches(pk, pk.fields[fi], w) = {} THEN Stop("empty")
         ELSE Cond(RefPacks(q)[1].fields[li], "IN", Listed(Matches(pk, pk.fields[fi], w)))
  BY <1>1 DEF Compiled
<1> QED
  BY <1>8, <1>11, <1>12

\* What the list says of a card of the primary pack is what the condition says of the linked card.
LEMMA ListMeaning ==
    ASSUME CatalogueAssumption, CatalogueInv, NEW q, Clean(q), NEW w \in Range(q.where), PackOf(q, w.pack) # 1, NEW c
    PROVE  LET link == RefPacks(q)[1].fields[RefLink(RefPacks(q)[1], RefPacks(q)[PackOf(q, w.pack)])] IN
           Meets(q, c, w) <=> Passes(c, link, "IN", Met(q, w))
<1> DEFINE pi == PackOf(q, w.pack)
           pk == RefPacks(q)[pi]
           li == RefLink(RefPacks(q)[1], pk)
           link == RefPacks(q)[1].fields[li]
           p == pk.ord
           v == Value(c, link)
           is(d) == Passes(d, FieldIn(q, w), w.op, w.val)
<1>1. link.type = "link" /\ pi \in DOMAIN q.from
  BY Placement
<1>2. p \in Ords
  BY <1>1, Resolved
<1>3. Passes(c, link, "IN", Met(q, w)) <=> link.ord \in DOMAIN c /\ v \in Met(q, w) /\ v # Blank
  BY <1>1 DEF Passes, Numeric, Compare
<1>4. Related(q, c, w.pack) = IF link.ord \in DOMAIN c THEN {cards[p][i] : i \in Ids \cap {v}} \ {None} ELSE {}
  BY DEF Related, LinkedTo
<1>5. v \in Met(q, w) <=> v \in Keys(p) /\ is(cards[p][v])
  BY DEF Met
<1>6. v \in Keys(p) <=> v \in Ids /\ cards[p][v] # None
  BY DEF Keys
<1>7. v \in Ids => v # Blank
  BY CatalogueConstants DEF Blank
<1> HIDE DEF p, v, link, is
<1>8. (\E d \in Related(q, c, w.pack) : is(d)) <=> link.ord \in DOMAIN c /\ v \in Ids /\ cards[p][v] # None /\ is(cards[p][v])
  <2>1. CASE link.ord \in DOMAIN c /\ v \in Ids
    <3>1. Related(q, c, w.pack) = {cards[p][v]} \ {None}
      BY <1>4, <2>1
    <3> QED
      BY <2>1, <3>1
  <2>2. CASE ~(link.ord \in DOMAIN c /\ v \in Ids)
    <3>1. Related(q, c, w.pack) = {}
      BY <1>4, <2>2
    <3> QED
      BY <2>2, <3>1
  <2> QED
    BY <2>1, <2>2
<1>9. Meets(q, c, w) <=> \E d \in Related(q, c, w.pack) : is(d)
  BY DEF Meets, is
<1> QED
  BY <1>3, <1>5, <1>6, <1>7, <1>8, <1>9 DEF link

\* What a compiled condition says of a card of the primary pack: all that it means when the indexes cover the
\* scans, and never more.
LEMMA CompiledIs ==
    ASSUME CatalogueAssumption, QueryAssumption, CatalogueInv, NEW q, Clean(q), NEW w \in Range(q.where)
    PROVE  LET C == Compiled(q, RefPacks(q), w) IN
           /\ C.out \in {"ok", "empty"}
           /\ C.out = "ok" => \A c : /\ Passes(c, C.f, C.op, C.val) => Meets(q, c, w)
                                     /\ Covered(q) /\ Meets(q, c, w) => Passes(c, C.f, C.op, C.val)
           /\ C.out = "empty" /\ Covered(q) => \A c : ~Meets(q, c, w)
<1> DEFINE C == Compiled(q, RefPacks(q), w)
           link == RefPacks(q)[1].fields[RefLink(RefPacks(q)[1], RefPacks(q)[PackOf(q, w.pack)])]
<1>1. CASE PackOf(q, w.pack) = 1
  <2>1. C = Cond(FieldIn(q, w), w.op, w.val) /\ \A c : Related(q, c, w.pack) = {c}
    BY <1>1, CompiledPlain
  <2>2. C.out = "ok" /\ C.f = FieldIn(q, w) /\ C.op = w.op /\ C.val = w.val
    BY <2>1 DEF Cond
  <2> HIDE DEF C
  <2>3. ASSUME NEW c PROVE Passes(c, C.f, C.op, C.val) <=> Meets(q, c, w)
    BY <2>1, <2>2 DEF Meets
  <2> QED
    BY <2>2, <2>3 DEF C
<1>2. CASE PackOf(q, w.pack) # 1
  <2>1. C = IF Found(q, w) = {} THEN Stop("empty") ELSE Cond(link, "IN", Found(q, w))
    BY <1>2, CompiledJoin
  <2>2. \A c : Meets(q, c, w) <=> Passes(c, link, "IN", Met(q, w))
    BY <1>2, ListMeaning
  <2>3. Found(q, w) \subseteq Met(q, w) /\ (Covered(q) => Found(q, w) = Met(q, w))
    <3>1. PackOf(q, w.pack) \in Nat \ {0}
      BY Placement
    <3>2. PackOf(q, w.pack) > 1
      BY <1>2, <3>1
    <3> QED
      BY <3>2, FoundAll DEF Found
  <2>4. ASSUME NEW c, Passes(c, link, "IN", Found(q, w)) PROVE Meets(q, c, w)
    <3>1. Passes(c, link, "IN", Met(q, w))
      <4> HIDE DEF link
      <4> QED
        BY <2>3, <2>4 DEF Passes, Compare
    <3> QED
      BY <2>2, <3>1
  <2> HIDE DEF C
  <2>5. CASE Found(q, w) = {}
    <3>1. C.out = "empty"
      BY <2>1, <2>5 DEF Stop
    <3>2. Met(q, w) = {} => \A c : ~Passes(c, link, "IN", Met(q, w))
      BY DEF Passes, Compare
    <3> HIDE DEF link
    <3> QED
      BY <2>2, <2>3, <2>5, <3>1, <3>2 DEF C
  <2>6. CASE Found(q, w) # {}
    <3>1. C.out = "ok" /\ C.f = link /\ C.op = "IN" /\ C.val = Found(q, w)
      BY <2>1, <2>6 DEF Cond
    <3>2. ASSUME NEW c, Covered(q), Meets(q, c, w) PROVE Passes(c, link, "IN", Found(q, w))
      <4>1. Found(q, w) = Met(q, w)
        BY <2>3, <3>2
      <4> QED
        BY <2>2, <3>2, <4>1
    <3> HIDE DEF link
    <3> QED
      BY <2>4, <3>1, <3>2 DEF C
  <2> QED
    BY <2>5, <2>6 DEF C
<1> QED
  BY <1>1, <1>2

(*****************************************************************************)
(* The sort keeps the conditions.                                            *)
(*****************************************************************************)
\* The folds over sequences take the last place first.
LEMMA MaxChooses ==
    ASSUME NEW m \in Nat PROVE Chooses(1 .. m, [s \in SUBSET (1 .. m) |-> Max(s)]) /\ IsFiniteSet(1 .. m)
<1>1. IsFiniteSet(1 .. m)
  BY FS_Interval
<1>2. ASSUME NEW s \in SUBSET (1 .. m), s # {} PROVE Max(s) \in s
  <2>1. IsFiniteSet(s)
    BY <1>1, FS_Subset
  <2>2. s \subseteq Nat
    OBVIOUS
  <2> QED
    BY <1>2, <2>1, <2>2, MaxIs
<1> QED
  BY <1>1, <1>2 DEF Chooses

\* The places that the k-th comparison of the sort compares.
LEMMA SortPlaces ==
    ASSUME NEW n \in Nat \ {0}, NEW x \in Nat
    PROVE  (x \div n) + 1 \in Nat \ {0} /\ (x % n) + 1 \in 1 .. n
<1>1. x % n \in 0 .. n - 1
  OBVIOUS
<1>2. x \div n \in Nat
  OBVIOUS
<1> QED
  BY <1>1, <1>2

\* The sort only changes the order of the conditions.
LEMMA OrderedKeeps ==
    ASSUME NEW n \in Nat, NEW conds, conds \in [1 .. n -> Range(conds)], NEW pk
    PROVE  DOMAIN Ordered(pk, conds) = 1 .. n /\ Range(Ordered(pk, conds)) = Range(conds)
<1> DEFINE V == Range(conds)
<1>0. conds \in [1 .. n -> V]
  OBVIOUS
<1> HIDE DEF V
<1> DEFINE m == n * n
           W == [1 .. n -> V]
           seq == [k \in 1 .. m |-> k - 1]
           op(s, x) == Exchanged(pk, s, (x \div n) + 1, (x % n) + 1)
           Is(g) == g = [s \in SUBSET (1 .. m) |->
                          IF s = {} THEN conds ELSE op(g[s \ {Max(s)}], seq[Max(s)])]
           h == CHOOSE g : Is(g)
<1>1. Len(conds) = n /\ m \in Nat
  BY <1>0
<1>2. Ordered(pk, conds) = h[1 .. m]
  <2>1. DOMAIN seq = 1 .. m
    OBVIOUS
  <2>2. Ordered(pk, conds) = FoldLeft(LAMBDA s, k : op(s, k), conds, seq)
    BY <1>1 DEF Ordered
  <2> QED
    BY <2>1, <2>2 DEF FoldLeft, MapThenFoldSet
<1> HIDE DEF m
<1>3. \A x \in 1 .. m : seq[x] \in Nat
  BY <1>1
<1> HIDE DEF seq
<1>4. ASSUME NEW s \in W, NEW x \in 1 .. m PROVE op(s, seq[x]) \in W /\ Range(op(s, seq[x])) = Range(s)
  <2>1. n # 0
    BY <1>1 DEF m
  <2>3. n \in Nat \ {0} /\ seq[x] \in Nat
    BY <1>3, <2>1
  <2> DEFINE i == (seq[x] \div n) + 1  j == (seq[x] % n) + 1
  <2>4. i \in Nat \ {0} /\ j \in 1 .. n
    BY <2>3, SortPlaces
  <2>5. op(s, seq[x]) = IF i < j /\ Cost(pk, s[j]) < Cost(pk, s[i]) THEN [s EXCEPT ![i] = s[j], ![j] = s[i]] ELSE s
    BY DEF Exchanged
  <2> HIDE DEF op, i, j, h, Is
  <2>6. CASE i < j /\ Cost(pk, s[j]) < Cost(pk, s[i])
    <3> DEFINE t == [s EXCEPT ![i] = s[j], ![j] = s[i]]
    <3>1. op(s, seq[x]) = t /\ i \in 1 .. n /\ i # j
      BY <2>4, <2>5, <2>6
    <3>2. /\ t \in [1 .. n -> V] /\ t[i] = s[j] /\ t[j] = s[i]
          /\ \A k \in 1 .. n : k # i /\ k # j => t[k] = s[k]
      BY <2>4, <3>1
    <3> HIDE DEF t
    <3>3. Range(t) = Range(s)
      BY <2>4, <3>1, <3>2 DEF Range
    <3> QED
      BY <3>1, <3>2, <3>3
  <2>7. CASE ~(i < j /\ Cost(pk, s[j]) < Cost(pk, s[i]))
    BY <2>5, <2>7
  <2> QED
    BY <2>6, <2>7
<1> HIDE DEF op, W
<1>5. \E g : Is(g)
  <2> DEFINE ch == [s \in SUBSET (1 .. m) |-> Max(s)]
             st == [x \in 1 .. m |-> [s \in W |-> op(s, seq[x])]]
  <2>1. Chooses(1 .. m, ch) /\ IsFiniteSet(1 .. m)
    BY <1>1, MaxChooses
  <2>2. st \in [1 .. m -> [W -> W]] /\ conds \in W
    BY <1>0, <1>4 DEF W
  <2>3. /\ \A x \in 1 .. m, s \in W : st[x][s] = op(s, seq[x])
        /\ \A s \in SUBSET (1 .. m) : ch[s] = Max(s)
    OBVIOUS
  <2> HIDE DEF ch, st
  <2>4. PICK g \in [SUBSET (1 .. m) -> W] : Recurs(1 .. m, conds, st, ch, g)
    BY <2>1, <2>2, Recursion
  <2>5. ASSUME NEW s \in SUBSET (1 .. m)
        PROVE  g[s] = IF s = {} THEN conds ELSE op(g[s \ {Max(s)}], seq[Max(s)])
    <3>1. CASE s = {}
      BY <2>4, <3>1 DEF Recurs
    <3>2. CASE s # {}
      <4>1. ch[s] = Max(s) /\ Max(s) \in 1 .. m /\ s \ {Max(s)} \in SUBSET (1 .. m)
        BY <2>1, <2>3, <3>2 DEF Chooses
      <4>2. g[s \ {Max(s)}] \in W
        BY <4>1
      <4>3. st[Max(s)][g[s \ {Max(s)}]] = op(g[s \ {Max(s)}], seq[Max(s)])
        BY <2>3, <4>1, <4>2
      <4> QED
        BY <2>4, <3>2, <4>1, <4>3 DEF Recurs
    <3> QED
      BY <3>1, <3>2
  <2>6. Is(g)
    BY <2>5
  <2> QED
    BY <2>6
<1>6. Is(h)
  BY <1>5
<1>7. \A s \in SUBSET (1 .. m) : h[s] = IF s = {} THEN conds ELSE op(h[s \ {Max(s)}], seq[Max(s)])
  <2> HIDE DEF h
  <2> QED
    BY <1>6
<1> HIDE DEF h, Is
<1> DEFINE S == {k \in Nat : h[1 .. k] \in W /\ Range(h[1 .. k]) = Range(conds)}
<1>8. 0 \in S
  <2>1. 1 .. 0 = {}
    OBVIOUS
  <2>2. h[{}] = conds
    BY <1>7
  <2> QED
    BY <1>0, <2>1, <2>2 DEF W
<1>9. ASSUME NEW k \in 1 .. m, k - 1 \in S PROVE k \in S
  <2>1. 1 .. k \in SUBSET (1 .. m) /\ 1 .. k # {} /\ Max(1 .. k) = k /\ (1 .. k) \ {Max(1 .. k)} = 1 .. k - 1
    BY <1>1, Prefix
  <2>2. h[1 .. k] = op(h[1 .. k - 1], seq[k])
    BY <1>7, <2>1
  <2>3. h[1 .. k - 1] \in W /\ Range(h[1 .. k - 1]) = Range(conds)
    BY <1>9
  <2> QED
    BY <1>1, <1>4, <2>2, <2>3
<1>10. m \in S
  <2> HIDE DEF S
  <2> QED
    BY <1>1, <1>8, <1>9, Onward
<1>11. Ordered(pk, conds) \in [1 .. n -> V] /\ Range(Ordered(pk, conds)) = Range(conds)
  BY <1>2, <1>10 DEF W
<1> QED
  BY <1>11

(*****************************************************************************)
(* The scan: the cards that pass are the cards the query means.              *)
(*****************************************************************************)
\* The conditions are those of WHERE in their order, and the first bad one is found.
LEMMA CondsAre ==
    ASSUME CatalogueAssumption, CatalogueInv, NEW q, Clean(q)
    PROVE  /\ Len(q.where) \in Nat /\ Conds(q) \in [1 .. Len(q.where) -> Range(Conds(q))]
           /\ \A k \in 1 .. Len(q.where) : /\ Conds(q)[k] = Compiled(q, RefPacks(q), q.where[k])
                                           /\ q.where[k] \in Range(q.where)
           /\ DOMAIN q.where = 1 .. Len(q.where)
           /\ FirstBad(q) \in 0 .. Len(q.where)
           /\ FirstBad(q) # 0 => Conds(q)[FirstBad(q)].out # "ok"
           /\ FirstBad(q) = 0 => \A k \in 1 .. Len(q.where) : Conds(q)[k].out = "ok"
<1> DEFINE n == Len(q.where)
           I == {i \in 1 .. n : Conds(q)[i].out # "ok"}
<1>1. n \in Nat /\ DOMAIN q.where = 1 .. n /\ \A k \in 1 .. n : q.where[k] \in Range(q.where)
  <2>1. q.where \in Seq(Range(q.where))
    BY DEF Clean
  <2> QED
    BY <2>1
<1>2. Conds(q) = [k \in 1 .. n |-> Compiled(q, RefPacks(q), q.where[k])]
  BY <1>1, Resolved DEF Conds
<1> HIDE DEF n
<1>3. Conds(q) \in [1 .. n -> Range(Conds(q))]
  BY <1>2 DEF Range
<1>4. Len(Conds(q)) = n
  BY <1>1, <1>3
<1>5. FirstBad(q) = IF I # {} THEN Min(I) ELSE 0
  BY <1>4 DEF FirstBad, SelectInSeq
<1>6. I \in SUBSET (1 .. n)
  OBVIOUS
<1> HIDE DEF I
<1>7. FirstBad(q) \in 0 .. n /\ (FirstBad(q) # 0 => FirstBad(q) \in I) /\ (I # {} => FirstBad(q) # 0)
  BY <1>1, <1>5, <1>6, Selected
<1>8. FirstBad(q) # 0 => Conds(q)[FirstBad(q)].out # "ok"
  BY <1>7 DEF I
<1>9. FirstBad(q) = 0 => \A k \in 1 .. n : Conds(q)[k].out = "ok"
  BY <1>7 DEF I
<1>10. \A k \in 1 .. n : Conds(q)[k] = Compiled(q, RefPacks(q), q.where[k])
  BY <1>2
<1> QED
  BY <1>1, <1>3, <1>7, <1>8, <1>9, <1>10 DEF n

\* The cards a query means are cards of its first pack.
LEMMA RefIdsAre ==
    ASSUME CatalogueAssumption, CatalogueInv, NEW q, Clean(q)
    PROVE  LET p == RefPacks(q)[1].ord IN
           /\ RefIds(q) = {i \in Keys(p) : \A k \in 1 .. Len(q.where) : Meets(q, cards[p][i], q.where[k])}
           /\ p \in Ords /\ RefIds(q) \subseteq Keys(p) /\ RefIds(q) \subseteq Nat /\ IsFiniteSet(RefIds(q))
<1> DEFINE p == RefPacks(q)[1].ord
<1>1. p \in Ords
  BY Resolved
<1>2. DOMAIN q.where = 1 .. Len(q.where)
  BY CondsAre
<1>3. RefIds(q) = {i \in Keys(p) : \A k \in 1 .. Len(q.where) : Meets(q, cards[p][i], q.where[k])}
  BY <1>2 DEF RefIds, Meets
<1>4. RefIds(q) \in SUBSET Keys(p)
  BY DEF RefIds
<1>5. IsFiniteSet(Keys(p)) /\ Keys(p) \subseteq Nat
  BY <1>1, KeysOk
<1>6. IsFiniteSet(RefIds(q))
  BY <1>4, <1>5, FS_Subset
<1> QED
  BY <1>1, <1>3, <1>4, <1>5, <1>6

\* A condition that no card of its pack meets stops the query; when the indexes cover the scans no row is due either.
LEMMA StoppedIsEmpty ==
    ASSUME CatalogueAssumption, QueryAssumption, CatalogueInv, NEW q, Clean(q), FirstBad(q) # 0
    PROVE  Conds(q)[FirstBad(q)].out = "empty" /\ (Covered(q) => RefIds(q) = {})
<1> DEFINE b == FirstBad(q)
           w == q.where[b]
<1>1. /\ b \in 1 .. Len(q.where) /\ Conds(q)[b] = Compiled(q, RefPacks(q), w) /\ w \in Range(q.where)
      /\ Conds(q)[b].out # "ok"
  <2>1. b \in 0 .. Len(q.where) /\ Len(q.where) \in Nat /\ Conds(q)[b].out # "ok"
    BY CondsAre
  <2>2. b \in 1 .. Len(q.where)
    BY <2>1
  <2> HIDE DEF b
  <2> QED
    BY <2>1, <2>2, CondsAre
<1>2. Conds(q)[b].out = "empty" /\ (Covered(q) => \A c : ~Meets(q, c, w))
  <2> DEFINE C == Compiled(q, RefPacks(q), w)
  <2>1. C.out \in {"ok", "empty"} /\ (C.out = "empty" /\ Covered(q) => \A c : ~Meets(q, c, w))
    BY <1>1, CompiledIs
  <2> HIDE DEF C, w, b
  <2>2. Conds(q)[b] = C /\ Conds(q)[b].out # "ok"
    BY <1>1 DEF C
  <2> QED
    BY <2>1, <2>2
<1>3. Covered(q) => RefIds(q) = {}
  BY <1>1, <1>2, RefIdsAre
<1> QED
  BY <1>2, <1>3

\* In whatever order the conditions are tried, the cards that pass them are cards the query means, and all of
\* these when the indexes cover the scans.
LEMMA ScanIsRight ==
    ASSUME CatalogueAssumption, QueryAssumption, CatalogueInv, NEW q, Clean(q), FirstBad(q) = 0, NEW pk
    PROVE  LET p == RefPacks(q)[1].ord
               o == Ordered(pk, Conds(q))
               seen == {i \in Scan(p, ScanMax) \cap Keys(p) :
                          \A k \in DOMAIN o : Passes(cards[p][i], o[k].f, o[k].op, o[k].val)} IN
           seen \subseteq RefIds(q) /\ (Covered(q) => seen = RefIds(q))
<1> DEFINE p == RefPacks(q)[1].ord
           o == Ordered(pk, Conds(q))
           n == Len(q.where)
<1>1. p \in Ords /\ ScanMax \in Nat /\ n \in Nat
  BY RefIdsAre, Limits, CondsAre
<1>2. Scan(p, ScanMax) = Index(p) /\ (Covered(q) => Keys(p) \subseteq Index(p))
  <2>1. Cardinality(Index(p)) <= ScanMax
    BY DEF Clean
  <2>2. Scan(p, ScanMax) = Index(p)
    BY <1>1, <2>1, ScanWhole
  <2> QED
    BY <2>2 DEF Covered
<1>3. Conds(q) \in [1 .. n -> Range(Conds(q))]
  BY CondsAre
<1>4. DOMAIN o = 1 .. n /\ Range(o) = Range(Conds(q))
  BY <1>1, <1>3, OrderedKeeps
<1> HIDE DEF o
<1>5. ASSUME NEW c
      PROVE  /\ (\A k \in DOMAIN o : Passes(c, o[k].f, o[k].op, o[k].val)) => \A k \in 1 .. n : Meets(q, c, q.where[k])
             /\ Covered(q) /\ (\A k \in 1 .. n : Meets(q, c, q.where[k])) =>
                  \A k \in DOMAIN o : Passes(c, o[k].f, o[k].op, o[k].val)
  <2> DEFINE is(C) == Passes(c, C.f, C.op, C.val)
  <2>1. (\A k \in DOMAIN o : is(o[k])) <=> \A C \in Range(o) : is(C)
    BY DEF Range
  <2>2. (\A k \in 1 .. n : is(Conds(q)[k])) <=> \A C \in Range(Conds(q)) : is(C)
    BY <1>3 DEF Range
  <2>3. ASSUME NEW k \in 1 .. n 
        PROVE  (is(Conds(q)[k]) => Meets(q, c, q.where[k])) /\ (Covered(q) /\ Meets(q, c, q.where[k]) => is(Conds(q)[k]))
    <3>1. /\ Conds(q)[k] = Compiled(q, RefPacks(q), q.where[k]) /\ q.where[k] \in Range(q.where)
          /\ Conds(q)[k].out = "ok"
      BY CondsAre
    <3> QED
      BY <3>1, CompiledIs
  <2> HIDE DEF is
  <2>4. /\ (\A k \in DOMAIN o : is(o[k])) => \A k \in 1 .. n : Meets(q, c, q.where[k])
        /\ Covered(q) /\ (\A k \in 1 .. n : Meets(q, c, q.where[k])) => \A k \in DOMAIN o : is(o[k])
    BY <1>4, <2>1, <2>2, <2>3
  <2> QED
    BY <2>4 DEF is
<1>6. RefIds(q) = {i \in Keys(p) : \A k \in 1 .. n : Meets(q, cards[p][i], q.where[k])}
  BY RefIdsAre
<1> DEFINE good(i) == \A k \in DOMAIN o : Passes(cards[p][i], o[k].f, o[k].op, o[k].val)
           wanted(i) == \A k \in 1 .. n : Meets(q, cards[p][i], q.where[k])
<1>7. \A i : (good(i) => wanted(i)) /\ (Covered(q) /\ wanted(i) => good(i))
  BY <1>5
<1>8. RefIds(q) = {i \in Keys(p) : wanted(i)}
  BY <1>6
<1> HIDE DEF good, wanted, p
<1>9. {i \in Index(p) \cap Keys(p) : good(i)} \subseteq RefIds(q)
  BY <1>7, <1>8
<1>10. Covered(q) => {i \in Index(p) \cap Keys(p) : good(i)} = RefIds(q)
  BY <1>2, <1>7, <1>8
<1> QED
  BY <1>2, <1>9, <1>10 DEF good, o, p

\* A selected field of a row.
LEMMA ShownIsRight ==
    ASSUME CatalogueAssumption, CatalogueInv, NEW q, Clean(q), NEW i \in RefIds(q), NEW s \in Range(q.select)
    PROVE  LET c == cards[RefPacks(q)[1].ord][i] IN
           /\ Shown(q, RefPacks(q), c, s) = RefShown(q, c, s) /\ RefShown(q, c, s) \in Blank .. LongMax
<1> DEFINE c == cards[RefPacks(q)[1].ord][i]
           pi == PackOf(q, s.pack)
           pk == RefPacks(q)[pi]
           fi == FieldOf(pk, s.field)
           li == RefLink(RefPacks(q)[1], pk)
           link == RefPacks(q)[1].fields[li]
           p == pk.ord
           f == pk.fields[fi]
           v == Value(c, link)
<1>1. /\ pi \in DOMAIN q.from /\ pi \in Nat \ {0} /\ fi # 0
      /\ pi # 1 => LinkTo(RefPacks(q)[1], pk) = li /\ li # 0 /\ link.type = "link"
  BY Placement
<1>2. p \in Ords /\ i \in Keys(RefPacks(q)[1].ord) /\ RefPacks(q)[1].ord \in Ords
  BY <1>1, Resolved, RefIdsAre
<1>3. CardOk(c) /\ LongMax \in Nat
  BY <1>2, KeysOk DEF CatalogueAssumption
<1>4. FieldIn(q, s) = f
  BY DEF FieldIn
<1>5. (s.pack = "" \/ pi = 0) => pi = 1
  BY <1>1 DEF PackOf
<1>6. CASE pi = 1
  <2>1. Shown(q, RefPacks(q), c, s) = Value(c, f)
    BY <1>1, <1>6 DEF Shown
  <2>2. Related(q, c, s.pack) = {c}
    BY <1>6 DEF Related
  <2> HIDE DEF c, f
  <2>3. RefShown(q, c, s) = Value(c, f)
    BY <1>4, <2>2 DEF RefShown
  <2> QED
    BY <1>3, <2>1, <2>3, ValueOk DEF c
<1>7. CASE pi # 1
  <2>1. link.ord \in DOMAIN c
    <3>1. pi > 1
      BY <1>1, <1>7
    <3> QED
      BY <3>1 DEF Clean, Gap
  <2>2. v # Blank
    <3>1. link.type = "link"
      BY <1>1, <1>7
    <3> HIDE DEF link
    <3> QED
      BY <2>1, <3>1 DEF Value, Numeric, Blank
  <2>3. Shown(q, RefPacks(q), c, s) = IF v \in Ids /\ cards[p][v] # None THEN Value(cards[p][v], f) ELSE Blank
    <3>1. ~(s.pack = "" \/ pi = 0)
      BY <1>5, <1>7
    <3>2. LinkTo(RefPacks(q)[1], pk) = li /\ li # 0
      BY <1>1, <1>7
    <3> DEFINE lt == LinkTo(RefPacks(q)[1], pk)
               x == Value(c, RefPacks(q)[1].fields[lt])
               j == IF x = Blank THEN 0 ELSE x
    <3>3. Shown(q, RefPacks(q), c, s) = IF lt = 0 THEN Blank ELSE
             IF j \in Ids /\ cards[p][j] # None THEN Value(cards[p][j], f) ELSE Blank
      BY <1>1, <1>7, <3>1 DEF Shown
    <3>4. lt = li /\ lt # 0
      BY <3>2
    <3>5. x = v
      <4> HIDE DEF lt, li
      <4> QED
        BY <3>4
    <3>6. j = v
      <4> HIDE DEF x, v
      <4> QED
        BY <2>2, <3>5
    <3> HIDE DEF lt, j, v, p, c, f
    <3> QED
      BY <3>3, <3>4, <3>6
  <2>4. Related(q, c, s.pack) = {cards[p][j] : j \in Ids \cap {v}} \ {None}
    BY <1>7, <2>1 DEF Related, LinkedTo
  <2> HIDE DEF c, f, v, p
  <2>5. CASE v \in Ids /\ cards[p][v] # None
    <3>1. Related(q, c, s.pack) = {cards[p][v]}
      BY <2>4, <2>5
    <3>2. RefShown(q, c, s) = Value(cards[p][v], f)
      BY <1>4, <3>1 DEF RefShown
    <3>3. v \in Keys(p)
      BY <2>5 DEF Keys
    <3>4. CardOk(cards[p][v])
      BY <1>2, <3>3, KeysOk
    <3> QED
      BY <2>3, <2>5, <3>2, <3>4, ValueOk DEF c
  <2>6. CASE ~(v \in Ids /\ cards[p][v] # None)
    <3>1. Related(q, c, s.pack) = {}
      BY <2>4, <2>6
    <3>2. RefShown(q, c, s) = Blank
      BY <3>1 DEF RefShown
    <3>3. Blank \in Blank .. LongMax
      BY <1>3 DEF Blank
    <3> QED
      BY <2>3, <2>6, <3>2, <3>3 DEF c
  <2> QED
    BY <2>5, <2>6
<1> QED
  BY <1>6, <1>7

(*****************************************************************************)
(* Rows.                                                                     *)
(*****************************************************************************)
\* A row of a card the query means shows what the query means.
LEMMA RowIsRight ==
    ASSUME CatalogueAssumption, CatalogueInv, NEW q, Clean(q), NEW i \in RefIds(q)
    PROVE  LET c == cards[RefPacks(q)[1].ord][i] IN
           [k \in DOMAIN q.select |-> Shown(q, RefPacks(q), c, q.select[k])] =
             [k \in DOMAIN q.select |-> RefShown(q, c, q.select[k])]
<1> DEFINE c == cards[RefPacks(q)[1].ord][i]
<1>1. ASSUME NEW k \in DOMAIN q.select PROVE Shown(q, RefPacks(q), c, q.select[k]) = RefShown(q, c, q.select[k])
  <2>1. q.select[k] \in Range(q.select)
    BY DEF Range
  <2> QED
    BY <2>1, ShownIsRight
<1> HIDE DEF c
<1>2. [k \in DOMAIN q.select |-> Shown(q, RefPacks(q), c, q.select[k])] =
        [k \in DOMAIN q.select |-> RefShown(q, c, q.select[k])]
  BY <1>1
<1> QED
  BY <1>2 DEF c

\* With the indexes covering the scans, the rows of the scan are the rows the query means.
LEMMA RowsAreRight ==
    ASSUME CatalogueAssumption, QueryAssumption, CatalogueInv, NEW q, Clean(q), Covered(q), FirstBad(q) = 0, NEW pk,
           NEW n \in Nat, Cardinality(RefIds(q)) <= n
    PROVE  Rows(q, RefPacks(q), Ordered(pk, Conds(q)), n) = RefRows(q)
<1> DEFINE p == RefPacks(q)[1].ord
           o == Ordered(pk, Conds(q))
           found == InOrder(RefIds(q))
           row(r) == [k \in DOMAIN q.select |-> Shown(q, RefPacks(q), cards[p][found[r]], q.select[k])]
           ref(r) == [k \in DOMAIN q.select |-> RefShown(q, cards[p][found[r]], q.select[k])]
           m == Cardinality(RefIds(q))
<1> DEFINE seen == {i \in Scan(p, ScanMax) \cap Keys(p) :
                      \A k \in DOMAIN o : Passes(cards[p][i], o[k].f, o[k].op, o[k].val)}
<1>1. seen = RefIds(q)
  BY ScanIsRight
<1>2. Rows(q, RefPacks(q), o, n) = [r \in 1 .. IF Len(found) < n THEN Len(found) ELSE n |-> row(r)]
  <2>1. Listing(p, seen) = found
    <3>1. RefIds(q) \subseteq Keys(p) /\ RefIds(q) \subseteq Nat /\ IsFiniteSet(RefIds(q))
      BY RefIdsAre
    <3>2. \A i \in RefIds(q) \cap Sram(p), j \in RefIds(q) \ Sram(p) : i < j
      BY <3>1 DEF Covered
    <3>3. Listing(p, RefIds(q)) = found
      BY <3>1, <3>2, ListingInOrder
    <3> HIDE DEF seen, found
    <3> QED
      BY <1>1, <3>3
  <2> DEFINE f2 == Listing(p, seen)
  <2>2. Rows(q, RefPacks(q), o, n) = [r \in 1 .. IF Len(f2) < n THEN Len(f2) ELSE n |->
          [k \in DOMAIN q.select |-> Shown(q, RefPacks(q), cards[p][f2[r]], q.select[k])]]
    <3> HIDE DEF o
    <3> QED
      BY DEF Rows
  <2>3. f2 = found
    BY <2>1
  <2> HIDE DEF f2, found, seen, o
  <2> QED
    BY <2>2, <2>3
<1>3. m \in Nat /\ found \in [1 .. m -> RefIds(q)] /\ Len(found) = m /\ DOMAIN found = 1 .. m
  BY RefIdsAre, InOrderIs
<1>4. (IF Len(found) < n THEN Len(found) ELSE n) = m
  <2> HIDE DEF m, found
  <2>1. m <= n
    BY DEF m
  <2> QED
    BY <1>3, <2>1
<1>5. RefRows(q) = [r \in 1 .. m |-> ref(r)]
  BY <1>3 DEF RefRows
<1>6. ASSUME NEW r \in 1 .. m PROVE row(r) = ref(r)
  <2>1. found[r] \in RefIds(q)
    <3> HIDE DEF found, m
    <3> QED
      BY <1>3
  <2> HIDE DEF found, m
  <2> QED
    BY <2>1, RowIsRight
<1> HIDE DEF row, ref, m, found
<1> QED
  BY <1>2, <1>4, <1>5, <1>6, SMTT(30)

\* Whatever the indexes hold, a row of the scan is one that the query means.
LEMMA RowsAreDue ==
    ASSUME CatalogueAssumption, QueryAssumption, CatalogueInv, NEW q, Clean(q), FirstBad(q) = 0, NEW pk, NEW n \in Nat
    PROVE  Range(Rows(q, RefPacks(q), Ordered(pk, Conds(q)), n)) \subseteq Range(RefRows(q))
<1> DEFINE p == RefPacks(q)[1].ord
           o == Ordered(pk, Conds(q))
           seen == {i \in Scan(p, ScanMax) \cap Keys(p) :
                      \A k \in DOMAIN o : Passes(cards[p][i], o[k].f, o[k].op, o[k].val)}
           found == Listing(p, seen)
           wanted == InOrder(RefIds(q))
           m == Cardinality(RefIds(q))
           row(i) == [k \in DOMAIN q.select |-> Shown(q, RefPacks(q), cards[p][i], q.select[k])]
           ref(i) == [k \in DOMAIN q.select |-> RefShown(q, cards[p][i], q.select[k])]
           rows == Rows(q, RefPacks(q), o, n)
           l == Len(found)
<1>1. seen \subseteq RefIds(q) /\ RefIds(q) \subseteq Nat /\ IsFiniteSet(RefIds(q))
  BY ScanIsRight, RefIdsAre
<1>2. rows = [r \in 1 .. IF l < n THEN l ELSE n |-> row(found[r])]
  <2> HIDE DEF o
  <2> QED
    BY DEF Rows
<1>3. seen \subseteq Nat /\ IsFiniteSet(seen)
  BY <1>1, FS_Subset
<1>4. l \in Nat /\ DOMAIN found = 1 .. l /\ \A k \in DOMAIN found : found[k] \in seen
  <2> HIDE DEF seen
  <2> QED
    BY <1>3, ListingIs
<1>5. m \in Nat /\ DOMAIN wanted = 1 .. m /\ \A i \in RefIds(q) : \E k \in 1 .. m : wanted[k] = i
  BY <1>1, InOrderIs
<1>6. RefRows(q) = [r \in 1 .. m |-> ref(wanted[r])]
  BY <1>5 DEF RefRows
<1>7. \A i \in RefIds(q) : row(i) = ref(i)
  BY RowIsRight
<1> HIDE DEF row, ref, wanted, found, m, l, seen, rows
<1>8. ASSUME NEW r \in DOMAIN rows PROVE rows[r] \in Range(RefRows(q))
  <2>1. r \in 1 .. l /\ rows[r] = row(found[r])
    <3>1. DOMAIN rows = 1 .. IF l < n THEN l ELSE n
      BY <1>2
    <3>2. r \in 1 .. l
      BY <1>4, <3>1
    <3> QED
      BY <1>2, <3>1, <3>2
  <2>2. found[r] \in RefIds(q)
    BY <1>1, <1>4, <2>1
  <2>3. PICK k \in 1 .. m : wanted[k] = found[r]
    BY <1>5, <2>2
  <2>4. RefRows(q)[k] = ref(found[r]) /\ k \in DOMAIN RefRows(q)
    BY <1>6, <2>3
  <2> QED
    BY <1>7, <2>1, <2>2, <2>4 DEF Range
<1>9. Range(rows) \subseteq Range(RefRows(q))
  BY <1>8 DEF Range
<1> QED
  BY <1>9 DEF rows

\* The rows a query means have values in range.
LEMMA RefRowsAre ==
    ASSUME CatalogueAssumption, CatalogueInv, NEW q, Clean(q)
    PROVE  /\ Cardinality(RefIds(q)) \in Nat /\ DOMAIN RefRows(q) = 1 .. Cardinality(RefIds(q))
           /\ \A r \in DOMAIN RefRows(q), k \in DOMAIN q.select : RefRows(q)[r][k] \in Blank .. LongMax
<1> DEFINE p == RefPacks(q)[1].ord
           found == InOrder(RefIds(q))
           m == Cardinality(RefIds(q))
<1>1. m \in Nat /\ found \in [1 .. m -> RefIds(q)] /\ DOMAIN found = 1 .. m
  BY RefIdsAre, InOrderIs
<1> HIDE DEF m, found
<1>2. RefRows(q) = [r \in 1 .. m |-> [k \in DOMAIN q.select |-> RefShown(q, cards[p][found[r]], q.select[k])]]
  BY <1>1 DEF RefRows, found
<1>3. ASSUME NEW r \in 1 .. m, NEW k \in DOMAIN q.select PROVE RefRows(q)[r][k] \in Blank .. LongMax
  <2>1. found[r] \in RefIds(q) /\ q.select[k] \in Range(q.select)
    BY <1>1 DEF Range
  <2>2. RefShown(q, cards[p][found[r]], q.select[k]) \in Blank .. LongMax
    BY <2>1, ShownIsRight
  <2> QED
    BY <1>2, <2>2
<1> QED
  BY <1>1, <1>2, <1>3 DEF m

\* What does not depend on the selected fields.
LEMMA SameConditions ==
    ASSUME NEW q, NEW r, r.from = q.from, r.where = q.where
    PROVE  /\ RefPacks(r) = RefPacks(q) /\ Packs(r) = Packs(q) /\ Conds(r) = Conds(q) /\ RefIds(r) = RefIds(q)
           /\ (Stale(r) <=> Stale(q)) /\ JoinedConds(r) = JoinedConds(q) /\ (Covered(r) <=> Covered(q))
           /\ \A n : PackOf(r, n) = PackOf(q, n) /\ \A x : FieldIn(r, x) = FieldIn(q, x)
<1>1. RefPacks(r) = RefPacks(q) /\ Packs(r) = Packs(q) /\ (Stale(r) <=> Stale(q))
  BY DEF RefPacks, Packs, Stale
<1>2. \A n : PackOf(r, n) = PackOf(q, n)
  BY DEF PackOf
<1>3. \A p, w : Compiled(r, p, w) = Compiled(q, p, w)
  BY <1>2 DEF Compiled
<1>4. Conds(r) = Conds(q)
  BY <1>1, <1>3 DEF Conds
<1>5. \A x : FieldIn(r, x) = FieldIn(q, x)
  BY <1>1, <1>2 DEF FieldIn
<1>6. \A c, pack : Related(r, c, pack) = Related(q, c, pack)
  BY <1>1, <1>2 DEF Related, LinkedTo
<1>7. RefIds(r) = RefIds(q)
  BY <1>1, <1>5, <1>6 DEF RefIds
<1>8. JoinedConds(r) = JoinedConds(q)
  BY <1>2 DEF JoinedConds
<1>9. Covered(r) <=> Covered(q)
  BY <1>1, <1>2, <1>8 DEF Covered
<1> QED
  BY <1>1, <1>2, <1>4, <1>5, <1>7, <1>8, <1>9

\* A query that selects no field selects all of the primary pack.
LEMMA WholeIsClean ==
    ASSUME CatalogueAssumption, QueryAssumption, CatalogueInv, NEW q, Clean(q), q.select = <<>>,
           q = [select |-> q.select, from |-> q.from, where |-> q.where],
           Len(RefPacks(q)[1].fields) <= SelectMax
    PROVE  LET fields == RefPacks(q)[1].fields
               r == [q EXCEPT !.select = [k \in DOMAIN fields |-> [pack |-> "", field |-> fields[k].name, agg |-> "none"]]] IN
           /\ Whole(q, RefPacks(q)[1]) = r /\ r.from = q.from /\ r.where = q.where /\ ~HasAgg(r) /\ Clean(r)
<1> DEFINE fields == RefPacks(q)[1].fields
           all == [k \in DOMAIN fields |-> [pack |-> "", field |-> fields[k].name, agg |-> "none"]]
           r == [q EXCEPT !.select = all]
<1>1. FieldsOk(fields) /\ 1 \in DOMAIN q.from /\ SelectMax \in Nat /\ FieldMax \in Nat
  BY Resolved, Limits, CatalogueConstants
<1> HIDE DEF fields
<1>2. fields \in Seq(FieldRec) /\ Len(fields) \in Nat /\ DOMAIN fields = 1 .. Len(fields)
  BY <1>1 DEF FieldsOk
<1>3. UpTo(fields, SelectMax) = SubSeq(fields, 1, Len(fields)) /\ Len(fields) <= SelectMax
  <2> HIDE DEF fields
  <2>1. Len(fields) <= SelectMax
    BY DEF fields
  <2>2. CASE Len(fields) < SelectMax
    BY <2>1, <2>2 DEF UpTo
  <2>3. CASE ~(Len(fields) < SelectMax)
    <3>1. Len(fields) = SelectMax
      BY <1>1, <1>2, <2>1, <2>3, SMTT(30)
    <3> QED
      BY <2>3, <3>1 DEF UpTo
  <2> QED
    BY <2>1, <2>2, <2>3
<1>4. DOMAIN UpTo(fields, SelectMax) = DOMAIN fields
  <2> HIDE DEF fields
  <2>1. DOMAIN SubSeq(fields, 1, Len(fields)) = 1 .. Len(fields)
    BY <1>2
  <2> QED
    BY <1>2, <1>3, <2>1
<1>5. Whole(q, RefPacks(q)[1]) = r
  BY <1>4 DEF Whole, fields
<1>6. r = [select |-> all, from |-> q.from, where |-> q.where]
  <2> DEFINE f == q.from  w == q.where  s == q.select
  <2>1. q = [select |-> s, from |-> f, where |-> w]
    OBVIOUS
  <2> HIDE DEF f, w, s, all
  <2>2. r = [[select |-> s, from |-> f, where |-> w] EXCEPT !.select = all]
    BY <2>1
  <2>3. r = [select |-> all, from |-> f, where |-> w]
    BY <2>2, SMTT(30)
  <2> QED
    BY <2>3 DEF f, w
<1>7. r.select = all /\ r.from = q.from /\ r.where = q.where
  <2> HIDE DEF all
  <2>1. [select |-> all, from |-> q.from, where |-> q.where].select = all
    OBVIOUS
  <2>2. [select |-> all, from |-> q.from, where |-> q.where].from = q.from
    OBVIOUS
  <2>3. [select |-> all, from |-> q.from, where |-> q.where].where = q.where
    OBVIOUS
  <2> HIDE DEF r
  <2> QED
    BY <1>6, <2>1, <2>2, <2>3
<1> HIDE DEF r
<1>8. ~HasAgg(r)
  <2>1. \A k \in DOMAIN all : all[k].agg = "none"
    OBVIOUS
  <2> HIDE DEF all
  <2> QED
    BY <1>7, <2>1 DEF HasAgg
<1>9. /\ RefPacks(r) = RefPacks(q) /\ RefIds(r) = RefIds(q) /\ (Stale(r) <=> Stale(q)) /\ JoinedConds(r) = JoinedConds(q)
      /\ \A n : PackOf(r, n) = PackOf(q, n) /\ \A x : FieldIn(r, x) = FieldIn(q, x)
  BY <1>7, SameConditions
<1>10. ASSUME NEW s \in Range(all) PROVE s.pack = "" /\ PackOf(r, s.pack) = 1 /\ FieldOf(RefPacks(q)[1], s.field) > 0
  <2>0. \A k \in DOMAIN fields : fields[k] = RefPacks(q)[1].fields[k] /\ k \in DOMAIN RefPacks(q)[1].fields
    BY DEF fields
  <2>1. PICK k \in DOMAIN fields : s = [pack |-> "", field |-> fields[k].name, agg |-> "none"]
    BY DEF Range
  <2>2. FieldOf(RefPacks(q)[1], s.field) \in 0 .. Len(fields) /\ FieldOf(RefPacks(q)[1], s.field) # 0
    <3>1. s.field = fields[k].name /\ FieldsOk(RefPacks(q)[1].fields)
      BY <1>1, <2>1 DEF fields
    <3>2. \E j \in DOMAIN RefPacks(q)[1].fields : RefPacks(q)[1].fields[j].name = s.field
      BY <2>0, <3>1
    <3> QED
      BY <3>1, <3>2, FieldOfIs DEF fields
  <2>3. PackOf(r, s.pack) = 1
    BY <2>1 DEF PackOf
  <2>4. FieldOf(RefPacks(q)[1], s.field) > 0
    <3> DEFINE fi == FieldOf(RefPacks(q)[1], s.field)
    <3>1. fi \in 0 .. Len(fields) /\ fi # 0
      BY <2>2
    <3> HIDE DEF fi
    <3>2. fi > 0
      <4> DEFINE l == Len(fields)
      <4>1. l \in Nat /\ fi \in 0 .. l
        BY <1>2, <3>1
      <4>2. fi # 0
        BY <3>1
      <4> HIDE DEF l, all
      <4> QED
        BY ONLY <4>1, <4>2
    <3> QED
      BY <3>2 DEF fi
  <2> QED
    BY <2>1, <2>3, <2>4
<1>11. r.select \in Seq(Range(r.select)) /\ \A s \in Range(r.select) : s.agg \in Aggregates
  <2>1. \A s \in Range(all) : s.agg = "none"
    <3>1. \A k \in DOMAIN all : all[k].agg = "none"
      OBVIOUS
    <3> HIDE DEF all
    <3> QED
      BY <3>1 DEF Range
  <2>2. all = [k \in 1 .. Len(fields) |-> all[k]]
    BY <1>2
  <2> HIDE DEF all
  <2>3. all \in Seq(Range(all))
    <3>1. DOMAIN all = 1 .. Len(fields)
      BY <2>2
    <3>2. \A k \in 1 .. Len(fields) : all[k] \in Range(all)
      BY <3>1 DEF Range
    <3> DEFINE R == Range(all)  l == Len(fields)
    <3> HIDE DEF R, l
    <3>3. l \in Nat
      BY <1>2 DEF l
    <3>4. all \in [1 .. l -> R]
      BY <2>2, <3>2 DEF R, l
    <3>5. all \in Seq(R)
      BY ONLY <3>3, <3>4
    <3> QED
      BY <3>5 DEF R
  <2> QED
    BY <1>7, <2>1, <2>3 DEF Aggregates
<1> HIDE DEF all
<1>12. WellFormed(r)
  <2>1. r.from # <<>> /\ \A i \in DOMAIN r.from : RefPacks(r)[i] # None /\ RefPacks(r)[i].ord # UserPack
    BY <1>7, <1>9 DEF Clean, WellFormed
  <2> DEFINE placed(x) == LET pi == PackOf(r, x.pack) IN
        pi > 0 /\ FieldOf(RefPacks(r)[pi], x.field) > 0 /\ (pi > 1 => RefLink(RefPacks(r)[1], RefPacks(r)[pi]) > 0)
  <2>2. \A x \in Range(r.where) : placed(x)
    BY <1>7, <1>9 DEF Clean, WellFormed
  <2>3. ASSUME NEW x \in Range(r.select) PROVE placed(x)
    <3>1. PackOf(r, x.pack) = 1 /\ FieldOf(RefPacks(q)[1], x.field) > 0
      BY <1>7, <1>10
    <3>2. RefPacks(r) = RefPacks(q)
      BY <1>9
    <3> QED
      BY <3>1, <3>2
  <2> QED
    BY <2>1, <2>2, <2>3 DEF WellFormed
<1>13. ~Gap(r)
  <2>1. ~\E w \in JoinedConds(r) : LET p == RefPacks(r)[PackOf(r, w.pack)].ord IN
           \E i \in Keys(p) : LET f == FieldIn(r, w) IN
              JoinPasses(cards[p][i], f, w.op, w.val) # Passes(cards[p][i], f, w.op, w.val)
    <3> SUFFICES ASSUME NEW w \in JoinedConds(r)
                 PROVE  LET p == RefPacks(r)[PackOf(r, w.pack)].ord IN
                        ~\E i \in Keys(p) : LET f == FieldIn(r, w) IN
                           JoinPasses(cards[p][i], f, w.op, w.val) # Passes(cards[p][i], f, w.op, w.val)
      OBVIOUS
    <3>1. RefPacks(r) = RefPacks(q) /\ PackOf(r, w.pack) = PackOf(q, w.pack) /\ FieldIn(r, w) = FieldIn(q, w)
          /\ w \in JoinedConds(q)
      BY <1>9
    <3>2. LET p == RefPacks(q)[PackOf(q, w.pack)].ord IN
          ~\E i \in Keys(p) : LET f == FieldIn(q, w) IN
              JoinPasses(cards[p][i], f, w.op, w.val) # Passes(cards[p][i], f, w.op, w.val)
      BY <3>1 DEF Clean, Gap
    <3> QED
      BY <3>1, <3>2
  <2>2. ASSUME NEW s \in Range(r.select) PROVE ~(PackOf(r, s.pack) > 1)
    <3>1. PackOf(r, s.pack) = 1
      BY <1>7, <1>10
    <3> QED
      BY <3>1
  <2> QED
    BY <1>8, <2>1, <2>2 DEF Gap
<1>14. Clean(r)
  <2>1. q.from \in Seq(STRING) /\ q.where \in Seq(Range(q.where)) /\ ~Stale(r)
        /\ Cardinality(Index(RefPacks(q)[1].ord)) <= ScanMax
        /\ \A i \in DOMAIN q.from : Fresh(q.from[i]) = RefPacks(q)[i]
    BY <1>9 DEF Clean
  <2>2. ASSUME NEW w \in JoinedConds(r)
        PROVE  LET p == RefPacks(r)[PackOf(r, w.pack)].ord IN
               /\ Cardinality(Index(p)) <= JoinMax
               /\ Cardinality({i \in Keys(p) : Passes(cards[p][i], FieldIn(r, w), w.op, w.val)}) <= ListMax
    <3>1. RefPacks(r) = RefPacks(q) /\ PackOf(r, w.pack) = PackOf(q, w.pack) /\ FieldIn(r, w) = FieldIn(q, w)
          /\ w \in JoinedConds(q)
      BY <1>9
    <3>2. LET p == RefPacks(q)[PackOf(q, w.pack)].ord IN
          /\ Cardinality(Index(p)) <= JoinMax
          /\ Cardinality({i \in Keys(p) : Passes(cards[p][i], FieldIn(q, w), w.op, w.val)}) <= ListMax
      BY <3>1 DEF Clean
    <3> QED
      BY <3>1, <3>2
  <2> QED
    BY <1>7, <1>9, <1>11, <1>12, <1>13, <2>1, <2>2 DEF Clean
<1> QED
  BY <1>5, <1>7, <1>8, <1>14 DEF r, all, fields

(*****************************************************************************)
(* Group keys.                                                               *)
(*****************************************************************************)
\* Rows whose group-by values are all there.
Grid(q, rows, n) ==
    /\ n \in Nat /\ DOMAIN rows = 1 .. n
    /\ q.select \in Seq(Range(q.select)) /\ \A s \in Range(q.select) : s.agg \in Aggregates
    /\ \A r \in 1 .. n : \A k \in DOMAIN q.select : rows[r][k] \in Blank .. LongMax
    /\ \A r \in 1 .. n : \A k \in Range(GroupBy(q)) : rows[r][k] # Blank

Same(q, rows, r, s) == \A k \in Range(GroupBy(q)) : rows[r][k] = rows[s][k]

\* The group-by fields are fields of the query.
LEMMA GroupByIs ==
    ASSUME NEW q, q.select \in Seq(Range(q.select))
    PROVE  \E m \in Nat : GroupBy(q) \in [1 .. m -> DOMAIN q.select] /\ Len(GroupBy(q)) = m
<1> DEFINE S == {k \in DOMAIN q.select : q.select[k].agg = "none"}
<1>1. DOMAIN q.select = 1 .. Len(q.select) /\ Len(q.select) \in Nat
  OBVIOUS
<1>2. IsFiniteSet(DOMAIN q.select) /\ DOMAIN q.select \subseteq Nat
  BY <1>1, FS_Interval
<1>3. S \in SUBSET DOMAIN q.select
  OBVIOUS
<1>4. GroupBy(q) = InOrder(S)
  BY DEF GroupBy
<1> HIDE DEF S
<1>5. IsFiniteSet(S) /\ S \subseteq Nat
  BY <1>2, <1>3, FS_Subset
<1>6. Cardinality(S) \in Nat /\ InOrder(S) \in [1 .. Cardinality(S) -> S] /\ Len(InOrder(S)) = Cardinality(S)
  BY <1>5, InOrderIs
<1>7. InOrder(S) \in [1 .. Cardinality(S) -> DOMAIN q.select]
  BY <1>3, <1>6
<1> QED
  BY <1>4, <1>6, <1>7

\* With all values there a group's key is all of them.
LEMMA KeyIs ==
    ASSUME NEW q, NEW rows, NEW n, Grid(q, rows, n), NEW r \in 1 .. n
    PROVE  KeyOf(q, rows[r]) = [j \in DOMAIN GroupBy(q) |-> rows[r][GroupBy(q)[j]]]
<1> DEFINE row == rows[r]
           vals == [j \in DOMAIN GroupBy(q) |-> row[GroupBy(q)[j]]]
           I == {i \in 1 .. Len(vals) : vals[i] = Blank}
           gap == IF I # {} THEN Min(I) ELSE 0
<1>1. PICK m \in Nat : GroupBy(q) \in [1 .. m -> DOMAIN q.select]
  BY GroupByIs DEF Grid
<1>2. \A k \in Range(GroupBy(q)) : row[k] # Blank
  BY DEF Grid
<1>3. \A j \in DOMAIN GroupBy(q) : vals[j] # Blank
  <2> HIDE DEF row
  <2>1. \A j \in DOMAIN GroupBy(q) : GroupBy(q)[j] \in Range(GroupBy(q))
    BY DEF Range
  <2> QED
    BY <1>2, <2>1
<1>4. DOMAIN vals = 1 .. m /\ Len(vals) = m
  BY <1>1
<1>5. I = {}
  <2> HIDE DEF vals
  <2> QED
    BY <1>1, <1>3, <1>4
<1>6. gap = 0
  BY <1>5
<1>7. KeyOf(q, row) = IF gap = 0 THEN vals ELSE SubSeq(vals, 1, gap - 1)
  <2> HIDE DEF row
  <2> QED
    BY DEF KeyOf, SelectInSeq
<1> QED
  BY <1>6, <1>7

\* Two rows have one key just when they agree on the group-by fields.
LEMMA KeySame ==
    ASSUME NEW q, NEW rows, NEW n, Grid(q, rows, n), NEW r \in 1 .. n, NEW s \in 1 .. n
    PROVE  /\ KeyOf(q, rows[r]) = KeyOf(q, rows[s]) <=> Same(q, rows, r, s)
           /\ RefKey(q, rows[r]) = RefKey(q, rows[s]) <=> Same(q, rows, r, s)
<1> DEFINE B == GroupBy(q)
           a == rows[r]
           b == rows[s]
<1>1. /\ KeyOf(q, a) = [j \in DOMAIN B |-> a[B[j]]]
      /\ KeyOf(q, b) = [j \in DOMAIN B |-> b[B[j]]]
  BY KeyIs
<1>2. Same(q, rows, r, s) <=> \A k \in Range(B) : a[k] = b[k]
  BY DEF Same
<1> HIDE DEF B, a, b
<1>3. KeyOf(q, a) = KeyOf(q, b) <=> \A k \in Range(B) : a[k] = b[k]
  <2>1. ASSUME KeyOf(q, a) = KeyOf(q, b), NEW k \in Range(B) PROVE a[k] = b[k]
    <3>1. PICK j \in DOMAIN B : B[j] = k
      BY DEF Range
    <3>2. KeyOf(q, a)[j] = a[k] /\ KeyOf(q, b)[j] = b[k]
      BY <1>1, <3>1
    <3> QED
      BY <2>1, <3>2
  <2>2. ASSUME \A k \in Range(B) : a[k] = b[k] PROVE KeyOf(q, a) = KeyOf(q, b)
    <3>1. \A j \in DOMAIN B : a[B[j]] = b[B[j]]
      BY <2>2 DEF Range
    <3> QED
      BY <1>1, <3>1
  <2> QED
    BY <2>1, <2>2
<1>4. RefKey(q, a) = RefKey(q, b) <=> \A k \in Range(B) : a[k] = b[k]
  <2>1. RefKey(q, a) = {<<k, a[k]>> : k \in Range(B)} /\ RefKey(q, b) = {<<k, b[k]>> : k \in Range(B)}
    BY DEF RefKey, B
  <2>2. ASSUME RefKey(q, a) = RefKey(q, b), NEW k \in Range(B) PROVE a[k] = b[k]
    <3>1. <<k, a[k]>> \in RefKey(q, b)
      BY <2>1, <2>2
    <3>2. PICK l \in Range(B) : <<k, a[k]>> = <<l, b[l]>>
      BY <2>1, <3>1
    <3> QED
      BY <3>2
  <2>3. ASSUME \A k \in Range(B) : a[k] = b[k] PROVE RefKey(q, a) = RefKey(q, b)
    BY <2>1, <2>3
  <2> QED
    BY <2>2, <2>3
<1> QED
  BY <1>2, <1>3, <1>4 DEF a, b

\* The reference's groups and their first rows.
LEMMA GroupsAre ==
    ASSUME NEW q, NEW rows, NEW n, Grid(q, rows, n)
    PROVE  /\ \A r \in 1 .. n : RefGroup(q, rows, r) = {s \in 1 .. n : Same(q, rows, s, r)}
           /\ RefFirsts(q, rows) = {r \in 1 .. n : \A s \in 1 .. n : Same(q, rows, s, r) => r <= s}
           /\ RefFirsts(q, rows) \in SUBSET (1 .. n) /\ RefFirsts(q, rows) \subseteq Nat /\ IsFiniteSet(RefFirsts(q, rows))
<1>1. n \in Nat /\ DOMAIN rows = 1 .. n
  BY DEF Grid
<1>2. ASSUME NEW r \in 1 .. n PROVE RefGroup(q, rows, r) = {s \in 1 .. n : Same(q, rows, s, r)}
  <2>1. \A s \in 1 .. n : RefKey(q, rows[s]) = RefKey(q, rows[r]) <=> Same(q, rows, s, r)
    BY KeySame
  <2> QED
    BY <1>1, <2>1 DEF RefGroup
<1>3. RefFirsts(q, rows) = {r \in 1 .. n : \A s \in 1 .. n : Same(q, rows, s, r) => r <= s}
  BY <1>1, <1>2 DEF RefFirsts
<1>4. RefFirsts(q, rows) \in SUBSET (1 .. n)
  BY <1>3
<1>5. IsFiniteSet(1 .. n) /\ 1 .. n \subseteq Nat
  BY <1>1, FS_Interval
<1>6. IsFiniteSet(RefFirsts(q, rows))
  BY <1>4, <1>5, FS_Subset
<1> QED
  BY <1>2, <1>3, <1>4, <1>5, <1>6

\* Each row has one first row.
LEMMA FirstRow ==
    ASSUME NEW q, NEW rows, NEW n, Grid(q, rows, n), NEW m \in 1 .. n
    PROVE  /\ \E r \in RefFirsts(q, rows) : r <= m /\ Same(q, rows, r, m)
           /\ \A r, s \in RefFirsts(q, rows) : Same(q, rows, r, m) /\ Same(q, rows, s, m) => r = s
           /\ m \in RefFirsts(q, rows) => \A s \in 1 .. n : s < m => ~Same(q, rows, s, m)
<1> DEFINE F == RefFirsts(q, rows)
           C == {s \in 1 .. n : Same(q, rows, s, m)}
<1>1. F = {r \in 1 .. n : \A s \in 1 .. n : Same(q, rows, s, r) => r <= s} /\ n \in Nat
  BY GroupsAre, ZenonT(60) DEF Grid
<1>2. /\ \A r : Same(q, rows, r, r)
      /\ \A r, s : Same(q, rows, r, s) => Same(q, rows, s, r)
      /\ \A r, s, t : Same(q, rows, r, s) /\ Same(q, rows, s, t) => Same(q, rows, r, t)
  BY DEF Same
<1>3. PICK r \in C : \A s \in C : r <= s
  <2>1. C \subseteq Nat /\ C # {}
    BY <1>2
  <2> QED
    BY <2>1, LeastNumber
<1>4. r \in F /\ r <= m /\ Same(q, rows, r, m)
  <2>1. \A s \in 1 .. n : Same(q, rows, s, r) => s \in C
    BY <1>2
  <2>2. m \in C
    BY <1>2
  <2> QED
    BY <1>1, <1>3, <2>1, <2>2
<1>5. ASSUME NEW a \in F, NEW b \in F, Same(q, rows, a, m), Same(q, rows, b, m) PROVE a = b
  <2>1. Same(q, rows, a, b) /\ Same(q, rows, b, a)
    BY <1>2, <1>5
  <2>2. a \in 1 .. n /\ b \in 1 .. n /\ a <= b /\ b <= a
    BY <1>1, <2>1
  <2> QED
    BY <2>2
<1>6. ASSUME m \in F, NEW s \in 1 .. n, s < m PROVE ~Same(q, rows, s, m)
  <2>1. Same(q, rows, s, m) => m <= s
    BY <1>1, <1>6
  <2> QED
    BY <1>6, <2>1
<1> QED
  BY <1>4, <1>5, <1>6

(*****************************************************************************)
(* What the values of a group stand for, and how they move.                  *)
(*****************************************************************************)
\* What the value v of field k says of the rows G of a group whose first row is r.
Stands(q, rows, k, G, r, v) ==
    /\ v \in Int
    /\ q.select[k].agg \in {"sum", "avg"} => v = RefSum(rows, G, k)
    /\ q.select[k].agg = "min" => (\E s \in G : Nums(rows, k)[s] = v) /\ \A s \in G : v <= Nums(rows, k)[s]
    /\ q.select[k].agg = "max" => (\E s \in G : Nums(rows, k)[s] = v) /\ \A s \in G : Nums(rows, k)[s] <= v
    /\ q.select[k].agg \in {"first", "none"} => v = rows[r][k]

\* The values of rows as numbers.
LEMMA Numbers ==
    ASSUME CatalogueAssumption, NEW q, NEW rows, NEW n, Grid(q, rows, n), NEW k \in DOMAIN q.select
    PROVE  /\ q.select[k].agg \in Aggregates /\ n \in Nat /\ LongMax \in Nat
           /\ \A r \in 1 .. n : /\ rows[r][k] \in Int /\ Nums(rows, k)[r] = Zero(rows[r][k])
                                /\ Nums(rows, k)[r] \in 0 .. LongMax
           /\ Nums(rows, k) \in [1 .. n -> Nat] /\ Nums(rows, k) \in [1 .. n -> Int]
           /\ IsFiniteSet(1 .. n)
<1>1. q.select[k].agg \in Aggregates
  BY DEF Grid, Range
<1>2. n \in Nat /\ LongMax \in Nat /\ DOMAIN rows = 1 .. n
  BY DEF Grid, CatalogueAssumption
<1>3. ASSUME NEW r \in 1 .. n
      PROVE  rows[r][k] \in Int /\ Nums(rows, k)[r] = Zero(rows[r][k]) /\ Nums(rows, k)[r] \in 0 .. LongMax
  <2> DEFINE x == rows[r][k]
  <2>1. x \in Blank .. LongMax
    BY DEF Grid
  <2>2. Nums(rows, k)[r] = Zero(x)
    BY <1>2 DEF Nums
  <2> HIDE DEF x
  <2>3. Zero(x) \in 0 .. LongMax /\ x \in Int
    BY <1>2, <2>1 DEF Zero, Blank
  <2> QED
    BY <2>2, <2>3 DEF x
<1>4. Nums(rows, k) = [r \in 1 .. n |-> Nums(rows, k)[r]]
  BY <1>2 DEF Nums
<1>5. Nums(rows, k) \in [1 .. n -> Nat] /\ Nums(rows, k) \in [1 .. n -> Int]
  BY <1>2, <1>3, <1>4
<1>6. IsFiniteSet(1 .. n)
  BY <1>2, FS_Interval
<1> QED
  BY <1>1, <1>2, <1>3, <1>5, <1>6

\* A sum over one more row.
LEMMA RefSumIs ==
    ASSUME CatalogueAssumption, NEW q, NEW rows, NEW n, Grid(q, rows, n), NEW k \in DOMAIN q.select
    PROVE  /\ RefSum(rows, {}, k) = 0
           /\ \A G \in SUBSET (1 .. n) : RefSum(rows, G, k) \in Int
           /\ \A G \in SUBSET (1 .. n) : \A s \in 1 .. n : s \notin G =>
                 RefSum(rows, G \cup {s}, k) = Nums(rows, k)[s] + RefSum(rows, G, k)
           /\ \A T \in SUBSET (1 .. n) : \A G \in SUBSET T : RefSum(rows, G, k) <= RefSum(rows, T, k)
<1> DEFINE f == Nums(rows, k)
           D == 1 .. n
<1>1. IsFiniteSet(D) /\ f \in [D -> Nat] /\ f \in [D -> Int]
  BY Numbers
<1> HIDE DEF f, D
<1>2. /\ SumFunctionOnSet(f, {}) = 0
      /\ \A S \in SUBSET D : /\ SumFunctionOnSet(f, S) \in Int
                             /\ \A x \in S : SumFunctionOnSet(f, S) = f[x] + SumFunctionOnSet(f, S \ {x})
  BY <1>1, SumAdds
<1>3. ASSUME NEW G \in SUBSET D, NEW s \in D, s \notin G
      PROVE  SumFunctionOnSet(f, G \cup {s}) = f[s] + SumFunctionOnSet(f, G)
  <2>1. G \cup {s} \in SUBSET D /\ s \in G \cup {s} /\ (G \cup {s}) \ {s} = G
    BY <1>3
  <2> QED
    BY <1>2, <2>1
<1>4. \A T \in SUBSET D : \A G \in SUBSET T : SumFunctionOnSet(f, G) <= SumFunctionOnSet(f, T)
  BY <1>1, SumGrows
<1> QED
  BY <1>2, <1>3, <1>4 DEF f, D, RefSum

\* A group of one row.
LEMMA BegunStands ==
    ASSUME CatalogueAssumption, NEW q, NEW rows, NEW n, Grid(q, rows, n), NEW k \in DOMAIN q.select, NEW r \in 1 .. n
    PROVE  LET agg == q.select[k].agg IN
           /\ Begun(agg, rows[r][k]) \in Int
           /\ Stands(q, rows, k, {r}, r, Joined(agg, Begun(agg, rows[r][k]), rows[r][k]))
<1> DEFINE agg == q.select[k].agg
           x == rows[r][k]
           z == Zero(x)
           v == Joined(agg, Begun(agg, x), x)
           S == RefSum(rows, {r}, k)
           y == Nums(rows, k)[r]
<1>1. agg \in Aggregates /\ LongMax \in Nat /\ x \in Int /\ y = z /\ z \in 0 .. LongMax
  BY Numbers
<1>2. S = z
  <2>1. RefSum(rows, {} \cup {r}, k) = y + RefSum(rows, {}, k) /\ RefSum(rows, {}, k) = 0
    BY RefSumIs
  <2>2. {} \cup {r} = {r}
    OBVIOUS
  <2>3. S = y + 0
    BY <2>1, <2>2
  <2> HIDE DEF S, y, z
  <2> QED
    BY <1>1, <2>3
<1>3. Stands(q, rows, k, {r}, r, v) <=>
        /\ v \in Int
        /\ agg \in {"sum", "avg"} => v = S
        /\ agg = "min" => y = v /\ v <= y
        /\ agg = "max" => y = v /\ y <= v
        /\ agg \in {"first", "none"} => v = x
  <2> HIDE DEF v
  <2> QED
    BY DEF Stands
<1> HIDE DEF agg, x, S, y
<1>4. Begun(agg, x) \in Int
  BY <1>1 DEF Begun, Aggregates
<1>5. agg \in {"sum", "avg"} => v = z
  <2> HIDE DEF z
  <2>1. ASSUME agg \in {"sum", "avg"} PROVE v = Plus(0, z)
    BY <2>1 DEF Joined, Begun, z
  <2>2. Plus(0, z) = z
    BY <1>1 DEF Plus
  <2> QED
    BY <2>1, <2>2
<1>6. agg = "min" => v = z
  <2> HIDE DEF z
  <2>1. ASSUME agg = "min" PROVE v = IF z < LongMax THEN z ELSE LongMax
    BY <2>1 DEF Joined, Begun, z
  <2> HIDE DEF v
  <2> QED
    BY <1>1, <2>1
<1>7. agg = "max" => v = z
  <2> HIDE DEF z
  <2>1. ASSUME agg = "max" PROVE v = IF z > -LongMax THEN z ELSE -LongMax
    BY <2>1 DEF Joined, Begun, z
  <2> HIDE DEF v
  <2> QED
    BY <1>1, <2>1
<1>8. agg \in {"first", "none"} => v = x
  BY DEF Joined, Begun
<1>9. agg = "count" => v = 0
  BY DEF Joined, Begun
<1>10. v \in Int
  <2> HIDE DEF v, z
  <2> QED
    BY <1>1, <1>5, <1>6, <1>7, <1>8, <1>9 DEF Aggregates
<1> HIDE DEF v, z
<1>11. y <= y /\ y \in Int
  BY <1>1
<1> QED
  BY <1>1, <1>2, <1>3, <1>4, <1>5, <1>6, <1>7, <1>8, <1>10, <1>11 DEF v, agg, x

\* A group that a row joins.
LEMMA JoinedStands ==
    ASSUME CatalogueAssumption, NEW q, NEW rows, NEW n, Grid(q, rows, n), NEW k \in DOMAIN q.select, NEW r \in 1 .. n,
           NEW G \in SUBSET (1 .. n), NEW s \in 1 .. n, s \notin G, NEW a, Stands(q, rows, k, G, r, a),
           q.select[k].agg \in {"sum", "avg"} => RefSum(rows, G \cup {s}, k) <= LongMax
    PROVE  Stands(q, rows, k, G \cup {s}, r, Joined(q.select[k].agg, a, rows[s][k]))
<1> DEFINE agg == q.select[k].agg
           x == rows[s][k]
           z == Zero(x)
           v == Joined(agg, a, x)
           H == G \cup {s}
           f == Nums(rows, k)
<1>1. agg \in Aggregates /\ LongMax \in Nat /\ x \in Int /\ f[s] = z /\ z \in 0 .. LongMax /\ \A t \in 1 .. n : f[t] \in Int
  <2>1. \A t \in 1 .. n : f[t] \in 0 .. LongMax
    BY Numbers
  <2> QED
    BY <2>1, Numbers
<1>2. RefSum(rows, H, k) = z + RefSum(rows, G, k) /\ RefSum(rows, G, k) \in Int
  BY <1>1, RefSumIs
<1>3. /\ a \in Int
      /\ agg \in {"sum", "avg"} => a = RefSum(rows, G, k)
      /\ agg = "min" => (\E t \in G : f[t] = a) /\ \A t \in G : a <= f[t]
      /\ agg = "max" => (\E t \in G : f[t] = a) /\ \A t \in G : f[t] <= a
      /\ agg \in {"first", "none"} => a = rows[r][k]
  BY DEF Stands
<1>4. agg \in {"sum", "avg"} => RefSum(rows, H, k) <= LongMax
  OBVIOUS
<1> HIDE DEF x, z, f
<1>5. agg \in {"sum", "avg"} => v = RefSum(rows, H, k)
  <2>1. ASSUME agg \in {"sum", "avg"} PROVE v = RefSum(rows, H, k)
    <3>1. v = Plus(a, z)
      BY <2>1 DEF Joined, z
    <3> DEFINE R == RefSum(rows, H, k)  Q == RefSum(rows, G, k)
    <3>2. R <= LongMax /\ R = z + Q /\ a = Q /\ Q \in Int
      BY <1>2, <1>3, <1>4, <2>1
    <3> HIDE DEF R, Q, v
    <3>3. v = R
      BY <1>1, <3>1, <3>2 DEF Plus
    <3> QED
      BY <3>3 DEF R
  <2> QED
    BY <2>1
<1>6. agg = "min" => (\E t \in H : f[t] = v) /\ \A t \in H : v <= f[t]
  <2>1. ASSUME agg = "min" PROVE (\E t \in H : f[t] = v) /\ \A t \in H : v <= f[t]
    <3>1. v = IF z < a THEN z ELSE a
      BY <2>1 DEF Joined, z
    <3> HIDE DEF v, agg
    <3>2. (\E t \in G : f[t] = a) /\ \A t \in G : a <= f[t] /\ f[t] \in Int
      BY <1>1, <1>3, <2>1
    <3>3. CASE z < a
      BY <1>1, <1>3, <3>1, <3>2, <3>3
    <3>4. CASE ~(z < a)
      BY <1>1, <1>3, <3>1, <3>2, <3>4
    <3> QED
      BY <3>3, <3>4
  <2> QED
    BY <2>1
<1>7. agg = "max" => (\E t \in H : f[t] = v) /\ \A t \in H : f[t] <= v
  <2>1. ASSUME agg = "max" PROVE (\E t \in H : f[t] = v) /\ \A t \in H : f[t] <= v
    <3>1. v = IF z > a THEN z ELSE a
      BY <2>1 DEF Joined, z
    <3> HIDE DEF v, agg
    <3>2. (\E t \in G : f[t] = a) /\ \A t \in G : f[t] <= a /\ f[t] \in Int
      BY <1>1, <1>3, <2>1
    <3>3. CASE z > a
      BY <1>1, <1>3, <3>1, <3>2, <3>3
    <3>4. CASE ~(z > a)
      BY <1>1, <1>3, <3>1, <3>2, <3>4
    <3> QED
      BY <3>3, <3>4
  <2> QED
    BY <2>1
<1>8. agg \in {"first", "none"} => v = rows[r][k]
  BY <1>3 DEF Joined
<1>9. agg = "count" => v = a
  BY DEF Joined
<1>10. v \in Int
  <2>1. agg \in {"min", "max"} => v \in {a, z}
    BY DEF Joined, z
  <2>2. agg \in {"first", "none"} => v = a
    BY DEF Joined
  <2>3. agg \in {"sum", "avg"} => v \in Int
    BY <1>1, <1>2, <1>5
  <2> HIDE DEF v
  <2> QED
    BY <1>1, <1>3, <1>9, <2>1, <2>2, <2>3 DEF Aggregates
<1> HIDE DEF v, H, agg
<1>11. Stands(q, rows, k, H, r, v)
  BY <1>5, <1>6, <1>7, <1>8, <1>10 DEF Stands, agg, f
<1> QED
  BY <1>11 DEF v, H, agg, x

Leads(r, G) == r \in G /\ \A s \in G : r <= s

\* What is shown of a group.
LEMMA StandsIsRight ==
    ASSUME CatalogueAssumption, NEW q, NEW rows, NEW n, Grid(q, rows, n), NEW k \in DOMAIN q.select, NEW r \in 1 .. n,
           NEW G \in SUBSET (1 .. n), Leads(r, G),
           NEW g, Stands(q, rows, k, G, r, g.vals[k]), g.count = Cardinality(G)
    PROVE  Output(q, g)[k] = RefValue(q, rows, G, k)
<1> DEFINE agg == q.select[k].agg
           f == Nums(rows, k)
           N == {f[t] : t \in G}
           v == g.vals[k]
<1>1. agg \in Aggregates /\ n \in Nat /\ \A t \in 1 .. n : f[t] \in Int
  <2>1. \A t \in 1 .. n : f[t] \in 0 .. LongMax
    BY Numbers
  <2> QED
    BY <2>1, Numbers
<1>2. /\ v \in Int
      /\ agg \in {"sum", "avg"} => v = RefSum(rows, G, k)
      /\ agg = "min" => (\E t \in G : f[t] = v) /\ \A t \in G : v <= f[t]
      /\ agg = "max" => (\E t \in G : f[t] = v) /\ \A t \in G : f[t] <= v
      /\ agg \in {"first", "none"} => v = rows[r][k]
  BY DEF Stands
<1> HIDE DEF v
<1>3. N \subseteq Int
  BY <1>1
<1>4. agg = "min" => Min(N) = v
  <2> HIDE DEF f
  <2>1. agg = "min" => v \in N /\ \A y \in N : v <= y
    BY <1>2
  <2> HIDE DEF N
  <2> QED
    BY <1>3, <2>1, MinUnique
<1>5. agg = "max" => Max(N) = v
  <2> HIDE DEF f
  <2>1. agg = "max" => v \in N /\ \A y \in N : y <= v
    BY <1>2
  <2> HIDE DEF N
  <2> QED
    BY <1>3, <2>1, MaxUnique
<1>6. Min(G) = r
  <2>1. G \subseteq Int
    OBVIOUS
  <2> QED
    BY <2>1, MinUnique DEF Leads
<1>7. RefValue(q, rows, G, k) =
        CASE agg = "sum" -> RefSum(rows, G, k)
          [] agg = "avg" -> RefSum(rows, G, k) \div Cardinality(G)
          [] agg = "min" -> Min(N)
          [] agg = "max" -> Max(N)
          [] agg = "count" -> Cardinality(G)
          [] agg \in {"first", "none"} -> rows[Min(G)][k]
  BY DEF RefValue
<1> HIDE DEF agg, N
<1>8. RefValue(q, rows, G, k) = CASE agg = "avg" -> v \div Cardinality(G)
                                  [] agg = "count" -> Cardinality(G)
                                  [] OTHER -> v
  <2>1. CASE agg = "sum"
    BY <1>2, <1>7, <2>1
  <2>2. CASE agg = "avg"
    BY <1>2, <1>7, <2>2
  <2>3. CASE agg = "min"
    BY <1>4, <1>7, <2>3
  <2>4. CASE agg = "max"
    BY <1>5, <1>7, <2>4
  <2>5. CASE agg = "count"
    BY <1>7, <2>5
  <2>6. CASE agg \in {"first", "none"}
    BY <1>2, <1>6, <1>7, <2>6
  <2> QED
    BY <1>1, <2>1, <2>2, <2>3, <2>4, <2>5, <2>6 DEF Aggregates
<1>9. Output(q, g)[k] = CASE agg = "avg" -> v \div Cardinality(G)
                          [] agg = "count" -> Cardinality(G)
                          [] OTHER -> v
  BY DEF Output, agg, v
<1> QED
  BY <1>8, <1>9

(*****************************************************************************)
(* Groups and the rows they have taken so far.                               *)
(*****************************************************************************)
Keyed(q, rows, n) == {KeyOf(q, rows[r]) : r \in 1 .. n}
GroupRec(q, rows, n) == [key : Keyed(q, rows, n), count : Nat, vals : [DOMAIN q.select -> Int]]

\* The first m rows that belong with row r.
Partial(q, rows, m, r) == {s \in 1 .. m : Same(q, rows, s, r)}

Bounded(q, rows, n) ==
    \A k \in DOMAIN q.select : q.select[k].agg \in {"sum", "avg"} =>
        \A r \in 1 .. n : RefSum(rows, RefGroup(q, rows, r), k) <= LongMax

\* The group of row r after m rows.
Slot(q, rows, m, r, g) ==
    /\ g.key = KeyOf(q, rows[r]) /\ g.count = Cardinality(Partial(q, rows, m, r))
    /\ \A k \in DOMAIN q.select : Stands(q, rows, k, Partial(q, rows, m, r), r, g.vals[k])

\* An aggregate stays a number.
LEMMA JoinedIsInt ==
    ASSUME CatalogueAssumption, NEW agg \in Aggregates, NEW a \in Int, NEW x \in Int
    PROVE  Joined(agg, a, x) \in Int
<1> DEFINE z == Zero(x)
<1>1. z \in Int /\ LongMax \in Nat
  BY DEF Zero, CatalogueAssumption
<1> HIDE DEF z
<1>2. Plus(a, z) \in Int
  BY <1>1 DEF Plus
<1>3. Joined(agg, a, x) \in {Plus(a, z), z, a}
  BY DEF Joined, z, Aggregates
<1> QED
  BY <1>1, <1>2, <1>3

\* A row that joins a group counts one more and moves each aggregate.
LEMMA IntoIs ==
    ASSUME CatalogueAssumption, NEW q, NEW rows, NEW n, Grid(q, rows, n), NEW g \in GroupRec(q, rows, n), NEW x \in 1 .. n
    PROVE  /\ Into(q, g, rows[x]).key = g.key /\ Into(q, g, rows[x]).count = g.count + 1
           /\ \A k \in DOMAIN q.select : Into(q, g, rows[x]).vals[k] = Joined(q.select[k].agg, g.vals[k], rows[x][k])
           /\ Into(q, g, rows[x]) \in GroupRec(q, rows, n)
<1> DEFINE D == DOMAIN q.select
           row == rows[x]
           new == [k \in D |-> Joined(q.select[k].agg, g.vals[k], row[k])]
           K == Keyed(q, rows, n)
<1>1. g \in [key : K, count : Nat, vals : [D -> Int]]
  BY DEF GroupRec
<1>2. ASSUME NEW k \in D PROVE Joined(q.select[k].agg, g.vals[k], row[k]) \in Int
  <2>1. row[k] \in Int /\ q.select[k].agg \in Aggregates /\ g.vals[k] \in Int
    BY <1>1, Numbers
  <2> QED
    BY <2>1, JoinedIsInt
<1>3. new \in [D -> Int]
  BY <1>2
<1>4. DOMAIN g.vals = D
  BY <1>1
<1>5. Into(q, g, row) = [g EXCEPT !.count = g.count + 1, !.vals = new]
  BY <1>4 DEF Into
<1>6. \A k \in D : new[k] = Joined(q.select[k].agg, g.vals[k], row[k])
  OBVIOUS
<1> HIDE DEF new, K, row, D
<1>7. Into(q, g, row) = [key |-> g.key, count |-> g.count + 1, vals |-> new]
  BY <1>1, <1>5
<1> HIDE DEF Into
<1>8. Into(q, g, row).key = g.key /\ Into(q, g, row).count = g.count + 1 /\ Into(q, g, row).vals = new
  BY <1>7
<1>9. g.count + 1 \in Nat /\ g.key \in K
  BY <1>1
<1>10. Into(q, g, row) \in [key : K, count : Nat, vals : [D -> Int]]
  BY <1>3, <1>7, <1>9
<1> QED
  BY <1>6, <1>8, <1>10 DEF GroupRec, K, row, D

\* One more row.
LEMMA PartialIs ==
    ASSUME NEW q, NEW rows, NEW n, Grid(q, rows, n), NEW m \in 1 .. n, NEW r \in 1 .. n
    PROVE  /\ Partial(q, rows, m - 1, r) \in SUBSET (1 .. n) /\ m \notin Partial(q, rows, m - 1, r)
           /\ Same(q, rows, r, m) => Partial(q, rows, m, r) = Partial(q, rows, m - 1, r) \cup {m}
           /\ ~Same(q, rows, r, m) => Partial(q, rows, m, r) = Partial(q, rows, m - 1, r)
           /\ IsFiniteSet(Partial(q, rows, m - 1, r)) /\ Partial(q, rows, m, r) \in SUBSET RefGroup(q, rows, r)
           /\ Partial(q, rows, n, r) = RefGroup(q, rows, r)
<1>1. n \in Nat
  BY DEF Grid
<1>2. \A s : Same(q, rows, s, r) <=> Same(q, rows, r, s)
  BY DEF Same
<1> DEFINE P == Partial(q, rows, m - 1, r)
<1>3. P \in SUBSET (1 .. n) /\ m \notin P
  BY <1>1 DEF Partial
<1>4. 1 .. m = (1 .. m - 1) \cup {m}
  BY <1>1
<1>5. /\ Same(q, rows, r, m) => Partial(q, rows, m, r) = P \cup {m}
      /\ ~Same(q, rows, r, m) => Partial(q, rows, m, r) = P
  BY <1>2, <1>4 DEF Partial
<1>6. IsFiniteSet(P)
  <2>1. IsFiniteSet(1 .. n)
    BY <1>1, FS_Interval
  <2> QED
    BY <1>3, <2>1, FS_Subset
<1>7. RefGroup(q, rows, r) = {s \in 1 .. n : Same(q, rows, s, r)}
  BY GroupsAre
<1>8. Partial(q, rows, m, r) \in SUBSET RefGroup(q, rows, r) /\ Partial(q, rows, n, r) = RefGroup(q, rows, r)
  BY <1>1, <1>7 DEF Partial
<1> QED
  BY <1>3, <1>5, <1>6, <1>8

\* A row joins its group.
LEMMA SlotJoins ==
    ASSUME CatalogueAssumption, NEW q, NEW rows, NEW n, Grid(q, rows, n), Bounded(q, rows, n),
           NEW m \in 1 .. n, NEW r \in 1 .. n, Same(q, rows, r, m),
           NEW g \in GroupRec(q, rows, n), Slot(q, rows, m - 1, r, g)
    PROVE  Slot(q, rows, m, r, Into(q, g, rows[m]))
<1> DEFINE P == Partial(q, rows, m - 1, r)
           H == Partial(q, rows, m, r)
           new == Into(q, g, rows[m])
<1>1. P \in SUBSET (1 .. n) /\ m \notin P /\ H = P \cup {m} /\ IsFiniteSet(P) /\ H \in SUBSET RefGroup(q, rows, r)
  BY PartialIs
<1>2. /\ new.key = g.key /\ new.count = g.count + 1
      /\ \A k \in DOMAIN q.select : new.vals[k] = Joined(q.select[k].agg, g.vals[k], rows[m][k])
  BY IntoIs
<1>3. /\ g.key = KeyOf(q, rows[r]) /\ g.count = Cardinality(P)
      /\ \A k \in DOMAIN q.select : Stands(q, rows, k, P, r, g.vals[k])
  BY DEF Slot
<1> HIDE DEF P, H, new
<1>4. Cardinality(H) = Cardinality(P) + 1
  BY <1>1, FS_AddElement
<1>5. ASSUME NEW k \in DOMAIN q.select PROVE Stands(q, rows, k, H, r, new.vals[k])
  <2>1. ASSUME q.select[k].agg \in {"sum", "avg"} PROVE RefSum(rows, P \cup {m}, k) <= LongMax
    <3> DEFINE T == RefGroup(q, rows, r)  a == RefSum(rows, H, k)  b == RefSum(rows, T, k)
    <3>1. T \in SUBSET (1 .. n)
      BY GroupsAre
    <3>2. a <= b /\ a \in Int /\ b \in Int
      <4> HIDE DEF T
      <4>1. H \in SUBSET T /\ H \in SUBSET (1 .. n)
        BY <1>1, <3>1 DEF T
      <4> QED
        BY <3>1, <4>1, RefSumIs
    <3>3. b <= LongMax
      BY <2>1 DEF Bounded
    <3>4. LongMax \in Nat
      BY DEF CatalogueAssumption
    <3>5. a = RefSum(rows, P \cup {m}, k)
      BY <1>1
    <3> HIDE DEF a, b, T
    <3>6. a <= LongMax
      BY <3>2, <3>3, <3>4
    <3> QED
      BY <3>5, <3>6
  <2>2. Stands(q, rows, k, P \cup {m}, r, Joined(q.select[k].agg, g.vals[k], rows[m][k]))
    BY <1>1, <1>3, <2>1, JoinedStands
  <2> QED
    BY <1>1, <1>2, <2>2
<1> QED
  BY <1>2, <1>3, <1>4, <1>5 DEF Slot, H, new

\* A first row starts its group.
LEMMA SlotStarts ==
    ASSUME CatalogueAssumption, NEW q, NEW rows, NEW n, Grid(q, rows, n), NEW m \in 1 .. n, m \in RefFirsts(q, rows)
    PROVE  LET new == [key |-> KeyOf(q, rows[m]), count |-> 0,
                       vals |-> [k \in DOMAIN q.select |-> Begun(q.select[k].agg, rows[m][k])]] IN
           new \in GroupRec(q, rows, n) /\ Slot(q, rows, m, m, Into(q, new, rows[m]))
<1> DEFINE D == DOMAIN q.select
           first == [k \in D |-> Begun(q.select[k].agg, rows[m][k])]
           new == [key |-> KeyOf(q, rows[m]), count |-> 0, vals |-> first]
           H == Partial(q, rows, m, m)
           g == Into(q, new, rows[m])
<1>1. H = {m}
  <2>1. \A s \in 1 .. n : s < m => ~Same(q, rows, s, m)
    BY FirstRow
  <2>2. Same(q, rows, m, m) /\ n \in Nat
    BY DEF Same, Grid
  <2> QED
    BY <2>1, <2>2 DEF Partial
<1>2. ASSUME NEW k \in D
      PROVE  /\ Begun(q.select[k].agg, rows[m][k]) \in Int
             /\ Stands(q, rows, k, {m}, m, Joined(q.select[k].agg, Begun(q.select[k].agg, rows[m][k]), rows[m][k]))
  BY BegunStands
<1>3. first \in [D -> Int]
  BY <1>2
<1>4. \A k \in D : first[k] = Begun(q.select[k].agg, rows[m][k])
  OBVIOUS
<1> HIDE DEF first
<1>5. new \in GroupRec(q, rows, n)
  BY <1>3 DEF GroupRec, Keyed
<1>6. new.key = KeyOf(q, rows[m]) /\ new.count = 0 /\ new.vals = first
  OBVIOUS
<1> HIDE DEF new
<1>7. /\ g.key = new.key /\ g.count = new.count + 1
      /\ \A k \in D : g.vals[k] = Joined(q.select[k].agg, new.vals[k], rows[m][k])
  BY <1>5, IntoIs
<1> HIDE DEF g, H
<1>8. Cardinality(H) = 1
  BY <1>1, FS_Singleton
<1>9. ASSUME NEW k \in D PROVE Stands(q, rows, k, H, m, g.vals[k])
  BY <1>1, <1>2, <1>4, <1>6, <1>7
<1>10. Slot(q, rows, m, m, g)
  <2>1. g.key = KeyOf(q, rows[m]) /\ g.count = Cardinality(H)
    BY <1>6, <1>7, <1>8
  <2> QED
    BY <1>9, <2>1 DEF Slot, H
<1> QED
  BY <1>5, <1>10 DEF g, new, first

\* A row of another group changes nothing.
LEMMA SlotKeeps ==
    ASSUME NEW q, NEW rows, NEW n, Grid(q, rows, n), NEW m \in 1 .. n, NEW r \in 1 .. n, ~Same(q, rows, r, m),
           NEW g, Slot(q, rows, m - 1, r, g)
    PROVE  Slot(q, rows, m, r, g)
<1>1. Partial(q, rows, m, r) = Partial(q, rows, m - 1, r)
  BY PartialIs
<1> QED
  BY <1>1 DEF Slot

(*****************************************************************************)
(* The fold over the rows.                                                   *)
(*****************************************************************************)
Groups(q, rows, n) == Seq(GroupRec(q, rows, n))

\* Where a row's group is.
Place(q, gs, row) == SelectInSeq(gs, LAMBDA g : g.key = KeyOf(q, row))

NewGroup(q, row) ==
    [key |-> KeyOf(q, row), count |-> 0, vals |-> [k \in DOMAIN q.select |-> Begun(q.select[k].agg, row[k])]]

\* A new group is a group.
LEMMA NewGroupOk ==
    ASSUME CatalogueAssumption, NEW q, NEW rows, NEW n, Grid(q, rows, n), NEW x \in 1 .. n
    PROVE  NewGroup(q, rows[x]) \in GroupRec(q, rows, n)
<1> DEFINE D == DOMAIN q.select
           first == [k \in D |-> Begun(q.select[k].agg, rows[x][k])]
<1>1. ASSUME NEW k \in D PROVE Begun(q.select[k].agg, rows[x][k]) \in Int
  BY BegunStands
<1>2. first \in [D -> Int]
  BY <1>1
<1>3. KeyOf(q, rows[x]) \in Keyed(q, rows, n)
  BY DEF Keyed
<1>4. NewGroup(q, rows[x]) = [key |-> KeyOf(q, rows[x]), count |-> 0, vals |-> first]
  BY DEF NewGroup
<1> HIDE DEF first, D
<1> QED
  BY <1>2, <1>3, <1>4 DEF GroupRec, D

\* The search for a row's group finds it if there is one.
LEMMA PlaceIs ==
    ASSUME NEW V, NEW gs \in Seq(V), NEW q, NEW row
    PROVE  /\ Place(q, gs, row) \in 0 .. Len(gs)
           /\ Place(q, gs, row) # 0 => gs[Place(q, gs, row)].key = KeyOf(q, row)
           /\ (\E g \in 1 .. Len(gs) : gs[g].key = KeyOf(q, row)) => Place(q, gs, row) # 0
<1> DEFINE I == {i \in 1 .. Len(gs) : gs[i].key = KeyOf(q, row)}
           at == Place(q, gs, row)
<1>1. at = IF I # {} THEN Min(I) ELSE 0
  BY DEF Place, SelectInSeq
<1>2. Len(gs) \in Nat /\ I \in SUBSET (1 .. Len(gs))
  OBVIOUS
<1>3. \A i \in I : gs[i].key = KeyOf(q, row)
  OBVIOUS
<1>4. (\E g \in 1 .. Len(gs) : gs[g].key = KeyOf(q, row)) => I # {}
  OBVIOUS
<1> HIDE DEF I, at
<1>5. at \in 0 .. Len(gs) /\ (at # 0 => at \in I) /\ (I # {} => at # 0)
  BY <1>1, <1>2, Selected
<1> QED
  BY <1>3, <1>4, <1>5 DEF at

\* agg_add as a step of the fold.
LEMMA PlacedIs ==
    ASSUME CatalogueAssumption, NEW q, NEW rows, NEW n, Grid(q, rows, n), NEW gs \in Groups(q, rows, n), NEW x \in 1 .. n
    PROVE  LET at == Place(q, gs, rows[x])  new == Into(q, NewGroup(q, rows[x]), rows[x]) IN
           /\ Placed(q, gs, rows[x]) = IF at > 0 THEN [gs EXCEPT ![at] = Into(q, gs[at], rows[x])]
                                       ELSE IF Len(gs) < AggGroups THEN Append(gs, new) ELSE gs
           /\ Placed(q, gs, rows[x]) \in Groups(q, rows, n)
<1> DEFINE V == GroupRec(q, rows, n)
           row == rows[x]
           at == Place(q, gs, row)
           new == Into(q, NewGroup(q, row), row)
           more == Into(q, gs[at], row)
<1>1. Placed(q, gs, row) = IF at > 0 THEN [gs EXCEPT ![at] = more] ELSE IF Len(gs) < AggGroups THEN Append(gs, new) ELSE gs
  BY DEF Placed, Place, NewGroup
<1>2. gs \in Seq(V)
  BY DEF Groups
<1>3. at \in 0 .. Len(gs) /\ Len(gs) \in Nat
  BY <1>2, PlaceIs
<1>4. new \in V
  BY NewGroupOk, IntoIs
<1>5. ASSUME at > 0 PROVE more \in V
  <2>1. gs[at] \in GroupRec(q, rows, n)
    <3> HIDE DEF V, at
    <3>1. at \in 1 .. Len(gs)
      BY <1>3, <1>5
    <3>2. gs[at] \in V
      BY <1>2, <3>1
    <3> QED
      BY <3>2 DEF V
  <2> HIDE DEF at
  <2> QED
    BY <2>1, IntoIs
<1> HIDE DEF V, at, new, more, row
<1>6. Placed(q, gs, row) \in Seq(V)
  BY <1>1, <1>2, <1>3, <1>4, <1>5
<1> QED
  BY <1>1, <1>6 DEF V, at, new, more, row, Groups

\* The groups after each row.
Steps(q, rows, n, t) ==
    /\ t[0] = <<>> /\ \A m \in 1 .. n : t[m] = Placed(q, t[m - 1], rows[m])
    /\ \A m \in 0 .. n : t[m] \in Groups(q, rows, n)

\* The fold over the rows is a chain of such steps.
LEMMA GroupedSteps ==
    ASSUME CatalogueAssumption, NEW q, NEW rows, NEW n, Grid(q, rows, n)
    PROVE  \E t : Steps(q, rows, n, t) /\ Grouped(q, rows) = t[n]
<1> DEFINE W == Groups(q, rows, n)
           D == 1 .. n
           op(gs, x) == Placed(q, gs, rows[x])
           Is(g) == g = [s \in SUBSET D |-> IF s = {} THEN <<>> ELSE op(g[s \ {Max(s)}], Max(s))]
           h == CHOOSE g : Is(g)
<1>1. n \in Nat /\ DOMAIN rows = 1 .. n
  BY DEF Grid
<1>2. Grouped(q, rows) = h[D]
  BY <1>1 DEF Grouped, FoldLeft, MapThenFoldSet
<1>3. <<>> \in W
  BY DEF Groups
<1>4. ASSUME NEW gs \in W, NEW x \in D PROVE op(gs, x) \in W
  BY PlacedIs
<1> HIDE DEF op, W
<1>5. \E g : Is(g)
  <2> DEFINE ch == [s \in SUBSET D |-> Max(s)]
             st == [x \in D |-> [gs \in W |-> op(gs, x)]]
             base == <<>>
  <2>1. Chooses(D, ch) /\ IsFiniteSet(D)
    BY <1>1, MaxChooses
  <2>2. st \in [D -> [W -> W]] /\ base \in W
    BY <1>3, <1>4
  <2>3. /\ \A x \in D, gs \in W : st[x][gs] = op(gs, x)
        /\ \A s \in SUBSET D : ch[s] = Max(s)
    OBVIOUS
  <2> HIDE DEF ch, st, base, D
  <2>4. PICK g \in [SUBSET D -> W] : Recurs(D, base, st, ch, g)
    BY <2>1, <2>2, Recursion
  <2>5. ASSUME NEW s \in SUBSET D
        PROVE  g[s] = IF s = {} THEN base ELSE op(g[s \ {Max(s)}], Max(s))
    <3>1. CASE s = {}
      BY <2>4, <3>1 DEF Recurs
    <3>2. CASE s # {}
      <4>1. ch[s] = Max(s) /\ Max(s) \in D /\ s \ {Max(s)} \in SUBSET D
        BY <2>1, <2>3, <3>2 DEF Chooses
      <4>2. g[s \ {Max(s)}] \in W
        BY <4>1
      <4>3. st[Max(s)][g[s \ {Max(s)}]] = op(g[s \ {Max(s)}], Max(s))
        BY <2>3, <4>1, <4>2
      <4> QED
        BY <2>4, <3>2, <4>1, <4>3 DEF Recurs
    <3> QED
      BY <3>1, <3>2
  <2>6. Is(g)
    BY <2>5 DEF base
  <2> QED
    BY <2>6
<1>6. Is(h)
  BY <1>5
<1>7. \A s \in SUBSET D : h[s] = IF s = {} THEN <<>> ELSE op(h[s \ {Max(s)}], Max(s))
  <2> HIDE DEF h, D
  <2> QED
    BY <1>6
<1> HIDE DEF h, Is
<1> DEFINE t == [m \in 0 .. n |-> h[1 .. m]]
<1>8. t[0] = <<>>
  <2>1. 1 .. 0 = {} /\ 0 \in 0 .. n
    BY <1>1
  <2> QED
    BY <1>7, <2>1
<1>9. ASSUME NEW m \in 1 .. n PROVE t[m] = op(t[m - 1], m)
  <2>1. 1 .. m \in SUBSET D /\ 1 .. m # {} /\ Max(1 .. m) = m /\ (1 .. m) \ {Max(1 .. m)} = 1 .. m - 1
    BY <1>1, Prefix
  <2>2. h[1 .. m] = op(h[1 .. m - 1], m)
    BY <1>7, <2>1
  <2>3. t[m] = h[1 .. m] /\ t[m - 1] = h[1 .. m - 1]
    BY <1>1
  <2> QED
    BY <2>2, <2>3
<1>10. t[n] = h[D]
  BY <1>1
<1> HIDE DEF t
<1>11. \A m \in 0 .. n : t[m] \in W
  <2> DEFINE S == {m \in 0 .. n : t[m] \in W}
  <2>1. 0 \in S
    BY <1>1, <1>3, <1>8
  <2>2. ASSUME NEW m \in 1 .. n, m - 1 \in S PROVE m \in S
    <3>1. t[m] \in W
      BY <1>4, <1>9, <2>2
    <3> QED
      BY <1>1, <3>1
  <2> HIDE DEF S
  <2>3. \A m \in 0 .. n : m \in S
    BY <1>1, <2>1, <2>2, Onward
  <2> QED
    BY <2>3 DEF S
<1>12. Steps(q, rows, n, t)
  BY <1>8, <1>9, <1>11 DEF Steps, op, W
<1> QED
  BY <1>2, <1>10, <1>12

(*****************************************************************************)
(* After each row there is one group for each first row, in order.           *)
(*****************************************************************************)
\* After m rows there is a group for each first row among them, in the order of the first rows.
Held(q, rows, m, gs) ==
    LET F == RefFirsts(q, rows)  order == InOrder(F) IN
    /\ Len(gs) \in 0 .. Cardinality(F)
    /\ \A g \in 1 .. Cardinality(F) : g <= Len(gs) <=> order[g] <= m
    /\ \A g \in 1 .. Len(gs) : Slot(q, rows, m, order[g], gs[g])

\* The first rows in order.
LEMMA FirstsInOrder ==
    ASSUME NEW q, NEW rows, NEW n, Grid(q, rows, n)
    PROVE  LET F == RefFirsts(q, rows)  order == InOrder(F)  N == Cardinality(F) IN
           /\ N \in Nat /\ n \in Nat /\ DOMAIN order = 1 .. N
           /\ \A g \in 1 .. N : order[g] \in F /\ order[g] \in 1 .. n
           /\ \A r \in F : \E g \in 1 .. N : order[g] = r
           /\ \A g, h \in 1 .. N : g < h => order[g] < order[h]
           /\ \A g, h \in 1 .. N : order[g] = order[h] => g = h
<1> DEFINE F == RefFirsts(q, rows)
           order == InOrder(F)
           N == Cardinality(F)
<1>1. F \in SUBSET (1 .. n) /\ F \subseteq Nat /\ IsFiniteSet(F) /\ n \in Nat
  BY GroupsAre DEF Grid
<1> HIDE DEF F
<1>2. /\ N \in Nat /\ order \in [1 .. N -> F] /\ DOMAIN order = 1 .. N
      /\ \A r \in F : \E g \in 1 .. N : order[g] = r
      /\ \A g, h \in 1 .. N : g < h => order[g] < order[h]
  BY <1>1, InOrderIs
<1> HIDE DEF order, N
<1>3. \A g \in 1 .. N : order[g] \in F /\ order[g] \in 1 .. n
  BY <1>1, <1>2
<1>4. ASSUME NEW g \in 1 .. N, NEW h \in 1 .. N, order[g] = order[h] PROVE g = h
  <2>1. order[g] \in Nat /\ g \in Nat /\ h \in Nat
    BY <1>1, <1>2, <1>3
  <2>2. ~(g < h) /\ ~(h < g)
    BY <1>2, <1>4, <2>1
  <2> QED
    BY <2>1, <2>2
<1> QED
  BY <1>1, <1>2, <1>3, <1>4 DEF F, order, N

\* A row whose group is there joins it.
LEMMA HeldJoins ==
    ASSUME CatalogueAssumption, NEW q, NEW rows, NEW n, Grid(q, rows, n), Bounded(q, rows, n),
           NEW m \in 1 .. n, NEW gs \in Groups(q, rows, n), Held(q, rows, m - 1, gs),
           NEW r \in RefFirsts(q, rows), r <= m - 1, Same(q, rows, r, m)
    PROVE  Held(q, rows, m, Placed(q, gs, rows[m]))
<1> DEFINE F == RefFirsts(q, rows)
           order == InOrder(F)
           N == Cardinality(F)
           V == GroupRec(q, rows, n)
           at == Place(q, gs, rows[m])
           more == Into(q, gs[at], rows[m])
           new == [gs EXCEPT ![at] = more]
           l == Len(gs)
<1>1. /\ N \in Nat /\ n \in Nat
      /\ \A g \in 1 .. N : order[g] \in F /\ order[g] \in 1 .. n
      /\ \A i \in F : \E g \in 1 .. N : order[g] = i
      /\ \A g, h \in 1 .. N : order[g] = order[h] => g = h
  BY FirstsInOrder
<1>2. gs \in Seq(V) /\ l \in Nat
  BY DEF Groups
<1>3. /\ l \in 0 .. N
      /\ \A g \in 1 .. N : g <= l <=> order[g] <= m - 1
      /\ \A g \in 1 .. l : Slot(q, rows, m - 1, order[g], gs[g])
  BY DEF Held
<1>4. \A i, j \in F : Same(q, rows, i, m) /\ Same(q, rows, j, m) => i = j
  BY FirstRow
<1>5. m \notin F
  <2>1. m \in F => \A s \in 1 .. n : s < m => ~Same(q, rows, s, m)
    BY FirstRow
  <2>2. r \in 1 .. n /\ r < m
    BY GroupsAre
  <2> QED
    BY <2>1, <2>2
<1>6. at \in 1 .. l /\ gs[at].key = KeyOf(q, rows[m])
  <2>1. PICK a \in 1 .. N : order[a] = r
    BY <1>1
  <2>2. a \in 1 .. l
    BY <1>1, <1>3, <2>1
  <2>3. gs[a].key = KeyOf(q, rows[r])
    BY <1>3, <2>1, <2>2 DEF Slot
  <2>4. KeyOf(q, rows[r]) = KeyOf(q, rows[m])
    <3>1. r \in 1 .. n
      BY GroupsAre
    <3> QED
      BY <3>1, KeySame
  <2>5. at \in 0 .. l /\ (at # 0 => gs[at].key = KeyOf(q, rows[m])) /\ at # 0
    BY <1>2, <2>2, <2>3, <2>4, PlaceIs
  <2> HIDE DEF at, l
  <2> QED
    BY <1>2, <2>5
<1>7. Placed(q, gs, rows[m]) = new
  <2>1. Placed(q, gs, rows[m]) = IF at > 0 THEN new
                                 ELSE IF Len(gs) < AggGroups THEN Append(gs, Into(q, NewGroup(q, rows[m]), rows[m])) ELSE gs
    BY PlacedIs
  <2>2. at > 0
    <3> HIDE DEF at, l
    <3> QED
      BY <1>6
  <2> HIDE DEF at, new
  <2> QED
    BY <2>1, <2>2
<1>8. at \in 1 .. N
  <2> HIDE DEF at, l, N
  <2> QED
    BY <1>1, <1>3, <1>6
<1>9. Same(q, rows, order[at], m) /\ gs[at] \in V /\ Slot(q, rows, m - 1, order[at], gs[at])
  <2> HIDE DEF at, order, l, V, N
  <2>1. gs[at] \in V
    BY <1>2, <1>6 DEF l
  <2>2. Slot(q, rows, m - 1, order[at], gs[at])
    BY <1>3, <1>6
  <2>3. gs[at].key = KeyOf(q, rows[order[at]])
    BY <2>2 DEF Slot
  <2>4. order[at] \in 1 .. n
    BY <1>1, <1>8
  <2>5. KeyOf(q, rows[order[at]]) = KeyOf(q, rows[m])
    BY <1>6, <2>3
  <2>6. Same(q, rows, order[at], m)
    BY <2>4, <2>5, KeySame
  <2> QED
    BY <2>1, <2>2, <2>6
<1>10. Slot(q, rows, m, order[at], more)
  <2> HIDE DEF at, order, N
  <2>1. order[at] \in 1 .. n
    BY <1>1, <1>8
  <2>2. gs[at] \in GroupRec(q, rows, n)
    BY <1>9
  <2> QED
    BY <1>9, <2>1, <2>2, SlotJoins
<1>11. ASSUME NEW g \in 1 .. l, g # at PROVE Slot(q, rows, m, order[g], gs[g])
  <2> HIDE DEF at, order, N, l, F
  <2>1. g \in 1 .. N
    BY <1>1, <1>3
  <2>2. order[g] \in F /\ order[at] \in F /\ order[g] # order[at]
    BY <1>1, <1>8, <1>11, <2>1
  <2>3. ~Same(q, rows, order[g], m) /\ order[g] \in 1 .. n
    BY <1>1, <1>4, <1>9, <2>1, <2>2
  <2>4. Slot(q, rows, m - 1, order[g], gs[g])
    BY <1>3
  <2> QED
    BY <2>3, <2>4, SlotKeeps
<1>12. Len(new) = l /\ new[at] = more /\ \A g \in 1 .. l : g # at => new[g] = gs[g]
  <2> HIDE DEF at, more, V
  <2> QED
    BY <1>2, <1>6
<1>13. \A g \in 1 .. N : order[g] <= m - 1 <=> order[g] <= m
  <2> SUFFICES ASSUME NEW g \in 1 .. N PROVE order[g] <= m - 1 <=> order[g] <= m
    OBVIOUS
  <2>1. order[g] \in 1 .. n /\ order[g] # m
    BY <1>1, <1>5
  <2> HIDE DEF order
  <2> QED
    BY <2>1
<1> HIDE DEF new, more, at, order, N, l
<1>14. ASSUME NEW g \in 1 .. l PROVE Slot(q, rows, m, order[g], new[g])
  <2>1. CASE g = at
    BY <1>10, <1>12, <2>1
  <2>2. CASE g # at
    BY <1>11, <1>12, <2>2
  <2> QED
    BY <2>1, <2>2
<1>15. Held(q, rows, m, new)
  BY <1>3, <1>12, <1>13, <1>14 DEF Held, order, N
<1> QED
  BY <1>7, <1>15

\* A row that comes first starts a group.
LEMMA HeldStarts ==
    ASSUME CatalogueAssumption, NEW q, NEW rows, NEW n, Grid(q, rows, n), Bounded(q, rows, n), AggGroups \in Nat,
           Cardinality(RefFirsts(q, rows)) <= AggGroups,
           NEW m \in 1 .. n, NEW gs \in Groups(q, rows, n), Held(q, rows, m - 1, gs),
           \A r \in RefFirsts(q, rows) : r <= m - 1 => ~Same(q, rows, r, m)
    PROVE  Held(q, rows, m, Placed(q, gs, rows[m]))
<1> DEFINE F == RefFirsts(q, rows)
           order == InOrder(F)
           N == Cardinality(F)
           V == GroupRec(q, rows, n)
           at == Place(q, gs, rows[m])
           more == Into(q, NewGroup(q, rows[m]), rows[m])
           new == Append(gs, more)
           l == Len(gs)
<1>1. /\ N \in Nat /\ n \in Nat
      /\ \A g \in 1 .. N : order[g] \in F /\ order[g] \in 1 .. n
      /\ \A i \in F : \E g \in 1 .. N : order[g] = i
      /\ \A g, h \in 1 .. N : g < h => order[g] < order[h]
  BY FirstsInOrder
<1>2. gs \in Seq(V) /\ l \in Nat
  BY DEF Groups
<1>3. /\ l \in 0 .. N
      /\ \A g \in 1 .. N : g <= l <=> order[g] <= m - 1
      /\ \A g \in 1 .. l : Slot(q, rows, m - 1, order[g], gs[g])
  BY DEF Held
<1>4. m \in F
  <2>1. PICK r \in F : r <= m /\ Same(q, rows, r, m)
    BY FirstRow
  <2>2. ~(r <= m - 1) /\ r \in 1 .. n
    BY <2>1, GroupsAre
  <2>3. r = m
    BY <1>1, <2>1, <2>2
  <2> QED
    BY <2>3
<1>5. PICK a \in 1 .. N : order[a] = m
  BY <1>1, <1>4
<1>6. a = l + 1
  <2> HIDE DEF order, N, l, F
  <2>1. ~(a <= l)
    BY <1>1, <1>3, <1>5
  <2>2. ASSUME l + 1 < a PROVE FALSE
    <3>1. l + 1 \in 1 .. N /\ order[l + 1] < order[a]
      BY <1>1, <1>2, <2>2
    <3>2. order[l + 1] \in 1 .. n
      BY <1>1, <3>1
    <3>3. order[l + 1] <= m - 1
      BY <1>1, <1>5, <3>1, <3>2
    <3>4. l + 1 <= l
      BY <1>3, <3>1, <3>3
    <3> QED
      BY <1>2, <3>4
  <2> QED
    BY <1>1, <1>2, <2>1, <2>2
<1>7. ASSUME NEW g \in 1 .. l PROVE ~Same(q, rows, order[g], m) /\ order[g] \in 1 .. n /\ g \in 1 .. N
  <2>1. g \in 1 .. N
    <3> HIDE DEF N, l
    <3> QED
      BY <1>1, <1>3
  <2>2. order[g] \in F /\ order[g] \in 1 .. n /\ order[g] <= m - 1
    BY <1>1, <1>3, <2>1
  <2> QED
    BY <2>1, <2>2
<1>8. at = 0
  <2>1. at \in 0 .. l /\ (at # 0 => gs[at].key = KeyOf(q, rows[m]))
    BY <1>2, PlaceIs
  <2> HIDE DEF at, l, order, N
  <2>2. ASSUME at # 0 PROVE FALSE
    <3>1. at \in 1 .. l
      BY <1>2, <2>1, <2>2
    <3>2. gs[at].key = KeyOf(q, rows[order[at]])
      BY <1>3, <3>1 DEF Slot
    <3>3. KeyOf(q, rows[order[at]]) = KeyOf(q, rows[m])
      BY <2>1, <2>2, <3>2
    <3>4. order[at] \in 1 .. n /\ ~Same(q, rows, order[at], m)
      BY <1>7, <3>1
    <3> QED
      BY <3>3, <3>4, KeySame
  <2> QED
    BY <2>2
<1>9. l < AggGroups
  <2>1. N <= AggGroups
    OBVIOUS
  <2> HIDE DEF l, N
  <2> QED
    BY <1>1, <1>2, <1>5, <1>6, <2>1
<1>10. Placed(q, gs, rows[m]) = new
  <2>1. Placed(q, gs, rows[m]) = IF at > 0 THEN [gs EXCEPT ![at] = Into(q, gs[at], rows[m])]
                                 ELSE IF l < AggGroups THEN new ELSE gs
    BY PlacedIs
  <2> HIDE DEF at, new, l
  <2>2. ~(at > 0)
    BY <1>8
  <2> QED
    BY <1>9, <2>1, <2>2
<1>11. Slot(q, rows, m, m, more)
  BY <1>4, SlotStarts DEF NewGroup
<1>12. Len(new) = l + 1 /\ new[l + 1] = more /\ \A g \in 1 .. l : new[g] = gs[g]
  <2>1. more \in V
    BY NewGroupOk, IntoIs
  <2> HIDE DEF more, V
  <2> QED
    BY <1>2, <2>1
<1> HIDE DEF new, more, at, order, N, l
<1>13. ASSUME NEW g \in 1 .. l + 1 PROVE Slot(q, rows, m, order[g], new[g])
  <2>1. CASE g = l + 1
    BY <1>5, <1>6, <1>11, <1>12, <2>1
  <2>2. CASE g # l + 1
    <3>1. g \in 1 .. l
      BY <1>2, <2>2
    <3>2. Slot(q, rows, m - 1, order[g], gs[g]) /\ order[g] \in 1 .. n /\ ~Same(q, rows, order[g], m)
      BY <1>3, <1>7, <3>1
    <3>3. Slot(q, rows, m, order[g], gs[g])
      BY <3>2, SlotKeeps
    <3> QED
      BY <1>12, <3>1, <3>3
  <2> QED
    BY <2>1, <2>2
<1>14. ASSUME NEW g \in 1 .. N PROVE g <= l + 1 <=> order[g] <= m
  <2>1. order[g] \in 1 .. n /\ g \in Nat /\ a \in Nat /\ l \in Nat /\ m \in Nat
    BY <1>1, <1>2
  <2>2. CASE g < a
    <3>1. order[g] < m
      BY <1>1, <1>5, <2>2
    <3> QED
      BY <1>6, <2>1, <2>2, <3>1
  <2>3. CASE g = a
    BY <1>5, <1>6, <2>1, <2>3
  <2>4. CASE a < g
    <3>1. m < order[g]
      BY <1>1, <1>5, <2>4
    <3> QED
      BY <1>6, <2>1, <2>4, <3>1
  <2> QED
    BY <2>1, <2>2, <2>3, <2>4
<1>15. l + 1 \in 0 .. N
  BY <1>1, <1>2, <1>5, <1>6
<1>16. Held(q, rows, m, new)
  BY <1>12, <1>13, <1>14, <1>15 DEF Held, order, N
<1> QED
  BY <1>10, <1>16

(*****************************************************************************)
(* The groups are the reference's.                                           *)
(*****************************************************************************)
\* What the engine shows of its groups, and the reference's groups of some rows.
Shows(q, gs) == [g \in DOMAIN gs |-> Output(q, gs[g])]
Means(q, rows) ==
    LET order == InOrder(RefFirsts(q, rows)) IN
    [g \in DOMAIN order |-> [k \in DOMAIN q.select |-> RefValue(q, rows, RefGroup(q, rows, order[g]), k)]]

\* The groups that the engine makes of the rows are the groups of the reference.
LEMMA GroupedIsRight ==
    ASSUME CatalogueAssumption, QueryAssumption, NEW q, NEW rows, NEW n, Grid(q, rows, n), Bounded(q, rows, n),
           Cardinality(RefFirsts(q, rows)) <= AggGroups
    PROVE  Shows(q, Grouped(q, rows)) = Means(q, rows)
<1> DEFINE F == RefFirsts(q, rows)
           order == InOrder(F)
           N == Cardinality(F)
           gs == Grouped(q, rows)
           D == DOMAIN q.select
<1>1. /\ N \in Nat /\ n \in Nat /\ DOMAIN order = 1 .. N
      /\ \A g \in 1 .. N : order[g] \in F /\ order[g] \in 1 .. n
  BY FirstsInOrder
<1>2. PICK t : Steps(q, rows, n, t) /\ gs = t[n]
  <2>1. CatalogueAssumption /\ Grid(q, rows, n)
    OBVIOUS
  <2>2. \E t : Steps(q, rows, n, t) /\ Grouped(q, rows) = t[n]
    BY ONLY <2>1, GroupedSteps
  <2> QED
    BY <2>2
<1>3. Held(q, rows, n, gs)
  <2> DEFINE S == {m \in 0 .. n : Held(q, rows, m, t[m])}
  <2>1. 0 \in S
    <3>1. t[0] = <<>> /\ Len(<<>>) = 0
      BY <1>2 DEF Steps
    <3> HIDE DEF N, order
    <3>2. \A g \in 1 .. N : g <= 0 <=> order[g] <= 0
      BY <1>1
    <3>3. Held(q, rows, 0, <<>>)
      BY <1>1, <3>1, <3>2 DEF Held, N, order
    <3> QED
      BY <1>1, <3>1, <3>3
  <2>2. ASSUME NEW m \in 1 .. n, m - 1 \in S PROVE m \in S
    <3> DEFINE old == t[m - 1]
    <3>1. old \in Groups(q, rows, n) /\ t[m] = Placed(q, old, rows[m])
      BY <1>1, <1>2 DEF Steps
    <3>2. Held(q, rows, m - 1, old) /\ AggGroups \in Nat
      BY <2>2, Limits
    <3> HIDE DEF old
    <3>3. CASE \E r \in F : r <= m - 1 /\ Same(q, rows, r, m)
      <4>1. Held(q, rows, m, Placed(q, old, rows[m]))
        BY <3>1, <3>2, <3>3, HeldJoins
      <4> QED
        BY <1>1, <3>1, <4>1
    <3>4. CASE \A r \in F : r <= m - 1 => ~Same(q, rows, r, m)
      <4>1. Held(q, rows, m, Placed(q, old, rows[m]))
        BY <3>1, <3>2, <3>4, HeldStarts
      <4> QED
        BY <1>1, <3>1, <4>1
    <3> QED
      BY <3>3, <3>4
  <2> HIDE DEF S
  <2>3. n \in S
    <3>1. \A m \in 0 .. n : m \in S
      BY <1>1, <2>1, <2>2, Onward
    <3> QED
      BY <1>1, <3>1
  <2> QED
    BY <1>2, <2>3 DEF S
<1>4. gs \in Seq(GroupRec(q, rows, n))
  BY <1>1, <1>2 DEF Steps, Groups
<1> HIDE DEF gs
<1>5. /\ Len(gs) \in 0 .. N
      /\ \A g \in 1 .. N : g <= Len(gs) <=> order[g] <= n
      /\ \A g \in 1 .. Len(gs) : Slot(q, rows, n, order[g], gs[g])
  BY <1>3 DEF Held
<1> HIDE DEF order, N, F
<1>6. Len(gs) = N /\ DOMAIN gs = 1 .. N
  <2> DEFINE l == Len(gs)
  <2>1. l \in 0 .. N /\ \A g \in 1 .. N : g <= l
    BY <1>1, <1>5
  <2>2. DOMAIN gs = 1 .. l
    BY <1>4
  <2> HIDE DEF l
  <2>3. l = N
    <3>1. N \in Nat
      BY <1>1
    <3>2. N # 0 => N <= l
      BY <2>1, <3>1
    <3> QED
      BY <2>1, <3>1, <3>2
  <2> QED
    BY <2>2, <2>3 DEF l
<1>7. ASSUME NEW g \in 1 .. N
      PROVE  Output(q, gs[g]) = [k \in D |-> RefValue(q, rows, RefGroup(q, rows, order[g]), k)]
  <2> DEFINE r == order[g]
             G == RefGroup(q, rows, r)
  <2>1. r \in F /\ r \in 1 .. n /\ Slot(q, rows, n, r, gs[g])
    BY <1>1, <1>5, <1>6
  <2> HIDE DEF r
  <2>2. G \in SUBSET (1 .. n) /\ Leads(r, G)
    <3>1. Same(q, rows, r, r)
      BY DEF Same
    <3>2. G = {s \in 1 .. n : Same(q, rows, s, r)} /\ \A s \in 1 .. n : Same(q, rows, s, r) => r <= s
      BY <2>1, GroupsAre DEF F
    <3> QED
      BY <2>1, <3>1, <3>2 DEF Leads
  <2>3. Partial(q, rows, n, r) = G
    BY <2>1, GroupsAre DEF Partial
  <2> HIDE DEF G
  <2>4. gs[g].count = Cardinality(G) /\ \A k \in D : Stands(q, rows, k, G, r, gs[g].vals[k])
    BY <2>1, <2>3 DEF Slot
  <2>5. ASSUME NEW k \in D PROVE Output(q, gs[g])[k] = RefValue(q, rows, G, k)
    <3> DEFINE x == gs[g]
    <3>1. Stands(q, rows, k, G, r, x.vals[k]) /\ x.count = Cardinality(G)
      BY <2>4
    <3>2. r \in 1 .. n /\ k \in DOMAIN q.select
      BY <2>1
    <3> HIDE DEF x, D
    <3>3. Output(q, x)[k] = RefValue(q, rows, G, k)
      BY <2>2, <3>1, <3>2, StandsIsRight, SMTT(30)
    <3> QED
      BY <3>3 DEF x
  <2>6. Output(q, gs[g]) = [k \in D |-> Output(q, gs[g])[k]]
    BY DEF Output
  <2> QED
    BY <2>5, <2>6 DEF r, G
<1> DEFINE ref(g) == [k \in D |-> RefValue(q, rows, RefGroup(q, rows, order[g]), k)]
<1>8. \A g \in 1 .. N : Output(q, gs[g]) = ref(g)
  BY <1>7
<1> HIDE DEF ref, D
<1>9. [g \in DOMAIN gs |-> Output(q, gs[g])] = [g \in DOMAIN order |-> ref(g)]
  BY <1>1, <1>6, <1>8
<1> QED
  BY <1>9 DEF gs, order, ref, D, F, Shows, Means

(*****************************************************************************)
(* The answer.                                                               *)
(*****************************************************************************)
\* A query inside the engine's limits, without gaps, on schemas that are not stale.
Served(q) == q \in Queries /\ WellFormed(q) /\ ~Stale(q) /\ ~Gap(q) /\ ~Beyond(q)

\* Such a query passes the parser as it is, and meets no limit of the scan.
LEMMA ServedIsClean ==
    ASSUME CatalogueAssumption, QueryAssumption, NEW q, Served(q)
    PROVE  Clean(q) /\ Parsed(q) = q /\ q = [select |-> q.select, from |-> q.from, where |-> q.where]
<1> DEFINE A == [pack : STRING, field : STRING, agg : Aggregates]
<1>1. q.from \in Seq(STRING) /\ q.where \in Seq(Range(q.where)) /\ q.select \in Seq(A)
  BY DEF QueryAssumption, Served
<1>2. ASSUME NEW S \in SUBSET Ids, NEW n \in Nat, ~(Cardinality(S) > n) PROVE Cardinality(S) <= n
  <2>1. Cardinality(S) \in Nat
    BY CatalogueConstants, FS_Subset, FS_CardinalityType
  <2> QED
    BY <1>2, <2>1
<1>3. \A p : Keys(p) \in SUBSET Ids /\ Index(p) \in SUBSET Ids
  BY DEF Keys, Index
<1>4. Cardinality(Index(RefPacks(q)[1].ord)) <= ScanMax
  <2>1. ~(Cardinality(Index(RefPacks(q)[1].ord)) > ScanMax)
    BY DEF Beyond, Served
  <2> QED
    BY <1>2, <1>3, <2>1, Limits
<1>5. ASSUME NEW w \in JoinedConds(q)
      PROVE  LET p == RefPacks(q)[PackOf(q, w.pack)].ord IN
             /\ Cardinality(Index(p)) <= JoinMax
             /\ Cardinality({i \in Keys(p) : Passes(cards[p][i], FieldIn(q, w), w.op, w.val)}) <= ListMax
  <2> DEFINE p == RefPacks(q)[PackOf(q, w.pack)].ord
             L == {i \in Keys(p) : Passes(cards[p][i], FieldIn(q, w), w.op, w.val)}
  <2>1. ~(Cardinality(Index(p)) > JoinMax) /\ ~(Cardinality(L) > ListMax)
    BY DEF Beyond, Served
  <2>2. Index(p) \in SUBSET Ids /\ L \in SUBSET Ids
    BY <1>3
  <2> HIDE DEF p, L
  <2>3. Cardinality(Index(p)) <= JoinMax /\ Cardinality(L) <= ListMax
    BY <1>2, <2>1, <2>2, Limits
  <2> QED
    BY <2>3 DEF p, L
<1>6. q.select \in Seq(Range(q.select)) /\ \A s \in Range(q.select) : s.agg \in Aggregates
  <2> DEFINE l == Len(q.select)
             R == Range(q.select)
  <2>1. l \in Nat /\ q.select \in [1 .. l -> A]
    <3> HIDE DEF A
    <3> QED
      BY <1>1, SMTT(30)
  <2>2. \A k \in 1 .. l : q.select[k] \in R /\ q.select[k] \in A
    <3> HIDE DEF l, A
    <3> QED
      BY <2>1 DEF Range
  <2>3. \A s \in R : s \in A
    <3> HIDE DEF l, A
    <3> QED
      BY <2>1 DEF Range
  <2>4. \A s \in R : s.agg \in Aggregates
    <3> HIDE DEF R
    <3> QED
      BY <2>3
  <2> HIDE DEF l, R, A
  <2>5. q.select \in [1 .. l -> R]
    BY <2>1, <2>2
  <2>6. q.select \in Seq(R)
    <3> DEFINE x == q.select
    <3>1. l \in Nat /\ x \in [1 .. l -> R]
      BY <2>1, <2>5
    <3> HIDE DEF x
    <3>2. x \in Seq(R)
      BY ONLY <3>1
    <3> QED
      BY <3>2 DEF x
  <2> QED
    BY <2>4, <2>6 DEF R
<1>7. Clean(q)
  <2>1. \A i \in DOMAIN q.from : Fresh(q.from[i]) = RefPacks(q)[i]
    BY DEF Beyond, Served
  <2> HIDE DEF A
  <2> QED
    BY <1>1, <1>4, <1>5, <1>6, <2>1 DEF Clean, Served
<1>8. Parsed(q) = q
  BY DEF Beyond, Served
<1>9. q = [select |-> q.select, from |-> q.from, where |-> q.where]
  <2> DEFINE x == UpTo(q.select, SelectMax)  y == UpTo(q.from, FromMax)  z == UpTo(q.where, WhereMax)
  <2>1. q = [select |-> x, from |-> y, where |-> z]
    BY <1>8 DEF Parsed
  <2> HIDE DEF x, y, z
  <2>2. q.select = x /\ q.from = y /\ q.where = z
    BY <2>1
  <2> QED
    BY <2>1, <2>2
<1> QED
  BY <1>7, <1>8, <1>9

\* No card passes: there are no rows and no groups.
LEMMA EmptyReference ==
    ASSUME NEW q, RefIds(q) = {}
    PROVE  RefRows(q) = <<>> /\ RefGroups(q) = <<>>
<1>1. Cardinality({}) = 0
  BY FS_EmptySet
<1>2. InOrder({}) = <<>>
  BY <1>1 DEF InOrder
<1>3. RefRows(q) = <<>>
  BY <1>2 DEF RefRows
<1>4. RefFirsts(q, <<>>) = {}
  BY DEF RefFirsts
<1>5. RefGroups(q) = <<>>
  <2> DEFINE row(rows, order, g) == [k \in DOMAIN q.select |-> RefValue(q, rows, RefGroup(q, rows, order[g]), k)]
             order == InOrder(RefFirsts(q, <<>>))
  <2>1. order = <<>>
    BY <1>2, <1>4
  <2>2. RefGroups(q) = [g \in DOMAIN order |-> row(<<>>, order, g)]
    BY <1>3 DEF RefGroups
  <2> HIDE DEF row, order
  <2> QED
    BY <2>1, <2>2
<1> QED
  BY <1>3, <1>5

\* A query that lists rows, when the indexes cover the scans.
LEMMA ListedIsRight ==
    ASSUME CatalogueAssumption, QueryAssumption, CatalogueInv, NEW q, Clean(q), Covered(q),
           NEW r, r.from = q.from, r.where = q.where, Clean(r), Whole(q, RefPacks(q)[1]) = r, ~HasAgg(r),
           Cardinality(RefIds(q)) <= RowMax
    PROVE  Execute(q) = RefRows(r)
<1>1. Packs(q) = RefPacks(q) /\ ~Denied(q) /\ Packs(r) = RefPacks(r) /\ Packs(r)[1] = Packs(q)[1]
  BY Resolved, SameConditions
<1>2. Conds(r) = Conds(q) /\ RefIds(r) = RefIds(q) /\ FirstBad(r) = FirstBad(q) /\ Covered(r)
  BY SameConditions DEF FirstBad
<1>3. FirstBad(q) \in Nat
  <2>1. FirstBad(q) \in 0 .. Len(q.where) /\ Len(q.where) \in Nat
    BY CondsAre
  <2> QED
    BY <2>1
<1>4. CASE FirstBad(q) = 0
  <2> DEFINE o == Ordered(Packs(r)[1], Conds(r))
  <2>1. Rows(r, RefPacks(r), o, RowMax) = RefRows(r)
    <3>1. Covered(r) /\ FirstBad(r) = 0 /\ RowMax \in Nat /\ Cardinality(RefIds(r)) <= RowMax
      BY <1>2, <1>4, Limits
    <3> QED
      BY <3>1, RowsAreRight
  <2>2. Execute(q) = Rows(r, Packs(r), o, RowMax)
    <3>1. ~(FirstBad(q) > 0)
      BY <1>4
    <3> QED
      BY <1>1, <3>1 DEF Execute
  <2> QED
    BY <1>1, <2>1, <2>2
<1>5. CASE FirstBad(q) # 0
  <2>1. Conds(q)[FirstBad(q)].out = "empty" /\ RefIds(q) = {}
    BY <1>5, StoppedIsEmpty
  <2>2. Execute(q) = <<>>
    BY <1>1, <1>3, <1>5, <2>1 DEF Execute
  <2>3. RefRows(r) = <<>>
    BY <1>2, <2>1, EmptyReference
  <2> QED
    BY <2>2, <2>3
<1> QED
  BY <1>4, <1>5

\* A query that lists rows, whatever the indexes hold.
LEMMA ListedIsDue ==
    ASSUME CatalogueAssumption, QueryAssumption, CatalogueInv, NEW q, Clean(q),
           NEW r, r.from = q.from, r.where = q.where, Clean(r), Whole(q, RefPacks(q)[1]) = r, ~HasAgg(r)
    PROVE  Range(Execute(q)) \subseteq Range(RefRows(r))
<1>1. Packs(q) = RefPacks(q) /\ ~Denied(q) /\ Packs(r) = RefPacks(r) /\ Packs(r)[1] = Packs(q)[1]
  BY Resolved, SameConditions
<1>2. Conds(r) = Conds(q) /\ FirstBad(r) = FirstBad(q)
  BY SameConditions DEF FirstBad
<1>3. FirstBad(q) \in Nat
  <2>1. FirstBad(q) \in 0 .. Len(q.where) /\ Len(q.where) \in Nat
    BY CondsAre
  <2> QED
    BY <2>1
<1>4. CASE FirstBad(q) = 0
  <2> DEFINE o == Ordered(Packs(r)[1], Conds(r))
  <2>1. Range(Rows(r, RefPacks(r), o, RowMax)) \subseteq Range(RefRows(r))
    <3>1. FirstBad(r) = 0 /\ RowMax \in Nat
      BY <1>2, <1>4, Limits
    <3> QED
      BY <3>1, RowsAreDue
  <2>2. Execute(q) = Rows(r, Packs(r), o, RowMax)
    <3>1. ~(FirstBad(q) > 0)
      BY <1>4
    <3> QED
      BY <1>1, <3>1 DEF Execute
  <2> QED
    BY <1>1, <2>1, <2>2
<1>5. CASE FirstBad(q) # 0
  <2>1. Conds(q)[FirstBad(q)].out = "empty"
    BY <1>5, StoppedIsEmpty
  <2>2. Execute(q) = <<>>
    BY <1>1, <1>3, <1>5, <2>1 DEF Execute
  <2>3. Range(<<>>) = {}
    BY DEF Range
  <2> QED
    BY <2>2, <2>3
<1> QED
  BY <1>4, <1>5

\* The rows of a query that groups have their group-by values.
LEMMA RefRowsGrid ==
    ASSUME CatalogueAssumption, CatalogueInv, NEW q, Clean(q), HasAgg(q)
    PROVE  Grid(q, RefRows(q), Cardinality(RefIds(q)))
<1> DEFINE rows == RefRows(q)
           n == Cardinality(RefIds(q))
<1>1. n \in Nat /\ DOMAIN rows = 1 .. n /\ \A r \in DOMAIN rows, k \in DOMAIN q.select : rows[r][k] \in Blank .. LongMax
  BY RefRowsAre
<1>2. q.select \in Seq(Range(q.select)) /\ \A s \in Range(q.select) : s.agg \in Aggregates
  BY DEF Clean
<1>3. \A row \in Range(rows) : \A k \in Range(GroupBy(q)) : row[k] # Blank
  BY DEF Clean, Gap
<1> HIDE DEF rows, n
<1>4. \A r \in 1 .. n : rows[r] \in Range(rows)
  BY <1>1 DEF Range
<1>5. \A r \in 1 .. n : \A k \in Range(GroupBy(q)) : rows[r][k] # Blank
  BY <1>3, <1>4
<1> QED
  BY <1>1, <1>2, <1>5 DEF Grid, rows, n

\* A query that groups rows, when the indexes cover the scans.
LEMMA GroupedAnswer ==
    ASSUME CatalogueAssumption, QueryAssumption, CatalogueInv, NEW q, Clean(q), Covered(q), HasAgg(q),
           Cardinality(RefIds(q)) <= AggRows, Len(RefGroups(q)) <= AggGroups,
           Bounded(q, RefRows(q), Cardinality(RefIds(q)))
    PROVE  Execute(q) = RefGroups(q)
<1> DEFINE rows == RefRows(q)
           n == Cardinality(RefIds(q))
           order == InOrder(RefFirsts(q, rows))
<1>1. Packs(q) = RefPacks(q) /\ ~Denied(q)
  BY Resolved
<1>2. FirstBad(q) \in Nat
  <2>1. FirstBad(q) \in 0 .. Len(q.where) /\ Len(q.where) \in Nat
    BY CondsAre
  <2> QED
    BY <2>1
<1>3. CASE FirstBad(q) = 0
  <2>1. q.select # <<>> /\ Whole(q, Packs(q)[1]) = q
    <3>1. q.select # <<>>
      BY DEF HasAgg
    <3> QED
      BY <3>1 DEF Whole
  <2>2. Rows(q, RefPacks(q), Ordered(Packs(q)[1], Conds(q)), AggRows) = rows
    BY <1>3, Limits, RowsAreRight
  <2>3. Execute(q) = LET gs == Grouped(q, rows) IN [g \in DOMAIN gs |-> Output(q, gs[g])]
    <3>1. ~(FirstBad(q) > 0)
      BY <1>3
    <3> HIDE DEF rows
    <3> QED
      BY <1>1, <2>1, <2>2, <3>1 DEF Execute
  <2>4. Grid(q, rows, n)
    BY RefRowsGrid
  <2>5. Cardinality(RefFirsts(q, rows)) <= AggGroups
    <3> DEFINE F == RefFirsts(q, rows)  N == Cardinality(F)
    <3>1. N \in Nat /\ DOMAIN order = 1 .. N
      BY <2>4, FirstsInOrder
    <3>2. RefGroups(q) = [g \in DOMAIN order |-> [k \in DOMAIN q.select |-> RefValue(q, rows, RefGroup(q, rows, order[g]), k)]]
      BY DEF RefGroups
    <3>3. DOMAIN RefGroups(q) = 1 .. N
      BY <3>1, <3>2
    <3> HIDE DEF N
    <3>4. Len(RefGroups(q)) = N
      BY <3>1, <3>3, <3>2
    <3> QED
      BY <3>4 DEF N
  <2>6. Shows(q, Grouped(q, rows)) = RefGroups(q)
    <3>1. Grid(q, rows, n) /\ Bounded(q, rows, n) /\ Cardinality(RefFirsts(q, rows)) <= AggGroups
      BY <2>4, <2>5
    <3>2. RefGroups(q) = Means(q, rows)
      BY DEF RefGroups, Means
    <3> HIDE DEF rows, n
    <3> QED
      BY <3>1, <3>2, GroupedIsRight
  <2> HIDE DEF rows
  <2> QED
    BY <2>3, <2>6 DEF Shows
<1>4. CASE FirstBad(q) # 0
  <2>1. Conds(q)[FirstBad(q)].out = "empty" /\ RefIds(q) = {}
    BY <1>4, StoppedIsEmpty
  <2>2. Execute(q) = <<>>
    BY <1>1, <1>2, <1>4, <2>1 DEF Execute
  <2> QED
    BY <2>1, <2>2, EmptyReference
<1> QED
  BY <1>3, <1>4

\* When the indexes cover the scans, the answer to such a query is what it means.
LEMMA ServedIsRight ==
    ASSUME CatalogueAssumption, QueryAssumption, CatalogueInv, NEW q, Served(q), Covered(q)
    PROVE  Execute(Parsed(q)) = Reference(q)
<1>1. Clean(q) /\ Parsed(q) = q /\ q = [select |-> q.select, from |-> q.from, where |-> q.where]
  BY ServedIsClean
<1> DEFINE n == Cardinality(RefIds(q))
<1>2. n \in Nat /\ ~(n > IF HasAgg(q) THEN AggRows ELSE RowMax) /\ AggRows \in Nat /\ RowMax \in Nat /\ AggGroups \in Nat
  BY <1>1, RefRowsAre, Limits DEF Beyond, Served
<1> HIDE DEF n
<1>3. n <= IF HasAgg(q) THEN AggRows ELSE RowMax
  BY <1>2
<1>4. CASE q.select = <<>>
  <2> DEFINE fields == RefPacks(q)[1].fields
             r == [q EXCEPT !.select = [k \in DOMAIN fields |-> [pack |-> "", field |-> fields[k].name, agg |-> "none"]]]
  <2>1. Len(fields) <= SelectMax
    <3>1. FieldsOk(fields) /\ SelectMax \in Nat
      BY <1>1, Resolved, Limits
    <3>2. ~(Len(fields) > SelectMax)
      BY <1>4 DEF Beyond, Served
    <3> HIDE DEF fields
    <3>3. Len(fields) \in Nat
      BY <3>1 DEF FieldsOk
    <3> QED
      BY <3>1, <3>2, <3>3
  <2>2. Whole(q, RefPacks(q)[1]) = r /\ r.from = q.from /\ r.where = q.where /\ ~HasAgg(r) /\ Clean(r)
    BY <1>1, <1>4, <2>1, WholeIsClean
  <2>3. ~HasAgg(q)
    BY <1>4 DEF HasAgg
  <2>4. Reference(q) = IF HasAgg(r) THEN RefGroups(r) ELSE RefRows(r)
    BY <1>4 DEF Reference
  <2> HIDE DEF r
  <2>5. Execute(q) = RefRows(r)
    BY <1>1, <1>3, <2>2, <2>3, ListedIsRight DEF n
  <2> QED
    BY <1>1, <2>2, <2>4, <2>5
<1>5. CASE q.select # <<>>
  <2>1. Reference(q) = IF HasAgg(q) THEN RefGroups(q) ELSE RefRows(q)
    BY <1>5 DEF Reference
  <2>2. CASE ~HasAgg(q)
    <3>1. Whole(q, RefPacks(q)[1]) = q
      BY <1>5 DEF Whole
    <3>2. Execute(q) = RefRows(q)
      BY <1>1, <1>3, <2>2, <3>1, ListedIsRight DEF n
    <3> QED
      BY <1>1, <2>1, <2>2, <3>2
  <2>3. CASE HasAgg(q)
    <3> DEFINE l == Len(RefGroups(q))
    <3>1. l <= AggGroups
      BY <2>3 DEF Beyond, Served
    <3>2. Bounded(q, RefRows(q), n)
      <4> DEFINE rows == RefRows(q)
      <4> SUFFICES ASSUME NEW k \in DOMAIN q.select, q.select[k].agg \in {"sum", "avg"}, NEW r \in 1 .. n
                   PROVE  RefSum(rows, RefGroup(q, rows, r), k) <= LongMax
        BY DEF Bounded
      <4>1. Grid(q, rows, n) /\ DOMAIN rows = 1 .. n
        BY <1>1, <2>3, RefRowsGrid DEF n, Grid
      <4> DEFINE s == RefSum(rows, RefGroup(q, rows, r), k)
      <4>2. ~(s > LongMax)
        BY <4>1 DEF Beyond, Served
      <4>3. s \in Int /\ LongMax \in Nat
        <5>1. RefGroup(q, rows, r) \in SUBSET (1 .. n)
          BY <4>1, GroupsAre
        <5> QED
          BY <4>1, <5>1, RefSumIs DEF CatalogueAssumption
      <4> HIDE DEF s
      <4>4. s <= LongMax
        BY <4>2, <4>3
      <4> QED
        BY <4>4 DEF s
    <3>3. Execute(q) = RefGroups(q)
      BY <1>1, <1>3, <2>3, <3>1, <3>2, GroupedAnswer DEF n
    <3> QED
      BY <1>1, <2>1, <2>3, <3>3
  <2> QED
    BY <2>2, <2>3
<1> QED
  BY <1>4, <1>5

\* When they do not, no row is listed that is not due.
LEMMA ServedIsDue ==
    ASSUME CatalogueAssumption, QueryAssumption, CatalogueInv, NEW q, Served(q), ~HasAgg(q)
    PROVE  Range(Execute(Parsed(q))) \subseteq Range(Reference(q))
<1>1. Clean(q) /\ Parsed(q) = q /\ q = [select |-> q.select, from |-> q.from, where |-> q.where]
  BY ServedIsClean
<1>2. CASE q.select = <<>>
  <2> DEFINE fields == RefPacks(q)[1].fields
             r == [q EXCEPT !.select = [k \in DOMAIN fields |-> [pack |-> "", field |-> fields[k].name, agg |-> "none"]]]
  <2>1. Len(fields) <= SelectMax
    <3>1. FieldsOk(fields) /\ SelectMax \in Nat
      BY <1>1, Resolved, Limits
    <3>2. ~(Len(fields) > SelectMax)
      BY <1>2 DEF Beyond, Served
    <3> HIDE DEF fields
    <3>3. Len(fields) \in Nat
      BY <3>1 DEF FieldsOk
    <3> QED
      BY <3>1, <3>2, <3>3
  <2>2. Whole(q, RefPacks(q)[1]) = r /\ r.from = q.from /\ r.where = q.where /\ ~HasAgg(r) /\ Clean(r)
    BY <1>1, <1>2, <2>1, WholeIsClean
  <2>3. Reference(q) = IF HasAgg(r) THEN RefGroups(r) ELSE RefRows(r)
    BY <1>2 DEF Reference
  <2> HIDE DEF r
  <2>4. Range(Execute(q)) \subseteq Range(RefRows(r))
    BY <1>1, <2>2, ListedIsDue
  <2> QED
    BY <1>1, <2>2, <2>3, <2>4
<1>3. CASE q.select # <<>>
  <2>1. Reference(q) = RefRows(q)
    BY <1>3 DEF Reference
  <2>2. Whole(q, RefPacks(q)[1]) = q
    BY <1>3 DEF Whole
  <2>3. Range(Execute(q)) \subseteq Range(RefRows(q))
    BY <1>1, <2>2, ListedIsDue
  <2> QED
    BY <1>1, <2>1, <2>3
<1> QED
  BY <1>2, <1>3

\* query_execute answers what the query means, for any schemas, cards, indexes, queries and limits, however the
\* sort orders the conditions and whatever fanouts and sizes it has learned, except with a schema that is stale in
\* the pack cache, a value that is not there, or a limit that is met.  Where the indexes of the SD card do not
\* cover the scans (kvsd_range), rows may be missing or in another order, but a listing has none that is not due.
THEOREM AnswersAreRight == QuerySpec => []AnswerIsReference
<1>1. CatalogueInv => AnswerIsReference
  <2> SUFFICES ASSUME CatalogueInv, NEW q \in Queries, WellFormed(q), ~Stale(q), ~Gap(q), ~Beyond(q)
               PROVE  LET answer == Execute(Parsed(q))  meant == Reference(q) IN
                      IF Covered(q) THEN answer = meant ELSE HasAgg(q) \/ Range(answer) \subseteq Range(meant)
    BY DEF AnswerIsReference
  <2>1. CatalogueAssumption /\ QueryAssumption /\ Served(q)
    BY CatalogueAssumption, QueryAssumption DEF Served
  <2>2. Covered(q) => Execute(Parsed(q)) = Reference(q)
    BY <2>1, ServedIsRight
  <2>3. ~HasAgg(q) => Range(Execute(Parsed(q))) \subseteq Range(Reference(q))
    BY <2>1, ServedIsDue
  <2> QED
    BY <2>2, <2>3
<1> QED
  BY <1>1, CatalogueWellFormed, PTL

===============================================================================
