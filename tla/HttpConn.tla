------------------------------- MODULE HttpConn -------------------------------
(***************************************************************************)
(* The HTTP server's connections (src/httpd/web_server.c): a pool of       *)
(* slots, the lwIP callbacks that fill and free them, keep-alive, and      *)
(* requests that arrive in pieces, too large, or while an answer is still  *)
(* on its way.  A request is one segment or two, an answer two writes, its *)
(* header and its body, each acknowledged by itself; lwIP can refuse       *)
(* either.  What the request asks for is left out.                         *)
(*                                                                         *)
(* lwIP is external: it calls the callbacks from Core 0's loop, one at a   *)
(* time.  While no receive callback is set it drops data and answers a FIN *)
(* by closing the connection itself, without telling the program.          *)
(* The operators named Mut... are seeded bugs that show that a property    *)
(* notices.                                                                *)
(***************************************************************************)
EXTENDS Integers, Sequences

CONSTANTS
    Clients,
    SlotCount,            \* HTTP_CONN_COUNT
    PollMax,              \* polls before a stuck answer is given up (8)
    MaxSends, MaxRefused  \* bounds: segments sent, writes lwIP refuses

ASSUME ConnAssumption ==
    SlotCount \in Nat \ {0} /\ PollMax \in Nat /\ MaxSends \in Nat /\ MaxRefused \in Nat

VARIABLES
    slots,      \* g_http_conns
    pcb,        \* client -> its connection in lwIP
    inbox,      \* client -> segments lwIP has not delivered yet
    due,        \* client -> what it knows of its last request: "waiting" while it may expect
                \*   an answer, "over" when it has one or was hung up on, "piped" when it sent
                \*   before its answer came, "unanswered" when lwIP refused the answer
    cut,        \* slots whose connection lwIP closed by itself
    sends, refusals

vars == <<slots, pcb, inbox, due, cut, sends, refusals>>

Slots   == 1 .. SlotCount
NoSlot  == 0
Free    == [inUse |-> FALSE, pend |-> FALSE, keep |-> FALSE, polls |-> 0, flight |-> 0,
            buf |-> "empty"]
NoPcb   == [st |-> "none", arg |-> NoSlot, recv |-> FALSE, queued |-> 0]

\* A client sends part of a request, the (rest of a) request with or without keep-alive, a
\* request that is refused unread, or the end of its stream.
Segments == {"part", "keep", "once", "bad", "fin"}
Requests == {"keep", "once", "bad"}

(***************************************************************************)
(* Accepting and closing.                                                  *)
(***************************************************************************)
\* http_accept and http_conn_alloc; with no slot free the client gets 503 and an abort.
Accept(c) ==
    /\ pcb[c].st = "none" /\ inbox[c] = <<>> /\ due[c] # "waiting"
    /\ sends < MaxSends /\ sends' = sends + 1
    /\ \E s \in Slots :
        /\ ~slots[s].inUse /\ \A r \in Slots : r < s => slots[r].inUse
        /\ slots' = [slots EXCEPT ![s] = [Free EXCEPT !.inUse = TRUE]]
        /\ pcb' = [pcb EXCEPT ![c] = [st |-> "open", arg |-> s, recv |-> TRUE, queued |-> 0]]
        /\ cut' = cut \ {s}
    /\ due' = [due EXCEPT ![c] = "none"]
    /\ UNCHANGED <<inbox, refusals>>

Refuse(c) ==
    /\ pcb[c].st = "none" /\ inbox[c] = <<>> /\ due[c] # "waiting"
    /\ sends < MaxSends /\ sends' = sends + 1
    /\ \A s \in Slots : slots[s].inUse
    /\ due' = [due EXCEPT ![c] = "over"]
    /\ UNCHANGED <<slots, pcb, inbox, cut, refusals>>

\* A client learns that its request was answered or that its connection has ended.
Told(c) == due' = [due EXCEPT ![c] = IF @ = "waiting" THEN "over" ELSE @]

\* lwIP took n of the answer's two writes; an answer in part is none.
Answered(c, n) == due' = [due EXCEPT ![c] = IF n < 2 /\ @ = "waiting" THEN "unanswered" ELSE @]

MutClosedPcb(c) == [pcb EXCEPT ![c].recv = FALSE]

\* The connection after http_close_conn: no callback reaches the program again.
ClosedPcb(c) == [pcb EXCEPT ![c] = NoPcb]

\* http_close_conn
Close(c, s) ==
    /\ slots' = [slots EXCEPT ![s].inUse = FALSE]
    /\ pcb' = ClosedPcb(c)
    /\ inbox' = [inbox EXCEPT ![c] = <<>>]
    /\ Told(c)
    /\ UNCHANGED <<cut, refusals>>

(***************************************************************************)
(* Receiving (http_recv).                                                  *)
(***************************************************************************)
\* lwIP takes n of an answer's two writes.
Writes(n) == IF n = 2 THEN UNCHANGED refusals ELSE refusals < MaxRefused /\ refusals' = refusals + 1

\* A request refused unread: 400 or 413.  http_respond says 0 when either write is refused.
AnswerBad(c, s, n) ==
    /\ Writes(n)
    /\ slots' = [slots EXCEPT ![s].flight = IF n = 2 THEN 2 ELSE 0, ![s].pend = TRUE, ![s].polls = 0]
    /\ pcb' = [pcb EXCEPT ![c].recv = FALSE, ![c].queued = n]
    /\ Answered(c, n)
    /\ UNCHANGED cut

MutEmptied(b) == b

\* The receive buffer when the connection is made ready for its next request.
Emptied(b) == "empty"

\* A complete request: dispatch, then the connection closes, is ready again, or waits for the
\* answer to be acknowledged, with the receive callback taken away.
Dispatch(c, s, keep, n) ==
    /\ Writes(n)
    /\ LET ready == n = 0 /\ keep IN
       IF n = 0 /\ ~keep
       THEN slots' = [slots EXCEPT ![s].inUse = FALSE] /\ pcb' = ClosedPcb(c)
       ELSE /\ slots' = [slots EXCEPT ![s] = [@ EXCEPT !.flight = n, !.keep = keep, !.pend = ~keep,
                              !.polls = 0, !.buf = IF ready THEN Emptied("whole") ELSE "whole"]]
            /\ pcb' = [pcb EXCEPT ![c].recv = ready, ![c].queued = n]
    /\ inbox' = [inbox EXCEPT ![c] = IF n = 0 /\ ~keep THEN <<>> ELSE Tail(@)]
    /\ Answered(c, n)
    /\ UNCHANGED cut

\* lwIP delivers a segment to http_recv.
Receive(c) ==
    /\ pcb[c].recv /\ inbox[c] # <<>>
    /\ LET s == pcb[c].arg  seg == Head(inbox[c])  rest == [inbox EXCEPT ![c] = Tail(@)] IN
       \/ seg = "fin" /\ Close(c, s)
       \/ /\ seg = "part" /\ slots' = [slots EXCEPT ![s].buf = "part"] /\ inbox' = rest
          /\ UNCHANGED <<pcb, due, cut, refusals>>
       \/ seg = "bad" /\ (\E n \in 0 .. 2 : AnswerBad(c, s, n)) /\ inbox' = rest
       \/ seg \in {"keep", "once"} /\ \E n \in 0 .. 2 : Dispatch(c, s, seg = "keep", n)
    /\ UNCHANGED sends

\* The same with no receive callback set: lwIP's tcp_recv_null.
Drop(c) ==
    /\ pcb[c].st = "open" /\ ~pcb[c].recv /\ inbox[c] # <<>>
    /\ inbox' = [inbox EXCEPT ![c] = Tail(@)]
    /\ IF Head(inbox[c]) = "fin"
       THEN pcb' = [pcb EXCEPT ![c].st = "closing"] /\ cut' = cut \cup {pcb[c].arg}
       ELSE UNCHANGED <<pcb, cut>>
    /\ UNCHANGED <<slots, due, sends, refusals>>

(***************************************************************************)
(* Sending, polling, errors.                                               *)
(***************************************************************************)
\* What is left in flight when one write is acknowledged.  A refused answer that was queued in
\* part counts as nothing in flight.
MutLeft(s) == (slots[s].flight - 1) % 65536

Left(s) == IF slots[s].flight > 1 THEN slots[s].flight - 1 ELSE 0

\* http_sent: the client acknowledged one write.
MutReady(s) == slots[s].keep /\ slots[s].flight = 0

Ready(s) == slots[s].keep /\ Left(s) = 0

Sent(c) ==
    /\ pcb[c].queued > 0
    /\ LET s == pcb[c].arg IN
       IF slots[s].pend /\ Left(s) = 0
       THEN Close(c, s)
       ELSE /\ slots' = [slots EXCEPT ![s].flight = Left(s), ![s].buf = IF Ready(s) THEN Emptied(@) ELSE @]
            /\ pcb' = [pcb EXCEPT ![c].queued = @ - 1, ![c].recv = Ready(s) \/ @]
            /\ IF pcb[c].queued = 1 THEN Told(c) ELSE UNCHANGED due
            /\ UNCHANGED <<inbox, cut, refusals>>
    /\ UNCHANGED sends

\* What makes http_poll close a connection that is to be closed.
GivesUp(s) == slots[s].flight = 0 \/ slots[s].polls >= PollMax

\* http_poll
Poll(c) ==
    /\ pcb[c].st # "none" /\ slots[pcb[c].arg].pend
    /\ LET s == pcb[c].arg IN
       IF GivesUp(s) THEN Close(c, s)
       ELSE /\ slots' = [slots EXCEPT ![s].polls = @ + 1]
            /\ UNCHANGED <<pcb, inbox, due, cut, refusals>>
    /\ UNCHANGED sends

\* The connection is reset, or given up by lwIP after retransmissions: http_err.
Reset(c) ==
    /\ pcb[c].st # "none"
    /\ slots' = [slots EXCEPT ![pcb[c].arg].inUse = FALSE]
    /\ pcb' = [pcb EXCEPT ![c] = NoPcb]
    /\ inbox' = [inbox EXCEPT ![c] = <<>>]
    /\ Told(c)
    /\ UNCHANGED <<cut, sends, refusals>>

\* The client acknowledged the FIN of a connection lwIP closed by itself.
Vanish(c) ==
    /\ pcb[c].st = "closing" /\ pcb[c].queued = 0
    /\ pcb' = [pcb EXCEPT ![c] = NoPcb]
    /\ Told(c)
    /\ UNCHANGED <<slots, inbox, cut, sends, refusals>>

(***************************************************************************)
(* Clients.                                                                *)
(***************************************************************************)
Send(c, seg) ==
    /\ pcb[c].st = "open" /\ Len(inbox[c]) < 2
    /\ \A i \in 1 .. Len(inbox[c]) : inbox[c][i] # "fin"
    /\ sends < MaxSends /\ sends' = sends + 1
    /\ inbox' = [inbox EXCEPT ![c] = Append(@, seg)]
    /\ due' = [due EXCEPT ![c] = IF @ = "waiting" /\ seg # "fin" THEN "piped"
                                 ELSE IF @ \in {"none", "over"} /\ seg \in Requests THEN "waiting" ELSE @]
    /\ UNCHANGED <<slots, pcb, cut, refusals>>

Init ==
    /\ slots = [s \in Slots |-> Free] /\ pcb = [c \in Clients |-> NoPcb]
    /\ inbox = [c \in Clients |-> <<>>] /\ due = [c \in Clients |-> "none"]
    /\ cut = {} /\ sends = 0 /\ refusals = 0

Lwip(c) == Receive(c) \/ Drop(c) \/ Sent(c) \/ Poll(c) \/ Vanish(c)

Next == \E c \in Clients :
    \/ Lwip(c) \/ Accept(c) \/ Refuse(c) \/ Reset(c)
    \/ \E seg \in Segments : Send(c, seg)

\* lwIP runs from the loop of net_core.c: what arrived is delivered, timers run, and a peer
\* that is there acknowledges what it received.  Clients promise nothing.
Fairness == \A c \in Clients :
    WF_vars(Receive(c)) /\ WF_vars(Drop(c)) /\ WF_vars(Sent(c)) /\ WF_vars(Poll(c)) /\ WF_vars(Vanish(c))

Spec == Init /\ [][Next]_vars /\ Fairness

-----------------------------------------------------------------------------
(***************************************************************************)
(* Properties.                                                             *)
(***************************************************************************)
\* The bytes in flight of an answer never wrap below zero, whatever lwIP acknowledges or
\* refuses, and the poll counter stops at its limit (http_sent, http_poll).
TypeOK ==
    /\ slots \in [Slots -> [inUse : BOOLEAN, pend : BOOLEAN, keep : BOOLEAN, polls : 0 .. PollMax,
                            flight : 0 .. 2, buf : {"empty", "part", "whole"}]]
    /\ pcb \in [Clients -> [st : {"none", "open", "closing"}, arg : Slots \cup {NoSlot},
                            recv : BOOLEAN, queued : 0 .. 2]]
    /\ \A c \in Clients : \A i \in 1 .. Len(inbox[c]) : inbox[c][i] \in Segments
    /\ due \in [Clients -> {"none", "waiting", "over", "piped", "unanswered"}]
    /\ cut \subseteq Slots /\ sends \in 0 .. MaxSends /\ refusals \in 0 .. MaxRefused

Live(c) == pcb[c].st # "none"

\* Through accepts, closes, resets and polls two connections never share a slot, a connection
\* lwIP can still call back about has its slot in use, and a slot in use has its connection:
\* none is lost, except to a FIN that arrives while the receive callback is taken away.
SlotHasOwner ==
    /\ \A c, d \in Clients : Live(c) /\ Live(d) /\ c # d => pcb[c].arg # pcb[d].arg
    /\ \A c \in Clients : Live(c) => slots[pcb[c].arg].inUse
    /\ \A s \in Slots \ cut : slots[s].inUse => \E c \in Clients : Live(c) /\ pcb[c].arg = s

\* A connection that listens never has an answered request in its buffer: the next segment
\* would be appended behind it and the old request dispatched, and its writes applied, again.
NoRequestTwice ==
    \A c \in Clients : Live(c) /\ pcb[c].recv => slots[pcb[c].arg].buf # "whole"

\* A client that sends one request at a time gets its answer or is hung up on, over any number
\* of requests on one connection, unless lwIP refused a write of an answer on it.
RequestAnswered == \A c \in Clients : due[c] = "waiting" ~> due[c] # "waiting"
=============================================================================
