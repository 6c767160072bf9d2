----------------------------- MODULE UpdateProofs -----------------------------
(***************************************************************************)
(* The hand-over of the flash from Core 1 to Core 0 (ota_commit_from_sd,   *)
(* the halt branch of wal_engine_run) proved for every number of uploads,  *)
(* every image and every size of the staging area; and that what is        *)
(* flashed is the image of one upload.                                     *)
(***************************************************************************)
EXTENDS Update, TLAPS

-----------------------------------------------------------------------------
(***************************************************************************)
(* FlashWrittenAlone.  It is not inductive: that Core 1 stays parked needs *)
(* that the flag it raised was raised for the request now under way, which *)
(* holds because only a restart, of both cores, takes it down.             *)
(***************************************************************************)
\* The flag and its answer: Core 0 asks from the commit to the restart, Core 1
\* answers only when asked and stands still once it has.
HandOver ==
    /\ halt <=> core0 \in {"park", "copy"}
    /\ halted => halt /\ core1 = "parked"
    /\ core0 = "copy" /\ ~late => halted

\* At power-on nothing is asked.
LEMMA HandOverInit == Init => HandOver
BY DEF Init, HandOver

\* A restart takes the request and the answer down together.
LEMMA HandOverRestart ==
    ASSUME NEW c0 \in {"run", "off"}, Restart(c0)
    PROVE  HandOver'
BY DEF Restart, HandOver

\* Every step keeps the request and the answer matched.
LEMMA HandOverStep == HandOver /\ [Next]_vars => HandOver'
<1> SUFFICES ASSUME HandOver, [Next]_vars PROVE HandOver'
  OBVIOUS
<1>1. ASSUME NEW u \in Uploads, Start(u) \/ Send(u) \/ TimesOut(u) PROVE HandOver'
  <2>1. CASE Start(u)
    BY <2>1 DEF Start, device, HandOver
  <2>2. CASE Send(u)
    BY <2>2 DEF Send, device, HandOver
  <2>3. CASE TimesOut(u)
    BY <2>3 DEF TimesOut, device, HandOver
  <2> QED
    BY <1>1, <2>1, <2>2, <2>3
<1>2. ASSUME NEW m \in wire, Handle(m) PROVE HandOver'
  <2>1. UNCHANGED <<core1, halted>> /\ core0 = "run"
    BY <1>2 DEF Handle
  <2>2. CASE UNCHANGED <<core0, halt, late>>
    BY <2>1, <2>2 DEF HandOver
  <2>3. CASE Commit(m)
    BY <2>1, <2>3 DEF Commit, HandOver
  <2> QED
    BY <1>2, <2>2, <2>3 DEF Handle
<1>3. CASE Parked
  BY <1>3 DEF Parked, HandOver
<1>4. CASE Copy
  <2>1. CASE LastSector
    BY <1>4, <2>1, HandOverRestart DEF Copy
  <2>2. CASE ~LastSector
    BY <1>4, <2>2 DEF Copy, HandOver
  <2> QED
    BY <2>1, <2>2
<1>5. CASE Cut
  BY <1>5, HandOverRestart DEF Cut
<1>6. CASE Park
  BY <1>6 DEF Park, AtTop, HandOver
<1>7. CASE Work
  BY <1>7 DEF Work, HandOver
<1>8. CASE UNCHANGED vars
  BY <1>8 DEF vars, device, HandOver
<1> QED
  BY <1>1, <1>2, <1>3, <1>4, <1>5, <1>6, <1>7, <1>8 DEF Next

\* The copy of ota_commit_from_sd runs while Core 1 stands in its halt loop, unless the
\* two seconds of the wait ran out.
THEOREM WrittenAlone == Spec => []FlashWrittenAlone
<1>1. HandOver => FlashWrittenAlone
  BY DEF HandOver, FlashWrittenAlone
<1> QED
  BY HandOverInit, HandOverStep, <1>1, PTL DEF Spec

-----------------------------------------------------------------------------
(***************************************************************************)
(* FlashedIsOneUpload.  A chunk does not say where it belongs, so that the *)
(* staged chunks are those of one image in order rests on what the         *)
(* uploaders have on the wire and on who owns the upload under way.        *)
(***************************************************************************)
Clients == [pc : {"idle", "begin", "chunk", "commit", "done"}, next : Nat, left : Nat,
            waits : BOOLEAN, sent : Nat]
Requests == [from : Uploads, op : {"begin", "chunk", "commit"}, cell : Uploads \X Nat, n : Nat]

Typed == TypeOK /\ up \in [Uploads -> Clients] /\ wire \subseteq Requests

\* How far an uploader is.
Reached(u, c) ==
    /\ c.pc = "idle" => c.sent = 0
    /\ c.pc \in {"idle", "begin"} => c.next = 1
    /\ c.pc = "begin" => c.sent = IF c.waits THEN 1 ELSE 0
    /\ c.pc = "chunk" => c.next \in 1 .. Size[u]
    /\ c.pc = "commit" => c.next = Size[u] + 1
    /\ c.waits => c.pc \in {"begin", "chunk", "commit"}

\* A request on its way was sent by an uploader that came that far, and the one
\* whose answer it waits for asks for the step it is at.
Sent(m, c) ==
    /\ m.n \in 1 .. c.sent
    /\ m.op = "begin" => /\ c.pc \in {"begin", "done"} /\ c.next = 1
                         /\ m.n = 1 /\ m.cell = <<m.from, 1>>
    /\ m.op = "chunk" => /\ c.pc \in {"chunk", "commit", "done"}
                         /\ m.cell[1] = m.from /\ m.cell[2] \in 1 .. Size[m.from] /\ m.cell[2] <= c.next
    /\ m.op = "commit" => c.pc \in {"commit", "done"} /\ c.next = Size[m.from] + 1
    /\ c.waits /\ m.n = c.sent => m.op = c.pc /\ (m.op = "chunk" => m.cell[2] = c.next)

Uploading ==
    /\ \A u \in Uploads : Reached(u, up[u])
    /\ \A m \in wire : Sent(m, up[m.from])

\* Past its begin, or with a request past it on its way.
Begun(u) == up[u].pc \in {"chunk", "commit"} \/ \E m \in wire : m.from = u /\ m.op # "begin"

\* An uploader that got past its begin since the restart owns the upload, or was ended.
Owned ==
    core0 = "run" =>
        \A u \in session : /\ up[u].pc # "idle"
                           /\ Begun(u) => u \in ended \/ (ota.active /\ ota.owner = u)

\* An upload under way has an owner.
HasOwner == ota.active => ota.owner \in Uploads

\* The first off chunks staged are those of u.
Staged(u) == \A k \in 1 .. ota.off : sd[k] = <<u, k>>

\* While nothing went wrong the owner's chunks are staged in order, and all it was answered are.
InOrder ==
    core0 = "run" /\ ota.active /\ excuse = {} =>
        /\ Staged(ota.owner)
        /\ ota.off <= Size[ota.owner] /\ up[ota.owner].next <= ota.off + 1

\* What is copied is one image, and the sectors before pos hold it.
Copying ==
    /\ core0 \in {"park", "copy"} /\ ~tainted => \E u \in Uploads : Staged(u) /\ ota.off = Size[u]
    /\ core0 = "copy" /\ ~tainted =>
           /\ pos <= ota.off
           /\ \A k \in 2 .. ota.off : pos = 1 \/ k < pos => flash[k] = sd[k]

IInv == Typed /\ Uploading /\ Owned /\ HasOwner /\ InOrder /\ Copying /\ FlashedIsOneUpload

\* The constants are sizes.
LEMMA Sizes ==
    /\ SlotSize \in Nat \ {0} /\ Size \in [Uploads -> Nat \ {0}] /\ Tries \in [Uploads -> Nat \ {0}]
BY UpdateAssumption

-----------------------------------------------------------------------------
(***************************************************************************)
(* What an answer, or its absence, does to an uploader.                    *)
(***************************************************************************)
\* d is what c becomes after an answer (or none) in the upload u.
Advanced(u, c, d, ok) ==
    /\ d.waits = FALSE /\ d.sent = c.sent
    /\ \/ d.pc = "done" /\ d.next = c.next
       \/ c.pc = "chunk" /\ d.pc = "chunk" /\ d.next = c.next
       \/ ok /\ c.pc = "begin" /\ d.pc = "chunk" /\ d.next = c.next
       \/ /\ ok /\ c.pc = "chunk" /\ d.next = c.next + 1
          /\ d.pc = IF c.next = Size[u] THEN "commit" ELSE "chunk"

\* The uploaders' next step is one of those.
LEMMA ProceedAdvances ==
    ASSUME NEW u \in Uploads, up \in [Uploads -> Clients], Reached(u, up[u]), up[u].waits,
           NEW ok \in BOOLEAN
    PROVE  /\ Proceed(u, ok) \in Clients
           /\ Advanced(u, up[u], Proceed(u, ok), ok)
           /\ Reached(u, Proceed(u, ok))
<1> DEFINE c == up[u]
<1>1. c \in Clients /\ c.next \in Nat /\ c.left \in Nat /\ c.sent \in Nat
  BY DEF Clients
<1>2. Size[u] \in Nat \ {0} /\ Tries[u] \in Nat
  BY Sizes
<1>3. CASE ok /\ c.pc = "begin"
  <2>1. Proceed(u, ok) = Client("chunk", c.next, c.left, FALSE, c.sent)
    BY <1>3 DEF Proceed
  <2> QED
    BY <2>1, <1>1, <1>2, <1>3 DEF Client, Clients, Advanced, Reached
<1>4. CASE ok /\ c.pc = "chunk"
  <2>1. Proceed(u, ok) =
          Client(IF c.next = Size[u] THEN "commit" ELSE "chunk", c.next + 1, Tries[u], FALSE, c.sent)
    BY <1>4 DEF Proceed
  <2> QED
    BY <2>1, <1>1, <1>2, <1>4 DEF Client, Clients, Advanced, Reached
<1>5. CASE ~ok /\ c.pc = "chunk" /\ c.left > 1
  <2>1. Proceed(u, ok) = Client("chunk", c.next, c.left - 1, FALSE, c.sent)
    BY <1>5 DEF Proceed
  <2> QED
    BY <2>1, <1>1, <1>2, <1>5 DEF Client, Clients, Advanced, Reached
<1>6. CASE ~(ok /\ c.pc \in {"begin", "chunk"}) /\ ~(~ok /\ c.pc = "chunk" /\ c.left > 1)
  <2>1. Proceed(u, ok) = Client("done", c.next, c.left, FALSE, c.sent)
    BY <1>6 DEF Proceed
  <2> QED
    BY <2>1, <1>1, <1>2, <1>6 DEF Client, Clients, Advanced, Reached
<1> QED
  BY <1>3, <1>4, <1>5, <1>6

\* The requests still on their way remain ones it sent.
LEMMA AdvancedSent ==
    ASSUME NEW u \in Uploads, NEW c \in Clients, NEW d \in Clients, NEW ok \in BOOLEAN,
           Advanced(u, c, d, ok), c.waits, Reached(u, c),
           NEW m \in Requests, m.from = u, Sent(m, c), ok /\ c.pc = "begin" => m.op # "begin"
    PROVE  Sent(m, d)
<1>1. c.next \in Nat /\ c.sent \in Nat /\ m.cell[2] \in Nat /\ Size[u] \in Nat
  BY Sizes DEF Clients, Requests
<1> QED
  BY <1>1 DEF Advanced, Reached, Sent

\* A request is answered.
LEMMA AnswerKeeps ==
    ASSUME Typed, Uploading, NEW m \in wire, NEW ok \in BOOLEAN, Answer(m, ok)
    PROVE  /\ up' \in [Uploads -> Clients] /\ wire' \subseteq wire /\ m \notin wire'
           /\ Uploading'
           /\ \A u \in Uploads :
                  \/ up'[u] = up[u]
                  \/ /\ u = m.from /\ up[u].waits /\ up[u].sent = m.n
                     /\ Advanced(u, up[u], up'[u], ok)
<1>1. up \in [Uploads -> Clients] /\ m \in Requests /\ m.from \in Uploads /\ wire \subseteq Requests
  BY DEF Typed, Requests
<1>2. wire' = wire \ {m}
  BY DEF Answer
<1>3. CASE ~(up[m.from].waits /\ up[m.from].sent = m.n)
  <2>1. up' = up
    BY <1>3 DEF Answer
  <2>2. Uploading'
    BY <1>2, <2>1 DEF Uploading
  <2> QED
    BY <1>1, <1>2, <2>1, <2>2
<1>4. CASE up[m.from].waits /\ up[m.from].sent = m.n
  <2> DEFINE w == m.from
             d == Proceed(w, ok)
  <2>1. up' = [up EXCEPT ![w] = d]
    BY <1>4 DEF Answer
  <2>2. Reached(w, up[w]) /\ Sent(m, up[w])
    BY <1>1 DEF Uploading
  <2>3. d \in Clients /\ Advanced(w, up[w], d, ok) /\ Reached(w, d)
    BY <1>1, <1>4, <2>2, ProceedAdvances
  <2> HIDE DEF d
  <2>4. \A u \in Uploads : up'[u] = IF u = w THEN d ELSE up[u]
    BY <1>1, <2>1
  <2>5. \A u \in Uploads : Reached(u, up'[u])
    BY <2>3, <2>4 DEF Uploading
  <2>6. ASSUME NEW r \in wire' PROVE Sent(r, up'[r.from])
    <3>1. r \in Requests /\ r \in wire /\ r # m /\ r.from \in Uploads /\ Sent(r, up[r.from])
      BY <1>1, <1>2 DEF Requests, Uploading
    <3>2. CASE r.from # w
      BY <2>4, <3>1, <3>2
    <3>3. CASE r.from = w
      <4>1. ok /\ up[w].pc = "begin" => r.op # "begin"
        <5> SUFFICES ASSUME up[w].pc = "begin", r.op = "begin" PROVE FALSE
          OBVIOUS
        <5>1. m.op = "begin"
          BY <1>4, <2>2 DEF Sent
        <5>2. m.n = 1 /\ m.cell = <<w, 1>> /\ r.n = 1 /\ r.cell = <<w, 1>>
          BY <2>2, <3>1, <3>3, <5>1 DEF Sent
        <5> QED
          BY <1>1, <3>1, <3>3, <5>1, <5>2 DEF Requests
      <4>2. up[w] \in Clients
        BY <1>1
      <4>3. Sent(r, d)
        BY <1>1, <1>4, <2>2, <2>3, <3>1, <3>3, <4>1, <4>2, AdvancedSent
      <4> QED
        BY <1>1, <2>4, <3>3, <4>3
    <3> QED
      BY <3>2, <3>3
  <2>7. Uploading'
    BY <2>5, <2>6 DEF Uploading
  <2>8. up' \in [Uploads -> Clients]
    BY <1>1, <2>1, <2>3
  <2>9. \A u \in Uploads : up'[u] = up[u] \/ (u = w /\ Advanced(u, up[u], up'[u], ok))
    BY <2>3, <2>4
  <2> QED
    BY <1>2, <1>4, <2>7, <2>8, <2>9
<1> QED
  BY <1>3, <1>4

\* An answer brings no uploader past its begin but one whose begin succeeds.
LEMMA AnswerBegun ==
    ASSUME Typed, Uploading, NEW m \in wire, NEW ok \in BOOLEAN, Answer(m, ok),
           NEW u \in Uploads, Begun(u)'
    PROVE  Begun(u) \/ (ok /\ u = m.from /\ m.op = "begin")
<1>1. /\ wire' \subseteq wire
      /\ \/ up'[u] = up[u]
         \/ /\ u = m.from /\ up[u].waits /\ up[u].sent = m.n
            /\ Advanced(u, up[u], up'[u], ok)
  BY AnswerKeeps
<1>2. CASE \E r \in wire' : r.from = u /\ r.op # "begin"
  BY <1>1, <1>2 DEF Begun
<1>3. CASE up'[u].pc \in {"chunk", "commit"}
  <2>1. CASE up'[u] = up[u]
    BY <1>3, <2>1 DEF Begun
  <2>2. CASE /\ u = m.from /\ up[u].waits /\ up[u].sent = m.n
             /\ Advanced(u, up[u], up'[u], ok)
    <3>1. Sent(m, up[u])
      BY <2>2 DEF Uploading
    <3>2. up[u].pc = "chunk" \/ (ok /\ up[u].pc = "begin")
      BY <1>3, <2>2 DEF Advanced
    <3>3. m.op = up[u].pc
      BY <2>2, <3>1 DEF Sent
    <3> QED
      BY <2>2, <3>2, <3>3 DEF Begun
  <2> QED
    BY <1>1, <2>1, <2>2
<1> QED
  BY <1>2, <1>3 DEF Begun

-----------------------------------------------------------------------------
(***************************************************************************)
(* The steps of the uploaders.                                             *)
(***************************************************************************)
\* What the device's own variables alone decide.
LEMMA DeviceSame ==
    ASSUME IInv, UNCHANGED device
    PROVE  TypeOK' <=> (session' \subseteq Uploads /\ \A m \in wire' :
                          m.from \in Uploads /\ m.op \in {"begin", "chunk", "commit"} /\ m.cell \in Contents)
BY DEF IInv, Typed, TypeOK, device

LEMMA DeviceSameFlash ==
    ASSUME IInv, UNCHANGED device
    PROVE  Copying' /\ FlashedIsOneUpload' /\ HasOwner'
<1>1. Copying'
  BY DEF IInv, Copying, Staged, device
<1>2. FlashedIsOneUpload'
  BY DEF IInv, FlashedIsOneUpload, Holds, device
<1>3. HasOwner'
  BY DEF IInv, HasOwner, device
<1> QED
  BY <1>1, <1>2, <1>3

LEMMA RequestIsTyped ==
    ASSUME NEW m \in Requests
    PROVE  m.from \in Uploads /\ m.op \in {"begin", "chunk", "commit"} /\ m.cell \in Contents
BY DEF Requests, Contents

\* The upload starts with a log-in.
LEMMA StartKeeps ==
    ASSUME IInv, NEW u \in Uploads, Start(u)
    PROVE  IInv'
<1>1. up \in [Uploads -> Clients] /\ wire \subseteq Requests /\ session \subseteq Uploads
  BY DEF IInv, Typed, TypeOK
<1>2. up[u] \in Clients /\ up[u].pc = "idle" /\ Reached(u, up[u])
  BY <1>1 DEF Start, IInv, Uploading
<1> DEFINE d == Client("begin", up[u].next, up[u].left, FALSE, up[u].sent)
<1>3. d \in Clients /\ d.pc = "begin" /\ d.next = up[u].next /\ d.sent = 0 /\ Reached(u, d)
  BY <1>2 DEF Client, Clients, Reached
<1>4. UNCHANGED <<device, wire>> /\ up' = [up EXCEPT ![u] = d] /\ session' = session \cup {u}
  BY DEF Start
<1> HIDE DEF d
<1>5. \A r \in wire : r.from # u
  <2> SUFFICES ASSUME NEW r \in wire, r.from = u PROVE FALSE
    OBVIOUS
  <2>1. Sent(r, up[u])
    BY DEF IInv, Uploading
  <2>2. up[u].sent = 0
    BY <1>2 DEF Reached
  <2> QED
    BY <2>1, <2>2 DEF Sent
<1>6. \A x \in Uploads : up'[x] = IF x = u THEN d ELSE up[x]
  BY <1>1, <1>4
<1>7. Typed'
  <2>1. up' \in [Uploads -> Clients]
    BY <1>1, <1>3, <1>4
  <2>2. TypeOK'
    BY <1>1, <1>4, DeviceSame, RequestIsTyped
  <2> QED
    BY <1>1, <1>4, <2>1, <2>2 DEF Typed
<1>8. Uploading'
  <2>1. \A x \in Uploads : Reached(x, up'[x])
    BY <1>3, <1>6 DEF IInv, Uploading
  <2>2. \A r \in wire' : Sent(r, up'[r.from])
    BY <1>1, <1>4, <1>5, <1>6 DEF IInv, Uploading, Requests
  <2> QED
    BY <2>1, <2>2 DEF Uploading
<1>9. Owned'
  <2> SUFFICES ASSUME core0' = "run", NEW x \in session'
               PROVE  up'[x].pc # "idle" /\ (Begun(x)' => x \in ended' \/ (ota'.active /\ ota'.owner = x))
    BY DEF Owned
  <2>1. CASE x = u
    BY <1>3, <1>4, <1>5, <1>6, <2>1 DEF Begun
  <2>2. CASE x # u
    <3>1. x \in session /\ x \in Uploads /\ up'[x] = up[x]
      BY <1>1, <1>4, <1>6, <2>2
    <3> QED
      BY <1>4, <3>1 DEF IInv, Owned, Begun, device
  <2> QED
    BY <2>1, <2>2
<1>10. InOrder'
  <2>1. \A x \in Uploads : up'[x].next = up[x].next
    BY <1>3, <1>6
  <2> QED
    BY <1>4, <2>1 DEF IInv, InOrder, Staged, device
<1> QED
  BY <1>4, <1>7, <1>8, <1>9, <1>10, DeviceSameFlash DEF IInv

\* A request is put on the wire.
LEMMA SendKeeps ==
    ASSUME IInv, NEW u \in Uploads, Send(u)
    PROVE  IInv'
<1>1. up \in [Uploads -> Clients] /\ wire \subseteq Requests /\ session \subseteq Uploads
  BY DEF IInv, Typed, TypeOK
<1> DEFINE c == up[u]
           d == Client(c.pc, c.next, c.left, TRUE, c.sent + 1)
           m == [from |-> u, op |-> c.pc, cell |-> <<u, c.next>>, n |-> c.sent + 1]
<1>2. c \in Clients /\ c.pc \in {"begin", "chunk", "commit"} /\ ~c.waits /\ Reached(u, c)
  BY <1>1 DEF Send, IInv, Uploading
<1>3. d \in Clients /\ d.pc = c.pc /\ d.next = c.next /\ d.waits = TRUE /\ d.sent = c.sent + 1 /\ Reached(u, d)
  BY <1>2 DEF Client, Clients, Reached
<1>4. UNCHANGED <<device, session>> /\ up' = [up EXCEPT ![u] = d] /\ wire' = wire \cup {m}
  BY DEF Send
<1>5. m \in Requests /\ m.from = u /\ m.op = c.pc /\ m.cell = <<u, c.next>> /\ m.n = c.sent + 1
  BY <1>2 DEF Requests, Clients
<1> HIDE DEF d, m, c
<1>6. Sent(m, d)
  <2>1. c.next \in Nat /\ c.sent \in Nat /\ m.cell[1] = u /\ m.cell[2] = c.next /\ Size[u] \in Nat
    BY <1>2, <1>5, Sizes DEF Clients
  <2> QED
    BY <1>2, <1>3, <1>5, <2>1 DEF Sent, Reached
<1>7. \A x \in Uploads : up'[x] = IF x = u THEN d ELSE up[x]
  BY <1>1, <1>4
<1>8. Typed'
  <2>1. up' \in [Uploads -> Clients]
    BY <1>1, <1>3, <1>4
  <2>2. wire' \subseteq Requests
    BY <1>1, <1>4, <1>5
  <2>3. TypeOK'
    BY <1>1, <1>4, <2>2, DeviceSame, RequestIsTyped
  <2> QED
    BY <2>1, <2>2, <2>3 DEF Typed
<1>9. Uploading'
  <2>1. \A x \in Uploads : Reached(x, up'[x])
    BY <1>3, <1>7 DEF IInv, Uploading
  <2>2. ASSUME NEW r \in wire PROVE Sent(r, up'[r.from])
    <3>1. r \in Requests /\ r.from \in Uploads /\ Sent(r, up[r.from])
      BY <1>1 DEF IInv, Uploading, Requests
    <3>2. CASE r.from = u
      <4>1. Sent(r, c)
        BY <3>1, <3>2 DEF c
      <4>2. c.sent \in Nat /\ r.n \in Nat
        BY <1>2, <3>1 DEF Clients, Requests
      <4>3. Sent(r, d)
        BY <1>3, <4>1, <4>2 DEF Sent
      <4> QED
        BY <1>7, <3>2, <4>3
    <3>3. CASE r.from # u
      BY <1>7, <3>1, <3>3
    <3> QED
      BY <3>2, <3>3
  <2>3. Sent(m, up'[m.from])
    BY <1>5, <1>6, <1>7
  <2> QED
    BY <1>4, <2>1, <2>2, <2>3 DEF Uploading
<1>10. Owned'
  <2> SUFFICES ASSUME core0' = "run", NEW x \in session'
               PROVE  up'[x].pc # "idle" /\ (Begun(x)' => x \in ended' \/ (ota'.active /\ ota'.owner = x))
    BY DEF Owned
  <2>1. x \in session /\ x \in Uploads /\ up'[x].pc = up[x].pc
    BY <1>1, <1>3, <1>4, <1>7 DEF c
  <2>2. Begun(x)' => Begun(x)
    BY <1>2, <1>4, <1>5, <2>1 DEF Begun, c
  <2> QED
    BY <1>4, <2>1, <2>2 DEF IInv, Owned, device
<1>11. InOrder'
  <2>1. \A x \in Uploads : up'[x].next = up[x].next
    BY <1>3, <1>7 DEF c
  <2> QED
    BY <1>4, <2>1 DEF IInv, InOrder, Staged, device
<1> QED
  BY <1>4, <1>8, <1>9, <1>10, <1>11, DeviceSameFlash DEF IInv

\* An answer does not come in time.
LEMMA TimesOutKeeps ==
    ASSUME IInv, NEW u \in Uploads, TimesOut(u)
    PROVE  IInv'
<1>1. up \in [Uploads -> Clients] /\ wire \subseteq Requests /\ session \subseteq Uploads
  BY DEF IInv, Typed, TypeOK
<1> DEFINE d == Proceed(u, FALSE)
<1>2. up[u] \in Clients /\ up[u].waits /\ Reached(u, up[u])
  BY <1>1 DEF TimesOut, IInv, Uploading
<1>3. d \in Clients /\ Advanced(u, up[u], d, FALSE) /\ Reached(u, d)
  BY <1>1, <1>2, ProceedAdvances
<1>4. UNCHANGED <<device, session, wire>> /\ up' = [up EXCEPT ![u] = d]
  BY DEF TimesOut
<1> HIDE DEF d
<1>5. \A x \in Uploads : up'[x] = IF x = u THEN d ELSE up[x]
  BY <1>1, <1>4
<1>6. d.next = up[u].next /\ (d.pc = "done" \/ d.pc = up[u].pc)
  BY <1>3 DEF Advanced
<1>7. Typed'
  <2>1. up' \in [Uploads -> Clients]
    BY <1>1, <1>3, <1>4
  <2>2. TypeOK'
    BY <1>1, <1>4, DeviceSame, RequestIsTyped
  <2> QED
    BY <1>1, <1>4, <2>1, <2>2 DEF Typed
<1>8. Uploading'
  <2>1. \A x \in Uploads : Reached(x, up'[x])
    BY <1>3, <1>5 DEF IInv, Uploading
  <2>2. ASSUME NEW r \in wire PROVE Sent(r, up'[r.from])
    <3>1. r \in Requests /\ r.from \in Uploads /\ Sent(r, up[r.from])
      BY <1>1 DEF IInv, Uploading, Requests
    <3>2. CASE r.from = u
      <4>1. Sent(r, d)
        BY <1>2, <1>3, <3>1, <3>2, AdvancedSent
      <4> QED
        BY <1>5, <3>2, <4>1
    <3>3. CASE r.from # u
      BY <1>5, <3>1, <3>3
    <3> QED
      BY <3>2, <3>3
  <2> QED
    BY <1>4, <2>1, <2>2 DEF Uploading
<1>9. Owned'
  <2> SUFFICES ASSUME core0' = "run", NEW x \in session'
               PROVE  up'[x].pc # "idle" /\ (Begun(x)' => x \in ended' \/ (ota'.active /\ ota'.owner = x))
    BY DEF Owned
  <2>1. x \in session /\ x \in Uploads /\ (up'[x].pc = "done" \/ up'[x].pc = up[x].pc)
    BY <1>1, <1>4, <1>5, <1>6
  <2>2. Begun(x)' => Begun(x)
    BY <1>4, <2>1 DEF Begun
  <2> QED
    BY <1>4, <2>1, <2>2 DEF IInv, Owned, device
<1>10. InOrder'
  <2>1. \A x \in Uploads : up'[x].next = up[x].next
    BY <1>5, <1>6
  <2> QED
    BY <1>4, <2>1 DEF IInv, InOrder, Staged, device
<1> QED
  BY <1>4, <1>7, <1>8, <1>9, <1>10, DeviceSameFlash DEF IInv

-----------------------------------------------------------------------------
(***************************************************************************)
(* The handlers.                                                           *)
(***************************************************************************)
\* Types: an answered request and what the handlers may change.
LEMMA HandledTyped ==
    ASSUME IInv, NEW m \in wire, NEW ok \in BOOLEAN, Answer(m, ok),
           UNCHANGED <<buf, flash, core1, halted, session>>, core0' \in {"run", "park"}, pos' = pos,
           halt' \in BOOLEAN, late' \in BOOLEAN, tainted' \in BOOLEAN,
           ota' \in [active : BOOLEAN, off : 0 .. SlotSize, owner : Uploads \cup {Old}],
           sd' \in [Cells -> Contents], excuse' \subseteq {"twice", "refused", "stray"},
           ended' \subseteq Uploads
    PROVE  Typed' /\ Uploading'
<1>1. Typed /\ Uploading
  BY DEF IInv
<1>2. up' \in [Uploads -> Clients] /\ wire' \subseteq wire /\ Uploading'
  BY <1>1, AnswerKeeps
<1>3. wire' \subseteq Requests
  BY <1>1, <1>2 DEF Typed
<1>4. TypeOK'
  BY <1>1, <1>3, RequestIsTyped DEF Typed, TypeOK
<1> QED
  BY <1>2, <1>3, <1>4 DEF Typed

\* No uploader with a session goes back to before its upload.
LEMMA HandledStarted ==
    ASSUME IInv, NEW m \in wire, NEW ok \in BOOLEAN, Answer(m, ok), core0 = "run",
           NEW u \in session
    PROVE  up'[u].pc # "idle"
<1>1. Typed /\ Uploading /\ u \in Uploads /\ up[u].pc # "idle"
  BY DEF IInv, Typed, TypeOK, Owned
<1>2. up'[u] = up[u] \/ Advanced(u, up[u], up'[u], ok)
  BY <1>1, AnswerKeeps
<1> QED
  BY <1>1, <1>2 DEF Advanced

\* A request that fails a check: no cookie, or no upload under way, or one already.
LEMMA RefuseKeeps ==
    ASSUME IInv, NEW m \in wire, core0 = "run", Answer(m, FALSE),
           UNCHANGED <<ota, sd, excuse, ended, core0, pos, halt, late, tainted, refused>>,
           UNCHANGED <<buf, flash, core1, halted, session, cuts>>
    PROVE  IInv'
<1>1. Typed /\ Uploading /\ TypeOK /\ up \in [Uploads -> Clients]
  BY DEF IInv, Typed
<1>2. Typed' /\ Uploading'
  BY <1>1, HandledTyped DEF TypeOK
<1>3. UNCHANGED device
  BY DEF device
<1>4. Owned'
  <2> SUFFICES ASSUME NEW x \in session', Begun(x)'
               PROVE  x \in ended \/ (ota.active /\ ota.owner = x)
    BY HandledStarted DEF Owned
  <2>1. x \in session /\ x \in Uploads
    BY <1>1 DEF TypeOK
  <2>2. Begun(x)
    BY <1>1, <2>1, AnswerBegun
  <2> QED
    BY <2>1, <2>2 DEF IInv, Owned
<1>5. InOrder'
  <2> SUFFICES ASSUME ota.active, excuse = {} PROVE InOrder'
    BY DEF InOrder
  <2> DEFINE u == ota.owner
  <2>1. u \in Uploads /\ Staged(u) /\ ota.off <= Size[u] /\ up[u].next <= ota.off + 1
    BY DEF IInv, InOrder, HasOwner
  <2>2. up'[u] = up[u] \/ Advanced(u, up[u], up'[u], FALSE)
    BY <1>1, <2>1, AnswerKeeps
  <2>3. up'[u].next = up[u].next
    BY <2>2 DEF Advanced
  <2> QED
    BY <2>1, <2>3 DEF InOrder, Staged
<1> QED
  BY <1>2, <1>3, <1>4, <1>5, DeviceSameFlash DEF IInv

\* POST /update/begin
LEMMA BeginKeeps ==
    ASSUME IInv, NEW m \in wire, core0 = "run", m.op = "begin", Begins, m.from \in session, Begin(m),
           UNCHANGED <<core0, pos, halt, late, tainted>>, UNCHANGED <<buf, flash, core1, halted, session, cuts>>
    PROVE  IInv'
<1>1. Typed /\ Uploading /\ TypeOK /\ m.from \in Uploads /\ SlotSize \in Nat
  BY Sizes DEF IInv, Typed, TypeOK
<1>2. /\ ota' = [active |-> TRUE, off |-> 0, owner |-> m.from] /\ excuse' = {}
      /\ Answer(m, TRUE) /\ UNCHANGED <<sd, ended, refused>> /\ ~ota.active
  BY DEF Begin, Begins
<1>3. ota' \in [active : BOOLEAN, off : 0 .. SlotSize, owner : Uploads \cup {Old}]
  BY <1>1, <1>2
<1>4. Typed' /\ Uploading'
  BY <1>1, <1>2, <1>3, HandledTyped DEF TypeOK
<1>5. Owned'
  <2> SUFFICES ASSUME NEW x \in session', Begun(x)' PROVE x \in ended \/ m.from = x
    BY <1>2, HandledStarted DEF Owned
  <2>1. x \in session /\ x \in Uploads
    BY <1>1 DEF TypeOK
  <2>2. Begun(x) \/ x = m.from
    BY <1>1, <1>2, <2>1, AnswerBegun
  <2> QED
    BY <1>2, <2>1, <2>2 DEF IInv, Owned
<1>6. InOrder'
  <2> DEFINE u == m.from
  <2>1. Sent(m, up[u]) /\ up[u].next = 1 /\ up[u].pc \in {"begin", "done"}
    BY <1>1 DEF Uploading, Sent
  <2>2. up'[u] = up[u] \/ Advanced(u, up[u], up'[u], TRUE)
    BY <1>1, <1>2, AnswerKeeps
  <2>3. up'[u].next = 1
    BY <2>1, <2>2 DEF Advanced
  <2>4. Size[u] \in Nat
    BY <1>1, Sizes
  <2> QED
    BY <1>1, <1>2, <2>3, <2>4 DEF InOrder, Staged
<1>7. HasOwner' /\ Copying' /\ FlashedIsOneUpload'
  BY <1>1, <1>2 DEF IInv, HasOwner, Copying, FlashedIsOneUpload, Holds
<1> QED
  BY <1>4, <1>5, <1>6, <1>7 DEF IInv

\* POST /update/commit
LEMMA CommitKeeps ==
    ASSUME IInv, NEW m \in wire, core0 = "run", m.op = "commit", ota.active, m.from \in session, Commit(m),
           UNCHANGED <<buf, flash, core1, halted, session, cuts>>
    PROVE  IInv'
<1>1. Typed /\ Uploading /\ TypeOK /\ m.from \in Uploads
  BY DEF IInv, Typed, TypeOK
<1>2. /\ core0' = "park" /\ halt' = TRUE /\ late' = FALSE
      /\ tainted' = (tainted \/ excuse # {} \/ m.from \in ended)
      /\ Answer(m, TRUE) /\ UNCHANGED <<ota, sd, excuse, ended, refused, pos>>
  BY DEF Commit
<1>3. Typed' /\ Uploading'
  BY <1>1, <1>2, HandledTyped DEF TypeOK
<1>4. Owned' /\ InOrder'
  BY <1>2 DEF Owned, InOrder
<1>5. Copying'
  <2> SUFFICES ASSUME ~tainted' PROVE \E u \in Uploads : Staged(u) /\ ota.off = Size[u]
    BY <1>2 DEF Copying, Staged
  <2> DEFINE u == m.from
  <2>1. excuse = {} /\ u \notin ended
    BY <1>2
  <2>2. Begun(u)
    BY DEF Begun
  <2>3. ota.owner = u
    BY <2>1, <2>2 DEF IInv, Owned
  <2>4. Staged(u) /\ ota.off <= Size[u] /\ up[u].next <= ota.off + 1
    BY <2>1, <2>3 DEF IInv, InOrder
  <2>5. up[u].next = Size[u] + 1
    BY <1>1 DEF Uploading, Sent
  <2>6. ota.off \in Nat /\ Size[u] \in Nat
    BY <1>1, Sizes DEF TypeOK
  <2>7. ota.off = Size[u]
    BY <2>4, <2>5, <2>6
  <2> QED
    BY <1>1, <2>4, <2>7
<1>6. HasOwner' /\ FlashedIsOneUpload'
  BY <1>2 DEF IInv, HasOwner, FlashedIsOneUpload, Holds
<1> QED
  BY <1>3, <1>4, <1>5, <1>6 DEF IInv

\* POST /update/chunk, where it fits.
LEMMA StagesKeeps ==
    ASSUME IInv, NEW m \in wire, core0 = "run", m.op = "chunk", ota.active, m.from \in session,
           Room, Chunk(m),
           UNCHANGED <<core0, pos, halt, late, tainted>>, UNCHANGED <<buf, flash, core1, halted, session, cuts>>
    PROVE  IInv'
<1>1. Typed /\ Uploading /\ TypeOK /\ m.from \in Uploads /\ SlotSize \in Nat /\ m \in Requests
  BY Sizes DEF IInv, Typed, TypeOK
<1>2. PICK ok \in BOOLEAN :
        /\ ota' = [ota EXCEPT !.off = @ + 1]
        /\ sd' \in IF ok THEN {[sd EXCEPT ![ota.off + 1] = m.cell]} ELSE Damaged
        /\ excuse' = excuse \cup Wrong(m) \cup (IF ok THEN {} ELSE {"refused"})
  BY DEF Chunk
<1>3. Answer(m, TRUE) /\ UNCHANGED ended
  BY DEF Chunk
<1>4. /\ ota'.active /\ ota'.off = ota.off + 1 /\ ota'.owner = ota.owner
      /\ ota' \in [active : BOOLEAN, off : 0 .. SlotSize, owner : Uploads \cup {Old}]
      /\ ota.off + 1 \in Cells /\ ota.off \in Nat
  BY <1>1, <1>2, SMTT(30) DEF TypeOK, Room, Cells
<1>5. Typed' /\ Uploading'
  <2>1. sd' \in [Cells -> Contents]
    <3>1. CASE ok
      BY <1>1, <1>2, <3>1, RequestIsTyped DEF TypeOK
    <3>2. CASE ~ok
      BY <1>1, <1>2, <3>2 DEF TypeOK, Damaged, Contents
    <3> QED
      BY <3>1, <3>2
  <2>2. excuse' \subseteq {"twice", "refused", "stray"}
    BY <1>1, <1>2 DEF TypeOK, Wrong
  <2> QED
    BY <1>1, <1>3, <1>4, <2>1, <2>2, HandledTyped DEF TypeOK
<1>6. Owned'
  <2> SUFFICES ASSUME NEW x \in session', Begun(x)'
               PROVE  x \in ended \/ ota.owner = x
    BY <1>3, <1>4, HandledStarted DEF Owned
  <2>1. x \in session /\ x \in Uploads
    BY <1>1 DEF TypeOK
  <2>2. Begun(x)
    BY <1>1, <1>3, <2>1, AnswerBegun
  <2> QED
    BY <2>1, <2>2 DEF IInv, Owned
<1>7. InOrder'
  <2> SUFFICES ASSUME excuse' = {} PROVE InOrder'
    BY DEF InOrder
  <2> DEFINE u == m.from
  <2>1. excuse = {} /\ Wrong(m) = {} /\ ok
    BY <1>2
  <2>2. u \notin ended /\ (\A k \in 1 .. ota.off : sd[k] # m.cell)
    BY <2>1 DEF Wrong
  <2>3. ota.owner = u
    BY <2>2 DEF IInv, Owned, Begun
  <2>4. Staged(u) /\ ota.off <= Size[u] /\ up[u].next <= ota.off + 1
    BY <2>1, <2>3 DEF IInv, InOrder
  <2>5. Sent(m, up[u]) /\ up[u] \in Clients /\ up[u].next \in Nat /\ Size[u] \in Nat
    BY <1>1, Sizes DEF Uploading, Typed, Clients
  <2> DEFINE k == m.cell[2]
  <2>6. m.cell = <<u, k>> /\ k \in 1 .. Size[u] /\ k <= up[u].next
    BY <1>1, <2>5 DEF Sent, Requests
  <2>7. k = ota.off + 1
    <3>1. k > ota.off
      <4> SUFFICES ASSUME ~(k > ota.off) PROVE FALSE
        OBVIOUS
      <4>1. k \in 1 .. ota.off
        BY <1>4, <2>5, <2>6
      <4>2. sd[k] = m.cell
        BY <2>4, <2>6, <4>1 DEF Staged
      <4> QED
        BY <2>2, <4>1, <4>2
    <3> QED
      BY <1>4, <2>4, <2>5, <2>6, <3>1
  <2>8. Staged(u)'
    <3>1. sd' = [sd EXCEPT ![ota.off + 1] = <<u, ota.off + 1>>]
      BY <1>2, <2>1, <2>6, <2>7
    <3> SUFFICES ASSUME NEW j \in 1 .. ota.off + 1 PROVE sd'[j] = <<u, j>>
      BY <1>4 DEF Staged
    <3>2. j \in Cells /\ sd \in [Cells -> Contents]
      BY <1>1, <1>4 DEF Cells, TypeOK
    <3>3. CASE j = ota.off + 1
      BY <3>1, <3>2, <3>3
    <3>4. CASE j # ota.off + 1
      BY <1>4, <2>4, <3>1, <3>2, <3>4 DEF Staged
    <3> QED
      BY <3>3, <3>4
  <2>9. up'[u].next <= ota.off + 2
    <3>1. \/ up'[u] = up[u]
          \/ up[u].waits /\ up[u].sent = m.n /\ Advanced(u, up[u], up'[u], TRUE)
      BY <1>1, <1>3, AnswerKeeps
    <3>2. up'[u].next \in {up[u].next, up[u].next + 1}
      BY <3>1 DEF Advanced
    <3> QED
      BY <1>4, <2>4, <2>5, <3>2
  <2>10. ota.off + 1 <= Size[u]
    BY <2>5, <2>6, <2>7
  <2> QED
    BY <1>1, <1>4, <2>3, <2>8, <2>9, <2>10 DEF InOrder, Staged
<1>8. HasOwner' /\ Copying' /\ FlashedIsOneUpload'
  BY <1>4 DEF IInv, HasOwner, Copying, FlashedIsOneUpload, Holds
<1> QED
  BY <1>5, <1>6, <1>7, <1>8 DEF IInv

\* POST /update/chunk, one too many: the upload is over.
LEMMA EndsKeeps ==
    ASSUME IInv, NEW m \in wire, core0 = "run", m.op = "chunk", ota.active, m.from \in session,
           ~Room, Chunk(m),
           UNCHANGED <<core0, pos, halt, late, tainted>>, UNCHANGED <<buf, flash, core1, halted, session, cuts>>
    PROVE  IInv'
<1>1. Typed /\ Uploading /\ TypeOK /\ m.from \in Uploads
  BY DEF IInv, Typed, TypeOK
<1>2. /\ ota' = [ota EXCEPT !.active = FALSE] /\ ended' = ended \cup {ota.owner}
      /\ Answer(m, FALSE) /\ UNCHANGED <<sd, excuse, refused>>
  BY DEF Chunk
<1>3. /\ ~ota'.active
      /\ ota' \in [active : BOOLEAN, off : 0 .. SlotSize, owner : Uploads \cup {Old}]
  BY <1>1, <1>2 DEF TypeOK
<1>4. ota.owner = m.from \/ m.from \in ended
  BY DEF IInv, Owned, Begun
<1>5. Typed' /\ Uploading'
  <2>1. ended' \subseteq Uploads
    BY <1>1, <1>2 DEF TypeOK, IInv, HasOwner
  <2> QED
    BY <1>1, <1>2, <1>3, <2>1, HandledTyped DEF TypeOK
<1>6. Owned'
  <2> SUFFICES ASSUME NEW x \in session', Begun(x)' PROVE x \in ended \/ ota.owner = x
    BY <1>2, HandledStarted DEF Owned
  <2>1. x \in session /\ x \in Uploads
    BY <1>1 DEF TypeOK
  <2>2. Begun(x)
    BY <1>1, <1>2, <2>1, AnswerBegun
  <2> QED
    BY <2>1, <2>2 DEF IInv, Owned
<1>7. HasOwner' /\ InOrder' /\ Copying' /\ FlashedIsOneUpload'
  BY <1>3 DEF IInv, HasOwner, InOrder, Copying, FlashedIsOneUpload, Holds
<1> QED
  BY <1>5, <1>6, <1>7 DEF IInv

\* Every request.
LEMMA HandleKeeps ==
    ASSUME IInv, NEW m \in wire, Handle(m)
    PROVE  IInv'
<1>1. core0 = "run" /\ UNCHANGED <<buf, flash, core1, halted, session, cuts>>
  BY DEF Handle
<1>2. CASE m.from \notin session \/ (IF m.op = "begin" THEN ~Begins ELSE ~ota.active)
  BY <1>1, <1>2, RefuseKeeps DEF Handle
<1>3. CASE ~(m.from \notin session \/ (IF m.op = "begin" THEN ~Begins ELSE ~ota.active))
  <2>1. CASE m.op = "begin" /\ Begin(m) /\ UNCHANGED <<core0, pos, halt, late, tainted>>
    BY <1>1, <1>3, <2>1, BeginKeeps
  <2>2. CASE m.op = "chunk" /\ Chunk(m) /\ UNCHANGED <<core0, pos, halt, late, tainted>>
    BY <1>1, <1>3, <2>2, StagesKeeps, EndsKeeps
  <2>3. CASE m.op = "commit" /\ Commit(m)
    BY <1>1, <1>3, <2>3, CommitKeeps
  <2> QED
    BY <1>3, <2>1, <2>2, <2>3 DEF Handle
<1> QED
  BY <1>2, <1>3

-----------------------------------------------------------------------------
(***************************************************************************)
(* The copy, the cores, the power.                                         *)
(***************************************************************************)
\* Core 0 begins to copy: at the second sector, or at the first if there is no other.
LEMMA ParkedKeeps ==
    ASSUME IInv, Parked
    PROVE  IInv'
<1>1. Typed /\ TypeOK /\ SlotSize \in Nat \ {0}
  BY Sizes DEF IInv, Typed
<1>2. /\ core0 = "park" /\ core0' = "copy" /\ late' = ~halted
      /\ pos' = IF ota.off > 1 THEN 2 ELSE 1
      /\ UNCHANGED <<ota, sd, buf, flash, core1, halt, halted, excuse, ended, tainted, up, wire, session>>
  BY DEF Parked
<1>3. ota.off \in Nat /\ ota.off <= SlotSize
  BY <1>1 DEF TypeOK
<1>4. Typed'
  <2>1. pos' \in Cells /\ late' \in BOOLEAN
    BY <1>1, <1>2, <1>3 DEF TypeOK, Cells
  <2> QED
    BY <1>1, <1>2, <2>1 DEF Typed, TypeOK
<1>5. Uploading' /\ Owned' /\ HasOwner' /\ InOrder' /\ FlashedIsOneUpload'
  BY <1>2 DEF IInv, Uploading, Owned, HasOwner, InOrder, FlashedIsOneUpload
<1>6. Copying'
  <2> SUFFICES ASSUME ~tainted PROVE Copying'
    BY <1>2 DEF Copying
  <2>1. PICK u \in Uploads : Staged(u) /\ ota.off = Size[u]
    BY <1>2 DEF IInv, Copying
  <2>2. ota.off \in Nat \ {0}
    BY <2>1, Sizes
  <2>3. pos' <= ota.off
    BY <1>2, <2>2
  <2>4. ASSUME NEW k \in 2 .. ota.off, pos' = 1 \/ k < pos' PROVE FALSE
    BY <1>2, <2>2, <2>4
  <2> QED
    BY <1>2, <2>1, <2>3, <2>4 DEF Copying, Staged
<1> QED
  BY <1>4, <1>5, <1>6 DEF IInv

\* What a restart keeps, given the flash it starts from.
LEMMA RestartKeeps ==
    ASSUME IInv, NEW c0 \in {"run", "off"}, Restart(c0), UNCHANGED <<sd, ended, up>>,
           tainted' \in BOOLEAN, flash' \in [Cells -> Contents], FlashedIsOneUpload'
    PROVE  IInv'
<1>1. Typed /\ TypeOK /\ SlotSize \in Nat \ {0}
  BY Sizes DEF IInv, Typed
<1>2. /\ core0' = c0 /\ pos' = 1 /\ core1' = "loop" /\ halt' = FALSE /\ halted' = FALSE /\ late' = FALSE
      /\ ota' = Idle /\ excuse' = {} /\ wire' = {} /\ session' = {} /\ buf' = Junk
  BY DEF Restart
<1>3. ~ota'.active /\ ota' \in [active : BOOLEAN, off : 0 .. SlotSize, owner : Uploads \cup {Old}]
  BY <1>1, <1>2 DEF Idle
<1>4. Typed'
  <2>1. pos' \in Cells /\ buf' \in Contents
    BY <1>1, <1>2 DEF Cells, Contents
  <2> QED
    BY <1>1, <1>2, <1>3, <2>1 DEF Typed, TypeOK
<1>5. Uploading' /\ Owned' /\ HasOwner' /\ InOrder' /\ Copying'
  BY <1>2, <1>3 DEF IInv, Uploading, Owned, HasOwner, InOrder, Copying
<1> QED
  BY <1>4, <1>5 DEF IInv

\* One sector of the copy; after the first one the device restarts into the image.
LEMMA CopyKeeps ==
    ASSUME IInv, Copy
    PROVE  IInv'
<1>1. Typed /\ TypeOK /\ SlotSize \in Nat \ {0}
  BY Sizes DEF IInv, Typed
<1>read. PICK ok \in BOOLEAN : \E got \in Fetched(ok) :
        /\ tainted' = (tainted \/ ~ok)
        /\ flash' = IF pos <= ota.off THEN [flash EXCEPT ![pos] = got] ELSE flash
        /\ IF LastSector THEN Restart("run")
           ELSE /\ pos' = NextPos /\ buf' = got
                /\ UNCHANGED <<ota, core0, core1, halt, halted, late, excuse, wire, session>>
  BY DEF Copy
<1>fetched. PICK got \in Fetched(ok) :
        /\ tainted' = (tainted \/ ~ok)
        /\ flash' = IF pos <= ota.off THEN [flash EXCEPT ![pos] = got] ELSE flash
        /\ IF LastSector THEN Restart("run")
           ELSE /\ pos' = NextPos /\ buf' = got
                /\ UNCHANGED <<ota, core0, core1, halt, halted, late, excuse, wire, session>>
  BY <1>read
<1>2. /\ core0 = "copy" /\ UNCHANGED <<sd, ended, up>> /\ tainted' \in BOOLEAN
      /\ ~tainted' => ~tainted /\ got = sd[pos]
  BY <1>1, <1>fetched DEF Copy, Fetched, TypeOK
<1>typed. got \in Contents
  BY <1>1, <1>fetched DEF Fetched, TypeOK, Contents
<1>3. flash' \in [Cells -> Contents] /\ pos \in Cells /\ ota.off \in Nat /\ pos \in Nat /\ ota.off <= SlotSize
  BY <1>1, <1>fetched, <1>typed DEF TypeOK, Cells
<1>4. ~tainted' => \A k \in Cells : flash'[k] = IF pos <= ota.off /\ k = pos THEN sd[k] ELSE flash[k]
  BY <1>1, <1>fetched, <1>2, <1>3 DEF TypeOK
<1>5. ASSUME ~tainted
      PROVE  /\ \E u \in Uploads : Staged(u) /\ ota.off = Size[u]
             /\ pos <= ota.off
             /\ \A k \in 2 .. ota.off : pos = 1 \/ k < pos => flash[k] = sd[k]
  BY <1>2, <1>5 DEF IInv, Copying
<1>6. CASE LastSector
  <2>1. Restart("run")
    BY <1>6, <1>fetched
  <2>2. FlashedIsOneUpload'
    <3> SUFFICES ASSUME ~tainted, ~tainted' PROVE \E u \in Uploads : Holds(u)'
      BY <1>2 DEF FlashedIsOneUpload
    <3>1. PICK u \in Uploads : Staged(u) /\ ota.off = Size[u]
      BY <1>5
    <3>2. \A k \in 1 .. ota.off : flash'[k] = sd[k]
      <4> SUFFICES ASSUME NEW k \in 1 .. ota.off PROVE flash'[k] = sd[k]
        OBVIOUS
      <4>1. k \in Cells /\ (k = pos \/ k \in 2 .. ota.off)
        BY <1>1, <1>3, <1>6 DEF LastSector, Cells
      <4>2. pos = 1 /\ pos <= ota.off
        BY <1>5, <1>6 DEF LastSector
      <4> QED
        BY <1>4, <1>5, <4>1, <4>2
    <3> QED
      BY <3>1, <3>2 DEF Holds, Staged
  <2> QED
    BY <1>2, <1>3, <2>1, <2>2, RestartKeeps
<1>7. CASE ~LastSector
  <2>1. /\ pos' = NextPos
        /\ UNCHANGED <<ota, core0, core1, halt, halted, late, excuse, wire, session>>
        /\ buf' \in Contents
    BY <1>7, <1>fetched, <1>typed
  <2>2. Typed'
    <3>1. pos' \in Cells
      BY <1>1, <1>3, <2>1 DEF NextPos, Cells
    <3> QED
      BY <1>1, <1>2, <1>3, <2>1, <3>1 DEF Typed, TypeOK
  <2>3. Uploading' /\ Owned' /\ HasOwner' /\ InOrder' /\ FlashedIsOneUpload'
    BY <1>2, <2>1 DEF IInv, Uploading, Owned, HasOwner, InOrder, FlashedIsOneUpload
  <2>4. Copying'
    <3> SUFFICES ASSUME ~tainted, ~tainted' PROVE Copying'
      BY <1>2 DEF Copying
    <3>1. \E u \in Uploads : Staged(u)' /\ ota.off = Size[u]
      BY <1>2, <1>5, <2>1 DEF Staged
    <3>2. pos' <= ota.off
      BY <1>3, <1>5, <1>7, <2>1 DEF NextPos, LastSector, Cells
    <3>3. ASSUME NEW k \in 2 .. ota.off, pos' = 1 \/ k < pos' PROVE flash'[k] = sd[k]
      <4>1. k \in Cells /\ (k = pos \/ k < pos)
        <5>1. CASE pos < ota.off
          BY <1>1, <1>3, <2>1, <3>3, <5>1 DEF NextPos, Cells
        <5>2. CASE ~(pos < ota.off)
          <6>1. pos = ota.off
            BY <1>3, <1>5, <5>2
          <6> QED
            BY <1>1, <1>3, <6>1 DEF Cells
        <5> QED
          BY <5>1, <5>2
      <4> QED
        BY <1>3, <1>4, <1>5, <4>1
    <3> QED
      BY <1>2, <2>1, <3>1, <3>2, <3>3 DEF Copying
  <2> QED
    BY <2>2, <2>3, <2>4 DEF IInv
<1> QED
  BY <1>6, <1>7

\* A cut of the power, or a restart.
LEMMA CutKeeps ==
    ASSUME IInv, Cut
    PROVE  IInv'
<1>1. /\ core0 # "off" /\ UNCHANGED <<sd, flash, ended, tainted, up>>
      /\ Restart(IF core0 = "copy" THEN "off" ELSE "run")
  BY DEF Cut
<1>2. FlashedIsOneUpload'
  BY <1>1 DEF IInv, FlashedIsOneUpload, Holds, Restart
<1>3. flash' \in [Cells -> Contents] /\ tainted' \in BOOLEAN
  BY <1>1 DEF IInv, Typed, TypeOK
<1> QED
  BY <1>1, <1>2, <1>3, RestartKeeps

\* Core 1 works, or parks.
LEMMA Core1Keeps ==
    ASSUME IInv, Park \/ Work \/ UNCHANGED vars
    PROVE  IInv'
<1>1. UNCHANGED <<ota, sd, buf, flash, core0, pos, halt, late, excuse, ended, tainted, up, wire, session>>
  BY DEF Park, Work, vars, device
<1>2. core1' \in {"loop", "busy", "parked"} /\ halted' \in BOOLEAN
  BY DEF IInv, Typed, TypeOK, Park, Work, vars, device
<1>3. Typed'
  BY <1>1, <1>2 DEF IInv, Typed, TypeOK
<1>4. Uploading' /\ Owned' /\ HasOwner' /\ InOrder' /\ Copying' /\ FlashedIsOneUpload'
  BY <1>1 DEF IInv, Uploading, Owned, Begun, HasOwner, InOrder, Staged, Copying, FlashedIsOneUpload, Holds
<1> QED
  BY <1>3, <1>4 DEF IInv

-----------------------------------------------------------------------------
\* At power-on the device runs the old firmware and nobody uploads.
LEMMA UpdateInit == Init => IInv
<1> SUFFICES ASSUME Init PROVE IInv
  OBVIOUS
<1>1. SlotSize \in Nat \ {0} /\ Size \in [Uploads -> Nat \ {0}] /\ Tries \in [Uploads -> Nat \ {0}]
  BY Sizes
<1>2. Typed
  <2>1. up \in [Uploads -> Clients]
    BY <1>1 DEF Init, Client, Clients
  <2>2. TypeOK
    <3>1. ota \in [active : BOOLEAN, off : 0 .. SlotSize, owner : Uploads \cup {Old}]
      BY <1>1 DEF Init, Idle
    <3>2. sd \in [Cells -> Contents] /\ flash \in [Cells -> Contents] /\ buf \in Contents
      BY DEF Init, Contents
    <3>3. pos \in Cells
      BY <1>1 DEF Init, Cells
    <3> QED
      BY <3>1, <3>2, <3>3 DEF Init, TypeOK
  <2> QED
    BY <2>1, <2>2 DEF Init, Typed
<1>3. Uploading
  BY DEF Init, Uploading, Reached, Client
<1>4. Owned /\ HasOwner /\ InOrder /\ Copying /\ FlashedIsOneUpload
  BY DEF Init, Owned, HasOwner, InOrder, Copying, FlashedIsOneUpload, Idle
<1> QED
  BY <1>2, <1>3, <1>4 DEF IInv

\* Every step keeps the invariant.
LEMMA UpdateStep == IInv /\ [Next]_vars => IInv'
BY StartKeeps, SendKeeps, TimesOutKeeps, HandleKeeps, ParkedKeeps, CopyKeeps, CutKeeps, Core1Keeps
   DEF Next

\* What is staged never passes the staging area, and what is copied stays within slot A
\* (OTA_SLOT_SIZE in the chunk handler and in ota_write_chunk_sd).
THEOREM UpdateTyped == Spec => []TypeOK
<1>1. IInv => TypeOK
  BY DEF IInv, Typed
<1> QED
  BY UpdateInit, UpdateStep, <1>1, PTL DEF Spec

\* The device runs the old firmware or one upload from its first to its last sector,
\* whatever other uploaders send, unless a chunk was staged twice, an ended upload went on,
\* or the SD card refused a write.
THEOREM OneUpload == Spec => []FlashedIsOneUpload
<1>1. IInv => FlashedIsOneUpload
  BY DEF IInv
<1> QED
  BY UpdateInit, UpdateStep, <1>1, PTL DEF Spec
=============================================================================
