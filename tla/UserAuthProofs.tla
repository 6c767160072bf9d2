---------------------------- MODULE UserAuthProofs ----------------------------
(***************************************************************************)
(* The properties of UserAuth proved for every number of users, cards,     *)
(* sessions and requests, and every placing of Core 1's deletions and      *)
(* appends, power cuts and refused puts among them.                        *)
(***************************************************************************)
EXTENDS UserAuth, WellFoundedInduction, TLAPS

-----------------------------------------------------------------------------
(* The invariant, in four parts.                                           *)

SessionRec == [active : BOOLEAN, tok : Nat, card : Ids, created : Nat, last : Nat, acct : Nat]
Rewrite    == [id : Ids, copy : Card, stale : BOOLEAN, what : {"count", "welcome", "password"}]

\* The session table, and the numbers a new session or card takes.
TableInv ==
    /\ sess \in [Slots -> SessionRec] /\ booted \in BOOLEAN
    /\ issued \in Nat /\ now \in Nat /\ ops \in Nat /\ raws \in Nat /\ restarts \in Nat
    /\ \A i \in Slots : sess[i].active => sess[i].tok \in Tokens /\ sess[i].created <= now
    /\ \A i, j \in Slots : sess[i].active /\ sess[j].active /\ sess[i].tok = sess[j].tok => i = j

\* A card's count is at most one behind the wrong passwords tried, and below FailMax unless
\* the card is locked or nothing was tried since it was unlocked.
CountRight(c, k) ==
    /\ k <= c.fails + 1
    /\ c.locked \/ k = 0 \/ c.fails < FailMax
    /\ k <= FailMax \/ (k = FailMax + 1 /\ c.fails < k)

StoreInv ==
    /\ cards \in [Ids -> Card \cup {None}] /\ tries \in [Ids -> Nat]
    /\ stated = [id \in Ids |-> Stated(cards[id])]
    /\ \A id \in Ids : IF cards[id] = None THEN tries[id] = 0 ELSE CountRight(cards[id], tries[id])

\* What a login or a password change copied is the card, or is marked; its count is right for
\* the wrong passwords tried either way.
RewriteRight ==
    rmw # None => /\ rmw \in Rewrite /\ booted
                  /\ rmw.stale \/ cards[rmw.id] = rmw.copy
                  /\ CountRight(rmw.copy, tries[rmw.id])
                  /\ rmw.what = "count" => ~rmw.copy.locked

\* An editor's copy that is not out of date is the card.
HeldRight == held # None => held \in Copy /\ (held.stale \/ cards[held.id] = held.copy)

\* So is what an append of Core 1 read, which may be no card.
Appending  == [id : Ids, copy : Card \cup {None}, stale : BOOLEAN]
MergeRight == merge # None => merge \in Appending /\ (merge.stale \/ cards[merge.id] = merge.copy)

CopyInv == RewriteRight /\ HeldRight /\ MergeRight

\* An active session whose card is gone, or has become another account's, is an orphan.
OwnerRight(i) ==
    \/ sess[i].tok \in orphans
    \/ cards[sess[i].card] # None /\ cards[sess[i].card].acct = sess[i].acct

TokenInv ==
    /\ refused \subseteq Tokens /\ orphans \subseteq Tokens
    /\ \A i \in Slots : sess[i].active => sess[i].tok \notin refused /\ OwnerRight(i)

AuthInv == TableInv /\ StoreInv /\ CopyInv /\ TokenInv

-----------------------------------------------------------------------------
(* The operators.                                                          *)

LEMMA Constants ==
    ASSUME AuthAssumption
    PROVE  /\ AdminName \in Names /\ AdminRole \in Roles /\ MaxOps \in Nat /\ MaxId \in Nat
           /\ FailMax \in 1 .. 255 /\ ClockMod \in Nat \ {0} /\ SlotCount \in Nat \ {0}
           /\ 0 \in Ids /\ ScanMax \in Nat \ {0} /\ MaxRestarts \in Nat /\ RawCounts \subseteq 0 .. 255
BY DEF AuthAssumption, Ids

\* What the writes of a card change of it.
LEMMA CardChanges ==
    ASSUME NEW c \in Card
    PROVE  /\ Cleared(c) \in Card /\ Cleared(c).role = c.role /\ Cleared(c).acct = c.acct
           /\ Cleared(c).locked = c.locked /\ Cleared(c).fails = 0
           /\ Counted(c) \in Card /\ Counted(c).role = c.role /\ Counted(c).acct = c.acct
           /\ Counted(c).fails = IF c.fails = 255 THEN 0 ELSE c.fails + 1
           /\ Counted(c).locked <=> c.locked \/ Counted(c).fails >= FailMax
<1>1. PICK f \in 0 .. 255 : f = (c.fails + 1) % 256 /\ f = IF c.fails = 255 THEN 0 ELSE c.fails + 1
  <2>1. c.fails \in 0 .. 255
    BY DEF Card
  <2> QED
    BY <2>1
<1>2. PICK l \in BOOLEAN : l <=> c.locked \/ f >= FailMax
  OBVIOUS
<1>3. c.locked \in BOOLEAN
  BY DEF Card
<1>4. (c.locked \/ f >= FailMax) = l
  BY <1>2, <1>3
<1>5. Counted(c) = [c EXCEPT !.fails = f, !.locked = l]
  <2> DEFINE g == (c.fails + 1) % 256
  <2>1. Counted(c) = [c EXCEPT !.fails = g, !.locked = c.locked \/ g >= FailMax]
    BY DEF Counted
  <2>2. g = f
    BY <1>1
  <2> HIDE DEF g
  <2>3. (c.locked \/ g >= FailMax) = l
    BY <1>4, <2>2
  <2> QED
    BY <2>1, <2>2, <2>3
<1>6. /\ Counted(c) \in Card /\ Counted(c).role = c.role /\ Counted(c).acct = c.acct
      /\ Counted(c).fails = f /\ Counted(c).locked = l
  BY <1>5 DEF Card
<1>7. /\ Cleared(c) \in Card /\ Cleared(c).role = c.role /\ Cleared(c).acct = c.acct
      /\ Cleared(c).locked = c.locked /\ Cleared(c).fails = 0
  BY DEF Cleared, Card
<1> QED
  BY <1>1, <1>2, <1>6, <1>7

LEMMA StatedOf ==
    ASSUME NEW c \in Card, NEW d \in Card
    PROVE  /\ Stated(c) = [role |-> c.role, locked |-> c.locked] /\ c # None
           /\ c.role = d.role /\ c.locked = d.locked => Stated(c) = Stated(d)
BY NoneAssumption DEF Stated

\* The least number of a set, and the greatest of a bounded one.
LEMMA Least ==
    ASSUME NEW S \in SUBSET Nat, S # {}
    PROVE  \E m \in S : \A j \in S : m <= j
<1>1. PICK m \in S : \A j \in S : ~(<<j, m>> \in OpToRel(<, Nat))
  BY NatLessThanWellFounded, WFMin
<1>2. \A j \in S : ~(j < m)
  BY <1>1 DEF OpToRel
<1> QED
  BY <1>2

LEMMA Greatest ==
    ASSUME NEW b \in Nat, NEW S \in SUBSET (0 .. b), S # {}
    PROVE  \E m \in S : \A j \in S : j <= m
<1> DEFINE U == {m \in Nat : \A j \in S : j <= m}
<1>1. PICK m \in U : \A j \in U : m <= j
  <2>1. b \in U /\ U \in SUBSET Nat
    OBVIOUS
  <2> HIDE DEF U
  <2> QED
    BY <2>1, Least
<1>2. CASE m \in S
  BY <1>1, <1>2
<1>3. CASE m \notin S
  <2>1. \A j \in S : j < m
    BY <1>1, <1>3
  <2>2. m - 1 \in U
    <3>1. PICK j \in S : j < m
      BY <2>1
    <3>2. m - 1 \in Nat
      BY <1>1, <3>1
    <3>3. \A i \in S : i <= m - 1
      BY <1>1, <2>1
    <3> QED
      BY <3>2, <3>3
  <2> QED
    BY <1>1, <2>2
<1> QED
  BY <1>2, <1>3

-----------------------------------------------------------------------------
(* The session table.                                                      *)

\* A session goes on or ends; none begins.
SameSession(i) ==
    /\ sess'[i].tok = sess[i].tok /\ sess'[i].card = sess[i].card
    /\ sess'[i].created = sess[i].created /\ sess'[i].acct = sess[i].acct
NoneBegins ==
    /\ sess' \in [Slots -> SessionRec] /\ issued' = issued
    /\ \A i \in Slots : sess'[i].active => sess[i].active /\ SameSession(i)

\* One session begins, in slot s.
Begins(s, id, acct) ==
    /\ issued' = issued + 1 /\ sess' \in [Slots -> SessionRec]
    /\ \A i \in Slots : sess'[i] = IF i = s THEN Session(id, acct) ELSE sess[i]

\* user_auth_check ends the sessions of a token that is not served, and no other.
LEMMA CheckedTable ==
    ASSUME TableInv, NEW t, sess' = Checked(t), issued' = issued
    PROVE  /\ NoneBegins
           /\ \A i \in Slots : sess[i].active /\ ~sess'[i].active => Holds(i, t) /\ (Expired(i) \/ Gone(i))
           /\ \A i \in Slots : Holds(i, t) /\ (Expired(i) \/ Gone(i)) => ~sess'[i].active
           /\ \A i \in Slots : SameSession(i)
<1>1. ASSUME NEW i \in Slots
      PROVE  /\ sess'[i] \in SessionRec /\ SameSession(i)
             /\ sess'[i].active => sess[i].active
             /\ sess[i].active /\ ~sess'[i].active => Holds(i, t) /\ (Expired(i) \/ Gone(i))
             /\ Holds(i, t) /\ (Expired(i) \/ Gone(i)) => ~sess'[i].active
  <2>1. sess[i] \in SessionRec /\ now \in Nat
    BY DEF TableInv
  <2>2. CASE ~Holds(i, t)
    <3>1. sess'[i] = sess[i]
      BY <2>2 DEF Checked
    <3> QED
      BY <2>1, <2>2, <3>1 DEF SameSession
  <2>3. CASE Holds(i, t) /\ (Expired(i) \/ Gone(i))
    <3>1. sess'[i] = [sess[i] EXCEPT !.active = FALSE]
      BY <2>3 DEF Checked
    <3> QED
      BY <2>1, <2>3, <3>1 DEF SameSession, SessionRec
  <2>4. CASE Holds(i, t) /\ ~(Expired(i) \/ Gone(i))
    <3>1. sess'[i] = [sess[i] EXCEPT !.last = now]
      BY <2>4 DEF Checked
    <3> QED
      BY <2>1, <2>4, <3>1 DEF SameSession, SessionRec
  <2> QED
    BY <2>2, <2>3, <2>4
<1>2. sess' = [i \in Slots |-> sess'[i]]
  BY DEF Checked
<1> QED
  BY <1>1, <1>2 DEF NoneBegins

LEMMA LogoutTable ==
    ASSUME TableInv, NEW t, Logout(t)
    PROVE  /\ NoneBegins
           /\ \A i \in Slots : sess[i].active /\ ~sess'[i].active => Holds(i, t)
           /\ \A i \in Slots : SameSession(i)
<1>1. ASSUME NEW i \in Slots
      PROVE  /\ sess'[i] \in SessionRec /\ SameSession(i)
             /\ sess'[i].active => sess[i].active
             /\ sess[i].active /\ ~sess'[i].active => Holds(i, t)
  <2>1. sess[i] \in SessionRec
    BY DEF TableInv
  <2>2. CASE ~Holds(i, t)
    <3>1. sess'[i] = sess[i]
      BY <2>2 DEF Logout
    <3> QED
      BY <2>1, <2>2, <3>1 DEF SameSession
  <2>3. CASE Holds(i, t)
    <3>1. sess'[i] = [sess[i] EXCEPT !.active = FALSE]
      BY <2>3 DEF Logout
    <3> QED
      BY <2>1, <2>3, <3>1 DEF SameSession, SessionRec
  <2> QED
    BY <2>2, <2>3
<1>2. sess' = [i \in Slots |-> sess'[i]]
  BY DEF Logout
<1> QED
  BY <1>1, <1>2 DEF NoneBegins, Logout

\* Every slot ends at a start-up.
LEMMA ClearedTable ==
    ASSUME AuthAssumption, sess' = [i \in Slots |-> NoSession]
    PROVE  sess' \in [Slots -> SessionRec] /\ \A i \in Slots : ~sess'[i].active
BY Constants DEF NoSession, SessionRec

\* Where user_auth_login puts a new session: in a free slot, or, if there is none, in place of
\* one of those created first, as its clock of 32 bits counts.
LEMMA NewSlot ==
    ASSUME AuthAssumption, TableInv, NEW id \in Ids, NEW acct \in Nat, NewSession(id, acct)
    PROVE  \E s \in Slots :
             /\ Begins(s, id, acct)
             /\ ~sess[s].active \/ \A j \in Slots : /\ sess[j].active
                                                    /\ sess[s].created % ClockMod <= sess[j].created % ClockMod
<1> DEFINE free   == {i \in Slots : ~sess[i].active}
           choice == Victim(free)
           slot   == CHOOSE i \in choice : \A j \in choice : i <= j
<1>1. choice \subseteq Slots /\ choice # {}
  <2>1. CASE free # {}
    BY <2>1 DEF Victim
  <2>2. CASE free = {}
    <3> DEFINE S == {sess[j].created % ClockMod : j \in Slots}
    <3>1. S \in SUBSET Nat /\ S # {}
      <4>1. \A j \in Slots : sess[j].created % ClockMod \in Nat
        BY Constants DEF TableInv, SessionRec
      <4>2. 1 \in Slots
        BY Constants DEF Slots
      <4> QED
        BY <4>1, <4>2
    <3> HIDE DEF S
    <3>2. PICK m \in S : \A x \in S : m <= x
      BY <3>1, Least
    <3>3. PICK i \in Slots : \A j \in Slots : sess[i].created % ClockMod <= sess[j].created % ClockMod
      BY <3>2 DEF S
    <3> QED
      BY <2>2, <3>3 DEF Victim
  <2> QED
    BY <2>1, <2>2
<1>2. \A s \in choice : ~sess[s].active \/ \A j \in Slots : /\ sess[j].active
                                         /\ sess[s].created % ClockMod <= sess[j].created % ClockMod
  BY DEF Victim
<1> HIDE DEF choice
<1>3. slot \in choice
  <2>1. choice \in SUBSET Nat
    BY <1>1 DEF Slots
  <2> QED
    BY <1>1, <2>1, Least
<1>4. sess' = [sess EXCEPT ![slot] = Session(id, acct)] /\ issued' = issued + 1
  BY DEF NewSession, choice
<1>5. Session(id, acct) \in SessionRec
  BY DEF Session, SessionRec, TableInv
<1> HIDE DEF slot
<1>6. Begins(slot, id, acct)
  BY <1>1, <1>3, <1>4, <1>5 DEF Begins, TableInv
<1> QED
  BY <1>1, <1>2, <1>3, <1>6

\* What a step does to the counters.
CountersGo ==
    now' \in Nat /\ booted' \in BOOLEAN /\ ops' \in Nat /\ raws' \in Nat /\ restarts' \in Nat

LEMMA TableKept ==
    ASSUME TableInv, NoneBegins, CountersGo, now <= now'
    PROVE  TableInv'
<1>1. Tokens' = Tokens /\ now \in Nat /\ now' \in Nat
  BY DEF NoneBegins, Tokens, TableInv, CountersGo
<1>2. ASSUME NEW i \in Slots, sess'[i].active
      PROVE  sess'[i].tok \in Tokens /\ sess'[i].created <= now'
  <2>1. sess[i].active /\ SameSession(i) /\ sess[i].created \in Nat
    BY <1>2 DEF NoneBegins, TableInv, SessionRec
  <2>2. sess[i].tok \in Tokens /\ sess[i].created <= now
    BY <2>1 DEF TableInv
  <2> QED
    BY <1>1, <2>1, <2>2 DEF SameSession
<1>3. ASSUME NEW i \in Slots, NEW j \in Slots, sess'[i].active, sess'[j].active, sess'[i].tok = sess'[j].tok
      PROVE  i = j
  BY <1>3 DEF NoneBegins, SameSession, TableInv
<1> QED
  BY <1>1, <1>2, <1>3 DEF NoneBegins, TableInv, CountersGo

LEMMA TableBegins ==
    ASSUME TableInv, NEW s \in Slots, NEW id, NEW acct, Begins(s, id, acct), CountersGo, now' = now
    PROVE  TableInv'
<1>1. /\ Session(id, acct).tok = issued + 1 /\ Session(id, acct).created = now /\ issued \in Nat
      /\ issued' \in Nat /\ Tokens \subseteq Tokens' /\ issued + 1 \in Tokens' /\ issued + 1 \notin Tokens
  BY DEF Session, TableInv, Begins, Tokens
<1>2. \A i \in Slots : sess[i].active => sess[i].tok \in Tokens /\ sess[i].created <= now
  BY DEF TableInv
<1>3. ASSUME NEW i \in Slots, sess'[i].active
      PROVE  sess'[i].tok \in Tokens' /\ sess'[i].created <= now'
  <2>1. CASE i = s
    BY <1>1, <2>1 DEF Begins, TableInv
  <2>2. CASE i # s
    BY <1>1, <1>2, <1>3, <2>2 DEF Begins
  <2> QED
    BY <2>1, <2>2
<1>4. ASSUME NEW i \in Slots, NEW j \in Slots, sess'[i].active, sess'[j].active, sess'[i].tok = sess'[j].tok
      PROVE  i = j
  <2>1. CASE i # s /\ j # s
    BY <1>4, <2>1 DEF Begins, TableInv
  <2>2. CASE i = s /\ j # s
    BY <1>1, <1>2, <1>4, <2>2 DEF Begins
  <2>3. CASE i # s /\ j = s
    BY <1>1, <1>2, <1>4, <2>3 DEF Begins
  <2> QED
    BY <2>1, <2>2, <2>3
<1> QED
  BY <1>1, <1>3, <1>4 DEF Begins, TableInv, CountersGo

LEMMA TableCleared ==
    ASSUME AuthAssumption, sess' = [i \in Slots |-> NoSession], CountersGo, issued \in Nat, issued' = issued
    PROVE  TableInv'
BY ClearedTable DEF TableInv, CountersGo

\* The two ways a session begins.
LEMMA BeginsBy ==
    ASSUME AuthAssumption, TableInv, StoreInv, CopyInv
    PROVE  /\ \A n, right : Login(n, right) =>
                \/ NoneBegins
                \/ \E id \in Ids : /\ cards[id] # None /\ cards[id].acct \in Nat
                                   /\ NewSession(id, cards[id].acct)
           /\ \A ok : WriteBack(ok) =>
                \/ NoneBegins
                \/ rmw.what = "welcome" /\ rmw.id \in Ids /\ rmw.copy.acct \in Nat
                   /\ NewSession(rmw.id, rmw.copy.acct)
<1>1. sess \in [Slots -> SessionRec]
  BY DEF TableInv
<1>2. UNCHANGED <<sess, issued>> => NoneBegins
  BY <1>1 DEF NoneBegins, SameSession
<1>3. ASSUME NEW n, NEW right, Login(n, right), ~NoneBegins
      PROVE  \E id \in Ids : cards[id] # None /\ cards[id].acct \in Nat /\ NewSession(id, cards[id].acct)
  <2>1. PICK id \in Named(n) : NewSession(id, cards[id].acct)
    BY <1>2, <1>3 DEF Login
  <2>2. id \in Ids /\ cards[id] # None
    BY DEF Named, Scanned, Present
  <2>3. cards[id] \in Card
    BY <2>2 DEF StoreInv
  <2> QED
    BY <2>1, <2>2, <2>3 DEF Card
<1>4. ASSUME NEW ok, WriteBack(ok), ~NoneBegins
      PROVE  rmw.what = "welcome" /\ rmw.id \in Ids /\ rmw.copy.acct \in Nat
             /\ NewSession(rmw.id, rmw.copy.acct)
  <2>1. rmw \in Rewrite /\ rmw.what = "welcome" /\ NewSession(rmw.id, rmw.copy.acct)
    BY <1>2, <1>4 DEF WriteBack, CopyInv, RewriteRight
  <2> QED
    BY <2>1 DEF Rewrite, Card
<1> QED
  BY <1>3, <1>4

LEMMA TableStep ==
    ASSUME AuthAssumption, TableInv, StoreInv, CopyInv, Next
    PROVE  TableInv'
<1>1. /\ sess \in [Slots -> SessionRec] /\ booted \in BOOLEAN
      /\ issued \in Nat /\ now \in Nat /\ ops \in Nat /\ raws \in Nat /\ restarts \in Nat /\ now <= now
  BY DEF TableInv
<1>2. UNCHANGED <<sess, issued>> => NoneBegins
  BY <1>1 DEF NoneBegins, SameSession
<1>3. ASSUME NEW n \in Names, NEW right \in BOOLEAN, Login(n, right) PROVE TableInv'
  <2>1. CountersGo /\ now' = now
    BY <1>1, <1>3 DEF CountersGo, Login, Begin
  <2>2. CASE NoneBegins
    BY <1>1, <2>1, <2>2, TableKept
  <2>3. ASSUME NEW id \in Ids, cards[id].acct \in Nat, NewSession(id, cards[id].acct) PROVE TableInv'
    BY <2>1, <2>3, NewSlot, TableBegins
  <2> QED
    BY <1>3, <2>2, <2>3, BeginsBy
<1>4. ASSUME NEW ok \in BOOLEAN, WriteBack(ok) PROVE TableInv'
  <2>1. CountersGo /\ now' = now
    BY <1>1, <1>4 DEF CountersGo, WriteBack
  <2>2. CASE NoneBegins
    BY <1>1, <2>1, <2>2, TableKept
  <2>3. ASSUME rmw.id \in Ids, rmw.copy.acct \in Nat, NewSession(rmw.id, rmw.copy.acct) PROVE TableInv'
    BY <2>1, <2>3, NewSlot, TableBegins
  <2> QED
    BY <1>4, <2>2, <2>3, BeginsBy
<1>5. ASSUME NEW t \in Tokens, Refuse(t) PROVE TableInv'
  <2>1. CountersGo /\ now' = now /\ NoneBegins
    BY <1>1, <1>5, CheckedTable DEF CountersGo, Refuse, Begin
  <2> QED
    BY <1>1, <2>1, TableKept
<1>6. ASSUME NEW t \in Tokens, Logout(t) PROVE TableInv'
  <2>1. CountersGo /\ now' = now /\ NoneBegins
    BY <1>1, <1>6, LogoutTable DEF CountersGo, Logout, Begin
  <2> QED
    BY <1>1, <2>1, TableKept
<1>7. ASSUME NEW t \in Tokens, Wipe(t) PROVE TableInv'
  <2>1. CountersGo /\ sess' = [i \in Slots |-> NoSession] /\ issued' = issued
    <3>1. /\ sess' = [i \in Slots |-> NoSession] /\ issued' = issued
          /\ now' = 0 /\ booted' = FALSE /\ ops' \in Nat /\ raws' = raws /\ restarts' = restarts + 1
      BY <1>1, <1>7 DEF Wipe, Begin
    <3>2. now' \in Nat /\ restarts' \in Nat /\ ops' \in Nat /\ raws' \in Nat
      BY <1>1, <3>1
    <3>3. booted' \in BOOLEAN
      BY <3>1
    <3> QED
      BY <3>1, <3>2, <3>3 DEF CountersGo
  <2> QED
    BY <1>1, <2>1, TableCleared
<1>8. ASSUME NEW t \in Tokens, NEW id \in Ids, ChangePassword(t, id) \/ GetCard(t, id) \/ DeleteCard(t, id)
      PROVE  TableInv'
  <2>1. CountersGo /\ now' = now /\ sess' = Checked(t) /\ issued' = issued
    BY <1>1, <1>8 DEF CountersGo, ChangePassword, GetCard, DeleteCard, Begin, Admitted
  <2> QED
    BY <1>1, <2>1, CheckedTable, TableKept
<1>9. ASSUME NEW t \in Tokens, NEW r \in Roles, NEW ok \in BOOLEAN, NEW locked \in BOOLEAN,
             PutCard(t, r, locked, ok)
      PROVE  TableInv'
  <2>1. CountersGo /\ now' = now /\ sess' = Checked(t) /\ issued' = issued
    BY <1>1, <1>9 DEF CountersGo, PutCard, Begin, Admitted
  <2> QED
    BY <1>1, <2>1, CheckedTable, TableKept
<1>10. ASSUME NEW t \in Tokens, NEW r \in Roles, NEW ok \in BOOLEAN, NEW n \in Names,
              CreateUser(t, n, r, ok)
       PROVE  TableInv'
  <2>1. CountersGo /\ now' = now /\ sess' = Checked(t) /\ issued' = issued
    BY <1>1, <1>10 DEF CountersGo, CreateUser, Begin, Admitted
  <2> QED
    BY <1>1, <2>1, CheckedTable, TableKept
<1>11. ASSUME NEW id \in Ids, NEW ok \in BOOLEAN, Core1Delete(id) \/ Core1Merge(id) \/ Core1Put(ok)
       PROVE  TableInv'
  <2>1. CountersGo /\ now' = now /\ NoneBegins
    BY <1>1, <1>2, <1>11 DEF CountersGo, Core1Begin, Core1Delete, Core1Merge, Core1Put
  <2> QED
    BY <1>1, <2>1, TableKept
<1>12. CASE Tick
  <2>1. CountersGo /\ now <= now' /\ NoneBegins
    BY <1>1, <1>2, <1>12 DEF CountersGo, Tick
  <2> QED
    BY <2>1, TableKept
<1>13. CASE Restart
  <2>1. CountersGo /\ sess' = [i \in Slots |-> NoSession] /\ issued' = issued
    <3>1. /\ sess' = [i \in Slots |-> NoSession] /\ issued' = issued
          /\ now' = 0 /\ booted' = FALSE /\ ops' \in Nat /\ raws' = raws /\ restarts' = restarts + 1
      BY <1>1, <1>13 DEF Restart
    <3>2. now' \in Nat /\ restarts' \in Nat /\ ops' \in Nat /\ raws' \in Nat
      BY <1>1, <3>1
    <3>3. booted' \in BOOLEAN
      BY <3>1
    <3> QED
      BY <3>1, <3>2, <3>3 DEF CountersGo
  <2> QED
    BY <1>1, <2>1, TableCleared
<1>14. ASSUME NEW ok \in BOOLEAN, Boot(ok) PROVE TableInv'
  <2>1. CountersGo /\ sess' = [i \in Slots |-> NoSession] /\ issued' = issued
    BY <1>1, <1>14 DEF CountersGo, Boot
  <2> QED
    BY <1>1, <2>1, TableCleared
<1>15. 0 \in Ids
  BY Constants
<1> QED
  BY <1>3, <1>4, <1>5, <1>6, <1>7, <1>8, <1>9, <1>10, <1>11, <1>12, <1>13, <1>14, <1>15 DEF Next, Request

-----------------------------------------------------------------------------
(* The cards.                                                              *)

\* A card is written whole.
LEMMA CardPut ==
    ASSUME StoreInv, NEW id \in Ids, NEW c \in Card, NEW k \in Nat, CountRight(c, k),
           cards' = [cards EXCEPT ![id] = c], stated' = [stated EXCEPT ![id] = Stated(c)],
           tries' = [tries EXCEPT ![id] = k]
    PROVE  StoreInv'
<1>1. cards' \in [Ids -> Card \cup {None}] /\ tries' \in [Ids -> Nat]
  BY DEF StoreInv
<1>2. stated' = [j \in Ids |-> Stated(cards'[j])]
  <2>1. \A j \in Ids : stated'[j] = Stated(cards'[j])
    BY DEF StoreInv
  <2>2. stated' = [j \in Ids |-> stated'[j]]
    BY DEF StoreInv
  <2> QED
    BY <2>1, <2>2
<1>3. ASSUME NEW j \in Ids
      PROVE  IF cards'[j] = None THEN tries'[j] = 0 ELSE CountRight(cards'[j], tries'[j])
  <2>1. CASE j = id
    <3>1. cards'[j] = c /\ tries'[j] = k /\ c # None
      BY <2>1, StatedOf DEF StoreInv
    <3> QED
      BY <3>1
  <2>2. CASE j # id
    <3>1. cards'[j] = cards[j] /\ tries'[j] = tries[j]
      BY <2>2 DEF StoreInv
    <3> QED
      BY <3>1 DEF StoreInv
  <2> QED
    BY <2>1, <2>2
<1> QED
  BY <1>1, <1>2, <1>3 DEF StoreInv

LEMMA CardDelete ==
    ASSUME StoreInv, NEW id \in Ids, Delete(id)
    PROVE  StoreInv'
<1>1. /\ cards' = [cards EXCEPT ![id] = None] /\ tries' = [tries EXCEPT ![id] = 0]
      /\ stated' = [stated EXCEPT ![id] = None]
  BY DEF Delete
<1>2. cards' \in [Ids -> Card \cup {None}] /\ tries' \in [Ids -> Nat]
  BY <1>1 DEF StoreInv
<1>3. stated' = [j \in Ids |-> Stated(cards'[j])]
  <2>1. \A j \in Ids : stated'[j] = Stated(cards'[j])
    BY <1>1 DEF StoreInv, Stated
  <2>2. stated' = [j \in Ids |-> stated'[j]]
    BY <1>1 DEF StoreInv
  <2> QED
    BY <2>1, <2>2
<1>4. ASSUME NEW j \in Ids
      PROVE  IF cards'[j] = None THEN tries'[j] = 0 ELSE CountRight(cards'[j], tries'[j])
  <2>1. CASE j = id
    BY <1>1, <2>1 DEF StoreInv
  <2>2. CASE j # id
    <3>1. cards'[j] = cards[j] /\ tries'[j] = tries[j]
      BY <1>1, <2>2 DEF StoreInv
    <3> QED
      BY <3>1 DEF StoreInv
  <2> QED
    BY <2>1, <2>2
<1> QED
  BY <1>2, <1>3, <1>4 DEF StoreInv

\* The cards stay; a count may start anew.
LEMMA CardsStay ==
    ASSUME StoreInv, cards' = cards, stated' = stated, NEW id \in Ids,
           tries' = tries \/ tries' = [tries EXCEPT ![id] = 0]
    PROVE  StoreInv'
<1>1. ASSUME NEW j \in Ids
      PROVE  IF cards'[j] = None THEN tries'[j] = 0 ELSE CountRight(cards'[j], tries'[j])
  <2>1. CASE tries'[j] = tries[j]
    BY <2>1 DEF StoreInv
  <2>2. CASE tries'[j] = 0 /\ cards[j] # None
    <3>1. cards[j].fails \in Nat /\ FailMax \in Nat
      <4>1. cards[j] \in Card
        BY <2>2 DEF StoreInv
      <4> QED BY <4>1, Constants, AuthAssumption DEF Card
    <3> QED
      BY <2>2, <3>1 DEF CountRight
  <2>3. CASE tries'[j] = 0 /\ cards[j] = None
    BY <2>3
  <2> QED
    BY <2>1, <2>2, <2>3 DEF StoreInv
<1>2. tries' \in [Ids -> Nat] /\ cards' \in [Ids -> Card \cup {None}] /\ stated' = [j \in Ids |-> Stated(cards'[j])]
  BY DEF StoreInv
<1> QED
  BY <1>1, <1>2 DEF StoreInv

\* A count that starts anew, whatever the card says.
LEMMA FromZero ==
    ASSUME AuthAssumption, NEW c \in Card
    PROVE  CountRight(c, 0)
<1>1. c.fails \in Nat /\ FailMax \in Nat
  BY Constants DEF Card
<1> QED
  BY <1>1 DEF CountRight

\* One wrong password more.
LEMMA OneMore ==
    ASSUME AuthAssumption, NEW c \in Card, NEW k \in Nat, ~c.locked, CountRight(c, k)
    PROVE  CountRight(Counted(c), k + 1)
<1>1. /\ c.fails \in 0 .. 255 /\ FailMax \in 1 .. 255
      /\ Counted(c).fails = IF c.fails = 255 THEN 0 ELSE c.fails + 1
      /\ Counted(c).locked <=> Counted(c).fails >= FailMax
  BY Constants, CardChanges DEF Card
<1>2. k <= c.fails + 1 /\ (k = 0 \/ c.fails < FailMax)
  BY DEF CountRight
<1>3. PICK f \in 0 .. 255 : f = Counted(c).fails /\ (Counted(c).locked <=> f >= FailMax)
  BY <1>1
<1>4. CASE c.fails = 255
  <2>1. f = 0 /\ k = 0
    BY <1>1, <1>2, <1>3, <1>4
  <2> QED
    BY <1>1, <1>3, <2>1 DEF CountRight
<1>5. CASE c.fails # 255
  <2>1. f = c.fails + 1 /\ k + 1 <= f + 1
    BY <1>1, <1>2, <1>3, <1>5
  <2>2. k + 1 <= FailMax \/ (k + 1 = FailMax + 1 /\ f < k + 1)
    BY <1>1, <1>2, <2>1
  <2> QED
    BY <1>1, <1>3, <2>1, <2>2 DEF CountRight
<1> QED
  BY <1>4, <1>5

\* An edited card that is not unlocked keeps its count.
LEMMA Edited ==
    ASSUME NEW c \in Card, NEW d \in Card, NEW k \in Nat, CountRight(c, k),
           d.fails = c.fails, c.locked => d.locked
    PROVE  CountRight(d, k)
BY DEF CountRight

LEMMA NewCardIs ==
    ASSUME NEW n \in Names, NEW r \in Roles, NEW a \in Nat
    PROVE  NewCard(n, r, a) \in Card /\ NewCard(n, r, a) # None
<1>1. 0 \in 0 .. 255
  OBVIOUS
<1>2. NewCard(n, r, a) \in Card
  BY <1>1 DEF NewCard, Card
<1> QED
  BY <1>2, NoneAssumption

\* The card a login or a password change writes back: as it is but for the count, or older than
\* what Core 1 put or deleted meanwhile.
LEMMA WriteBackStore ==
    ASSUME AuthAssumption, StoreInv, CopyInv, NEW ok \in BOOLEAN, WriteBack(ok)
    PROVE  StoreInv'
<1>1. PICK id \in Ids, copy \in Card :
        /\ id = rmw.id /\ copy = rmw.copy /\ rmw.stale \in BOOLEAN
        /\ rmw.stale \/ cards[id] = copy
        /\ CountRight(copy, tries[id])
        /\ rmw.what = "count" => ~copy.locked
  BY DEF WriteBack, CopyInv, RewriteRight, Rewrite
<1>2. PICK c \in Card : c = IF rmw.what = "count" THEN Counted(copy) ELSE Cleared(copy)
  BY CardChanges
<1>3. /\ c.role = copy.role
      /\ rmw.what # "count" => c.locked = copy.locked
  BY <1>2, CardChanges
<1>4. /\ cards' = IF ok THEN [cards EXCEPT ![id] = c] ELSE cards
      /\ stated' = IF ~ok THEN stated
                   ELSE IF rmw.stale THEN [stated EXCEPT ![id] = Stated(c)]
                   ELSE IF rmw.what = "count" THEN [stated EXCEPT ![id].locked = c.locked]
                   ELSE stated
      /\ tries' = IF ~ok /\ rmw.what # "welcome" THEN tries
                  ELSE [tries EXCEPT ![id] = IF rmw.what = "count" THEN @ + 1 ELSE 0]
  BY <1>1, <1>2 DEF WriteBack, Put
<1>5. CASE ~ok
  <2>1. cards' = cards /\ stated' = stated /\ (tries' = tries \/ tries' = [tries EXCEPT ![id] = 0])
    BY <1>4, <1>5
  <2> QED
    BY <2>1, CardsStay
<1>6. CASE ok
  <2>1. stated' = [stated EXCEPT ![id] = Stated(c)]
    <3>1. CASE rmw.stale
      BY <1>4, <1>6, <3>1
    <3>2. CASE ~rmw.stale
      <4>1. cards[id] = copy /\ stated[id] = [role |-> copy.role, locked |-> copy.locked]
        BY <1>1, <3>2, StatedOf DEF StoreInv
      <4>2. Stated(c) = [role |-> copy.role, locked |-> c.locked]
        BY <1>3, StatedOf
      <4>3. DOMAIN stated = Ids /\ stated = [j \in Ids |-> stated[j]]
        BY DEF StoreInv
      <4>4. CASE rmw.what = "count"
        <5>1. stated' = [stated EXCEPT ![id].locked = c.locked]
          BY <1>4, <1>6, <3>2, <4>4
        <5>2. [stated[id] EXCEPT !.locked = c.locked] = Stated(c)
          BY <4>1, <4>2
        <5> QED
          BY <5>1, <5>2
      <4>5. CASE rmw.what # "count"
        <5>1. stated' = stated /\ stated[id] = Stated(c)
          BY <1>3, <1>4, <1>6, <3>2, <4>1, <4>2, <4>5
        <5> QED
          BY <4>3, <5>1
      <4> QED
        BY <4>4, <4>5
    <3> QED
      BY <3>1, <3>2
  <2>2. CASE rmw.what = "count"
    <3>1. CountRight(copy, tries[id]) /\ tries[id] \in Nat
      BY <1>1 DEF StoreInv
    <3>2. PICK k \in Nat : k = tries[id] + 1 /\ CountRight(c, k)
      BY <1>1, <1>2, <2>2, <3>1, OneMore
    <3>3. cards' = [cards EXCEPT ![id] = c] /\ tries' = [tries EXCEPT ![id] = k]
      BY <1>4, <1>6, <2>2, <3>2
    <3> QED
      BY <2>1, <3>1, <3>2, <3>3, CardPut
  <2>3. CASE rmw.what # "count"
    <3>1. cards' = [cards EXCEPT ![id] = c] /\ tries' = [tries EXCEPT ![id] = 0]
      BY <1>4, <1>6, <2>3
    <3> QED
      BY <2>1, <3>1, FromZero, CardPut
  <2> QED
    BY <2>2, <2>3
<1> QED
  BY <1>5, <1>6

\* The card an editor saves: as it is but for what the editor set, or an old copy.
LEMMA PutCardStore ==
    ASSUME AuthAssumption, StoreInv, CopyInv,
           NEW t, NEW r \in Roles, NEW locked \in BOOLEAN, NEW ok \in BOOLEAN, PutCard(t, r, locked, ok)
    PROVE  StoreInv'
<1>1. PICK id \in Ids, copy \in Card :
        /\ id = held.id /\ copy = held.copy /\ held.stale \in BOOLEAN
        /\ held.stale \/ cards[id] = copy
  BY DEF PutCard, CopyInv, HeldRight, Copy
<1>0. PICK c : c = [copy EXCEPT !.role = r, !.locked = locked]
  OBVIOUS
<1>2. c \in Card /\ c.locked = locked /\ c.fails = copy.fails
  BY <1>0 DEF Card
<1>3. /\ cards' = IF ok THEN [cards EXCEPT ![id] = c] ELSE cards
      /\ stated' = IF ok THEN [stated EXCEPT ![id] = Stated(c)] ELSE stated
      /\ tries' = IF ok /\ (held.stale \/ (copy.locked /\ ~locked))
                  THEN [tries EXCEPT ![id] = 0] ELSE tries
  BY <1>0, <1>1 DEF PutCard, Put
<1>4. CASE ~ok
  <2>1. cards' = cards /\ stated' = stated /\ tries' = tries
    BY <1>3, <1>4
  <2> QED
    BY <2>1, CardsStay
<1>5. CASE ok /\ held.stale
  <2>1. cards' = [cards EXCEPT ![id] = c] /\ stated' = [stated EXCEPT ![id] = Stated(c)]
        /\ tries' = [tries EXCEPT ![id] = 0]
    BY <1>3, <1>5
  <2> QED
    BY <1>2, <2>1, FromZero, CardPut
<1>6. CASE ok /\ ~held.stale
  <2>1. CountRight(copy, tries[id]) /\ tries[id] \in Nat
    <3>1. cards[id] = copy /\ copy # None
      BY <1>1, <1>6, StatedOf
    <3> QED
      BY <3>1 DEF StoreInv
  <2>2. PICK k \in Nat : k = IF copy.locked /\ ~c.locked THEN 0 ELSE tries[id]
    BY <2>1
  <2>3. CountRight(c, k)
    <3>1. CASE copy.locked /\ ~c.locked
      BY <1>2, <2>2, <3>1, FromZero
    <3>2. CASE ~(copy.locked /\ ~c.locked)
      BY <1>2, <2>1, <2>2, <3>2, Edited
    <3> QED
      BY <3>1, <3>2
  <2>4. cards' = [cards EXCEPT ![id] = c] /\ stated' = [stated EXCEPT ![id] = Stated(c)]
    BY <1>3, <1>6
  <2>5. tries' = [tries EXCEPT ![id] = k]
    BY <1>2, <1>3, <1>6, <2>2 DEF StoreInv
  <2> QED
    BY <1>2, <2>3, <2>4, <2>5, CardPut
<1> QED
  BY <1>4, <1>5, <1>6

\* What an append makes of a card keeps its account.
LEMMA MergedCards ==
    ASSUME AuthAssumption, TableInv, NEW old \in Card \cup {None}, NEW c \in Merged(old)
    PROVE  c \in Card /\ c # None /\ (old # None => c.acct = old.acct)
<1>1. CASE old = None
  <2>1. PICK n \in Names, r \in Roles : c = NewCard(n, r, MaxOps + MaxRestarts + 1 + raws)
    BY <1>1 DEF Merged
  <2>2. MaxOps + MaxRestarts + 1 + raws \in Nat
    BY Constants DEF TableInv
  <2> QED
    BY <1>1, <2>1, <2>2, NewCardIs
<1>2. CASE old # None
  <2>1. old \in Card /\ old.fails \in 0 .. 255
    BY <1>2 DEF Card
  <2> DEFINE Rights == {[old EXCEPT !.role = x[1], !.locked = x[2]] : x \in Roles \X BOOLEAN}
             Counts == {[old EXCEPT !.fails = f] : f \in RawCounts}
             Others == {[old EXCEPT !.name = n] : n \in Names}
  <2>2. c \in Rights \cup Counts \cup Others
    <3>1. c \in IF old = None
                THEN {NewCard(x[1], x[2], MaxOps + MaxRestarts + 1 + raws) : x \in Names \X Roles}
                ELSE Rights \cup Counts \cup Others
      BY Zenon DEF Merged
    <3> HIDE DEF Rights, Counts, Others
    <3> QED
      BY <1>2, <3>1
  <2>3. ASSUME c \in Rights PROVE c \in Card /\ c.acct = old.acct
    <3>1. PICK x \in Roles \X BOOLEAN : c = [old EXCEPT !.role = x[1], !.locked = x[2]]
      BY <2>3, Zenon
    <3> QED
      BY <2>1, <3>1 DEF Card
  <2>4. ASSUME c \in Counts PROVE c \in Card /\ c.acct = old.acct
    <3>1. PICK x \in 0 .. 255 : c = [old EXCEPT !.fails = x]
      BY <2>4, Constants
    <3> QED
      BY <2>1, <3>1 DEF Card
  <2>5. ASSUME c \in Others PROVE c \in Card /\ c.acct = old.acct
    <3>1. PICK n \in Names : c = [old EXCEPT !.name = n]
      BY <2>5
    <3> QED
      BY <2>1, <3>1 DEF Card
  <2>6. c \in Rights \/ c \in Counts \/ c \in Others
    BY <2>2
  <2> HIDE DEF Rights, Counts, Others
  <2> QED
    BY <2>3, <2>4, <2>5, <2>6, NoneAssumption
<1> QED
  BY <1>1, <1>2

\* The card an append puts: as it is but for what the append brought, or over what Core 0 put or
\* deleted meanwhile.
LEMMA Core1PutStore ==
    ASSUME AuthAssumption, TableInv, StoreInv, CopyInv, NEW ok \in BOOLEAN, Core1Put(ok)
    PROVE  StoreInv'
<1>1. merge \in Appending /\ (merge.stale \/ cards[merge.id] = merge.copy)
  BY DEF Core1Put, CopyInv, MergeRight
<1>2. PICK id \in Ids, old \in Card \cup {None} : id = merge.id /\ old = merge.copy
  BY <1>1 DEF Appending
<1> DEFINE again(c) == \/ merge.stale \/ old = None \/ c.fails # old.fails
                       \/ (old.locked /\ ~c.locked)
<1>3. PICK c \in Merged(old) :
        /\ cards' = IF ok THEN [cards EXCEPT ![id] = c] ELSE cards
        /\ stated' = IF ok /\ (merge.stale \/ Stated(c) # Stated(old))
                     THEN [stated EXCEPT ![id] = Stated(c)] ELSE stated
        /\ tries' = IF ok /\ again(c) THEN [tries EXCEPT ![id] = 0] ELSE tries
  BY <1>2 DEF Core1Put, Put
<1>4. c \in Card
  BY <1>3, MergedCards
<1>5. CASE ~ok
  <2>1. cards' = cards /\ stated' = stated /\ tries' = tries
    BY <1>3, <1>5
  <2> QED
    BY <2>1, CardsStay
<1>6. CASE ok
  <2>1. cards' = [cards EXCEPT ![id] = c]
    BY <1>3, <1>6
  <2>2. stated' = [stated EXCEPT ![id] = Stated(c)]
    <3>1. CASE merge.stale \/ Stated(c) # Stated(old)
      BY <1>3, <1>6, <3>1
    <3>2. CASE ~(merge.stale \/ Stated(c) # Stated(old))
      <4>1. stated' = stated
        BY <1>3, <1>6, <3>2
      <4>2. stated[id] = Stated(c)
        BY <1>1, <1>2, <3>2 DEF StoreInv
      <4>3. stated = [j \in Ids |-> stated[j]]
        BY DEF StoreInv
      <4> QED
        BY <4>1, <4>2, <4>3
    <3> QED
      BY <3>1, <3>2
  <2>3. CASE again(c)
    <3>1. tries' = [tries EXCEPT ![id] = 0]
      BY <1>3, <1>6, <2>3
    <3> QED
      BY <1>4, <2>1, <2>2, <3>1, FromZero, CardPut
  <2>4. CASE ~again(c)
    <3>1. old \in Card /\ cards[id] = old /\ cards[id] # None
      BY <1>1, <1>2, <2>4
    <3>2. CountRight(old, tries[id]) /\ tries[id] \in Nat
      BY <3>1 DEF StoreInv
    <3>3. CountRight(c, tries[id])
      BY <1>4, <2>4, <3>1, <3>2, Edited
    <3>4. tries' = [tries EXCEPT ![id] = tries[id]]
      BY <1>3, <1>6, <2>4 DEF StoreInv
    <3> QED
      BY <1>4, <2>1, <2>2, <3>2, <3>3, <3>4, CardPut
  <2> QED
    BY <2>3, <2>4
<1> QED
  BY <1>5, <1>6

LEMMA StoreStep ==
    ASSUME AuthAssumption, TableInv, StoreInv, CopyInv, Next
    PROVE  StoreInv'
<1>1. 0 \in Ids /\ MaxOps \in Nat /\ restarts \in Nat /\ ops \in Nat
  BY Constants DEF TableInv
<1>2. CASE UNCHANGED store
  BY <1>1, <1>2, CardsStay DEF store
<1>3. ASSUME NEW t \in Tokens, Wipe(t) PROVE StoreInv'
  <2>1. /\ cards' = [id \in Ids |-> None] /\ stated' = cards' /\ tries' = [id \in Ids |-> 0]
    BY <1>3 DEF Wipe
  <2>2. stated' = [id \in Ids |-> Stated(cards'[id])]
    BY <2>1 DEF Stated
  <2>3. cards' \in [Ids -> Card \cup {None}] /\ tries' \in [Ids -> Nat]
        /\ \A id \in Ids : cards'[id] = None /\ tries'[id] = 0
    BY <2>1
  <2> QED
    BY <2>2, <2>3 DEF StoreInv
<1>4. ASSUME NEW t \in Tokens, NEW id \in Ids, DeleteCard(t, id) PROVE StoreInv'
  BY <1>4, CardDelete DEF DeleteCard
<1>5. ASSUME NEW id \in Ids, Core1Delete(id) PROVE StoreInv'
  BY <1>5, CardDelete DEF Core1Delete
<1>6. ASSUME NEW t \in Tokens, NEW r \in Roles, NEW ok \in BOOLEAN, NEW n \in Names,
             CreateUser(t, n, r, ok)
      PROVE  StoreInv'
  <2>1. ops' \in Nat /\ NextId \in Ids
    BY <1>1, <1>6 DEF CreateUser, Begin
  <2>2. PICK c \in Card : c = NewCard(n, r, ops')
    BY <2>1, NewCardIs
  <2>3. CASE ok
    <3>1. /\ cards' = [cards EXCEPT ![NextId] = c] /\ stated' = [stated EXCEPT ![NextId] = Stated(c)]
          /\ tries' = [tries EXCEPT ![NextId] = 0]
      BY <1>6, <2>2, <2>3 DEF CreateUser, Put
    <3> QED
      BY <2>1, <3>1, FromZero, CardPut
  <2>4. CASE ~ok
    <3>1. cards' = cards /\ stated' = stated /\ tries' = tries
      BY <1>6, <2>4 DEF CreateUser, Put
    <3> QED
      BY <1>1, <3>1, CardsStay
  <2> QED
    BY <2>3, <2>4
<1>7. ASSUME NEW ok \in BOOLEAN, Boot(ok), ~UNCHANGED store PROVE StoreInv'
  <2>1. MaxOps + restarts + 1 \in Nat
    BY <1>1
  <2>2. PICK c \in Card : c = NewCard(AdminName, AdminRole, MaxOps + restarts + 1)
    BY <2>1, NewCardIs, Constants
  <2>3. ok /\ cards[0] = None
    BY <1>7 DEF Boot, Put, store
  <2>4. /\ cards' = [cards EXCEPT ![0] = c] /\ stated' = [stated EXCEPT ![0] = Stated(c)]
        /\ tries' = tries
    BY <1>7, <2>2, <2>3 DEF Boot, Put
  <2>5. tries' = [tries EXCEPT ![0] = 0]
    BY <1>1, <2>3, <2>4 DEF StoreInv
  <2> QED
    BY <1>1, <2>4, <2>5, FromZero, CardPut
<1>8. ASSUME NEW ok \in BOOLEAN, WriteBack(ok) PROVE StoreInv'
  BY <1>8, WriteBackStore
<1>9. ASSUME NEW t \in Tokens, NEW r \in Roles, NEW ok \in BOOLEAN, NEW locked \in BOOLEAN,
             PutCard(t, r, locked, ok)
      PROVE  StoreInv'
  BY <1>9, PutCardStore
<1>10. ASSUME NEW t \in Tokens, NEW id \in Ids, ChangePassword(t, id) \/ GetCard(t, id) \/ Refuse(t) \/ Logout(t)
       PROVE  UNCHANGED store
  BY <1>10 DEF ChangePassword, GetCard, Refuse, Logout
<1>11. ASSUME NEW n \in Names, NEW right \in BOOLEAN, Login(n, right) PROVE UNCHANGED store
  BY <1>11 DEF Login
<1>12. Tick \/ Restart \/ (\E id \in Ids : Core1Merge(id)) => UNCHANGED store
  BY DEF Tick, Restart, Core1Merge
<1>13. ASSUME NEW ok \in BOOLEAN, Core1Put(ok) PROVE StoreInv'
  BY <1>13, Core1PutStore
<1> QED
  BY <1>1, <1>2, <1>3, <1>4, <1>5, <1>6, <1>7, <1>8, <1>9, <1>10, <1>11, <1>12, <1>13 DEF Next, Request

-----------------------------------------------------------------------------
(* The copies.                                                             *)

\* A copy is marked when its card changes.
LEMMA HeldGoes ==
    ASSUME StoreInv, HeldRight, NEW id \in Ids, held' = Outdated(held, id),
           \A j \in Ids : j # id => cards'[j] = cards[j]
    PROVE  HeldRight'
<1> SUFFICES ASSUME held' # None PROVE held' \in Copy /\ (held'.stale \/ cards'[held'.id] = held'.copy)
  BY DEF HeldRight
<1>1. CASE held # None /\ held.id = id
  <2>1. held' = [held EXCEPT !.stale = TRUE] /\ held \in Copy
    BY <1>1 DEF Outdated, HeldRight
  <2> QED
    BY <2>1 DEF Copy
<1>2. CASE ~(held # None /\ held.id = id)
  <2>1. held' = held
    BY <1>2 DEF Outdated
  <2>2. held \in Copy /\ held.id \in Ids /\ (held.stale \/ cards[held.id] = held.copy)
    BY <2>1 DEF HeldRight, Copy
  <2> QED
    BY <1>2, <2>1, <2>2
<1> QED
  BY <1>1, <1>2

LEMMA MergeGoes ==
    ASSUME StoreInv, MergeRight, NEW id \in Ids, merge' = Outdated(merge, id),
           \A j \in Ids : j # id => cards'[j] = cards[j]
    PROVE  MergeRight'
<1> SUFFICES ASSUME merge' # None
             PROVE  merge' \in Appending /\ (merge'.stale \/ cards'[merge'.id] = merge'.copy)
  BY DEF MergeRight
<1>1. CASE merge # None /\ merge.id = id
  <2>1. merge' = [merge EXCEPT !.stale = TRUE] /\ merge \in Appending
    BY <1>1 DEF Outdated, MergeRight
  <2> QED
    BY <2>1 DEF Appending
<1>2. CASE ~(merge # None /\ merge.id = id)
  <2>1. merge' = merge
    BY <1>2 DEF Outdated
  <2>2. merge \in Appending /\ merge.id \in Ids /\ (merge.stale \/ cards[merge.id] = merge.copy)
    BY <2>1 DEF MergeRight, Appending
  <2> QED
    BY <1>2, <2>1, <2>2
<1> QED
  BY <1>1, <1>2

LEMMA RewriteBegins ==
    ASSUME StoreInv, NEW id \in Ids, cards[id] # None, booted', cards' = cards, tries' = tries,
           NEW what \in {"count", "welcome", "password"}, what = "count" => ~cards[id].locked,
           rmw' = [id |-> id, copy |-> cards[id], stale |-> FALSE, what |-> what]
    PROVE  RewriteRight'
<1>1. cards[id] \in Card /\ CountRight(cards[id], tries[id])
  BY DEF StoreInv
<1>2. rmw' \in Rewrite
  BY <1>1 DEF Rewrite
<1>3. /\ rmw'.id = id /\ rmw'.copy = cards[id] /\ rmw'.what = what
  OBVIOUS
<1> QED
  BY <1>1, <1>2, <1>3 DEF RewriteRight

\* Core 1 takes or rewrites the card under a login.
LEMMA RewriteGoes ==
    ASSUME AuthAssumption, RewriteRight, NEW id \in Ids, rmw' = Outdated(rmw, id), booted' = booted,
           \A j \in Ids : j # id => cards'[j] = cards[j] /\ tries'[j] = tries[j],
           tries'[id] = 0 \/ tries'[id] = tries[id]
    PROVE  RewriteRight'
<1> SUFFICES ASSUME rmw' # None
             PROVE  /\ rmw' \in Rewrite /\ booted'
                    /\ rmw'.stale \/ cards'[rmw'.id] = rmw'.copy
                    /\ CountRight(rmw'.copy, tries'[rmw'.id])
                    /\ rmw'.what = "count" => ~rmw'.copy.locked
  BY DEF RewriteRight
<1>1. CASE rmw # None /\ rmw.id = id
  <2>1. /\ rmw' = [rmw EXCEPT !.stale = TRUE] /\ rmw \in Rewrite /\ booted
        /\ (rmw.what = "count" => ~rmw.copy.locked) /\ CountRight(rmw.copy, tries[id])
    BY <1>1 DEF Outdated, RewriteRight
  <2>2. /\ rmw' \in Rewrite /\ rmw'.id = id /\ rmw'.stale /\ rmw'.what = rmw.what
        /\ rmw'.copy = rmw.copy /\ rmw.copy \in Card
    BY <1>1, <2>1 DEF Rewrite
  <2>3. CountRight(rmw.copy, tries'[id])
    BY <2>1, <2>2, FromZero
  <2> QED
    BY <2>1, <2>2, <2>3
<1>2. CASE ~(rmw # None /\ rmw.id = id)
  <2>1. rmw' = rmw
    BY <1>2 DEF Outdated
  <2>2. rmw.id \in Ids /\ rmw.id # id
    BY <1>2, <2>1 DEF RewriteRight, Rewrite
  <2>3. cards'[rmw.id] = cards[rmw.id] /\ tries'[rmw.id] = tries[rmw.id]
    BY <2>2
  <2> QED
    BY <2>1, <2>3 DEF RewriteRight
<1> QED
  BY <1>1, <1>2

\* What Core 1's two writes of a card do to the copies of Core 0.
LEMMA Core1Outdates ==
    ASSUME AuthAssumption, StoreInv, CopyInv, NEW id \in Ids, NEW c, booted' = booted,
           cards' = [cards EXCEPT ![id] = c], tries' = tries \/ tries' = [tries EXCEPT ![id] = 0],
           rmw' = Outdated(rmw, id), held' = Outdated(held, id)
    PROVE  RewriteRight' /\ HeldRight'
<1>1. \A j \in Ids : j # id => cards'[j] = cards[j] /\ tries'[j] = tries[j]
  BY DEF StoreInv
<1>2. tries'[id] = 0 \/ tries'[id] = tries[id]
  BY DEF StoreInv
<1> QED
  BY <1>1, <1>2, HeldGoes, RewriteGoes DEF CopyInv

LEMMA CopyStep ==
    ASSUME AuthAssumption, TableInv, StoreInv, CopyInv, Next
    PROVE  CopyInv'
<1>0. 0 \in Ids /\ RewriteRight /\ HeldRight /\ MergeRight
  BY Constants DEF CopyInv
<1>1. ASSUME cards' = cards, held' = held PROVE HeldRight'
  BY <1>0, <1>1 DEF HeldRight
<1>2. ASSUME rmw' = rmw, cards' = cards, tries' = tries, booted' = booted PROVE RewriteRight'
  BY <1>0, <1>2 DEF RewriteRight
<1>3. rmw' = None => RewriteRight'
  BY DEF RewriteRight
<1>4. held' = None => HeldRight'
  BY DEF HeldRight
<1>5. ASSUME cards' = cards, merge' = merge PROVE MergeRight'
  BY <1>0, <1>5 DEF MergeRight
<1>6. merge' = None => MergeRight'
  BY DEF MergeRight
<1>7. ASSUME NEW n \in Names, NEW right \in BOOLEAN, Login(n, right) PROVE CopyInv'
  <2>1. PICK id \in Named(n) :
          /\ ~cards[id].locked
          /\ \/ rmw' = rmw
             \/ rmw' = [id |-> id, copy |-> cards[id], stale |-> FALSE,
                        what |-> IF right THEN "welcome" ELSE "count"]
    BY <1>7 DEF Login
  <2>2. rmw = None /\ UNCHANGED <<cards, tries, held, merge, booted>> /\ booted
    BY <1>7 DEF Login, Begin, Idle, store
  <2>3. id \in Ids /\ cards[id] # None
    BY DEF Named, Scanned, Present
  <2>4. PICK what \in {"count", "welcome", "password"} : what = IF right THEN "welcome" ELSE "count"
    OBVIOUS
  <2>5. RewriteRight'
    BY <1>3, <2>1, <2>2, <2>3, <2>4, RewriteBegins
  <2> QED
    BY <1>1, <1>5, <2>2, <2>5 DEF CopyInv
<1>8. ASSUME NEW ok \in BOOLEAN, WriteBack(ok) PROVE CopyInv'
  <2>1. rmw' = None /\ rmw.id \in Ids
    BY <1>0, <1>8 DEF WriteBack, RewriteRight, Rewrite
  <2>2. CASE ok
    <3>1. held' = Outdated(held, rmw.id) /\ merge' = Outdated(merge, rmw.id)
      BY <1>8, <2>2 DEF WriteBack
    <3>2. \A j \in Ids : j # rmw.id => cards'[j] = cards[j]
      BY <1>8, <2>1 DEF WriteBack, Put, StoreInv
    <3> QED
      BY <1>0, <1>3, <2>1, <3>1, <3>2, HeldGoes, MergeGoes DEF CopyInv
  <2>3. CASE ~ok
    <3>1. held' = held /\ merge' = merge /\ cards' = cards
      BY <1>8, <2>3 DEF WriteBack, Put
    <3> QED
      BY <1>1, <1>3, <1>5, <2>1, <3>1 DEF CopyInv
  <2> QED
    BY <2>2, <2>3
<1>9. ASSUME NEW t \in Tokens, Refuse(t) \/ Logout(t) PROVE CopyInv'
  <2>1. UNCHANGED <<cards, tries, held, merge, rmw, booted>>
    BY <1>9 DEF Refuse, Logout, store
  <2> QED
    BY <1>1, <1>2, <1>5, <2>1 DEF CopyInv
<1>10. ASSUME NEW t \in Tokens, Wipe(t) PROVE CopyInv'
  <2>1. /\ rmw' = None /\ cards' = [id \in Ids |-> None]
        /\ held' = IF held = None THEN None ELSE [held EXCEPT !.stale = TRUE]
        /\ merge' = IF merge = None THEN None ELSE [merge EXCEPT !.stale = TRUE]
    BY <1>10 DEF Wipe, Begin, Idle
  <2>2. HeldRight'
    <3>1. CASE held = None
      BY <1>4, <2>1, <3>1
    <3>2. CASE held # None
      <4>1. held \in Copy /\ held' = [held EXCEPT !.stale = TRUE]
        BY <1>0, <2>1, <3>2 DEF HeldRight
      <4>2. held' \in Copy /\ held'.stale
        BY <4>1 DEF Copy
      <4> QED
        BY <4>2 DEF HeldRight
    <3> QED
      BY <3>1, <3>2
  <2>3. MergeRight'
    <3>1. CASE merge = None
      BY <1>6, <2>1, <3>1
    <3>2. CASE merge # None
      <4>1. merge \in Appending /\ merge' = [merge EXCEPT !.stale = TRUE]
        BY <1>0, <2>1, <3>2 DEF MergeRight
      <4>2. merge' \in Appending /\ merge'.stale
        BY <4>1 DEF Appending
      <4> QED
        BY <4>2 DEF MergeRight
    <3> QED
      BY <3>1, <3>2
  <2> QED
    BY <1>3, <2>1, <2>2, <2>3 DEF CopyInv
<1>11. ASSUME NEW t \in Tokens, NEW id \in Ids, ChangePassword(t, id) PROVE CopyInv'
  <2>1. /\ cards[id] # None /\ UNCHANGED <<cards, tries, held, merge, booted>> /\ booted
        /\ rmw' = [id |-> id, copy |-> cards[id], stale |-> FALSE, what |-> "password"]
    BY <1>11 DEF ChangePassword, Begin, Idle, store
  <2>2. RewriteRight'
    <3>1. PICK what \in {"count", "welcome", "password"} : what = "password"
      OBVIOUS
    <3> QED
      BY <2>1, <3>1, RewriteBegins
  <2> QED
    BY <1>1, <1>5, <2>1, <2>2 DEF CopyInv
<1>12. ASSUME NEW t \in Tokens, NEW id \in Ids, GetCard(t, id) PROVE CopyInv'
  <2>1. /\ cards[id] # None /\ UNCHANGED <<cards, tries, rmw, merge, booted>>
        /\ held' = [id |-> id, copy |-> cards[id], stale |-> FALSE]
    BY <1>12 DEF GetCard, store
  <2>2. cards[id] \in Card
    BY <2>1 DEF StoreInv
  <2>3. HeldRight'
    BY <2>1, <2>2 DEF HeldRight, Copy
  <2> QED
    BY <1>2, <1>5, <2>1, <2>3 DEF CopyInv
<1>13. ASSUME NEW t \in Tokens, NEW id \in Ids, DeleteCard(t, id) PROVE CopyInv'
  <2>1. /\ rmw' = None /\ held' = Outdated(held, id) /\ merge' = Outdated(merge, id)
        /\ cards' = [cards EXCEPT ![id] = None]
    BY <1>13 DEF DeleteCard, Delete, Begin, Idle
  <2>2. \A j \in Ids : j # id => cards'[j] = cards[j]
    BY <2>1 DEF StoreInv
  <2> QED
    BY <1>0, <1>3, <2>1, <2>2, HeldGoes, MergeGoes DEF CopyInv
<1>14. ASSUME NEW id \in Ids, Core1Delete(id) PROVE CopyInv'
  <2>1. /\ rmw' = Outdated(rmw, id) /\ held' = Outdated(held, id) /\ booted' = booted /\ merge' = None
        /\ cards' = [cards EXCEPT ![id] = None] /\ tries' = [tries EXCEPT ![id] = 0]
    BY <1>14 DEF Core1Begin, Core1Delete, Delete
  <2> QED
    BY <1>6, <2>1, Core1Outdates DEF CopyInv
<1>15. ASSUME NEW id \in Ids, Core1Merge(id) PROVE CopyInv'
  <2>1. /\ UNCHANGED <<cards, tries, rmw, held, booted>> /\ cards[id] \in Card \cup {None}
        /\ merge' = [id |-> id, copy |-> cards[id], stale |-> FALSE]
    BY <1>15 DEF Core1Merge, store, StoreInv
  <2>2. merge' \in Appending /\ cards'[merge'.id] = merge'.copy
    BY <2>1 DEF Appending
  <2> QED
    BY <1>1, <1>2, <2>1, <2>2 DEF CopyInv, MergeRight
<1>16. ASSUME NEW ok \in BOOLEAN, Core1Put(ok) PROVE CopyInv'
  <2>1. PICK c : /\ cards' = IF ok THEN [cards EXCEPT ![merge.id] = c] ELSE cards
                 /\ tries' = tries \/ tries' = [tries EXCEPT ![merge.id] = 0]
                 /\ ~ok => tries' = tries
                 /\ held' = IF ok THEN Outdated(held, merge.id) ELSE held
                 /\ rmw' = IF ok THEN Outdated(rmw, merge.id) ELSE rmw
    BY <1>16 DEF Core1Put, Put
  <2>2. booted' = booted /\ merge' = None /\ merge.id \in Ids
    BY <1>0, <1>16 DEF Core1Put, MergeRight, Appending
  <2>3. CASE ok
    BY <1>6, <2>1, <2>2, <2>3, Core1Outdates DEF CopyInv
  <2>4. CASE ~ok
    BY <1>1, <1>2, <1>6, <2>1, <2>2, <2>4 DEF CopyInv
  <2> QED
    BY <2>3, <2>4
<1>17. ASSUME NEW t \in Tokens, NEW r \in Roles, NEW ok \in BOOLEAN, NEW locked \in BOOLEAN,
              PutCard(t, r, locked, ok)
       PROVE  CopyInv'
  <2>1. /\ rmw' = None /\ held' = None /\ held.id \in Ids
        /\ merge' = IF ok THEN Outdated(merge, held.id) ELSE merge
    BY <1>0, <1>17 DEF PutCard, Begin, Idle, HeldRight, Copy
  <2>2. /\ ~ok => cards' = cards
        /\ \A j \in Ids : j # held.id => cards'[j] = cards[j]
    BY <1>17, <2>1 DEF PutCard, Put, StoreInv
  <2>3. MergeRight'
    BY <1>0, <1>5, <2>1, <2>2, MergeGoes
  <2> QED
    BY <1>3, <1>4, <2>1, <2>3 DEF CopyInv
<1>18. ASSUME NEW t \in Tokens, NEW r \in Roles, NEW ok \in BOOLEAN, NEW n \in Names,
              CreateUser(t, n, r, ok)
       PROVE  CopyInv'
  <2>1. rmw' = None /\ NextId \in Ids
    BY <1>18 DEF CreateUser, Begin, Idle
  <2>2. CASE ok
    <3>1. /\ held' = Outdated(held, NextId) /\ merge' = Outdated(merge, NextId)
          /\ \A j \in Ids : j # NextId => cards'[j] = cards[j]
      BY <1>18, <2>1, <2>2 DEF CreateUser, Put, StoreInv
    <3> QED
      BY <1>0, <1>3, <2>1, <3>1, HeldGoes, MergeGoes DEF CopyInv
  <2>3. CASE ~ok
    <3>1. held' = held /\ merge' = merge /\ cards' = cards
      BY <1>18, <2>3 DEF CreateUser, Put
    <3> QED
      BY <1>1, <1>3, <1>5, <2>1, <3>1 DEF CopyInv
  <2> QED
    BY <2>2, <2>3
<1>19. ASSUME NEW ok \in BOOLEAN, Boot(ok) PROVE CopyInv'
  <2>1. rmw' = None /\ merge' = None
    BY <1>0, <1>19 DEF Boot, RewriteRight
  <2>2. CASE ok /\ cards[0] = None
    <3>1. held' = Outdated(held, 0) /\ \A j \in Ids : j # 0 => cards'[j] = cards[j]
      BY <1>0, <1>19, <2>2 DEF Boot, Put, StoreInv
    <3> QED
      BY <1>0, <1>3, <1>6, <2>1, <3>1, HeldGoes DEF CopyInv
  <2>3. CASE ~(ok /\ cards[0] = None)
    <3>1. held' = held /\ cards' = cards
      BY <1>19, <2>3 DEF Boot, Put, store
    <3> QED
      BY <1>1, <1>3, <1>6, <2>1, <3>1 DEF CopyInv
  <2> QED
    BY <2>2, <2>3
<1>20. CASE Tick
  <2>1. UNCHANGED <<cards, tries, held, merge, rmw, booted>>
    BY <1>20 DEF Tick, store
  <2> QED
    BY <1>1, <1>2, <1>5, <2>1 DEF CopyInv
<1>21. CASE Restart
  <2>1. rmw' = None /\ merge' = None /\ held' = held /\ cards' = cards
    BY <1>21 DEF Restart, store
  <2> QED
    BY <1>1, <1>3, <1>6, <2>1 DEF CopyInv
<1> QED
  BY <1>7, <1>8, <1>9, <1>10, <1>11, <1>12, <1>13, <1>14, <1>15, <1>16, <1>17, <1>18, <1>19, <1>20, <1>21
  DEF Next, Request

-----------------------------------------------------------------------------
(* The tokens.                                                             *)

\* What happens to card id takes no account from a session that is not an orphan.
Harmless(id) ==
    \/ cards'[id] = cards[id] \/ cards[id] = None
    \/ cards'[id] # None /\ cards'[id].acct = cards[id].acct
    \/ Of(id) \subseteq orphans'

LEMMA OrphansGrow ==
    ASSUME TableInv, TokenInv, NEW id \in Ids
    PROVE  orphans \cup Of(id) \subseteq Tokens
BY DEF TableInv, TokenInv, Of

LEMMA OwnerKept ==
    ASSUME TableInv, TokenInv, NEW i \in Slots, sess[i].active, orphans \subseteq orphans',
           \A id \in Ids : Harmless(id)
    PROVE  \/ sess[i].tok \in orphans'
           \/ cards'[sess[i].card] # None /\ cards'[sess[i].card].acct = sess[i].acct
<1>1. PICK id \in Ids : id = sess[i].card
  BY DEF TableInv, SessionRec
<1>2. sess[i].tok \in orphans \/ (cards[id] # None /\ cards[id].acct = sess[i].acct)
  BY <1>1 DEF TokenInv, OwnerRight
<1>3. sess[i].tok \in Of(id)
  BY <1>1 DEF Of
<1> QED
  BY <1>1, <1>2, <1>3 DEF Harmless

LEMMA TokensKept ==
    ASSUME TableInv, TokenInv, NoneBegins, orphans \subseteq orphans', orphans' \subseteq Tokens,
           refused' \subseteq Tokens,
           \A i \in Slots : sess'[i].active => sess[i].tok \notin refused' \ refused,
           \A id \in Ids : Harmless(id)
    PROVE  TokenInv'
<1>1. Tokens' = Tokens
  BY DEF NoneBegins, Tokens
<1>2. ASSUME NEW i \in Slots, sess'[i].active PROVE sess'[i].tok \notin refused' /\ OwnerRight(i)'
  <2>1. sess[i].active /\ SameSession(i)
    BY <1>2 DEF NoneBegins
  <2>2. sess[i].tok \notin refused'
    BY <1>2, <2>1 DEF TokenInv
  <2> QED
    BY <2>1, <2>2, OwnerKept DEF SameSession, OwnerRight
<1> QED
  BY <1>1, <1>2 DEF TokenInv

LEMMA TokensBegin ==
    ASSUME TableInv, TokenInv, NEW s \in Slots, NEW id \in Ids, NEW acct, Begins(s, id, acct),
           orphans \subseteq orphans', orphans' \subseteq Tokens', refused' = refused,
           \A j \in Ids : Harmless(j),
           issued + 1 \in orphans' \/ (cards'[id] # None /\ cards'[id].acct = acct)
    PROVE  TokenInv'
<1>1. issued + 1 \notin Tokens /\ Tokens \subseteq Tokens'
  BY DEF TableInv, Tokens, Begins
<1>2. ASSUME NEW i \in Slots, sess'[i].active PROVE sess'[i].tok \notin refused' /\ OwnerRight(i)'
  <2>1. CASE i = s
    <3>1. sess'[i].tok = issued + 1 /\ sess'[i].card = id /\ sess'[i].acct = acct
      BY <2>1 DEF Begins, Session
    <3> QED
      BY <1>1, <3>1 DEF TokenInv, OwnerRight
  <2>2. CASE i # s
    <3>1. sess'[i] = sess[i]
      BY <2>2 DEF Begins
    <3>2. sess[i].tok \notin refused /\ sess[i].active
      BY <1>2, <3>1 DEF TokenInv
    <3> QED
      BY <3>1, <3>2, OwnerKept DEF OwnerRight
  <2> QED
    BY <2>1, <2>2
<1> QED
  BY <1>1, <1>2 DEF TokenInv

\* The number of a new card is free if the scan sees every card.
LEMMA NextIsFree ==
    ASSUME AuthAssumption, Scanned = Present, NextId \in Ids
    PROVE  cards[NextId] = None
<1>1. CASE Scanned = {}
  BY <1>1 DEF NextId, Present
<1>2. CASE Scanned # {}
  <2> DEFINE last == CHOOSE id \in Scanned : \A j \in Scanned : j <= id
  <2>1. Scanned \in SUBSET (0 .. MaxId) /\ MaxId \in Nat
    BY Constants DEF Present, Ids
  <2>2. last \in Scanned /\ \A j \in Scanned : j <= last
    BY <1>2, <2>1, Greatest
  <2>3. NextId = 1 + last
    BY <1>2 DEF NextId
  <2> HIDE DEF last
  <2>4. NextId \notin Scanned
    BY <2>1, <2>2, <2>3
  <2> QED
    BY <2>4 DEF Present
<1> QED
  BY <1>1, <1>2

LEMMA WriteBackTokens ==
    ASSUME AuthAssumption, TableInv, StoreInv, CopyInv, TokenInv, NEW ok \in BOOLEAN, WriteBack(ok)
    PROVE  TokenInv'
<1>1. PICK id \in Ids, copy \in Card :
        /\ id = rmw.id /\ copy = rmw.copy /\ rmw.stale \in BOOLEAN
        /\ rmw.stale \/ cards[id] = copy
  BY DEF WriteBack, CopyInv, RewriteRight, Rewrite
<1>2. PICK c \in Card : /\ c = IF rmw.what = "count" THEN Counted(copy) ELSE Cleared(copy)
                        /\ c.acct = copy.acct
  BY CardChanges
<1>3. /\ cards' = (IF ok THEN [cards EXCEPT ![id] = c] ELSE cards) /\ refused' = refused
      /\ orphans' = orphans \cup (IF rmw.stale /\ ok THEN Of(id) ELSE {})
                             \cup (IF rmw.stale /\ rmw.what = "welcome" THEN {issued'} ELSE {})
  BY <1>1, <1>2 DEF WriteBack, Put
<1>4. ~rmw.stale => cards'[id] # None /\ cards'[id].acct = copy.acct
  BY <1>1, <1>2, <1>3, StatedOf DEF StoreInv
<1>5. \A j \in Ids : Harmless(j)
  <2>1. Harmless(id)
    <3>1. CASE rmw.stale /\ ok
      BY <1>3, <3>1 DEF Harmless
    <3>2. CASE ~ok
      BY <1>3, <3>2 DEF Harmless
    <3>3. CASE ~rmw.stale
      BY <1>1, <1>4, <3>3 DEF Harmless
    <3> QED
      BY <3>1, <3>2, <3>3
  <2>2. \A j \in Ids : j # id => cards'[j] = cards[j]
    BY <1>3 DEF StoreInv
  <2> QED
    BY <2>1, <2>2 DEF Harmless
<1>6. CASE rmw.what = "welcome"
  <2>1. NewSession(id, copy.acct) /\ copy.acct \in Nat
    BY <1>1, <1>6 DEF WriteBack, Card
  <2>2. PICK s \in Slots : Begins(s, id, copy.acct)
    BY <2>1, NewSlot
  <2>3. issued' = issued + 1 /\ issued + 1 \in Tokens' /\ Tokens \subseteq Tokens'
    BY <2>2 DEF Begins, TableInv, Tokens
  <2>4. orphans \subseteq orphans' /\ orphans' \subseteq Tokens'
    BY <1>3, <2>3, OrphansGrow
  <2>5. issued + 1 \in orphans' \/ (cards'[id] # None /\ cards'[id].acct = copy.acct)
    BY <1>1, <1>3, <1>4, <1>6, <2>3
  <2> QED
    BY <1>3, <1>5, <2>2, <2>4, <2>5, TokensBegin
<1>7. CASE rmw.what # "welcome"
  <2>1. UNCHANGED <<sess, issued>>
    BY <1>7 DEF WriteBack
  <2>2. NoneBegins
    BY <2>1 DEF NoneBegins, SameSession, TableInv
  <2>3. orphans \subseteq orphans' /\ orphans' \subseteq Tokens
    BY <1>3, <1>7, OrphansGrow
  <2> QED
    BY <1>3, <1>5, <2>1, <2>2, <2>3, TokensKept DEF TokenInv
<1> QED
  BY <1>6, <1>7

LEMMA Core1PutTokens ==
    ASSUME AuthAssumption, TableInv, StoreInv, CopyInv, TokenInv, NEW ok \in BOOLEAN, Core1Put(ok)
    PROVE  TokenInv'
<1>1. merge \in Appending /\ (merge.stale \/ cards[merge.id] = merge.copy)
  BY DEF Core1Put, CopyInv, MergeRight
<1>2. PICK id \in Ids, old \in Card \cup {None} : id = merge.id /\ old = merge.copy
  BY <1>1 DEF Appending
<1>3. PICK c \in Merged(old) :
        /\ cards' = IF ok THEN [cards EXCEPT ![id] = c] ELSE cards
        /\ orphans' = IF ok /\ merge.stale THEN orphans \cup Of(id) ELSE orphans
  BY <1>2 DEF Core1Put, Put
<1>4. c # None /\ (old # None => c.acct = old.acct)
  BY <1>3, MergedCards
<1>5. Harmless(id)
  <2>1. CASE ~ok
    BY <1>3, <2>1 DEF Harmless
  <2>2. CASE ok /\ merge.stale
    BY <1>3, <2>2 DEF Harmless
  <2>3. CASE ok /\ ~merge.stale
    <3>1. cards'[id] = c /\ cards[id] = old
      BY <1>1, <1>2, <1>3, <2>3 DEF StoreInv
    <3> QED
      BY <1>4, <3>1 DEF Harmless
  <2> QED
    BY <2>1, <2>2, <2>3
<1>6. \A j \in Ids : Harmless(j)
  <2>1. \A j \in Ids : j # id => cards'[j] = cards[j]
    BY <1>3 DEF StoreInv
  <2> QED
    BY <1>5, <2>1 DEF Harmless
<1>7. orphans \subseteq orphans' /\ orphans' \subseteq Tokens
  BY <1>3, OrphansGrow DEF TokenInv
<1>8. UNCHANGED <<sess, issued, refused>>
  BY DEF Core1Put
<1>9. NoneBegins
  BY <1>8 DEF NoneBegins, SameSession, TableInv
<1> QED
  BY <1>6, <1>7, <1>8, <1>9, TokensKept DEF TokenInv

LEMMA TokenStep ==
    ASSUME AuthAssumption, TableInv, StoreInv, CopyInv, TokenInv, Next
    PROVE  TokenInv'
<1>0. refused \subseteq Tokens /\ orphans \subseteq Tokens /\ sess \in [Slots -> SessionRec]
  BY DEF TokenInv, TableInv
<1>1. UNCHANGED <<sess, issued>> => NoneBegins
  BY <1>0 DEF NoneBegins, SameSession
<1>2. cards' = cards => \A id \in Ids : Harmless(id)
  BY DEF Harmless
<1>3. ASSUME NoneBegins, UNCHANGED <<cards, refused, orphans>> PROVE TokenInv'
  BY <1>0, <1>2, <1>3, TokensKept
<1>4. ASSUME sess' = [i \in Slots |-> NoSession], UNCHANGED <<issued, refused, orphans>> PROVE TokenInv'
  BY <1>0, <1>4, ClearedTable DEF TokenInv, Tokens
<1>5. ASSUME NEW id \in Ids, Delete(id), NoneBegins, refused' = refused PROVE TokenInv'
  <2>1. orphans' = orphans \cup Of(id) /\ cards' = [cards EXCEPT ![id] = None]
    BY <1>5 DEF Delete
  <2>2. \A j \in Ids : Harmless(j)
    <3>1. \A j \in Ids : j # id => cards'[j] = cards[j]
      BY <2>1 DEF StoreInv
    <3> QED
      BY <2>1, <3>1 DEF Harmless
  <2>3. orphans' \subseteq Tokens
    BY <2>1, OrphansGrow
  <2> QED
    BY <1>0, <1>5, <2>1, <2>2, <2>3, TokensKept
<1>6. ASSUME NEW n \in Names, NEW right \in BOOLEAN, Login(n, right) PROVE TokenInv'
  <2>1. UNCHANGED <<cards, refused, orphans>>
    BY <1>6 DEF Login, store
  <2>2. CASE NoneBegins
    BY <1>3, <2>1, <2>2
  <2>3. ASSUME NEW id \in Ids, cards[id] # None, cards[id].acct \in Nat, NewSession(id, cards[id].acct)
        PROVE  TokenInv'
    <3>1. PICK s \in Slots : Begins(s, id, cards[id].acct)
      BY <2>3, NewSlot
    <3>2. Tokens \subseteq Tokens'
      BY <3>1 DEF Begins, Tokens, TableInv
    <3> QED
      BY <1>0, <1>2, <2>1, <2>3, <3>1, <3>2, TokensBegin
  <2> QED
    BY <1>6, <2>2, <2>3, BeginsBy
<1>7. ASSUME NEW ok \in BOOLEAN, WriteBack(ok) PROVE TokenInv'
  BY <1>7, WriteBackTokens
<1>8. ASSUME NEW t \in Tokens, Refuse(t) PROVE TokenInv'
  <2>1. /\ sess' = Checked(t) /\ issued' = issued /\ refused' = refused \cup {t}
        /\ UNCHANGED <<cards, orphans>> /\ ~Serves(t)
    BY <1>8 DEF Refuse, store
  <2>2. \A i \in Slots : sess'[i].active => sess[i].tok # t
    <3> SUFFICES ASSUME NEW i \in Slots, sess'[i].active, sess[i].tok = t PROVE FALSE
      OBVIOUS
    <3>1. Holds(i, t)
      BY <2>1, CheckedTable DEF Holds, NoneBegins
    <3>2. Expired(i) \/ Gone(i)
      BY <2>1, <3>1 DEF Serves
    <3> QED
      BY <2>1, <3>1, <3>2, CheckedTable
  <2>3. NoneBegins
    BY <2>1, CheckedTable
  <2>4. refused' \subseteq Tokens
    BY <1>0, <2>1
  <2>5. \A i \in Slots : sess'[i].active => sess[i].tok \notin refused' \ refused
    BY <2>1, <2>2
  <2> QED
    BY <1>0, <1>2, <2>1, <2>3, <2>4, <2>5, TokensKept
<1>9. ASSUME NEW t \in Tokens, Logout(t) PROVE TokenInv'
  <2>1. UNCHANGED <<cards, refused, orphans>> /\ NoneBegins
    BY <1>9, LogoutTable DEF Logout, store
  <2> QED
    BY <1>3, <2>1
<1>10. ASSUME NEW t \in Tokens, Wipe(t) PROVE TokenInv'
  BY <1>4, <1>10 DEF Wipe
<1>11. ASSUME NEW t \in Tokens, NEW id \in Ids, ChangePassword(t, id) \/ GetCard(t, id) PROVE TokenInv'
  <2>1. sess' = Checked(t) /\ issued' = issued /\ UNCHANGED <<cards, refused, orphans>>
    BY <1>11 DEF ChangePassword, GetCard, Admitted, store
  <2> QED
    BY <1>3, <2>1, CheckedTable
<1>12. ASSUME NEW t \in Tokens, NEW id \in Ids, DeleteCard(t, id) PROVE TokenInv'
  <2>1. sess' = Checked(t) /\ issued' = issued /\ refused' = refused /\ Delete(id)
    BY <1>12 DEF DeleteCard, Admitted
  <2> QED
    BY <1>5, <2>1, CheckedTable
<1>13. ASSUME NEW id \in Ids, Core1Delete(id) PROVE TokenInv'
  <2>1. UNCHANGED <<sess, issued, refused>> /\ Delete(id)
    BY <1>13 DEF Core1Delete
  <2> QED
    BY <1>1, <1>5, <2>1
<1>14. ASSUME NEW id \in Ids, Core1Merge(id) PROVE TokenInv'
  BY <1>1, <1>3, <1>14 DEF Core1Merge, store
<1>15. ASSUME NEW ok \in BOOLEAN, Core1Put(ok) PROVE TokenInv'
  BY <1>15, Core1PutTokens
<1>16. ASSUME NEW t \in Tokens, NEW r \in Roles, NEW ok \in BOOLEAN, NEW locked \in BOOLEAN,
              PutCard(t, r, locked, ok)
       PROVE  TokenInv'
  <2>1. sess' = Checked(t) /\ issued' = issued /\ refused' = refused
    BY <1>16 DEF PutCard, Admitted
  <2>2. PICK id \in Ids, copy \in Card :
          /\ id = held.id /\ copy = held.copy
          /\ held.stale \/ cards[id] = copy
    BY <1>16 DEF PutCard, CopyInv, HeldRight, Copy
  <2>3. PICK c : c = [copy EXCEPT !.role = r, !.locked = locked]
    OBVIOUS
  <2>4. c \in Card /\ c # None /\ copy # None /\ c.acct = copy.acct
    <3>1. c \in Card /\ c.acct = copy.acct
      BY <2>3 DEF Card
    <3> QED
      BY <3>1, NoneAssumption
  <2>5. /\ cards' = IF ok THEN [cards EXCEPT ![id] = c] ELSE cards
        /\ orphans' = IF ok /\ held.stale THEN orphans \cup Of(id) ELSE orphans
    BY <1>16, <2>2, <2>3 DEF PutCard, Put
  <2>6. \A j \in Ids : Harmless(j)
    <3>1. \A j \in Ids : j # id => cards'[j] = cards[j]
      BY <2>5 DEF StoreInv
    <3>2. Harmless(id)
      <4>1. CASE ~ok
        BY <2>5, <4>1 DEF Harmless
      <4>2. CASE ok /\ held.stale
        BY <2>5, <4>2 DEF Harmless
      <4>3. CASE ok /\ ~held.stale
        <5>1. cards'[id] = c /\ cards[id] = copy
          BY <2>2, <2>5, <4>3 DEF StoreInv
        <5> QED
          BY <2>4, <5>1 DEF Harmless
      <4> QED
        BY <4>1, <4>2, <4>3
    <3> QED
      BY <3>1, <3>2 DEF Harmless
  <2>7. orphans \subseteq orphans' /\ orphans' \subseteq Tokens
    BY <1>0, <2>5, OrphansGrow
  <2> QED
    BY <1>0, <2>1, <2>6, <2>7, CheckedTable, TokensKept
<1>17. ASSUME NEW t \in Tokens, NEW r \in Roles, NEW ok \in BOOLEAN, NEW n \in Names,
              CreateUser(t, n, r, ok)
       PROVE  TokenInv'
  <2>1. sess' = Checked(t) /\ issued' = issued /\ refused' = refused
    BY <1>17 DEF CreateUser, Admitted
  <2>2. PICK id \in Ids : id = NextId
    BY <1>17 DEF CreateUser
  <2>3. /\ \A j \in Ids : j # id => cards'[j] = cards[j]
        /\ ~ok => cards' = cards
        /\ orphans' = IF ok /\ Scanned # Present THEN orphans \cup Of(id) ELSE orphans
    BY <1>17, <2>2 DEF CreateUser, Put, StoreInv
  <2>4. Harmless(id)
    BY <2>2, <2>3, NextIsFree DEF Harmless
  <2>5. \A j \in Ids : Harmless(j)
    BY <2>3, <2>4 DEF Harmless
  <2>6. orphans \subseteq orphans' /\ orphans' \subseteq Tokens
    BY <1>0, <2>3, OrphansGrow
  <2> QED
    BY <1>0, <2>1, <2>5, <2>6, CheckedTable, TokensKept
<1>18. CASE Tick
  BY <1>1, <1>3, <1>18 DEF Tick, store
<1>19. CASE Restart
  BY <1>4, <1>19 DEF Restart
<1>20. ASSUME NEW ok \in BOOLEAN, Boot(ok) PROVE TokenInv'
  BY <1>4, <1>20 DEF Boot
<1> QED
  BY <1>6, <1>7, <1>8, <1>9, <1>10, <1>11, <1>12, <1>13, <1>14, <1>15, <1>16, <1>17, <1>18, <1>19, <1>20
  DEF Next, Request

-----------------------------------------------------------------------------
(* The theorems.                                                           *)

LEMMA AuthInit == AuthAssumption /\ Init => AuthInv
<1> SUFFICES ASSUME AuthAssumption, Init PROVE AuthInv
  OBVIOUS
<1>1. TableInv
  <2>1. sess \in [Slots -> SessionRec] /\ \A i \in Slots : ~sess[i].active
    BY Constants DEF Init, NoSession, SessionRec
  <2> QED
    BY <2>1 DEF Init, TableInv
<1>2. StoreInv
  <2>1. \A id \in Ids : cards[id] = None /\ stated[id] = None /\ tries[id] = 0
    BY DEF Init
  <2>2. stated = [id \in Ids |-> Stated(cards[id])]
    BY <2>1 DEF Init, Stated
  <2> QED
    BY <2>1, <2>2 DEF Init, StoreInv
<1>3. CopyInv /\ TokenInv
  BY DEF Init, CopyInv, RewriteRight, HeldRight, MergeRight, TokenInv, NoSession
<1> QED
  BY <1>1, <1>2, <1>3 DEF AuthInv

LEMMA AuthStep == AuthAssumption /\ AuthInv /\ [Next]_vars => AuthInv'
<1> SUFFICES ASSUME AuthAssumption, AuthInv, [Next]_vars PROVE AuthInv'
  OBVIOUS
<1>1. CASE Next
  BY <1>1, TableStep, StoreStep, CopyStep, TokenStep DEF AuthInv
<1>2. CASE UNCHANGED vars
  <2>1. UNCHANGED <<cards, sess, now, booted, rmw, held, merge, issued, stated, tries, refused, orphans,
                    ops, raws, restarts>>
    BY <1>2 DEF vars
  <2>2. TableInv' /\ StoreInv'
    BY <2>1 DEF AuthInv, TableInv, StoreInv, Tokens
  <2>3. CopyInv' /\ TokenInv'
    BY <2>1 DEF AuthInv, CopyInv, RewriteRight, HeldRight, MergeRight, TokenInv, OwnerRight, Tokens
  <2> QED
    BY <2>2, <2>3 DEF AuthInv
<1> QED
  BY <1>1, <1>2

LEMMA AuthAlways == Spec => []AuthInv
<1>1. AuthAssumption
  BY AuthAssumption
<1> QED
  BY <1>1, AuthInit, AuthStep, PTL DEF Spec

\* Cards, sessions, copies and tokens have their types, and two active sessions never have
\* the same token.
THEOREM TypeCorrect == Spec => []TypeOK
<1>1. AuthInv => TypeOK
  <2> SUFFICES ASSUME AuthInv PROVE TypeOK
    OBVIOUS
  <2>1. \A id \in Ids : Stated(cards[id]) \in [role : Roles, locked : BOOLEAN] \cup {None}
    BY DEF AuthInv, StoreInv, Stated, Card
  <2>2. stated \in [Ids -> [role : Roles, locked : BOOLEAN] \cup {None}]
    BY <2>1 DEF AuthInv, StoreInv
  <2> QED
    BY <2>2 DEF AuthInv, TableInv, StoreInv, CopyInv, RewriteRight, HeldRight, MergeRight, TokenInv,
                TypeOK, SessionRec, Rewrite, Appending
<1> QED
  BY <1>1, AuthAlways, PTL

\* user_auth_login locks a user after FailMax wrong passwords, whatever the order of logins,
\* edits, deletions and power cuts; the one more that the wrap of fail_count lets through is
\* the only one.
THEOREM LockOutHolds == Spec => []GuessesBounded
<1>1. AuthInv => GuessesBounded
  <2> SUFFICES ASSUME AuthInv, NEW id \in Ids
               PROVE  \/ tries[id] <= FailMax
                      \/ tries[id] = FailMax + 1 /\ cards[id].fails < tries[id]
    BY DEF GuessesBounded
  <2>1. 0 <= FailMax
    BY AuthAssumption, Constants
  <2> QED
    BY <2>1 DEF AuthInv, StoreInv, CountRight
<1> QED
  BY <1>1, AuthAlways, PTL

\* Nothing but an administrator, a raw client or a lock-out changes what a card lets its user do:
\* logins, password changes and appends of other fields, which write the whole card, and start-up
\* keep it, unless the other core or an editor wrote the card between the read and the put.
THEOREM RightsSurvive == Spec => []AdminFieldsSurvive
<1>1. AuthInv => AdminFieldsSurvive
  BY DEF AuthInv, StoreInv, AdminFieldsSurvive
<1> QED
  BY <1>1, AuthAlways, PTL

\* user_auth_check looks at a session's card number only; still no session serves another
\* account than the one that logged in, but for those whose card was taken from under them.
THEOREM SessionsKeepAccount == Spec => []SessionKeepsAccount
<1>1. AuthInv => SessionKeepsAccount
  BY DEF AuthInv, TokenInv, OwnerRight, SessionKeepsAccount
<1> QED
  BY <1>1, AuthAlways, PTL

\* How a session leaves the table in one step.
LeavesRightly(i) ==
    \/ sess'[i].active /\ sess'[i].tok = sess[i].tok
    \/ \E t \in Tokens : Holds(i, t) /\ (Logout(t) \/ Expired(i) \/ Gone(i))
    \/ \A j \in Slots : sess[j].active /\ (\/ sess[i].created <= sess[j].created
                                          \/ now >= ClockMod)

LEMMA EvictedOldest ==
    ASSUME AuthAssumption, TableInv, NEW id \in Ids, NEW acct \in Nat, NewSession(id, acct),
           NEW i \in Slots, sess[i].active
    PROVE  LeavesRightly(i)
<1>1. PICK s \in Slots :
        /\ Begins(s, id, acct)
        /\ ~sess[s].active \/ \A j \in Slots : /\ sess[j].active
                                               /\ sess[s].created % ClockMod <= sess[j].created % ClockMod
  BY NewSlot
<1>2. CASE i # s
  BY <1>1, <1>2 DEF Begins, LeavesRightly
<1>3. CASE i = s
  <2> SUFFICES ASSUME NEW j \in Slots
               PROVE  sess[j].active /\ (sess[i].created <= sess[j].created \/ now >= ClockMod)
    BY DEF LeavesRightly
  <2>1. sess[j].active /\ sess[i].created % ClockMod <= sess[j].created % ClockMod
    BY <1>1, <1>3
  <2>2. ASSUME now < ClockMod
        PROVE  \A k \in Slots : sess[k].active => sess[k].created \in Nat /\ sess[k].created < ClockMod
    BY Constants, <2>2 DEF TableInv, SessionRec
  <2>3. \A x \in Nat : x < ClockMod => x % ClockMod = x
    BY Constants
  <2>4. CASE now < ClockMod
    BY <2>1, <2>2, <2>3, <2>4
  <2>5. now \in Nat /\ ClockMod \in Nat
    BY Constants DEF TableInv
  <2> QED
    BY <2>1, <2>4, <2>5
<1> QED
  BY <1>2, <1>3

LEMMA SessionsStep ==
    ASSUME AuthAssumption, AuthInv, Next, NEW i \in Slots, sess[i].active, booted, booted'
    PROVE  LeavesRightly(i)
<1>0. TableInv /\ StoreInv /\ CopyInv /\ sess[i].tok \in Tokens
  BY DEF AuthInv, TableInv
<1>1. sess' = sess => LeavesRightly(i)
  BY DEF LeavesRightly
<1>2. ASSUME NEW t, sess' = Checked(t), issued' = issued PROVE LeavesRightly(i)
  <2>1. CASE sess'[i].active
    BY <1>0, <1>2, <2>1, CheckedTable DEF SameSession, LeavesRightly
  <2>2. CASE ~sess'[i].active
    <3>1. Holds(i, t) /\ (Expired(i) \/ Gone(i))
      BY <1>0, <1>2, <2>2, CheckedTable
    <3> QED
      BY <1>0, <3>1 DEF Holds, LeavesRightly
  <2> QED
    BY <2>1, <2>2
<1>3. ASSUME NEW n \in Names, NEW right \in BOOLEAN, Login(n, right) PROVE LeavesRightly(i)
  <2>1. PICK id \in Named(n) : sess' = sess \/ NewSession(id, cards[id].acct)
    BY <1>3 DEF Login
  <2>2. id \in Ids /\ cards[id] \in Card
    BY <1>0 DEF Named, Scanned, Present, StoreInv
  <2>3. cards[id].acct \in Nat
    BY <2>2 DEF Card
  <2> QED
    BY <1>0, <1>1, <2>1, <2>2, <2>3, EvictedOldest
<1>4. ASSUME NEW ok \in BOOLEAN, WriteBack(ok) PROVE LeavesRightly(i)
  <2>1. sess' = sess \/ NewSession(rmw.id, rmw.copy.acct)
    BY <1>4 DEF WriteBack
  <2>2. rmw.id \in Ids /\ rmw.copy \in Card
    BY <1>0, <1>4 DEF WriteBack, CopyInv, RewriteRight, Rewrite
  <2>3. rmw.copy.acct \in Nat
    BY <2>2 DEF Card
  <2> QED
    BY <1>0, <1>1, <2>1, <2>2, <2>3, EvictedOldest
<1>5. ASSUME NEW t \in Tokens, Logout(t) PROVE LeavesRightly(i)
  <2>1. CASE sess'[i].active
    BY <1>0, <1>5, <2>1, LogoutTable DEF SameSession, LeavesRightly
  <2>2. CASE ~sess'[i].active
    BY <1>0, <1>5, <2>2, LogoutTable DEF LeavesRightly
  <2> QED
    BY <2>1, <2>2
<1>6. ASSUME NEW t \in Tokens, NEW id \in Ids,
             Refuse(t) \/ ChangePassword(t, id) \/ GetCard(t, id) \/ DeleteCard(t, id)
      PROVE  LeavesRightly(i)
  BY <1>2, <1>6 DEF Refuse, ChangePassword, GetCard, DeleteCard, Admitted
<1>7. ASSUME NEW t \in Tokens, NEW r \in Roles, NEW ok \in BOOLEAN, NEW locked \in BOOLEAN, NEW n \in Names,
             PutCard(t, r, locked, ok) \/ CreateUser(t, n, r, ok)
      PROVE  LeavesRightly(i)
  BY <1>2, <1>7 DEF PutCard, CreateUser, Admitted
<1>8. ASSUME NEW t \in Tokens, Wipe(t) PROVE FALSE
  BY <1>8 DEF Wipe
<1>9. ASSUME NEW ok \in BOOLEAN, Boot(ok) PROVE FALSE
  BY <1>9 DEF Boot
<1>10. ASSUME NEW id \in Ids, NEW ok \in BOOLEAN, Core1Delete(id) \/ Core1Merge(id) \/ Core1Put(ok)
       PROVE  LeavesRightly(i)
  BY <1>1, <1>10 DEF Core1Delete, Core1Merge, Core1Put
<1>11. CASE Tick
  BY <1>1, <1>11 DEF Tick
<1>12. CASE Restart
  BY <1>12 DEF Restart
<1>13. 0 \in Ids /\ AdminName \in Names
  BY Constants
<1> QED
  BY <1>3, <1>4, <1>5, <1>6, <1>7, <1>8, <1>9, <1>10, <1>11, <1>12, <1>13 DEF Next, Request

\* A session is only logged out, expired, without its card, or evicted from a full table as one
\* of those created first: a login never takes the slot of a session while another is free, nor
\* that of a younger one, as long as the millisecond clock has not started over.
THEOREM SessionsStay == Spec => LiveSessionKept
<1>1. AuthInv /\ [Next]_vars =>
        [\A i \in Slots : sess[i].active /\ booted' /\ booted =>
            \/ sess'[i].active /\ sess'[i].tok = sess[i].tok
            \/ \E t \in Tokens : Holds(i, t) /\ (Logout(t) \/ Expired(i) \/ Gone(i))
            \/ \A j \in Slots : sess[j].active /\ (\/ sess[i].created <= sess[j].created
                                                  \/ now >= ClockMod)]_vars
  BY AuthAssumption, SessionsStep DEF LeavesRightly
<1> QED
  BY <1>1, AuthAlways, PTL DEF Spec, LiveSessionKept

=============================================================================
