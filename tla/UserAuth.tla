------------------------------- MODULE UserAuth -------------------------------
(***************************************************************************)
(* Users and sessions: the cards of pack 1 and the session table in SRAM   *)
(* (src/user_auth.c), with the HTTP routes that read and change them       *)
(* (src/httpd/web_server.c).  Core 0 runs one request at a time; what      *)
(* happens between two of its steps is Core 1 deleting or rewriting a card *)
(* for a raw TCP client (src/wal_engine.c: it too reads the card first and *)
(* puts it later), a power cut, or, between two requests, other clients:   *)
(* an administrator edits a user by a GET and a later PUT of the card.     *)
(*                                                                         *)
(* A card keeps its owner's name and role (the flags and pack lists an     *)
(* administrator sets), LOCKED and the count of failed logins; the salt,   *)
(* the hash and the layout are left out, so a request brings a password    *)
(* that is right or wrong.  The operators named Mut... are seeded bugs     *)
(* that show that a property notices.                                      *)
(***************************************************************************)
EXTENDS Naturals, FiniteSets

CONSTANTS
    Names, AdminName,     \* user names; the one user_auth_init creates
    Roles, AdminRole,     \* what a card lets its user do
    Can,                  \* role -> subset of Kinds
    MaxId,                \* card numbers of the model: 0 .. MaxId
    ScanMax,              \* cards a scan of pack 1 sees (256)
    SlotCount,            \* SESSION_MAX
    FailMax,              \* failures that lock (10)
    Timeout, ClockMod,    \* SESSION_TIMEOUT_S and 2^32 ms, in ticks
    None,                 \* no card, no copy, nothing begun
    RawCounts,            \* counts of failures a raw client writes
    MaxOps, MaxRaw,       \* bounds: requests, raw requests to Core 1,
    MaxTime, MaxRestarts, MaxRefused   \* ticks, restarts, refused puts

Kinds == {"read", "write", "delete", "admin"}

ASSUME AuthAssumption ==
    /\ AdminName \in Names /\ AdminRole \in Roles /\ Can \in [Roles -> SUBSET Kinds]
    /\ ScanMax \in Nat \ {0} /\ SlotCount \in Nat \ {0} /\ FailMax \in 1 .. 255
    /\ RawCounts \subseteq 0 .. 255
    /\ Timeout \in Nat /\ ClockMod \in Nat /\ Timeout < ClockMod
    /\ MaxId \in Nat /\ MaxOps \in Nat /\ MaxRaw \in Nat /\ MaxTime \in Nat /\ MaxRestarts \in Nat /\ MaxRefused \in Nat

VARIABLES
    cards,      \* pack 1: id -> card, or None
    sess,       \* g_sessions: slot -> session
    now,        \* time since start-up
    booted,     \* user_auth_init has run
    rmw,        \* a login or password change between its read and its put, or None
    held,       \* the copy an editor read, or None
    merge,      \* an append of Core 1 between its read and its put, or None
    issued,     \* number of tokens given out
    \* what the properties compare with
    stated,     \* id -> role and lock as last set, or None for no card
    tries,      \* id -> wrong passwords since the count last started at 0
    refused,    \* tokens that a request was refused with
    orphans,    \* tokens whose card was taken from under them
    \* bounds
    ops, raws, restarts, puts

store == <<cards, stated, tries>>
vars  == <<cards, sess, now, booted, rmw, held, merge, issued, stated, tries, refused, orphans,
           ops, raws, restarts, puts>>

Ids    == 0 .. MaxId
Slots  == 1 .. SlotCount
Tokens == 1 .. issued

NoSession == [active |-> FALSE, tok |-> 0, card |-> 0, created |-> 0, last |-> 0, acct |-> 0]

\* acct is the account a card was created for: ids and names are given again, it is not.
Card == [name : Names, role : Roles, locked : BOOLEAN, fails : 0 .. 255, acct : Nat]
Copy == [id : Ids, copy : Card, stale : BOOLEAN]

ASSUME NoneAssumption == None \notin Card

NewCard(n, r, a) == [name |-> n, role |-> r, locked |-> FALSE, fails |-> 0, acct |-> a]

Stated(c) == IF c = None THEN None ELSE [role |-> c.role, locked |-> c.locked]

(***************************************************************************)
(* Pack 1.                                                                 *)
(***************************************************************************)
Present == {id \in Ids : cards[id] # None}

\* kv_range: the lowest ScanMax cards.
Scanned == {id \in Present : Cardinality({j \in Present : j < id}) < ScanMax}

\* find_user_by_name: the first card of that name, if the scan reaches one.
Named(n) == {id \in Scanned : /\ cards[id].name = n
                              /\ \A j \in Scanned : cards[j].name = n => id <= j}

MutNextId == IF Scanned = {} THEN 0 ELSE CHOOSE id \in Scanned : \A j \in Scanned : j <= id

\* The number user_auth_create_user gives to a new user.
NextId == IF Scanned = {} THEN 0 ELSE 1 + CHOOSE id \in Scanned : \A j \in Scanned : j <= id

\* A put of a card.  flash can refuse it: what was there stays.
Put(id, c, ok) ==
    /\ IF ok THEN UNCHANGED puts ELSE puts < MaxRefused /\ puts' = puts + 1
    /\ cards' = IF ok THEN [cards EXCEPT ![id] = c] ELSE cards

(***************************************************************************)
(* Sessions.                                                               *)
(***************************************************************************)
Holds(i, t) == sess[i].active /\ sess[i].tok = t
Gone(i)     == cards[sess[i].card] = None

\* The unsigned difference of two 32-bit times.
Expired(i)  == (now - sess[i].last) % ClockMod > Timeout

Serves(t)   == \E i \in Slots : Holds(i, t) /\ ~Expired(i) /\ ~Gone(i)

\* user_auth_check: the table after it.  A session that has expired or whose card is gone ends.
Checked(t) == [i \in Slots |->
    IF ~Holds(i, t) THEN sess[i]
    ELSE IF Expired(i) \/ Gone(i) THEN [sess[i] EXCEPT !.active = FALSE]
    ELSE [sess[i] EXCEPT !.last = now]]

CardOf(t) == (CHOOSE s \in {sess[i] : i \in {j \in Slots : Holds(j, t)}} : TRUE).card

\* user_auth_can_read, _can_write, _can_delete on pack 1 and user_auth_is_admin, from the card.
May(t, kind) == kind \in Can[cards[CardOf(t)].role]

MutVictim(free) == IF free # {} THEN free ELSE
    {i \in Slots : \A j \in Slots : sess[j].last <= sess[i].last}

\* The slot of a new session: the first free one, else the first of those created earliest.
Victim(free) == IF free # {} THEN free ELSE
    {i \in Slots : \A j \in Slots : sess[i].created % ClockMod <= sess[j].created % ClockMod}

MutSession(id, acct) ==
    [active |-> TRUE, tok |-> issued, card |-> id, created |-> now, last |-> now, acct |-> acct]

Session(id, acct) ==
    [active |-> TRUE, tok |-> issued + 1, card |-> id, created |-> now, last |-> now, acct |-> acct]

NewSession(id, acct) ==
    LET choice == Victim({i \in Slots : ~sess[i].active})
        slot   == CHOOSE i \in choice : \A j \in choice : i <= j
    IN  sess' = [sess EXCEPT ![slot] = Session(id, acct)] /\ issued' = issued + 1

\* The tokens of the sessions of card id.
Of(id) == {sess[i].tok : i \in {j \in Slots : sess[j].active /\ sess[j].card = id}}

\* A copy of card id read earlier is now out of date.
Outdated(copy, id) == IF copy # None /\ copy.id = id THEN [copy EXCEPT !.stale = TRUE] ELSE copy

(***************************************************************************)
(* Requests.                                                               *)
(***************************************************************************)
Idle == booted /\ rmw = None /\ ops < MaxOps

Begin == Idle /\ ops' = ops + 1

\* The check every route begins with, passed.
Admitted(t, kind) == t \in Tokens /\ Serves(t) /\ May(t, kind) /\ sess' = Checked(t)

\* user_auth_login.  A refusal because of an unknown name or a locked card changes nothing.
Login(n, right) ==
    /\ Begin
    /\ \E id \in Named(n) :
        LET c == cards[id] IN
        /\ ~c.locked
        /\ IF right /\ c.fails = 0
           THEN NewSession(id, c.acct) /\ UNCHANGED rmw
           ELSE /\ rmw' = [id |-> id, copy |-> c, stale |-> FALSE,
                           what |-> IF right THEN "welcome" ELSE "count"]
                /\ UNCHANGED <<sess, issued>>
    /\ UNCHANGED <<store, now, booted, held, merge, refused, orphans, raws, restarts, puts>>

MutCounted(c) == [c EXCEPT !.fails = (@ + 1) % 256, !.locked = @ \/ c.fails + 1 > FailMax]

\* The card after a wrong password; fail_count is a byte.
Counted(c) == LET f == (c.fails + 1) % 256 IN
    [c EXCEPT !.fails = f, !.locked = @ \/ f >= FailMax]

\* user_auth_change_password, old password right; a wrong one changes nothing and is not counted.
ChangePassword(t, id) ==
    /\ Begin
    /\ t \in Tokens /\ Serves(t) /\ sess' = Checked(t)
    /\ CardOf(t) = id \/ May(t, "admin")
    /\ cards[id] # None
    /\ rmw' = [id |-> id, copy |-> cards[id], stale |-> FALSE, what |-> "password"]
    /\ UNCHANGED <<store, now, booted, held, merge, issued, refused, orphans, raws, restarts, puts>>

MutCleared(c) == [c EXCEPT !.fails = 0, !.locked = FALSE]

\* The card with a new password, or after a right one.
Cleared(c) == [c EXCEPT !.fails = 0]

\* The put that ends a login or a password change.  Its result matters to the latter only; a
\* session is made whatever it is.
WriteBack(ok) ==
    /\ rmw # None
    /\ LET id == rmw.id
           c  == IF rmw.what = "count" THEN Counted(rmw.copy) ELSE Cleared(rmw.copy)
       IN  /\ Put(id, c, ok)
           /\ stated' = IF ~ok THEN stated
                        ELSE IF rmw.stale THEN [stated EXCEPT ![id] = Stated(c)]
                        ELSE IF rmw.what = "count" THEN [stated EXCEPT ![id].locked = c.locked]
                        ELSE stated
           /\ tries' = IF ~ok /\ rmw.what # "welcome" THEN tries
                       ELSE [tries EXCEPT ![id] = IF rmw.what = "count" THEN @ + 1 ELSE 0]
           /\ held' = IF ok THEN Outdated(held, id) ELSE held
           /\ merge' = IF ok THEN Outdated(merge, id) ELSE merge
           /\ IF rmw.what = "welcome" THEN NewSession(id, rmw.copy.acct)
              ELSE UNCHANGED <<sess, issued>>
           /\ orphans' = orphans \cup (IF rmw.stale /\ ok THEN Of(id) ELSE {})
                                 \cup (IF rmw.stale /\ rmw.what = "welcome" THEN {issued'} ELSE {})
           /\ rmw' = None
    /\ UNCHANGED <<now, booted, refused, ops, raws, restarts>>

\* A request whose check fails: 401, and the session may end.
Refuse(t) ==
    /\ Begin
    /\ t \in Tokens /\ ~Serves(t)
    /\ sess' = Checked(t)
    /\ refused' = refused \cup {t}
    /\ UNCHANGED <<store, now, booted, rmw, held, merge, issued, orphans, raws, restarts, puts>>

\* POST or GET /logout
Logout(t) ==
    /\ Begin
    /\ t \in Tokens
    /\ sess' = [i \in Slots |-> IF Holds(i, t) THEN [sess[i] EXCEPT !.active = FALSE] ELSE sess[i]]
    /\ UNCHANGED <<store, now, booted, rmw, held, merge, issued, refused, orphans, raws, restarts, puts>>

\* GET /0/1/{id}: an editor opens a card.
GetCard(t, id) ==
    /\ Begin
    /\ Admitted(t, "read")
    /\ cards[id] # None
    /\ held' = [id |-> id, copy |-> cards[id], stale |-> FALSE]
    /\ UNCHANGED <<store, now, booted, rmw, merge, issued, refused, orphans, raws, restarts, puts>>

\* PUT /0/1/{id}: the editor saves the whole card, with another role or another lock.
PutCard(t, role, locked, ok) ==
    /\ Begin
    /\ held # None
    /\ Admitted(t, "write")
    /\ LET id == held.id
           c  == [held.copy EXCEPT !.role = role, !.locked = locked]
       IN  /\ Put(id, c, ok)
           /\ stated' = IF ok THEN [stated EXCEPT ![id] = Stated(c)] ELSE stated
           /\ tries' = IF ok /\ (held.stale \/ (held.copy.locked /\ ~locked))
                       THEN [tries EXCEPT ![id] = 0] ELSE tries
           /\ orphans' = IF ok /\ held.stale THEN orphans \cup Of(id) ELSE orphans
           /\ merge' = IF ok THEN Outdated(merge, id) ELSE merge
    /\ held' = None
    /\ UNCHANGED <<now, booted, rmw, issued, refused, raws, restarts>>

Delete(id) ==
    /\ cards' = [cards EXCEPT ![id] = None]
    /\ stated' = [stated EXCEPT ![id] = None]
    /\ tries' = [tries EXCEPT ![id] = 0]
    /\ held' = Outdated(held, id)
    /\ orphans' = orphans \cup Of(id)

\* DELETE /0/1/{id}
DeleteCard(t, id) ==
    /\ Begin
    /\ Admitted(t, "delete")
    /\ cards[id] # None /\ Delete(id)
    /\ merge' = Outdated(merge, id)
    /\ UNCHANGED <<now, booted, rmw, issued, refused, raws, restarts, puts>>

\* Core 1 serves a raw TCP client, one request at a time, whatever Core 0 is at.
Core1Begin == booted /\ merge = None /\ raws < MaxRaw /\ raws' = raws + 1

\* An append with the delete operation.
Core1Delete(id) ==
    /\ Core1Begin
    /\ cards[id] # None /\ Delete(id)
    /\ rmw' = Outdated(rmw, id)
    /\ UNCHANGED <<sess, now, booted, merge, issued, refused, ops, restarts, puts>>

\* Any other append: first the card, if there is one, is read.
Core1Merge(id) ==
    /\ Core1Begin
    /\ merge' = [id |-> id, copy |-> cards[id], stale |-> FALSE]
    /\ UNCHANGED <<store, sess, now, booted, rmw, held, issued, refused, orphans, ops, restarts, puts>>

\* The cards that the fields of an append make of what was read: parse_user_card takes the last
\* of two fields with one ordinal.
Merged(c) ==
    IF c = None THEN {NewCard(x[1], x[2], MaxOps + MaxRestarts + 1 + raws) : x \in Names \X Roles}
    ELSE {[c EXCEPT !.role = x[1], !.locked = x[2]] : x \in Roles \X BOOLEAN}
         \cup {[c EXCEPT !.fails = f] : f \in RawCounts} \cup {[c EXCEPT !.name = n] : n \in Names}

\* The put that ends the append.  Its result does not matter.
Core1Put(ok) ==
    /\ merge # None
    /\ \E c \in Merged(merge.copy) :
        LET id  == merge.id
            old == merge.copy
        IN  /\ Put(id, c, ok)
            /\ stated' = IF ok /\ (merge.stale \/ Stated(c) # Stated(old))
                         THEN [stated EXCEPT ![id] = Stated(c)] ELSE stated
            /\ tries' = IF ok /\ (\/ merge.stale
                                 \/ old = None
                                 \/ c.fails # old.fails
                                 \/ (old.locked /\ ~c.locked))
                        THEN [tries EXCEPT ![id] = 0] ELSE tries
            /\ held' = IF ok THEN Outdated(held, id) ELSE held
            /\ rmw' = IF ok THEN Outdated(rmw, id) ELSE rmw
            /\ orphans' = IF ok /\ merge.stale THEN orphans \cup Of(id) ELSE orphans
    /\ merge' = None
    /\ UNCHANGED <<sess, now, booted, issued, refused, ops, raws, restarts>>

\* POST /admin/users: user_auth_create_user.  Above ScanMax users the number is taken.
CreateUser(t, n, role, ok) ==
    /\ Begin
    /\ Admitted(t, "admin")
    /\ Named(n) = {} /\ NextId \in Ids
    /\ LET c == NewCard(n, role, ops') IN
       /\ Put(NextId, c, ok)
       /\ stated' = IF ok THEN [stated EXCEPT ![NextId] = Stated(c)] ELSE stated
       /\ tries' = IF ok THEN [tries EXCEPT ![NextId] = 0] ELSE tries
       /\ held' = IF ok THEN Outdated(held, NextId) ELSE held
       /\ merge' = IF ok THEN Outdated(merge, NextId) ELSE merge
       /\ orphans' = IF ok /\ Scanned # Present THEN orphans \cup Of(NextId) ELSE orphans
    /\ UNCHANGED <<now, booted, rmw, issued, refused, raws, restarts>>

(***************************************************************************)
(* Time, power and start-up.                                               *)
(***************************************************************************)
Tick ==
    /\ booted /\ now < MaxTime /\ now' = now + 1
    /\ UNCHANGED <<store, sess, booted, rmw, held, merge, issued, refused, orphans, ops, raws, restarts, puts>>

\* Core 0 starts anew: a power cut at any point, the watchdog, POST /admin/reboot.
Restart ==
    /\ restarts < MaxRestarts /\ restarts' = restarts + 1
    /\ now' = 0 /\ booted' = FALSE /\ rmw' = None /\ merge' = None
    /\ sess' = [i \in Slots |-> NoSession]
    /\ UNCHANGED <<store, held, issued, refused, orphans, ops, raws, puts>>

\* user_auth_init: the first user, if there is no card 0.  What Core 1 was at is gone.
Boot(ok) ==
    /\ ~booted /\ booted' = TRUE /\ merge' = None
    /\ sess' = [i \in Slots |-> NoSession]
    /\ IF cards[0] # None THEN ok /\ UNCHANGED <<store, held, puts>>
       ELSE LET c == NewCard(AdminName, AdminRole, MaxOps + restarts + 1) IN
            /\ Put(0, c, ok)
            /\ stated' = IF ok THEN [stated EXCEPT ![0] = Stated(c)] ELSE stated
            /\ held' = IF ok THEN Outdated(held, 0) ELSE held
            /\ UNCHANGED tries
    /\ UNCHANGED <<now, rmw, issued, refused, orphans, ops, raws, restarts>>

\* POST /admin/wipe: every card goes, user_auth_init runs, the device restarts; until then Core 1
\* can still end what it is at.
Wipe(t) ==
    /\ Begin
    /\ restarts < MaxRestarts /\ restarts' = restarts + 1
    /\ t \in Tokens /\ Serves(t) /\ May(t, "admin")
    /\ cards' = [id \in Ids |-> None] /\ stated' = cards' /\ tries' = [id \in Ids |-> 0]
    /\ sess' = [i \in Slots |-> NoSession]
    /\ now' = 0 /\ booted' = FALSE
    /\ held' = IF held = None THEN None ELSE [held EXCEPT !.stale = TRUE]
    /\ merge' = IF merge = None THEN None ELSE [merge EXCEPT !.stale = TRUE]
    /\ UNCHANGED <<rmw, issued, refused, orphans, raws, puts>>

(***************************************************************************)
(* The specification.                                                      *)
(***************************************************************************)
Init ==
    /\ cards = [id \in Ids |-> None] /\ stated = cards /\ tries = [id \in Ids |-> 0]
    /\ sess = [i \in Slots |-> NoSession]
    /\ now = 0 /\ booted = FALSE /\ rmw = None /\ held = None /\ merge = None /\ issued = 0
    /\ refused = {} /\ orphans = {}
    /\ ops = 0 /\ raws = 0 /\ restarts = 0 /\ puts = 0

Request ==
    \/ \E n \in Names, right \in BOOLEAN : Login(n, right)
    \/ \E t \in Tokens : Refuse(t) \/ Logout(t) \/ Wipe(t)
    \/ \E t \in Tokens, id \in Ids : ChangePassword(t, id) \/ GetCard(t, id) \/ DeleteCard(t, id)
    \/ \E t \in Tokens, r \in Roles, ok \in BOOLEAN :
          \/ \E locked \in BOOLEAN : PutCard(t, r, locked, ok)
          \/ \E n \in Names : CreateUser(t, n, r, ok)

Next ==
    \/ Request
    \/ \E ok \in BOOLEAN : WriteBack(ok) \/ Core1Put(ok) \/ Boot(ok)
    \/ \E id \in Ids : Core1Delete(id) \/ Core1Merge(id)
    \/ Tick \/ Restart

Spec == Init /\ [][Next]_vars

(***************************************************************************)
(* Properties.                                                             *)
(***************************************************************************)
\* Every variable has its type, and two active sessions never share a token (g_sessions and
\* the card layout of user_auth.h).
TypeOK ==
    /\ cards \in [Ids -> Card \cup {None}]
    /\ stated \in [Ids -> [role : Roles, locked : BOOLEAN] \cup {None}]
    /\ sess \in [Slots -> [active : BOOLEAN, tok : Nat, card : Ids, created : Nat, last : Nat, acct : Nat]]
    /\ \A i, j \in Slots : sess[i].active /\ sess[j].active /\ sess[i].tok = sess[j].tok => i = j
    /\ \A i \in Slots : sess[i].active => sess[i].tok \in Tokens
    /\ rmw = None \/ rmw \in [id : Ids, copy : Card, stale : BOOLEAN,
                               what : {"count", "welcome", "password"}]
    /\ held \in Copy \cup {None}
    /\ merge = None \/ merge \in [id : Ids, copy : Card \cup {None}, stale : BOOLEAN]
    /\ tries \in [Ids -> Nat] /\ refused \subseteq Tokens /\ orphans \subseteq Tokens
    /\ now \in Nat /\ booted \in BOOLEAN /\ issued \in Nat

\* At most FailMax wrong passwords are tried on a user, over every path the card takes, before
\* an administrator, a raw client or a right password starts the count anew.  A put of a copy
\* older than the card (an editor's, an append's) starts it anew too: it carries an old count.
\* (A wrong password whose count flash refused to store is not counted here either:
\* user_auth_login ignores that result.)
\* One more can be tried if fail_count, a byte that unlocking does not clear, has meanwhile
\* gone from 255 to 0: then the card counts fewer than there were.
GuessesBounded == \A id \in Ids :
    \/ tries[id] <= FailMax
    \/ tries[id] = FailMax + 1 /\ cards[id].fails < tries[id]

\* What an administrator or a raw client set, or a lock-out set, is what the card says: no login,
\* password change, creation, restart or append of another field gives a user another role,
\* unlocks it or brings a deleted card back, as long as no one else writes the card between a
\* read and the put that goes with it.  The code leaves that open, and there the copy that is
\* put last stands, which can undo a right, a lock or a deletion: an editor that saves a copy
\* older than the card; a login or password change whose card Core 1 rewrites or deletes after
\* user_auth.c:582; an append whose card Core 0 writes or deletes after wal_engine.c:78.  The
\* property goes on from what was put then.
AdminFieldsSurvive == \A id \in Ids : Stated(cards[id]) = stated[id]

\* An active session has not been refused before, and its card is that of the account that
\* logged in, unless the card was deleted since and its number given again before any request
\* noticed (user_auth_check looks at the number only), or it was overwritten: by a put of a copy
\* older than the card or, above ScanMax users, by a creation.
SessionKeepsAccount == \A i \in Slots : sess[i].active =>
    /\ sess[i].tok \notin refused
    /\ \/ Gone(i) \/ sess[i].tok \in orphans
       \/ cards[sess[i].card].acct = sess[i].acct

\* A session leaves the table only when it is logged out or expired or its card is gone, at a
\* restart, or for a new session when the table is full; then no session was created earlier,
\* unless the millisecond clock wrapped since it was created (g_sessions, SESSION_MAX).
LiveSessionKept == [][
    \A i \in Slots : sess[i].active /\ booted' /\ booted =>
        \/ sess'[i].active /\ sess'[i].tok = sess[i].tok
        \/ \E t \in Tokens : Holds(i, t) /\ (Logout(t) \/ Expired(i) \/ Gone(i))
        \/ \A j \in Slots : sess[j].active /\ (\/ sess[i].created <= sess[j].created
                                              \/ now >= ClockMod)
    ]_vars
=============================================================================
