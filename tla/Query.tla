--------------------------------- MODULE Query ---------------------------------
(***************************************************************************)
(* The query engine (src/query.c) over the schema catalogue: packs are     *)
(* resolved through a cache of schemas, conditions on joined packs become  *)
(* lists of ids, conditions are ordered by cost, the first pack is scanned *)
(* and the rows are listed or grouped.  POST /query of                     *)
(* src/httpd/web_server.c checks the reader's rights first.                *)
(*                                                                         *)
(* Execute translates the engine; Reference says what a query means on the *)
(* present schemas and cards, with no cache, order, list or limit.  The    *)
(* text of queries and rows is left out.                                   *)
(***************************************************************************)
EXTENDS Catalogue, FiniteSetsExt, Functions, TLC

CONSTANTS
    Queries,        \* [select |-> Seq, from |-> Seq of names, where |-> Seq]
    MayRead,        \* the packs in the reader's list
    SelectMax, FromMax, WhereMax,   \* fields, packs and conditions of a query (16, 4, 8)
    SchemaMax,      \* schema cards that are looked through for a name (64)
    CacheMax, FanoutMax,    \* PACK_CACHE_SIZE (8), FANOUT_CACHE_MAX (16)
    ScanMax, JoinMax, ListMax, RowMax,  \* 256, 1024, ids in a list of 63 characters, 100 rows
    AggRows, AggGroups,                 \* 32, 16
    Starts,         \* catalogues, cards and indexes to start from, with a bound on the changes made to them
    NewCards        \* cards that are written

Aggregates == {"none", "sum", "avg", "min", "max", "count", "first"}

ASSUME QueryAssumption ==
    /\ {SelectMax, FromMax, WhereMax, SchemaMax, CacheMax, FanoutMax, ScanMax, JoinMax, ListMax, RowMax, AggRows, AggGroups} \subseteq Nat
    /\ \A q \in Queries :
        /\ q.from \in Seq(STRING) /\ q.where \in Seq(Range(q.where))
        /\ q.select \in Seq([pack : STRING, field : STRING, agg : Aggregates])
    /\ \A s \in Starts : SchemasOk(s.schemas) /\ CardsOk(s.cards) /\ s.tiers \in
            [sd : BOOLEAN, hot : SUBSET (Ords \X Ids), saved : SUBSET (Ords \X Ids), live : BOOLEAN]
    /\ \A c \in NewCards : CardOk(c)

VARIABLES
    cache,      \* g_pack_cache
    fanout,     \* s_fanout: cards and distinct values of a link field, as last sampled
    left        \* changes left, a bound

queryVars == <<schemas, cards, wrote, tiers, sizes, cache, fanout, left>>

UpTo(s, n) == SubSeq(s, 1, IF Len(s) < n THEN Len(s) ELSE n)

\* query_parse: fields, packs and conditions above the limits are left out without a word.
Parsed(q) == [select |-> UpTo(q.select, SelectMax), from |-> UpTo(q.from, FromMax), where |-> UpTo(q.where, WhereMax)]

(***************************************************************************)
(* Packs and fields.                                                       *)
(***************************************************************************)
\* The first of some schemas with a name.
Named(n, P) ==
    LET S == {p \in P : schemas[p].name = n} IN
    IF S = {} THEN None ELSE [ord |-> Min(S), name |-> n, fields |-> schemas[Min(S)].fields]

AllSchemas == {p \in Ords : schemas[p] # None}

\* The scan of pack 0, which is in the flash.
Fresh(n) == Named(n, First(AllSchemas, SchemaMax))

\* resolve_pack, without what it adds to the cache.
Resolve(n) ==
    LET hits == {i \in DOMAIN cache : cache[i].name = n} IN
    IF hits = {} THEN Fresh(n) ELSE cache[Min(hits)]

Cached(ns) ==
    FoldLeft(LAMBDA c, n : IF Fresh(n) = None \/ Len(c) >= CacheMax \/ \E i \in DOMAIN c : c[i].name = n
                           THEN c ELSE Append(c, Fresh(n)), cache, ns)

\* find_field and find_lookup_to: the first field with the name, the first link whose target is
\* the last byte of the pack's ordinal.
FieldOf(pk, n) == SelectInSeq(pk.fields, LAMBDA f : f.name = n)
LinkTo(from, to) == SelectInSeq(from.fields, LAMBDA f : f.type = "link" /\ f.to = to.ord % ByteMod)

\* The pack a name refers to: 1 for the primary, 0 for none.
PackOf(q, n) == IF n = "" THEN 1 ELSE SelectInSeq(q.from, LAMBDA m : m = n)

(***************************************************************************)
(* Values and comparisons.                                                 *)
(***************************************************************************)
Numeric(type) == type \in {"num", "link"}

\* extract_field_str: Blank when the card has no such field.
Value(c, f) ==
    IF f.ord \notin DOMAIN c THEN Blank
    ELSE IF Numeric(f.type) /\ c[f.ord] = Blank THEN 0 ELSE c[f.ord]

\* compare_str and compare_int_direct; a list has no empty member.
Compare(v, op, x) ==
    CASE op = "==" -> v = x
      [] op = "!=" -> v # x
      [] op = ">"  -> v > x
      [] op = "<"  -> v < x
      [] op = ">=" -> v >= x
      [] op = "<=" -> v <= x
      [] op = "IN" -> v \in x /\ v # Blank
      [] op = "NI" -> v \notin x \/ v = Blank

\* A condition on the scanned pack: a number the card does not have passes none.
Passes(c, f, op, x) == (Numeric(f.type) => f.ord \in DOMAIN c) /\ Compare(Value(c, f), op, x)

\* The same in search_pack_field: a missing number is read as 0, in a list as no member.
JoinPasses(c, f, op, x) ==
    LET v == Value(c, f) IN
    Compare(IF v = Blank /\ Numeric(f.type) /\ op \notin {"IN", "NI"} THEN 0 ELSE v, op, x)

\* The ids that fit in the text of a list, and the next one with its last digit cut off.
Listed(S) == First(S, ListMax) \cup {i \div Base : i \in First(S, ListMax + 1) \ First(S, ListMax)}

Matches(pk, f, w) ==
    {i \in Scan(pk.ord, JoinMax) \cap Keys(pk.ord) : JoinPasses(cards[pk.ord][i], f, w.op, w.val)}

(***************************************************************************)
(* Conditions: what the loop over WHERE makes of them, and their order.    *)
(***************************************************************************)
Cond(f, op, x) == [out |-> "ok", f |-> f, op |-> op, val |-> x]
Stop(out) == [out |-> out]

Compiled(q, packs, w) ==
    LET ji == PackOf(q, w.pack) IN
    IF ji = 0 THEN Stop("error")
    ELSE LET fi == FieldOf(packs[ji], w.field) IN
        IF fi = 0 THEN Stop("error")
        ELSE IF ji = 1 THEN Cond(packs[1].fields[fi], w.op, w.val)
        ELSE LET ids == Matches(packs[ji], packs[ji].fields[fi], w)  li == LinkTo(packs[1], packs[ji]) IN
            IF ids = {} THEN Stop("empty")
            ELSE IF li = 0 THEN Stop("error")
            ELSE Cond(packs[1].fields[li], "IN", Listed(ids))

FanoutAt(t, p, ord) == SelectInSeq(t, LAMBDA x : x.pack = p /\ x.ord = ord)

\* fanout_update: in a full table a new entry takes the first place.
FanoutUpdate(t, e) ==
    LET at == FanoutAt(t, e.pack, e.ord) IN
    IF at = 0 /\ Len(t) < FanoutMax THEN Append(t, e) ELSE [t EXCEPT ![IF at = 0 THEN 1 ELSE at] = e]

FanoutEstimate(p, ord) ==
    LET at == FanoutAt(fanout, p, ord) IN IF at = 0 THEN 0 ELSE fanout[at].total \div fanout[at].distinct

\* Estimated rows that pass.
Cost(pk, c) ==
    LET rows == Base ^ SizeOf(pk.ord)
        fan  == FanoutEstimate(pk.ord, c.f.ord)
        each == IF fan > 0 THEN fan ELSE rows \div 4 IN
    CASE c.f.type = "link" /\ c.op = "==" -> each
      [] c.f.type = "link" /\ c.op = "IN" -> each * Cardinality(c.val)
      [] c.f.type = "link" /\ c.op \notin {"==", "IN"} -> rows \div 2
      [] c.f.type # "link" /\ c.op = "==" -> rows \div Base + 1
      [] c.f.type # "link" /\ c.op \in {"IN", "NI"} -> (rows * Cardinality(c.val)) \div Base + 1
      [] c.f.type # "link" /\ c.op = "!=" -> rows
      [] OTHER -> rows \div 2 + 1

MutExchanged(pk, s, i, j) ==
    IF i < j /\ Cost(pk, s[j]) < Cost(pk, s[i])
    THEN [s EXCEPT ![i] = [s[j] EXCEPT !.f = s[i].f], ![j] = [s[i] EXCEPT !.f = s[j].f]] ELSE s

\* One comparison of the sort: the cheaper condition moves to the front.
Exchanged(pk, s, i, j) ==
    IF i < j /\ Cost(pk, s[j]) < Cost(pk, s[i]) THEN [s EXCEPT ![i] = s[j], ![j] = s[i]] ELSE s

\* The sort compares each place with all behind it.
Ordered(pk, conds) ==
    LET n == Len(conds) IN
    FoldLeft(LAMBDA s, k : Exchanged(pk, s, (k \div n) + 1, (k % n) + 1), conds, [k \in 1 .. n * n |-> k - 1])

(***************************************************************************)
(* Rows.                                                                   *)
(***************************************************************************)
\* One selected field of a card of the primary pack; a missing link is followed to card 0.
Shown(q, packs, c, s) ==
    LET pi == IF s.pack = "" \/ PackOf(q, s.pack) = 0 THEN 1 ELSE PackOf(q, s.pack)
        fi == FieldOf(packs[pi], s.field)
        li == LinkTo(packs[1], packs[pi]) IN
    IF fi = 0 THEN Blank
    ELSE IF pi = 1 THEN Value(c, packs[1].fields[fi])
    ELSE IF li = 0 THEN Blank
    ELSE LET v == Value(c, packs[1].fields[li])
             i == IF v = Blank THEN 0 ELSE v
             p == packs[pi].ord IN
         IF i \in Ids /\ cards[p][i] # None THEN Value(cards[p][i], packs[pi].fields[fi]) ELSE Blank

\* The matching cards of the first ScanMax, in the order of the scan, as rows of at most n.
Rows(q, packs, conds, n) ==
    LET p == packs[1].ord
        found == Listing(p, {i \in Scan(p, ScanMax) \cap Keys(p) : \A k \in DOMAIN conds :
                    Passes(cards[p][i], conds[k].f, conds[k].op, conds[k].val)}) IN
    [r \in 1 .. IF Len(found) < n THEN Len(found) ELSE n |->
        [k \in DOMAIN q.select |-> Shown(q, packs, cards[p][found[r]], q.select[k])]]

(***************************************************************************)
(* Groups.                                                                 *)
(***************************************************************************)
GroupBy(q) == InOrder({k \in DOMAIN q.select : q.select[k].agg = "none"})

\* The group key is the group-by values up to the first that is empty.
KeyOf(q, row) ==
    LET vals == [k \in DOMAIN GroupBy(q) |-> row[GroupBy(q)[k]]]
        gap  == SelectInSeq(vals, LAMBDA v : v = Blank) IN
    IF gap = 0 THEN vals ELSE SubSeq(vals, 1, gap - 1)

Zero(v) == IF v = Blank THEN 0 ELSE v

\* A sum of two longs wraps around, as the addition the compiler makes of it does.
Plus(a, v) == IF a > LongMax - v THEN (a - LongMax - 1) + (v - LongMax - 1) ELSE a + v

\* One more value for an aggregate that stands at a; the first one starts it.
Joined(agg, a, v) ==
    CASE agg \in {"sum", "avg"} -> Plus(a, Zero(v))
      [] agg = "min" -> IF Zero(v) < a THEN Zero(v) ELSE a
      [] agg = "max" -> IF Zero(v) > a THEN Zero(v) ELSE a
      [] agg \in {"count", "first", "none"} -> a

Begun(agg, v) ==
    CASE agg \in {"sum", "avg", "count"} -> 0
      [] agg = "min" -> LongMax
      [] agg = "max" -> -LongMax
      [] agg \in {"first", "none"} -> v

Into(q, g, row) ==
    [g EXCEPT !.count = @ + 1, !.vals = [k \in DOMAIN @ |-> Joined(q.select[k].agg, @[k], row[k])]]

\* A row joins the group with its key; with the groups used up a new key is left out.
Placed(q, gs, row) ==
    LET at  == SelectInSeq(gs, LAMBDA g : g.key = KeyOf(q, row))
        new == [key |-> KeyOf(q, row), count |-> 0,
                vals |-> [k \in DOMAIN q.select |-> Begun(q.select[k].agg, row[k])]] IN
    IF at > 0 THEN [gs EXCEPT ![at] = Into(q, gs[at], row)]
    ELSE IF Len(gs) < AggGroups THEN Append(gs, Into(q, new, row)) ELSE gs

Grouped(q, rows) == FoldLeft(LAMBDA gs, row : Placed(q, gs, row), <<>>, rows)

Output(q, g) ==
    [k \in DOMAIN q.select |-> CASE q.select[k].agg = "avg" -> g.vals[k] \div g.count
                                 [] q.select[k].agg = "count" -> g.count
                                 [] OTHER -> g.vals[k]]

HasAgg(q) == \E k \in DOMAIN q.select : q.select[k].agg # "none"

\* query_execute.  No field selected means all of the primary pack.
Packs(q) == [i \in DOMAIN q.from |-> Resolve(q.from[i])]

Conds(q) == [i \in DOMAIN q.where |-> Compiled(q, Packs(q), q.where[i])]

Denied(q) == q.from = <<>> \/ \E i \in DOMAIN q.from : Packs(q)[i] = None \/ Packs(q)[i].ord = UserPack

FirstBad(q) == SelectInSeq(Conds(q), LAMBDA c : c.out # "ok")

Whole(q, pk) ==
    IF q.select # <<>> THEN q
    ELSE [q EXCEPT !.select = [k \in DOMAIN UpTo(pk.fields, SelectMax) |-> [pack |-> "", field |-> pk.fields[k].name, agg |-> "none"]]]

Execute(q0) ==
    IF Denied(q0) THEN "error"
    ELSE IF FirstBad(q0) > 0 THEN IF Conds(q0)[FirstBad(q0)].out = "empty" THEN <<>> ELSE "error"
    ELSE LET q == Whole(q0, Packs(q0)[1])  conds == Ordered(Packs(q)[1], Conds(q)) IN
        IF ~HasAgg(q) THEN Rows(q, Packs(q), conds, RowMax)
        ELSE LET gs == Grouped(q, Rows(q, Packs(q), conds, AggRows)) IN [g \in DOMAIN gs |-> Output(q, gs[g])]

(***************************************************************************)
(* POST /query: the rights are checked by name on the present schemas,     *)
(* then the engine runs and learns sizes and fanouts on the way.           *)
(***************************************************************************)
\* pack_is_public_read has room for 128 bytes: a public schema, which boot seeds and only its
\* children and size change afterwards, is not longer.
CanRead(p) == p \in MayRead \/ (schemas[p] # None /\ schemas[p].public)

Allowed(q) == \A i \in DOMAIN q.from : Fresh(q.from[i]) # None => CanRead(Fresh(q.from[i]).ord)

\* Joined packs that were searched before the first condition that stops the query.
Searched(q) ==
    {Packs(q)[PackOf(q, q.where[i].pack)].ord : i \in
        {j \in DOMAIN q.where : /\ (FirstBad(q) = 0 \/ j <= FirstBad(q))
                                /\ PackOf(q, q.where[j].pack) > 1
                                /\ FieldOf(Packs(q)[PackOf(q, q.where[j].pack)], q.where[j].field) > 0}}

\* A sample of 64 cards for each condition on a link, in the order of the scan.
Fanned(q) ==
    LET pk == Packs(q)[1]
        links == SelectSeq(Ordered(pk, Conds(q)), LAMBDA c : c.f.type = "link") IN
    FoldLeft(LAMBDA t, c : FanoutUpdate(t, [pack |-> pk.ord, ord |-> c.f.ord,
            total |-> Cardinality(Scan(pk.ord, ScanMax)),
            distinct |-> Cardinality({Zero(Value(cards[pk.ord][i], c.f)) : i \in Scan(pk.ord, 64) \cap Keys(pk.ord)})]),
        fanout, links)

\* The cards of a scan, and those that the fields of joined packs are taken from.
Followed(q, S) ==
    LET packs == Packs(q)  link(s) == LinkTo(packs[1], packs[PackOf(q, s.pack)]) IN
    {<<packs[PackOf(q, x[1].pack)].ord, Zero(Value(cards[packs[1].ord][x[2]], packs[1].fields[link(x[1])]))>> : x \in
        {y \in Range(q.select) \X S : PackOf(q, y[1].pack) > 1 /\ link(y[1]) > 0}}

Gotten(q, scanned) ==
    LET p == Packs(q)[1].ord IN
    UNION {{s} \X Scan(s, JoinMax) : s \in Searched(q)} \cup
        IF scanned THEN ({p} \X Scan(p, ScanMax)) \cup (Followed(q, Scan(p, ScanMax) \cap Keys(p)) \cap (Ords \X Ids)) ELSE {}

\* The keys that the reads drive out of a full SRAM index leave it by Evict, before the query
\* that misses them or after it.
Ask(q) ==
    /\ Allowed(q)
    /\ LET unknown == SelectInSeq(q.from, LAMBDA n : Resolve(n) = None)
           scanned == ~Denied(q) /\ FirstBad(q) = 0 IN
       /\ cache' = Cached(IF unknown = 0 THEN q.from ELSE SubSeq(q.from, 1, unknown - 1))
       /\ IF Denied(q) THEN UNCHANGED <<tiers, sizes>>
          ELSE /\ tiers' = Promoted(Gotten(q, scanned))
               /\ sizes' = [p \in Ords |->
                    IF scanned /\ p = Packs(q)[1].ord THEN Counted(p, Cardinality(Scan(p, ScanMax)))
                    ELSE IF p \in Searched(q) THEN Counted(p, Cardinality(Scan(p, JoinMax))) ELSE sizes[p]]
       /\ fanout' = IF scanned /\ Scan(Packs(q)[1].ord, 64) \cap Keys(Packs(q)[1].ord) # {} THEN Fanned(q) ELSE fanout
    /\ UNCHANGED <<schemas, cards, wrote, left>>

\* Power goes, or the device restarts: the caches are empty.
Restart ==
    /\ cache' = <<>> /\ fanout' = <<>>
    /\ \E n \in 0 .. Cardinality(Ids) + 1 : Boot(n)

Change ==
    \/ \E p \in Ords :
        \/ \E n \in PackNames : NewPack(p, n)
        \/ \E f \in Fields : AddField(p, f)
        \/ SetKids(p, Ords)
        \/ DeletePack(p)
        \/ \E i \in Ids, c \in NewCards : PutCard(p, i, c)
        \/ \E i \in Ids : DeleteCard(p, i) \/ (OnSd(p) /\ Read(p, i))
    \/ \E k \in tiers.hot : Evict(k)
    \/ Persist

QueryInit ==
    /\ \E s \in Starts :
        /\ schemas = s.schemas /\ cards = s.cards /\ tiers = s.tiers /\ left = s.left
        /\ wrote = [p \in Ords |-> [i \in Ids |->
              IF s.cards[p][i] = None THEN Nothing ELSE Written(SchemaFields(p), s.cards[p][i])]]
    /\ sizes = [p \in Ords |-> None] /\ cache = <<>> /\ fanout = <<>>

QueryNext ==
    \/ \E q \in Queries : Ask(Parsed(q))
    \/ \E p \in Ords : Flush(p) /\ UNCHANGED <<cache, fanout, left>>
    \/ left > 0 /\ left' = left - 1 /\ (Restart \/ (Change /\ UNCHANGED <<cache, fanout>>))

QuerySpec == QueryInit /\ [][QueryNext]_queryVars

-----------------------------------------------------------------------------
(***************************************************************************)
(* What a query means.                                                     *)
(***************************************************************************)
RefPacks(q) == [i \in DOMAIN q.from |-> Named(q.from[i], AllSchemas)]

RefLink(from, to) == SelectInSeq(from.fields, LAMBDA f : f.type = "link" /\ f.to = to.ord)

LinkedTo(q, c, pi) ==
    LET f == RefPacks(q)[1].fields[RefLink(RefPacks(q)[1], RefPacks(q)[pi])] IN
    IF f.ord \in DOMAIN c THEN {cards[RefPacks(q)[pi].ord][i] : i \in Ids \cap {Value(c, f)}} \ {None} ELSE {}

Related(q, c, pack) == IF PackOf(q, pack) = 1 THEN {c} ELSE LinkedTo(q, c, PackOf(q, pack))

FieldIn(q, x) == LET pk == RefPacks(q)[PackOf(q, x.pack)] IN pk.fields[FieldOf(pk, x.field)]

RefIds(q) ==
    LET p == RefPacks(q)[1].ord IN
    {i \in Keys(p) : \A k \in DOMAIN q.where : LET w == q.where[k] IN
        \E d \in Related(q, cards[p][i], w.pack) : Passes(d, FieldIn(q, w), w.op, w.val)}

RefShown(q, c, s) ==
    LET D == Related(q, c, s.pack) IN IF D = {} THEN Blank ELSE Value(CHOOSE d \in D : TRUE, FieldIn(q, s))

RefRows(q) ==
    LET ids == InOrder(RefIds(q)) IN
    [r \in DOMAIN ids |-> [k \in DOMAIN q.select |-> RefShown(q, cards[RefPacks(q)[1].ord][ids[r]], q.select[k])]]

\* Rows of one combination of the group-by values.
RefKey(q, row) == {<<k, row[k]>> : k \in Range(GroupBy(q))}
RefGroup(q, rows, r) == {s \in DOMAIN rows : RefKey(q, rows[s]) = RefKey(q, rows[r])}

Nums(rows, k) == [r \in DOMAIN rows |-> Zero(rows[r][k])]
RefSum(rows, G, k) == SumFunctionOnSet(Nums(rows, k), G)

RefValue(q, rows, G, k) ==
    CASE q.select[k].agg = "sum" -> RefSum(rows, G, k)
      [] q.select[k].agg = "avg" -> RefSum(rows, G, k) \div Cardinality(G)
      [] q.select[k].agg = "min" -> Min({Nums(rows, k)[r] : r \in G})
      [] q.select[k].agg = "max" -> Max({Nums(rows, k)[r] : r \in G})
      [] q.select[k].agg = "count" -> Cardinality(G)
      [] q.select[k].agg \in {"first", "none"} -> rows[Min(G)][k]

\* One row for each combination, in the order in which they come up.
RefFirsts(q, rows) == {r \in DOMAIN rows : \A s \in RefGroup(q, rows, r) : r <= s}

RefGroups(q) ==
    LET rows == RefRows(q)  order == InOrder(RefFirsts(q, rows)) IN
    [g \in DOMAIN order |-> [k \in DOMAIN q.select |-> RefValue(q, rows, RefGroup(q, rows, order[g]), k)]]

Reference(q0) ==
    LET q == IF q0.select # <<>> THEN q0
             ELSE [q0 EXCEPT !.select = [k \in DOMAIN RefPacks(q0)[1].fields |->
                      [pack |-> "", field |-> RefPacks(q0)[1].fields[k].name, agg |-> "none"]]] IN
    IF HasAgg(q) THEN RefGroups(q) ELSE RefRows(q)

\* Every name is known, and a joined pack is linked to.
WellFormed(q) ==
    /\ q.from # <<>>
    /\ \A i \in DOMAIN q.from : RefPacks(q)[i] # None /\ RefPacks(q)[i].ord # UserPack
    /\ \A x \in Range(q.where) \cup Range(q.select) : LET pi == PackOf(q, x.pack) IN
        pi > 0 /\ FieldOf(RefPacks(q)[pi], x.field) > 0 /\ (pi > 1 => RefLink(RefPacks(q)[1], RefPacks(q)[pi]) > 0)

JoinedConds(q) == {w \in Range(q.where) : PackOf(q, w.pack) > 1}

\* The engine's limits: parts of the query, schemas, cards scanned, ids in a list, rows, groups, sums.
Beyond(q) ==
    \/ Parsed(q) # q \/ (q.select = <<>> /\ Len(RefPacks(q)[1].fields) > SelectMax)
    \/ \E i \in DOMAIN q.from : Fresh(q.from[i]) # RefPacks(q)[i]
    \/ Cardinality(Index(RefPacks(q)[1].ord)) > ScanMax
    \/ \E w \in JoinedConds(q) : LET p == RefPacks(q)[PackOf(q, w.pack)].ord IN
          Cardinality(Index(p)) > JoinMax \/
              Cardinality({i \in Keys(p) : Passes(cards[p][i], FieldIn(q, w), w.op, w.val)}) > ListMax
    \/ Cardinality(RefIds(q)) > IF HasAgg(q) THEN AggRows ELSE RowMax
    \/ HasAgg(q) /\ Len(RefGroups(q)) > AggGroups
    \/ \E k \in DOMAIN q.select : q.select[k].agg \in {"sum", "avg"} /\ LET rows == RefRows(q) IN
          \E r \in DOMAIN rows : RefSum(rows, RefGroup(q, rows, r), k) > LongMax

\* Values that are not there: a number a joined card lacks is read as 0, a link a row lacks
\* leads to card 0, an empty group-by value hides those behind it.
Gap(q) ==
    \/ \E w \in JoinedConds(q) : LET p == RefPacks(q)[PackOf(q, w.pack)].ord IN
          \E i \in Keys(p) : LET f == FieldIn(q, w) IN
              JoinPasses(cards[p][i], f, w.op, w.val) # Passes(cards[p][i], f, w.op, w.val)
    \/ \E s \in Range(q.select) : PackOf(q, s.pack) > 1 /\
          LET f == RefPacks(q)[1].fields[RefLink(RefPacks(q)[1], RefPacks(q)[PackOf(q, s.pack)])] IN
          \E i \in RefIds(q) : f.ord \notin DOMAIN cards[RefPacks(q)[1].ord][i]
    \/ HasAgg(q) /\ \E row \in Range(RefRows(q)) : \E k \in Range(GroupBy(q)) : row[k] = Blank

\* The pack cache is never told of a change: it may hold another pack's ordinal or old fields.
Stale(q) == \E i \in DOMAIN q.from : Resolve(q.from[i]) # Fresh(q.from[i])

\* Every card of the packs that are scanned is in one of the two indexes, and the scan of the
\* first pack is in the order of the ids.
Covered(q) ==
    LET p == RefPacks(q)[1].ord IN
    /\ Keys(p) \subseteq Index(p) /\ \A i \in Keys(p) \cap Sram(p), j \in Keys(p) \ Sram(p) : i < j
    /\ \A w \in JoinedConds(q) : LET o == RefPacks(q)[PackOf(q, w.pack)].ord IN Keys(o) \subseteq Index(o)

(***************************************************************************)
(* Properties.                                                             *)
(***************************************************************************)
\* Whatever the caches have learned and however the conditions are ordered, the engine's answer
\* is what the query means, with conditions and fields of joined packs and groups, except with a
\* schema that changed since it was cached, a value that is not there, or a limit that is met.
\* On the SD card that needs the indexes to cover the scans (kvsd_range: "range queries only
\* cover keys in SRAM + flash XIP tiers"); when they do not, rows are missing or in another
\* order, and a sum or a count is of what was seen, but no row is listed that is not due.
AnswerIsReference ==
    \A q \in Queries : WellFormed(q) /\ ~Stale(q) /\ ~Gap(q) /\ ~Beyond(q) =>
        LET answer == Execute(Parsed(q))  meant == Reference(q) IN
        IF Covered(q) THEN answer = meant ELSE HasAgg(q) \/ Range(answer) \subseteq Range(meant)
=============================================================================
