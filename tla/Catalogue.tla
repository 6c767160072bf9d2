------------------------------ MODULE Catalogue ------------------------------
(***************************************************************************)
(* The schema catalogue: pack 0 holds one card per pack, with its name,    *)
(* its fields, its flags, its module and its child packs.  The admin's     *)
(* routes of src/httpd/web_server.c write it, user_auth.c builds its cards *)
(* and seeds it at boot, a cache of pack sizes is flushed into its flags.  *)
(* Every handler reads a schema, changes it and writes it back from        *)
(* Core 0's loop.                                                          *)
(*                                                                         *)
(* With an SD card the cards of all packs but 0 and 1 are on it, and which *)
(* of them a scan lists depends on two indexes, the SRAM's and the flash   *)
(* tier's, that do not have every key; boot seeds into the flash, so that  *)
(* the cards it seeds are then not seen.                                   *)
(*                                                                         *)
(* A card maps field ordinals to values; text and numbers are naturals up  *)
(* to LongMax, Blank is the empty text.  Left out are negative numbers,    *)
(* that bytes read differently when a field takes another type, schema     *)
(* cards beyond 256 bytes, which are refused, and whether a read finds the *)
(* last version of a card, which is KvSd's and KvFlash's.                  *)
(* The operators named Mut... are seeded bugs that show that a property    *)
(* notices.                                                                *)
(***************************************************************************)
EXTENDS Integers, Sequences, FiniteSets, SequencesExt

CONSTANTS
    Ords,           \* pack ordinals from 1, the users' pack, on
    Ids,            \* card ids
    PackNames, Fields,      \* names; fields an admin adds: name, type, to (the pack of a link)
    SeedPack, SeedSchema, SeedCards,    \* a reference pack that boot writes
    UserSchema, AdminCard,  \* of the users' pack, and its card 0
    FieldMax,       \* fields of a schema, and its ordinals (32)
    ByteMod,        \* values of a byte (256)
    DeleteMax,      \* cards the deletion of a pack removes (256)
    CountMax,       \* cards that are counted for a pack's size (128)
    None,           \* no card
    Base,           \* of the logarithm of a pack's size (10)
    LongMax         \* the largest long (2^31 - 1)

Blank == -1
UserPack == 1

\* The fields of a schema: numbered in order, except the last of a full one, which may have
\* followed ordinal FieldMax - 1.
FieldRec == [name : STRING, ord : 0 .. FieldMax - 1, type : STRING, to : 0 .. ByteMod - 1]
FieldsOk(fields) ==
    /\ fields \in Seq(FieldRec) /\ Len(fields) <= FieldMax
    /\ \A i \in DOMAIN fields : fields[i].ord = i - 1 \/ (i = FieldMax /\ fields[i].ord = 0)

\* A schema card.
SchemaRec == [name : STRING, fields : Seq(FieldRec), public : BOOLEAN, module : BOOLEAN,
              kids : SUBSET Ords, bucket : 0 .. 7]
SchemaOk(s) == s \in SchemaRec /\ FieldsOk(s.fields)

\* Values of a card: none, or numbers as strtol can return them.
CardOk(c) == \A o \in DOMAIN c : c[o] \in Blank .. LongMax

SchemasOk(ss) == DOMAIN ss = Ords /\ \A p \in Ords : ss[p] # None => SchemaOk(ss[p])
CardsOk(cs) ==
    DOMAIN cs = Ords /\ \A p \in Ords : DOMAIN cs[p] = Ids /\ \A i \in Ids : cs[p][i] # None => CardOk(cs[p][i])

ASSUME CatalogueAssumption ==
    /\ Ords \subseteq Nat /\ Ids \subseteq Nat /\ IsFiniteSet(Ids) /\ 0 \in Ids
    /\ UserPack \in Ords /\ SeedPack \in Ords \ {UserPack}
    /\ FieldMax \in Nat \ {0} /\ ByteMod \in Nat \ {0} /\ DeleteMax \in Nat /\ CountMax \in Nat
    /\ Base \in Nat \ {0, 1} /\ LongMax \in Nat
    /\ PackNames \cup {"pack"} \subseteq STRING /\ \A f \in Fields : f.name \in STRING /\ f.type \in STRING /\ f.to \in Nat
    /\ SchemaOk(SeedSchema) /\ \A i \in DOMAIN SeedCards : CardOk(SeedCards[i])
    /\ SchemaOk(UserSchema) /\ CardOk(AdminCard) /\ None \notin SchemaRec

VARIABLES
    schemas,    \* pack -> its card in pack 0
    cards,      \* pack -> id -> card
    wrote,      \* pack -> id -> the name that each ordinal of the card had when it was written
    tiers,      \* sd: is there an SD card; keys (pack and id) in hot, the SRAM index, and in saved,
                \* the index in the flash, which counts while it is live
    sizes       \* s_card_cache: pack -> its size bucket, and whether the schema has it yet

Keys(p) == {i \in Ids : cards[p][i] # None}
InOrder(S) == [k \in 1 .. Cardinality(S) |-> CHOOSE i \in S : Cardinality({j \in S : j < i}) = k - 1]
First(S, n) == {i \in S : Cardinality({j \in S : j < i}) < n}

(***************************************************************************)
(* What a scan lists (kv_store_range, kvsd_range): of a pack on the SD     *)
(* card first the ids in the SRAM index, then those that only the flash    *)
(* tier has; an id in neither is not listed, one whose card is gone may    *)
(* be.  In the flash every id has its entry, in order.                     *)
(***************************************************************************)
OnSd(p) == tiers.sd /\ p # UserPack
Warm == IF tiers.live THEN tiers.saved ELSE {}

Sram(p) == IF OnSd(p) THEN {i \in Ids : <<p, i>> \in tiers.hot} ELSE {}
Index(p) == IF OnSd(p) THEN {i \in Ids : <<p, i>> \in tiers.hot \cup Warm} ELSE Keys(p)

\* At most n ids of a pack, and how a scan lists some of them.
Scan(p, n) ==
    LET hot == First(Index(p) \cap Sram(p), n) IN hot \cup First(Index(p) \ Sram(p), n - Cardinality(hot))

Listing(p, S) == InOrder(S \cap Sram(p)) \o InOrder(S \ Sram(p))

\* find_slot_for_key: a key that is found enters the SRAM index.
Promoted(K) ==
    [tiers EXCEPT !.hot = @ \cup {k \in K : OnSd(k[1]) /\ (cards[k[1]][k[2]] # None \/ k \in Warm)}]

\* A route reads a card.
Read(p, i) ==
    /\ tiers' = Promoted({<<p, i>>})
    /\ UNCHANGED <<schemas, cards, wrote, sizes>>

\* A key that enters the full SRAM index, of any pack of the device, drives out another.
Evict(k) ==
    /\ k \in tiers.hot /\ tiers' = [tiers EXCEPT !.hot = @ \ {k}]
    /\ UNCHANGED <<schemas, cards, wrote, sizes>>

\* kvsd_flush, from the loop of Core 0.
Persist ==
    /\ tiers.sd /\ tiers' = [tiers EXCEPT !.saved = tiers.hot, !.live = TRUE]
    /\ UNCHANGED <<schemas, cards, wrote, sizes>>

(***************************************************************************)
(* Schema cards (build_schema_card_full, parse_schema_full).               *)
(***************************************************************************)
Card(name, fields, public, module) ==
    [name |-> name, fields |-> fields, public |-> public, module |-> module, kids |-> {}, bucket |-> 0]

\* What seed_schema builds: no flags, no module, no children.
Plain(name, fields) == Card(name, fields, FALSE, FALSE)

Write(p, s) == schemas' = [schemas EXCEPT ![p] = s]

SchemaFields(p) == IF schemas[p] = None THEN <<>> ELSE schemas[p].fields

\* The names of the fields with an ordinal, and of a card's ordinals that one name has.
NamesAt(fields, o) == {f.name : f \in {g \in Range(fields) : g.ord = o}}

Written(fields, c) ==
    [o \in {x \in DOMAIN c : \E n \in NamesAt(fields, x) : NamesAt(fields, x) = {n}} |->
        CHOOSE n \in NamesAt(fields, o) : TRUE]

\* Nothing is known of a card, of all the cards of a pack.
Nothing == [o \in {} |-> ""]
Orphaned(p) == wrote' = [wrote EXCEPT ![p] = [i \in Ids |-> Nothing]]

\* POST /admin/meta/new, over whatever the ordinal held; the cards stay.
NewPack(p, name) ==
    /\ \E m \in BOOLEAN : Write(p, Card(name, <<>>, FALSE, m))
    /\ Orphaned(p)
    /\ UNCHANGED <<cards, tiers, sizes>>

MutNextOrd(fields) == IF fields = <<>> THEN 0 ELSE fields[Len(fields)].ord

\* The ordinal after the largest, in the five bits the card has for it.
NextOrd(fields) ==
    LET next == CHOOSE n \in 0 .. FieldMax :
            /\ \A i \in DOMAIN fields : fields[i].ord < n
            /\ n = 0 \/ \E i \in DOMAIN fields : fields[i].ord = n - 1
    IN  next % FieldMax

\* The fields after a new one, or a new type and link target of one: of a full schema the last
\* field is dropped.  The target is a byte.
Added(fields, f) ==
    LET kept == SubSeq(fields, 1, IF Len(fields) < FieldMax THEN Len(fields) ELSE FieldMax - 1)
        to   == f.to % ByteMod
        new  == [name |-> f.name, ord |-> NextOrd(fields), type |-> f.type, to |-> to] IN
    IF \E i \in DOMAIN fields : fields[i].name = f.name
    THEN [i \in DOMAIN kept |-> IF kept[i].name = f.name THEN [kept[i] EXCEPT !.type = f.type, !.to = to] ELSE kept[i]]
    ELSE Append(kept, new)

\* POST /admin/meta/{n}: the schema is rebuilt from its name and fields alone.
AddField(p, f) ==
    LET old == IF schemas[p] = None THEN Plain("pack", <<>>) ELSE schemas[p] IN
    /\ Write(p, Plain(old.name, Added(old.fields, f)))
    /\ IF Len(old.fields) < FieldMax THEN UNCHANGED wrote ELSE Orphaned(p)
    /\ UNCHANGED <<cards, tiers, sizes>>

\* POST /admin/children/{n}
SetKids(p, K) ==
    /\ schemas[p] # None /\ Write(p, [schemas[p] EXCEPT !.kids = K])
    /\ UNCHANGED <<cards, wrote, tiers, sizes>>

\* DELETE /admin/meta/{n}: the first cards that the scan of the pack lists, then its schema.
DeletePack(p) ==
    LET gone == Scan(p, DeleteMax) IN
    /\ cards' = [cards EXCEPT ![p] = [i \in Ids |-> IF i \in gone THEN None ELSE @[i]]]
    /\ tiers' = [tiers EXCEPT !.hot = @ \ ({p} \X gone)]
    /\ Write(p, None)
    /\ Orphaned(p)
    /\ UNCHANGED sizes

(***************************************************************************)
(* Cards.                                                                  *)
(***************************************************************************)
\* kv_store_put: on the SD card the flash tier counts no more, since it has the old place.
PutCard(p, i, c) ==
    /\ cards' = [cards EXCEPT ![p][i] = c]
    /\ wrote' = [wrote EXCEPT ![p][i] = Written(SchemaFields(p), c)]
    /\ tiers' = IF OnSd(p) THEN [tiers EXCEPT !.hot = @ \cup {<<p, i>>}, !.live = FALSE] ELSE tiers
    /\ UNCHANGED <<schemas, sizes>>

\* kv_store_delete: the flash tier keeps the key.
DeleteCard(p, i) ==
    /\ i \in Keys(p) \cup Index(p)
    /\ cards' = [cards EXCEPT ![p][i] = None]
    /\ wrote' = [wrote EXCEPT ![p][i] = Nothing]
    /\ tiers' = [tiers EXCEPT !.hot = @ \ {<<p, i>>}]
    /\ UNCHANGED <<schemas, sizes>>

(***************************************************************************)
(* Pack sizes (get_cardinality, set_cardinality, flush_cardinality_one).   *)
(***************************************************************************)
Bucket(n) == Min({b \in 0 .. 7 : b = 7 \/ n < Base ^ (b + 1)})

\* A count that was just made, taken into the cache.
Counted(p, n) ==
    IF sizes[p] # None /\ sizes[p].bucket = Bucket(n) THEN sizes[p]
    ELSE [bucket |-> Bucket(n), dirty |-> TRUE]

SizeOf(p) == IF sizes[p] # None THEN sizes[p].bucket ELSE Bucket(Cardinality(Scan(p, CountMax)))

\* A dirty entry is written to the flags of its schema, if the pack still has one.
Flush(p) ==
    /\ sizes[p] # None /\ sizes[p].dirty
    /\ sizes' = [sizes EXCEPT ![p].dirty = FALSE]
    /\ IF schemas[p] = None THEN UNCHANGED schemas ELSE Write(p, [schemas[p] EXCEPT !.bucket = sizes[p].bucket])
    /\ UNCHANGED <<cards, wrote, tiers>>

(***************************************************************************)
(* user_auth_init: the schema of the users is written at every boot, a     *)
(* reference pack is seeded when its schema is missing, schema first, and  *)
(* card 0 of the users is made when there is none.  All of it goes to the  *)
(* flash.  Power that goes leaves the first n cards of these, and the      *)
(* index that the flash held, or none when it was being written.           *)
(***************************************************************************)
Boot(n) ==
    LET seeds  == IF schemas[SeedPack] = None /\ ~OnSd(SeedPack) THEN First(DOMAIN SeedCards, n) ELSE {}
        admin  == cards[UserPack][0] = None /\ n > Cardinality(seeds)
        known  == IF SchemaFields(UserPack) = UserSchema.fields THEN wrote[UserPack] ELSE [i \in Ids |-> Nothing] IN
    /\ schemas' = [schemas EXCEPT ![UserPack] = UserSchema, ![SeedPack] = IF @ = None THEN SeedSchema ELSE @]
    /\ cards' = [cards EXCEPT ![SeedPack] = [i \in Ids |-> IF i \in seeds THEN SeedCards[i] ELSE @[i]],
                              ![UserPack][0] = IF admin THEN AdminCard ELSE @]
    /\ wrote' = [wrote EXCEPT
            ![SeedPack] = [i \in Ids |-> IF i \in seeds THEN Written(SeedSchema.fields, SeedCards[i]) ELSE @[i]],
            ![UserPack] = IF admin THEN [known EXCEPT ![0] = Written(UserSchema.fields, AdminCard)] ELSE known]
    /\ \E s \in {tiers.saved, {}} : tiers' = [tiers EXCEPT !.hot = {}, !.saved = s, !.live = TRUE]
    /\ sizes' = [p \in Ords |-> None]

-----------------------------------------------------------------------------
\* A value that was written to a card is read under the name it was written with, and under no
\* other, whatever fields the admin adds or changes, whatever packs are deleted and made again,
\* and whatever the boot and the flush of the sizes write over a schema.  Nothing is known of
\* cards that outlive their schema (a pack made anew over them, deleted with more cards than the
\* scan listed, or with its 32 fields full when one is added; the users' at a boot that drops
\* the fields added to them): their ordinals may be given to other fields.
CardsReadAsWritten ==
    \A p \in Ords, i \in Ids : \A o \in DOMAIN wrote[p][i] : NamesAt(SchemaFields(p), o) = {wrote[p][i][o]}
=============================================================================
