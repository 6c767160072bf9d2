-------------------------------- MODULE MCQuery --------------------------------
(* Two packs with a link, the second one seeded, a pack beyond the schemas that *)
(* are looked through, queries with conditions on both packs, of several on one *)
(* and with the aggregates.                                                     *)
EXTENDS Query

F(name, ord, type, to) == [name |-> name, ord |-> ord, type |-> type, to |-> to]
S(pack, field, agg) == [pack |-> pack, field |-> field, agg |-> agg]
W(pack, field, op, val) == [pack |-> pack, field |-> field, op |-> op, val |-> val]
Q(select, from, where) == [select |-> select, from |-> from, where |-> where]

MCOrds == {1, 2, 3, 7}
MCIds == 0 .. 2
MCPackNames == {"items"}
MCFields == {F("x", 0, "num", 0), F("kind", 0, "link", 6)}
MCSeedSchema == Card("kinds", <<F("name", 0, "text", 0), F("size", 1, "num", 0)>>, TRUE, TRUE)
MCSeedCards == 0 :> (0 :> 1 @@ 1 :> 2) @@ 1 :> (0 :> 2 @@ 1 :> 0)
MCUserSchema == Plain("users", <<F("username", 0, "text", 0)>>)
MCAdminCard == 0 :> 3

Items == Plain("items", <<F("n", 0, "num", 0), F("t", 1, "text", 0), F("kind", 2, "link", 3)>>)
Item == {None, 0 :> 1 @@ 1 :> 1 @@ 2 :> 1, 0 :> 2 @@ 1 :> Blank @@ 2 :> 0, 0 :> 2 @@ 1 :> 1 @@ 2 :> 2, 0 :> 1 @@ 1 :> 2}
Kind == {0 :> 2 @@ 1 :> 1, 0 :> 1}

MCNewCards == {0 :> 2 @@ 2 :> 2}
More == Plain("more", <<F("x", 0, "num", 0)>>)

Flash == [sd |-> FALSE, hot |-> {}, saved |-> {}, live |-> FALSE]
Start(a, b, c, d, ix, n) ==
    [schemas |-> 1 :> MCUserSchema @@ 2 :> Items @@ 3 :> MCSeedSchema @@ 7 :> IF n = 0 THEN More ELSE None,
     cards |-> 1 :> (0 :> MCAdminCard @@ 1 :> None @@ 2 :> None) @@ 2 :> (0 :> a @@ 1 :> b @@ 2 :> c)
                 @@ 3 :> (0 :> MCSeedCards[0] @@ 1 :> d @@ 2 :> None) @@ 7 :> (0 :> None @@ 1 :> (0 :> 1) @@ 2 :> None),
     tiers |-> ix, left |-> n]

\* Keys on the SD card: of items, and of all packs.
InItems == {2} \X MCIds
OnCard == InItems \cup {<<3, 0>>, <<3, 1>>, <<7, 1>>}
Sd(hot, saved, live) == [sd |-> TRUE, hot |-> hot, saved |-> saved, live |-> live]

\* Many contents that do not change, and some that do; each state of the indexes over one content.
Content(ix, n) == Start(0 :> 2 @@ 1 :> 1 @@ 2 :> 2, 0 :> 1 @@ 1 :> 2, 0 :> 2 @@ 1 :> Blank @@ 2 :> 1, MCSeedCards[1], ix, n)

MCStarts ==
    {Start(a, b, c, d, Flash, 0) : a \in Item, b \in Item \ {None}, c \in {None} \cup MCNewCards, d \in Kind}
        \cup {Start(a, b, b, MCSeedCards[1], Sd(hot, OnCard, TRUE), 0) :
                a, b \in Item \ {None}, hot \in {{<<2, 0>>, <<3, 1>>}, {<<2, 2>>, <<3, 0>>}}}
        \cup {Content(Sd(hot, OnCard \ cold, live), 0) :
                hot \in SUBSET (InItems \cup {<<3, 1>>}), cold \in {{<<2, 1>>}, {<<3, 0>>}}, live \in BOOLEAN}
        \cup {Content(Flash, 2), Content(Sd({<<2, 0>>, <<2, 1>>, <<3, 0>>}, OnCard, TRUE), 1)}

MCQueries == {
    Q(<<S("", "n", "none"), S("kinds", "name", "none")>>, <<"items", "kinds">>, <<W("", "n", ">", 1)>>),
    Q(<<S("items", "t", "none")>>, <<"items", "kinds">>,
      <<W("", "n", "IN", {1, 2}), W("", "t", "!=", 2), W("kinds", "size", "<=", 1)>>),
    Q(<<S("", "n", "none")>>, <<"items", "kinds">>, <<W("kinds", "name", "NI", {3})>>),
    Q(<<S("", "t", "none"), S("", "n", "sum"), S("", "n", "max"), S("", "n", "count")>>, <<"items">>, <<>>),
    Q(<<S("", "n", "min"), S("", "n", "avg"), S("kinds", "name", "none"), S("", "t", "first")>>,
      <<"items", "kinds">>, <<W("", "kind", "==", 1)>>),
    Q(<<>>, <<"kinds">>, <<W("", "size", "==", 0)>>),
    Q(<<S("", "n", "none")>>, <<"items">>,
      <<W("", "t", ">=", 0), W("", "n", "!=", 3), W("", "n", "<", 2), W("", "n", "==", 2)>>),
    Q(<<S("", "n", "none")>>, <<"items", "more">>, <<W("more", "x", "==", 1)>>),
    Q(<<>>, <<"items", "users">>, <<>>), Q(<<>>, <<>>, <<>>)}
=============================================================================
