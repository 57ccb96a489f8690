---------------------------- MODULE MCRulesText ----------------------------
(***************************************************************************)
(* Instance of RulesText for TLC: every file of up to three statements     *)
(* from a list that uses each macro, mark and attachment, and makes each   *)
(* mistake, and of two rules and two entries; two templates.               *)
(***************************************************************************)
EXTENDS RulesMeaning

CONSTANTS T1, T2

Call(l, x)   == [level |-> l, strain |-> x, trump |-> FALSE]
Marks(l, x)  == [level |-> l, strain |-> x, trump |-> TRUE]
Pass         == Call(0, "P")

Bid(tokens)      == [kind |-> "bid", of |-> NoTemplate, tokens |-> tokens]
Entry(t, tokens) == [kind |-> "entry", of |-> t, tokens |-> tokens]
Property         == [kind |-> "rule", of |-> NoTemplate, tokens |-> <<>>]

Words(ws) == [i \in DOMAIN ws |-> [word |-> ws[i], names |-> {}]]
Ref(n)    == <<[word |-> "ref", names |-> {n}]>>

Def(name, body)       == [name |-> name, op |-> ":=", body |-> body, attach |-> NoTemplate]
Ask(name, body, t)    == [Def(name, body) EXCEPT !.attach = t]
Op(o, name, body)     == [Def(name, body) EXCEPT !.op = o]

PlainStatements ==
  { Ask(Bid(<<Call(1, "H")>>), Words(<<"C">>), T1),
    Ask(Bid(<<Marks(1, "Maj")>>), Words(<<"Maj", "Trump">>), T1),
    Ask(Bid(<<Marks(1, "H"), Call(4, "N")>>), Words(<<"BMaj">>), T2),
    Def(Bid(<<Call(1, "Maj"), Call(2, "OMaj")>>), Words(<<"OMaj", "BMin">>)),
    Def(Bid(<<Call(2, "D"), Call(2, "Min")>>), Words(<<"OMin">>)),
    Def(Property, Words(<<"Maj", "OMaj", "Min">>)),
    Def(Property, Words(<<"OMaj">>)),
    Ask(Bid(<<Call(1, "D")>>), Words(<<"Min">>), T1),
    Def(Bid(<<Call(1, "D")>>), Ref(<<Call(1, "Maj"), Call(2, "OMaj")>>) \o Words(<<"Maj">>)),
    Def(Bid(<<Call(1, "Maj")>>), Ref(<<Call(1, "OMaj")>>)),
    Def(Bid(<<Marks(1, "H"), Pass, Marks(3, "D")>>), Words(<<"Trump">>)),
    Def(Bid(<<Marks(1, "H"), Call(5, "C")>>), Words(<<"S">>)),
    Op(":&", Bid(<<Call(1, "H")>>), Words(<<"Trump">>)),
    Op(":?", Bid(<<Call(1, "H")>>), <<>>),
    Op(":|", Bid(<<Marks(1, "N")>>), Words(<<"D">>)),
    Def(Bid(<<Call(2, "H"), Call(1, "S")>>), Words(<<"D">>)),
    Def(Bid(<<Call(2, "C")>>), Ref(<<Marks(1, "Maj"), Pass>>)),
    Ask(Property, Words(<<"D">>), T2) }

EntryStatements ==
  { Ask(Entry(T1, <<Call(5, "C")>>), Words(<<"Trump">>), T2),
    Def(Entry(T1, <<Call(5, "C")>>), Words(<<"S">>)),
    Def(Entry(T1, <<Marks(5, "D")>>), Words(<<"Trump", "BMaj">>)),
    Def(Entry(T2, <<Pass, Call(5, "H")>>), Words(<<"Maj", "C">>)),
    Ask(Entry(T2, <<Call(5, "S")>>), Words(<<"C">>), T2),
    Ask(Entry(T2, <<Call(5, "N")>>), Words(<<"Min">>), T1),
    Def(Entry(T1, <<Call(5, "Maj")>>), Words(<<"Maj">>)),
    Op(":&", Entry(T2, <<Call(5, "H")>>), Words(<<"H">>)) }

Statements == PlainStatements \cup EntryStatements

MCSources ==
  UNION {[1 .. n -> Statements] : n \in 1 .. 3} \cup
  {<<p, q, e, f>> : p \in PlainStatements, q \in PlainStatements,
                    e \in EntryStatements, f \in EntryStatements}
=============================================================================
