---------------------------- MODULE MCDealerDeal ----------------------------
(***************************************************************************)
(* Instance of DealerDeal for TLC: four cards, one to a hand.              *)
(***************************************************************************)
EXTENDS DealerDeal

CONSTANTS c1, c2, c3, c4

MCCard == {c1, c2, c3, c4}
One(S) == {{c} : c \in S}
Any    == One(MCCard)

Rule(S)  == [rule |-> One(S), cards |-> {}]
Cards(c) == [rule |-> NoRule, cards |-> {c}]
Line(n, e, s, w, v) == [wishes |-> [p \in Position |-> <<n, e, s, w>>[p + 1]], vul |-> v]

(* Rules for everyone that break off tries at each position; a known North *)
(* with ruled opponents; a known East; a known South and West; two lines   *)
(* that claim one card; a rule nobody obeys.                               *)
AllRuled   == Line(Rule({c1, c2}), Rule({c2, c3}), Rule({c1, c3, c4}), Rule({c1, c4}), NoVul)
KnownNorth == Line(Cards(c2), Rule({c1, c3}), Rule(MCCard), Rule(MCCard), "ns")
KnownEast  == Line(Rule(MCCard), Cards(c1), Rule({c2, c3}), Rule(MCCard), NoVul)
KnownTwo   == Line(Rule(MCCard), Rule(MCCard), Cards(c1), Cards(c3), "none")
Twice      == Line(Cards(c1), Rule(MCCard), Cards(c1), Rule(MCCard), NoVul)
Nobody     == Line(Rule(MCCard), Rule({}), Rule(MCCard), Rule(MCCard), NoVul)

MCHandsFiles ==
  {<<AllRuled, KnownNorth>>, <<KnownNorth, AllRuled>>, <<KnownEast>>, <<KnownTwo, Twice>>, <<Nobody>>}
MCCommands     == {<<>>, <<One({c1, c2}), One({c3})>>}
MCPartnerRules == {Any \X Any, {x \in Any \X Any : x # <<{c1}, {c3}>>}}
=============================================================================
