----------------------------- MODULE MCSampling -----------------------------
(***************************************************************************)
(* Instance of Sampling for TLC: four cards, one to a hand.                *)
(***************************************************************************)
EXTENDS Sampling

CONSTANTS c1, c2, c3, c4

MCCard == {c1, c2, c3, c4}
One(S) == {{c} : c \in S}
Any    == One(MCCard)

(* No rule; rules for North and East, so that tries break off at either;   *)
(* a rule for West only.                                                   *)
MCRuleMaps ==
  {[p \in Position |-> Any],
   [p \in Position |-> CASE p = posNorth -> One({c1, c2})
                         [] p = posEast  -> One({c2, c3})
                         [] OTHER        -> Any],
   [p \in Position |-> IF p = posWest THEN One({c1, c4}) ELSE Any]}

MCInferred     == {Any, One({c3, c4})}
MCPartnerRules == {Any \X Any, {x \in Any \X Any : x # <<{c1}, {c2}>>}}
=============================================================================
