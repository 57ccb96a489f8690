----------------------------- MODULE MCSimplify -----------------------------
EXTENDS Simplify

(* Two quantities of four values each. *)
P == "Points"
S == "Spades"
MCAtom == {P, S}
MCMin == -100
MCMax == 100
MCHand == [MCAtom -> 0 .. 3]

Is(a, t, v) == Cmp(t, Qty(a), Lit(v))

(* Rules as a file may write them: plain bounds, also with the literal on  *)
(* the left, what is opaque to the simplifier, an OR under an AND that     *)
(* makes a clause redundant or a branch impossible, negations of both, and *)
(* the literals.                                                           *)
MCRules ==
  { Is(P, "TGEQ", 2),
    Is(P, "TGEQ", 0),
    Cmp("TGT", Lit(3), Qty(P)),
    Cmp("TLEQ", Lit(1), Qty(S)),
    Is(S, "TEQU", 2),
    Is(P, "TNEQ", 1),
    Cmp("TGT", Qty(P), Qty(S)),
    Qty(S),
    And(Is(P, "TGT", 0), Is(P, "TLT", 3)),
    Or(And(Is(P, "TGT", 1), Is(S, "TEQU", 2)), Is(S, "TGT", 2)),
    And(Is(P, "TLEQ", 1), Or(And(Is(P, "TGEQ", 2), Is(S, "TGEQ", 1)), Not(Is(S, "TLT", 2)))),
    Not(And(Is(P, "TGEQ", 1), Or(Is(S, "TLEQ", 1), Is(P, "TEQU", 3)))),
    Or(Lit(1), Is(P, "TGEQ", 2)),
    Lit(1),
    Lit(0) }
=============================================================================
