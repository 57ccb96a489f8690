---------------------------- MODULE ScoringLaws ----------------------------
(***************************************************************************)
(* The law of duplicate bridge on scores (77), which rawScore.cpp          *)
(* computes, and the IMPs of rawScore.cpp and calcScores.cpp. They do not  *)
(* depend on the deals and are looked at once per vulnerability, before    *)
(* any is dealt.                                                           *)
(***************************************************************************)
EXTENDS DealerScores

Undealt == phase = "deal" /\ pbnHands = <<>>

Contract == [bid: Level, denom: Denom, premium: Premium, amVul: {NsVul(currentVul)}]

ScoreOf(c, made) == rawScore(c.bid, c.denom, c.premium, made, c.amVul)

(* What the k-th trick short costs. *)
Undertrick(c, k) ==
  CASE c.premium = 1 -> (IF c.amVul THEN 100 ELSE 50)
    [] c.premium # 1 /\ c.amVul -> (c.premium \div 2) * (IF k = 1 THEN 200 ELSE 300)
    [] OTHER -> (c.premium \div 2) * (CASE k = 1 -> 100 [] k \in {2, 3} -> 200 [] OTHER -> 300)

Overtrick(c) ==
  IF c.premium = 1 THEN (IF c.denom \in {2, 3} THEN 20 ELSE 30)
                   ELSE 50 * c.premium * (IF c.amVul THEN 2 ELSE 1)

(* What the contract earns with just the tricks bid. *)
Contracted(c) ==
  LET points == c.premium * (c.bid * (IF c.denom \in {2, 3} THEN 20 ELSE 30)
                             + (IF c.denom = 4 THEN 10 ELSE 0))
      game   == points >= 100
  IN  points + (CASE ~ game -> 50 [] game /\ c.amVul -> 500 [] OTHER -> 300)
        + (CASE c.bid = 6 /\ c.amVul -> 750  [] c.bid = 6 /\ ~ c.amVul -> 500
             [] c.bid = 7 /\ c.amVul -> 1500 [] c.bid = 7 /\ ~ c.amVul -> 1000 [] OTHER -> 0)
        + (CASE c.premium = 1 -> 0 [] c.premium = 2 -> 50 [] OTHER -> 100)

(* The scores are those of the laws, whose penalties are given undertrick  *)
(* by undertrick while the code computes them in one go.                   *)
ScoresAreLawful ==
  Undealt => \A c \in Contract : \A made \in 0 .. 13 :
    ScoreOf(c, made) =
      IF made < c.bid + 6
      THEN - MapThenSumSet(LAMBDA k : Undertrick(c, k), 1 .. (c.bid + 6 - made))
      ELSE Contracted(c) + (made - c.bid - 6) * Overtrick(c)

(* The differences between two scores, the opponents' included. *)
Scores == {0} \cup {ScoreOf(c, made) : c \in Contract, made \in 0 .. 13}
Differences == {a - b : a, b \in Scores}

(* The two programs, with two tables, turn a difference of scores into the *)
(* same IMPs, but for the largest of deallab's table, whose entry is never *)
(* filled.                                                                 *)
TablesAgree ==
  Undealt => \A d \in Differences : Abs(d) # MAX_IMP_SCORE => rawToImp(d) = imps(d)

=============================================================================
