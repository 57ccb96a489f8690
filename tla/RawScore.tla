------------------------------ MODULE RawScore ------------------------------
(***************************************************************************)
(* Scores and IMPs: rawScore() and imps() of rawScore.cpp, which both      *)
(* programs use, and the second IMP table of deallab (calcScores.cpp).     *)
(* Strains are in the solver's order: S, H, D, C, NT.                      *)
(***************************************************************************)
EXTENDS Integers, Sequences, FiniteSets

Level   == 1 .. 7
Denom   == 0 .. 4
Premium == {1, 2, 4}     (* NORMAL, DBL, RDBL *)

trickVal(denom)  == IF denom \in {2, 3} THEN 20 ELSE 30
baseScore(denom) == IF denom = 4 THEN 10 ELSE 0
baseTricks == 6

(* down tricks short of the contract *)
DownScore(down, premium, amVul) ==
  LET doubled == CASE amVul                  -> 100 - 300 * down
                   [] ~ amVul /\ down = 1    -> -100
                   [] ~ amVul /\ down = 2    -> -300
                   [] ~ amVul /\ down > 2    -> 400 - 300 * down
  IN  CASE premium = 1 -> - down * (IF amVul THEN 100 ELSE 50)
        [] premium = 2 -> doubled
        [] premium = 4 -> 2 * doubled

(* Mutant: only more than a hundred trick points make a game. *)
GameAboveHundred(trickScore, amVul) ==
  IF trickScore <= 100 THEN 50 ELSE IF amVul THEN 500 ELSE 300

GameBonus(trickScore, amVul) ==
  IF trickScore < 100 THEN 50 ELSE IF amVul THEN 500 ELSE 300

SlamBonus(bid, amVul) ==
  CASE bid = 6 -> (IF amVul THEN 750 ELSE 500)
    [] bid = 7 -> (IF amVul THEN 1500 ELSE 1000)
    [] OTHER   -> 0

MadeScore(bid, denom, premium, over, amVul) ==
  LET trickScore == (bid * trickVal(denom) + baseScore(denom)) * premium
      insult  == CASE premium = 1 -> 0 [] premium = 2 -> 50 [] premium = 4 -> 100
      otBonus == CASE premium = 1 -> trickVal(denom)
                   [] premium = 2 -> (IF amVul THEN 200 ELSE 100)
                   [] premium = 4 -> (IF amVul THEN 400 ELSE 200)
  IN  trickScore + GameBonus(trickScore, amVul) + SlamBonus(bid, amVul) + insult
        + over * otBonus

(* What is no contract, or no number of tricks, scores nothing. *)
rawScore(bid, denom, premium, tricksMade, amVul) ==
  IF ~ (bid \in Level /\ denom \in Denom /\ premium \in Premium /\ tricksMade \in 0 .. 13)
  THEN 0
  ELSE LET ot == tricksMade - (bid + baseTricks)
       IN  IF ot < 0 THEN DownScore(- ot, premium, amVul)
                     ELSE MadeScore(bid, denom, premium, ot, amVul)

-----------------------------------------------------------------------------
(* IMPs.                                                                   *)

Abs(x)  == IF x < 0 THEN - x ELSE x
Sign(x) == IF x < 0 THEN -1 ELSE 1

(* The upper ends of the brackets, of the table in rawScore.cpp. *)
UpperEnds ==
  << 10, 40, 80, 120, 160, 210, 260, 310, 360, 420, 490, 590, 740, 890, 1090, 1290,
     1490, 1740, 1990, 2240, 2490, 2990, 3490, 3990 >>

(* Mutant: the upper end of a bracket belongs to the next one. *)
BracketFrom(d) == Cardinality({i \in DOMAIN UpperEnds : d >= UpperEnds[i]})

Bracket(d) == Cardinality({i \in DOMAIN UpperEnds : d > UpperEnds[i]})

imps(scoreDiff) == Sign(scoreDiff) * Bracket(Abs(scoreDiff))

(* The lower ends, of the table in calcScores.cpp. *)
impScale ==
  << 20, 50, 90, 130, 170, 220, 270, 320, 370, 430, 500, 600, 750, 900, 1100, 1300,
     1500, 1750, 2000, 2250, 2500, 3000, 3500, 4000 >>

MAX_IMP_SCORE == 4000
MAX_IMPS      == 24

(* The constructor fills a tenth of the table. *)
impTable(i) ==
  IF i < MAX_IMP_SCORE \div 10
  THEN Cardinality({j \in DOMAIN impScale : impScale[j] <= i * 10})
  ELSE 0

rawToImp(raw) ==
  Sign(raw) * (IF Abs(raw) > MAX_IMP_SCORE THEN MAX_IMPS ELSE impTable(Abs(raw) \div 10))
=============================================================================
