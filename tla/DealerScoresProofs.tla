------------------------- MODULE DealerScoresProofs -------------------------
(***************************************************************************)
(* That the batches of ddsMain() enter the tricks of every deal at its own *)
(* place, for every number of deals and size of a batch; and that the      *)
(* search for par finds the best score of all contracts.                   *)
(***************************************************************************)
EXTENDS DealerScores, SequenceTheorems, TLAPS

(* The deals are fixed before the first batch, and the two counters, of    *)
(* deals read and of tricks entered, advance together.                     *)
Counters ==
  /\ pbnHands \in Seq(Deal) /\ Len(pbnHands) <= nhands
  /\ hnum \in 0 .. Len(pbnHands) /\ handNum = hnum + 1
  /\ phase = "deal" => hnum = 0

Entered ==
  /\ DOMAIN maxTricksList = Hands
  /\ TricksAreOfTheDeal

IInv == Counters /\ Entered

(* A batch is never larger than what is left, and empty only at the end.   *)
LEMMA RoundSize ==
  ASSUME Counters
  PROVE  /\ handsThisRound \in 0 .. (Len(pbnHands) - hnum)
         /\ handsThisRound = 0 => hnum = Len(pbnHands)
<1> DEFINE left == Len(pbnHands) - hnum
           S == {maxHandsPerRound, left}
           least(x) == x \in S /\ \A y \in S : x <= y
<1>1. left \in Nat /\ maxHandsPerRound \in Nat \ {0}
  BY DealerScoresAssumption DEF Counters
<1>2. \E x : least(x)
  <2>1. CASE left <= maxHandsPerRound
    BY <1>1, <2>1
  <2>2. CASE ~ left <= maxHandsPerRound
    <3>1. least(maxHandsPerRound)
      BY <1>1, <2>2
    <3> QED BY <3>1
  <2> QED BY <2>1, <2>2
<1>3. handsThisRound = CHOOSE x \in S : \A y \in S : x <= y
  BY DEF handsThisRound, Min
<1>4. least(handsThisRound)
  BY <1>2, <1>3
<1> HIDE DEF left
<1>5. handsThisRound \in 0 .. left /\ (handsThisRound = 0 => left = 0)
  BY <1>1, <1>4
<1> QED
  BY <1>5 DEF left, Counters

LEMMA InitHolds == Init => IInv
<1> SUFFICES ASSUME Init PROVE IInv OBVIOUS
<1>1. Counters
  BY DealerScoresAssumption DEF Init, Counters
<1>2. Entered
  BY DealerScoresAssumption DEF Init, Entered, TricksAreOfTheDeal
<1> QED BY <1>1, <1>2 DEF IInv

LEMMA StepHolds == IInv /\ [Next]_vars => IInv'
<1> SUFFICES ASSUME IInv, [Next]_vars PROVE IInv' OBVIOUS
<1> USE DEF IInv
<1>1. CASE DealOne
  <2>1. PICK d \in Deal : pbnHands' = Append(pbnHands, d)
    BY <1>1 DEF DealOne
  <2>2. Counters'
    BY <1>1, <2>1, DealerScoresAssumption DEF DealOne, Room, Counters, solveVars
  <2>3. Entered'
    BY <1>1 DEF DealOne, Counters, Entered, TricksAreOfTheDeal, solveVars
  <2> QED BY <2>2, <2>3
<1>2. CASE StopDealing
  <2>1. Counters'
    BY <1>2 DEF StopDealing, Counters, solveVars
  <2>2. Entered'
    BY <1>2 DEF StopDealing, Counters, Entered, TricksAreOfTheDeal, solveVars
  <2> QED BY <2>1, <2>2
<1>3. CASE SolveRound
  <2> DEFINE n == handsThisRound
  <2>1. n \in 1 .. (Len(pbnHands) - hnum)
    BY <1>3, RoundSize DEF SolveRound, Counters
  <2>2. /\ hnum' = hnum + n /\ handNum' = handNum + n
        /\ pbnHands' = pbnHands /\ phase' = phase /\ phase = "solve"
        /\ maxTricksList' = [i \in Hands |->
                               IF i \in handNum .. (handNum + n - 1)
                               THEN pbnHands[hnum + 1 + i - handNum]
                               ELSE maxTricksList[i]]
    BY <1>3 DEF SolveRound
  <2> HIDE DEF n
  <2>3. Counters'
    BY <2>1, <2>2 DEF Counters
  <2>4. \A i \in 1 .. hnum' : maxTricksList'[i] = pbnHands'[i]
    <3> SUFFICES ASSUME NEW i \in 1 .. hnum'
                 PROVE  maxTricksList'[i] = pbnHands'[i]
      OBVIOUS
    <3>1. i \in Hands
      BY <2>1, <2>2, DealerScoresAssumption DEF Counters, Hands
    <3>2. CASE i <= hnum
      <4>1. maxTricksList'[i] = maxTricksList[i]
        BY <2>1, <2>2, <3>1, <3>2 DEF Counters
      <4> QED
        BY <2>2, <3>2, <4>1 DEF Counters, Entered, TricksAreOfTheDeal
    <3>3. CASE ~ i <= hnum
      <4>1. i \in handNum .. (handNum + n - 1) /\ hnum + 1 + i - handNum = i
        BY <2>1, <2>2, <3>3 DEF Counters
      <4> QED
        BY <2>2, <3>1, <4>1
    <3> QED BY <3>2, <3>3
  <2>5. Entered'
    BY <2>2, <2>4 DEF Entered, TricksAreOfTheDeal
  <2> QED BY <2>3, <2>5
<1>4. CASE AllSolved
  <2>1. hnum = Len(pbnHands)
    BY <1>4, RoundSize DEF AllSolved
  <2>2. Counters'
    BY <1>4 DEF AllSolved, Counters, solveVars
  <2>3. Entered'
    BY <1>4, <2>1 DEF AllSolved, Entered, TricksAreOfTheDeal, solveVars
  <2> QED BY <2>2, <2>3
<1>5. CASE Summarize
  <2>1. Counters'
    BY <1>5 DEF Summarize, Counters, solveVars
  <2>2. Entered'
    BY <1>5 DEF Summarize, Entered, TricksAreOfTheDeal, solveVars
  <2> QED BY <2>1, <2>2
<1>6. CASE UNCHANGED vars
  BY <1>6 DEF vars, solveVars, Counters, Entered, TricksAreOfTheDeal
<1> QED
  BY <1>1, <1>2, <1>3, <1>4, <1>5, <1>6 DEF Next

(* Whatever the number of deals and the size of a batch, a deal's tricks   *)
(* are entered at its own place in maxTricksList, and all of them are when *)
(* the averages are taken.                                                 *)
THEOREM BatchesKeepOrder == Spec => []TricksAreOfTheDeal
<1>1. Init => IInv
  BY InitHolds
<1>2. IInv /\ [Next]_vars => IInv'
  BY StepHolds
<1>3. IInv => TricksAreOfTheDeal
  BY DEF IInv, Entered
<1> QED
  BY <1>1, <1>2, <1>3, PTL DEF Spec
-----------------------------------------------------------------------------
(* Par of one deal. More tricks of the bid are worth no less at the same   *)
(* number of tricks made: a trick is worth the same in the contract and    *)
(* over it, and the bonuses only grow.                                     *)
LEMMA BidAllYouMake ==
  ASSUME NEW b \in Level, NEW s \in Denom, NEW t \in 0 .. 13, NEW v \in BOOLEAN
  PROVE  /\ rawScore(b, s, 1, t, v) \in Int
         /\ \/ rawScore(b, s, 1, t, v) <= 0
            \/ /\ t - baseTricks \in Level
               /\ rawScore(b, s, 1, t, v) <= rawScore(t - baseTricks, s, 1, t, v)
<1> DEFINE L == t - baseTricks  over == L - b
<1>1. b \in 1 .. 7 /\ L \in Int /\ over \in Int /\ 1 \in Premium /\ L = t - 6
  BY DEF Level, Premium, baseTricks
<1>2. trickVal(s) \in 1 .. 30 /\ baseScore(s) \in {0, 10} BY DEF trickVal, baseScore
<1>3. rawScore(b, s, 1, t, v) =
        IF over < 0 THEN DownScore(- over, 1, v) ELSE MadeScore(b, s, 1, over, v)
  <2>1. t - (b + baseTricks) = over BY <1>1 DEF baseTricks
  <2>2. QED BY <1>1, <2>1 DEF rawScore
<1>4. CASE over < 0
  <2>1. DownScore(- over, 1, v) = - (- over) * (IF v THEN 100 ELSE 50) BY DEF DownScore
  <2>2. DownScore(- over, 1, v) \in Int /\ DownScore(- over, 1, v) <= 0 BY <1>1, <1>4, <2>1
  <2>3. QED BY <1>3, <1>4, <2>2
<1>5. CASE over >= 0
  <2>1. L \in Level /\ b <= L BY <1>1, <1>5 DEF Level
  <2>2. rawScore(L, s, 1, t, v) = MadeScore(L, s, 1, 0, v)
    <3>1. t - (L + baseTricks) = 0 BY <1>1 DEF baseTricks
    <3>2. QED BY <1>1, <2>1, <3>1 DEF rawScore
  <2>3. ASSUME NEW k \in Level, NEW n \in Nat
        PROVE  /\ MadeScore(k, s, 1, n, v) =
                    (k + n) * trickVal(s) + baseScore(s)
                    + GameBonus(k * trickVal(s) + baseScore(s), v) + SlamBonus(k, v)
               /\ MadeScore(k, s, 1, n, v) \in Int
    <3>1. PICK tv \in 1 .. 30 : tv = trickVal(s) BY <1>2
    <3>2. PICK bs \in {0, 10} : bs = baseScore(s) BY <1>2
    <3>3. k \in 1 .. 7 BY DEF Level
    <3>4. (k * tv + bs) * 1 = k * tv + bs /\ k * tv \in Int /\ n * tv \in Int
          /\ k * tv + n * tv = (k + n) * tv
      BY <3>1, <3>2, <3>3
    <3>5. GameBonus(k * tv + bs, v) \in Int /\ SlamBonus(k, v) \in Int
      BY DEF GameBonus, SlamBonus
    <3>6. MadeScore(k, s, 1, n, v) =
            k * tv + bs + GameBonus(k * tv + bs, v) + SlamBonus(k, v) + 0 + n * tv
      BY <3>1, <3>2, <3>4 DEF MadeScore
    <3>7. QED BY <3>1, <3>2, <3>4, <3>5, <3>6
  <2>4. b * trickVal(s) + baseScore(s) <= L * trickVal(s) + baseScore(s)
    <3>1. PICK tv \in 1 .. 30 : tv = trickVal(s) BY <1>2
    <3>2. b * tv <= L * tv BY <1>1, <2>1, <3>1
    <3>3. QED BY <1>1, <1>2, <3>1, <3>2
  <2>5. GameBonus(b * trickVal(s) + baseScore(s), v) <= GameBonus(L * trickVal(s) + baseScore(s), v)
    <3>1. b * trickVal(s) + baseScore(s) \in Int /\ L * trickVal(s) + baseScore(s) \in Int
      BY <1>1, <1>2
    <3>2. QED BY <2>4, <3>1 DEF GameBonus
  <2>6. SlamBonus(b, v) <= SlamBonus(L, v) BY <1>1, <2>1 DEF SlamBonus, Level
  <2>7. MadeScore(b, s, 1, over, v) <= MadeScore(L, s, 1, 0, v)
    <3>1. b + over = L /\ L + 0 = L /\ over \in Nat BY <1>1, <1>5
    <3>2. PICK x \in Int : x = L * trickVal(s) + baseScore(s) BY <1>1, <1>2
    <3>3. /\ MadeScore(b, s, 1, over, v) =
               x + GameBonus(b * trickVal(s) + baseScore(s), v) + SlamBonus(b, v)
          /\ MadeScore(L, s, 1, 0, v) =
               x + GameBonus(L * trickVal(s) + baseScore(s), v) + SlamBonus(L, v)
      BY <2>1, <2>3, <3>1, <3>2
    <3>4. \A y : GameBonus(y, v) \in Int /\ \A k : SlamBonus(k, v) \in Int
      BY DEF GameBonus, SlamBonus
    <3>5. QED BY <2>5, <2>6, <3>2, <3>3, <3>4
  <2>8. MadeScore(b, s, 1, over, v) \in Int BY <1>1, <1>5, <2>3
  <2>9. QED BY <1>1, <1>3, <1>5, <2>1, <2>2, <2>7, <2>8
<1>6. QED BY <1>1, <1>4, <1>5

(* What is no contract scores nothing. *)
LEMMA NoContractScoresNothing ==
  ASSUME NEW b, NEW s, NEW t, NEW v, b \notin Level
  PROVE  rawScore(b, s, 1, t, v) = 0
BY DEF rawScore

(* Five scores, and that of Pass, have a best. *)
LEMMA BestOfSix ==
  ASSUME NEW f \in [Denom -> Int]
  PROVE  \E m \in {0} \cup {f[s] : s \in Denom} :
           m >= 0 /\ \A s \in Denom : m >= f[s]
<1>1. Denom = {0, 1, 2, 3, 4} BY DEF Denom
<1>2. f[0] \in Int /\ f[1] \in Int /\ f[2] \in Int /\ f[3] \in Int /\ f[4] \in Int BY <1>1
<1>3. PICK m1 \in {0, f[0]} : m1 >= 0 /\ m1 >= f[0] BY <1>2
<1>4. PICK m2 \in {m1, f[1]} : m2 >= m1 /\ m2 >= f[1] BY <1>2, <1>3
<1>5. PICK m3 \in {m2, f[2]} : m3 >= m2 /\ m3 >= f[2] BY <1>2, <1>3, <1>4
<1>6. PICK m4 \in {m3, f[3]} : m4 >= m3 /\ m4 >= f[3] BY <1>2, <1>3, <1>4, <1>5
<1>7. PICK m5 \in {m4, f[4]} : m5 >= m4 /\ m5 >= f[4] BY <1>2, <1>3, <1>4, <1>5, <1>6
<1>8. /\ m1 \in Int /\ m2 \in Int /\ m3 \in Int /\ m4 \in Int /\ m5 \in Int
      /\ m5 \in {0, f[0], f[1], f[2], f[3], f[4]}
  BY <1>2, <1>3, <1>4, <1>5, <1>6, <1>7
<1>9. m5 >= 0 /\ m5 >= f[0] /\ m5 >= f[1] /\ m5 >= f[2] /\ m5 >= f[3] /\ m5 >= f[4]
  BY <1>2, <1>3, <1>4, <1>5, <1>6, <1>7, <1>8
<1>10. QED BY <1>1, <1>8, <1>9

(* Max of a set of integers that has a greatest member is that member.     *)
LEMMA MaxIs ==
  ASSUME NEW S \in SUBSET Int, NEW m \in S, \A y \in S : m >= y
  PROVE  Max(S) = m
<1>1. \A x \in S : (\A y \in S : x >= y) => x = m BY SMT
<1>2. (CHOOSE x \in S : \A y \in S : x >= y) = m BY <1>1
<1>3. QED BY <1>2 DEF Max

(* The best of the highest contracts that make is the best of them all,    *)
(* and what is written is within ten points of it.                         *)
ParIsBest(p, t, v) ==
  LET best == Max({Score(c, t, v) : c \in Bids \cup {Pass}})
  IN  p.score = best /\ \A c \in p.contracts : Score(c, t, v) >= best - 10

LEMMA HighestMakeableIsEnough ==
  ASSUME NEW t \in [Denom -> 0 .. 13], NEW v \in BOOLEAN
  PROVE  ParIsBest(NSparDD(t, v), t, v)
<1> DEFINE score(s) == rawScore(AllTricks(t, s).level, s, 1, t[s], v)
           best     == Max({0} \cup {score(s) : s \in Denom})
           all      == {Score(c, t, v) : c \in Bids \cup {Pass}}
<1>1. \A s \in Denom : AllTricks(t, s).level = t[s] - baseTricks /\ AllTricks(t, s).strain = s
  BY DEF AllTricks
<1>2. \A s \in Denom : score(s) \in Int
  <2>1. SUFFICES ASSUME NEW s \in Denom PROVE score(s) \in Int OBVIOUS
  <2>2. CASE t[s] - baseTricks \in Level BY <1>1, <2>2, BidAllYouMake
  <2>3. CASE t[s] - baseTricks \notin Level BY <1>1, <2>3, NoContractScoresNothing
  <2>4. QED BY <2>2, <2>3
<1>3. /\ best \in {0} \cup {score(s) : s \in Denom} /\ best \in Int
      /\ best >= 0 /\ \A s \in Denom : best >= score(s)
  <2> DEFINE f == [s \in Denom |-> score(s)]
             S == {0} \cup {score(s) : s \in Denom}
  <2> HIDE DEF score
  <2>1. f \in [Denom -> Int] BY <1>2
  <2>2. S = {0} \cup {f[s] : s \in Denom} OBVIOUS
  <2> HIDE DEF f
  <2>3. PICK m \in S : m >= 0 /\ \A s \in Denom : m >= f[s] BY <2>1, <2>2, BestOfSix
  <2>4. S \in SUBSET Int BY <1>2
  <2>5. \A y \in S : m >= y BY <2>2, <2>3
  <2>6. Max(S) = m BY <2>4, <2>5, MaxIs
  <2>7. \A s \in Denom : f[s] = score(s) BY DEF f
  <2>8. QED BY <2>3, <2>4, <2>6, <2>7
<1>4. \A c \in Bids : c.level \in Level /\ c.strain \in Denom /\ c.level # 0
  BY DEF Bids, Level
<1>5. Score(Pass, t, v) = 0 BY DEF Score, Pass
<1>6. ASSUME NEW c \in Bids PROVE Score(c, t, v) \in Int /\ Score(c, t, v) <= best
  <2>1. Score(c, t, v) = rawScore(c.level, c.strain, 1, t[c.strain], v) BY <1>4 DEF Score
  <2>2. /\ Score(c, t, v) \in Int
        /\ \/ Score(c, t, v) <= 0
           \/ Score(c, t, v) <= rawScore(t[c.strain] - baseTricks, c.strain, 1, t[c.strain], v)
    <3> DEFINE s == c.strain
    <3>1. s \in Denom /\ c.level \in Level /\ t[s] \in 0 .. 13 BY <1>4
    <3> HIDE DEF s
    <3>2. QED BY <2>1, <3>1, BidAllYouMake DEF s
  <2>3. rawScore(t[c.strain] - baseTricks, c.strain, 1, t[c.strain], v) = score(c.strain)
    BY <1>1, <1>4
  <2>4. score(c.strain) \in Int /\ best >= score(c.strain) BY <1>2, <1>3, <1>4
  <2> HIDE DEF best, score
  <2>5. QED BY <1>3, <2>2, <2>3, <2>4
<1>7. all \in SUBSET Int /\ \A y \in all : best >= y
  <2> HIDE DEF best
  <2>1. \A c \in Bids \cup {Pass} : Score(c, t, v) \in Int /\ best >= Score(c, t, v)
    BY <1>3, <1>5, <1>6
  <2>2. QED BY <2>1
<1>8. ASSUME NEW s \in Denom
      PROVE  Score(AllTricks(t, s), t, v) = score(s)
  <2>1. CASE t[s] - baseTricks = 0
    BY <1>1, <2>1, NoContractScoresNothing DEF Score, Level
  <2>2. CASE t[s] - baseTricks # 0
    BY <1>1, <2>2 DEF Score
  <2>3. QED BY <2>1, <2>2
<1>9. best \in all
  <2>1. CASE best = 0 BY <1>5, <2>1
  <2>2. CASE best # 0
    <3> HIDE DEF best
    <3>1. PICK s \in Denom : best = score(s) BY <1>3, <2>2
    <3>2. t[s] - baseTricks \in Level BY <1>1, <2>2, <3>1, NoContractScoresNothing
    <3>3. AllTricks(t, s) \in Bids BY <3>2 DEF AllTricks, Bids
    <3>4. QED BY <1>8, <3>1, <3>3
  <2>3. QED BY <2>1, <2>2
<1>10. Max(all) = best
  <2> HIDE DEF best, all
  <2>1. QED BY <1>7, <1>9, MaxIs
<1>11. NSparDD(t, v).score = best BY DEF NSparDD
<1>12. \A c \in NSparDD(t, v).contracts : Score(c, t, v) >= best - 10
  <2>1. CASE best = 0
    <3>1. NSparDD(t, v).contracts = {Pass} BY <2>1 DEF NSparDD
    <3> HIDE DEF best
    <3>2. QED BY <1>5, <2>1, <3>1
  <2>2. CASE best # 0
    <3>1. NSparDD(t, v).contracts = {AllTricks(t, s) : s \in {d \in Denom : score(d) >= best - 10}}
      BY <2>2 DEF NSparDD
    <3> HIDE DEF best, score
    <3>2. QED BY <1>8, <3>1
  <2>3. QED BY <2>1, <2>2
<1>13. QED BY <1>10, <1>11, <1>12 DEF ParIsBest

(* The pars that are written are those of the deals that are solved. *)
Pars ==
  ddaPars = [j \in 1 .. hnum |-> NSparDD(Solution[pbnHands[j]], NsVul(curVulCode))]

LEMMA InitPars == Init => Pars
BY DEF Init, Pars

LEMMA StepPars == IInv /\ Pars /\ [Next]_vars => Pars'
<1> SUFFICES ASSUME IInv, Pars, [Next]_vars PROVE Pars' OBVIOUS
<1> USE DEF IInv
<1>1. CASE DealOne
  <2>1. hnum = 0 /\ hnum' = 0 /\ ddaPars' = ddaPars
    BY <1>1 DEF DealOne, solveVars, Counters
  <2>2. QED BY <2>1 DEF Pars
<1>2. CASE SolveRound
  <2> DEFINE n == handsThisRound
             parOf(j) == NSparDD(Solution[pbnHands[j]], NsVul(curVulCode))
  <2>1. n \in 1 .. (Len(pbnHands) - hnum) /\ hnum \in Nat
    BY <1>2, RoundSize DEF SolveRound, Counters
  <2>2. /\ hnum' = hnum + n /\ pbnHands' = pbnHands
        /\ ddaPars' = ddaPars \o [j \in 1 .. n |-> parOf(hnum + j)]
    BY <1>2 DEF SolveRound
  <2>3. ddaPars = [j \in 1 .. hnum |-> parOf(j)] BY DEF Pars
  <2> HIDE DEF n, parOf
  <2>4. PICK N \in Nat : N = n BY <2>1
  <2>5. ddaPars' = [j \in 1 .. (hnum + N) |-> parOf(j)]
    <3>1. PICK f : f = [j \in 1 .. hnum |-> parOf(j)] OBVIOUS
    <3>2. PICK g : g = [j \in 1 .. N |-> parOf(hnum + j)] OBVIOUS
    <3> DEFINE Any == {parOf(j) : j \in Int}
    <3>3. f \in [1 .. hnum -> Any] /\ g \in [1 .. N -> Any]
      BY <2>1, <2>4, <3>1, <3>2
    <3> HIDE DEF Any
    <3>4. f \in Seq(Any) /\ g \in Seq(Any) /\ Len(f) = hnum /\ Len(g) = N
      BY <2>1, <2>4, <3>3
    <3>5. f \o g = [j \in 1 .. (hnum + N) |-> IF j <= hnum THEN f[j] ELSE g[j - hnum]]
      <4>1. PICK h : h = f \o g OBVIOUS
      <4>2. h \in Seq(Any) /\ Len(h) = hnum + N BY <3>4, <4>1, ConcatProperties
      <4>3. \A j \in 1 .. (hnum + N) : h[j] = IF j <= hnum THEN f[j] ELSE g[j - hnum]
        BY <3>4, <4>1, ConcatProperties
      <4>4. h = [j \in 1 .. (hnum + N) |-> h[j]] BY <4>2
      <4>5. QED BY <4>1, <4>3, <4>4
    <3>6. \A j \in 1 .. (hnum + N) :
            (IF j <= hnum THEN f[j] ELSE g[j - hnum]) = parOf(j)
      <4>1. SUFFICES ASSUME NEW j \in 1 .. (hnum + N)
                     PROVE  (IF j <= hnum THEN f[j] ELSE g[j - hnum]) = parOf(j)
        OBVIOUS
      <4>2. CASE j <= hnum BY <2>1, <3>1, <4>2
      <4>3. CASE ~ (j <= hnum)
        <5>1. j - hnum \in 1 .. N /\ hnum + (j - hnum) = j BY <2>1, <2>4, <4>3
        <5>2. QED BY <3>2, <4>3, <5>1
      <4>4. QED BY <4>2, <4>3
    <3>7. ddaPars' = f \o g BY <2>2, <2>3, <2>4, <3>1, <3>2
    <3>8. QED BY <3>5, <3>6, <3>7
  <2>6. QED BY <2>2, <2>4, <2>5 DEF Pars, parOf, n
<1>3. CASE StopDealing BY <1>3 DEF StopDealing, solveVars, Pars
<1>4. CASE AllSolved BY <1>4 DEF AllSolved, solveVars, Pars
<1>5. CASE Summarize BY <1>5 DEF Summarize, solveVars, Pars
<1>6. CASE UNCHANGED vars BY <1>6 DEF vars, solveVars, Pars
<1>7. QED BY <1>1, <1>2, <1>3, <1>4, <1>5, <1>6 DEF Next

LEMMA ParsAreBest == IInv /\ Pars => ParOfDealIsBest
<1> SUFFICES ASSUME IInv, Pars, NEW i \in DOMAIN ddaPars
             PROVE  ParIsBest(ddaPars[i], Solution[pbnHands[i]], NsVul(curVulCode))
  BY DEF ParOfDealIsBest, ParIsBest
<1>1. i \in 1 .. hnum BY DEF Pars
<1>2. pbnHands[i] \in Deal BY <1>1 DEF IInv, Counters
<1>3. Solution[pbnHands[i]] \in [Denom -> 0 .. 13] BY <1>2, DealerScoresAssumption
<1>4. NsVul(curVulCode) \in BOOLEAN BY DEF NsVul
<1>5. ddaPars[i] = NSparDD(Solution[pbnHands[i]], NsVul(curVulCode)) BY <1>1 DEF Pars
<1>6. QED BY <1>3, <1>4, <1>5, HighestMakeableIsEnough

(* ParOfDealIsBest: for any deals and any tricks the solver returns, the   *)
(* search of NSparDD(), which looks at one contract of each strain, finds  *)
(* the best score of all thirty-five and of Pass, and lists contracts      *)
(* within ten points of it; batches do not mix up the deals.               *)
THEOREM ParSearchIsExact == Spec => []ParOfDealIsBest
<1>1. IInv /\ Pars /\ [Next]_vars => IInv' /\ Pars' BY StepHolds, StepPars
<1>2. QED BY InitHolds, InitPars, <1>1, ParsAreBest, PTL DEF Spec
=============================================================================
