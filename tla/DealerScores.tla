---------------------------- MODULE DealerScores ----------------------------
(***************************************************************************)
(* What deallab makes of the deals of one analysis: they are solved in     *)
(* batches (master.cpp), par is searched and every contract compared with  *)
(* it (calcScores.cpp), in the order of its drivers (deallab.cpp).         *)
(* Averages are kept as sums: the code divides all of them by nhands.      *)
(***************************************************************************)
EXTENDS RawScore, FiniteSetsExt

CONSTANTS
  Deal,              (* the deals, as far as the solver tells them apart    *)
  Solution,          (* external: the tricks in each strain, by deal        *)
  Garbage,           (* what memory that was never written may hold         *)
  nhands,            (* deals asked for                                     *)
  maxHandsPerRound,  (* deals solved at a time                              *)
  Unset

VulCode == 1 .. 4    (* vulNone, vulNS, vulEW, vulBoth *)

ASSUME DealerScoresAssumption ==
  /\ Solution \in [Deal -> [Denom -> 0 .. 13]]
  /\ Garbage \subseteq [Denom -> Int] /\ Garbage # {}
  /\ nhands \in Nat \ {0} /\ maxHandsPerRound \in Nat \ {0}
  /\ Unset \notin Deal

VARIABLES
  currentVul,     (* the vulnerability asked for                            *)
  phase,          (* "deal", "solve", "score"                               *)
  pbnHands,       (* the deals of ddsInfo                                   *)
  hnum,           (* deals handed to the solver                             *)
  handNum,        (* the deal whose tricks are entered next                 *)
  maxTricksList,  (* whose tricks are entered, Unset before                 *)
  unread,         (* the tricks an unset entry reads as                     *)
  toDo,           (* the vulnerabilities still to be summarised             *)
  par,            (* the par contract: level 0 for Pass                     *)
  parAveScore, row,   (* its score, and the IMPs written for each contract  *)
  ddaPars         (* the pars written for single deals                      *)

solveVars == <<hnum, handNum, maxTricksList, ddaPars>>
parVars   == <<par, parAveScore, row>>
vars == <<currentVul, phase, pbnHands, solveVars, unread, toDo, parVars>>

curVulCode == 1      (* set by the constructor only *)

Hands == 1 .. nhands
Pass  == [level |-> 0, strain |-> -1]
Bids  == [level: Level, strain: Denom]

tricks(i) == IF maxTricksList[i] = Unset THEN unread ELSE Solution[maxTricksList[i]]

NsVul(vulCode) == vulCode \in {2, 4}

(* Undoubled by our side, as every contract here. *)
Score(c, t, amVul) == IF c.level = 0 THEN 0 ELSE rawScore(c.level, c.strain, 1, t[c.strain], amVul)

-----------------------------------------------------------------------------
(* NSparDD(): the par of one deal.                                         *)

(* Mutant: one trick is kept in reserve. *)
Reserve(t, s) == [level |-> t[s] - baseTricks - 1, strain |-> s]

AllTricks(t, s) == [level |-> t[s] - baseTricks, strain |-> s]

NSparDD(t, amVul) ==
  LET score(s) == rawScore(AllTricks(t, s).level, s, 1, t[s], amVul)
      best == Max({0} \cup {score(s) : s \in Denom})
  IN  [score |-> best,
       contracts |-> IF best = 0 THEN {Pass}
                     ELSE {AllTricks(t, s) : s \in {d \in Denom : score(d) >= best - 10}}]

-----------------------------------------------------------------------------
(* setPars().                                                              *)

Total(c, amVul) == MapThenSumSet(LAMBDA i : Score(c, tricks(i), amVul), Hands)

ImpsAgainst(c, baseline, amVul) ==
  MapThenSumSet(LAMBDA i : rawToImp(Score(c, tricks(i), amVul)
                                    - Score(baseline, tricks(i), amVul)), Hands)

(* Both searches go through the strains and within each through the levels *)
(* and keep the last of the best, if it is not worse than Pass.            *)
Later(b, c) == b.strain > c.strain \/ (b.strain = c.strain /\ b.level > c.level)

LastOfBest(value) ==
  LET top == Max({value[c] : c \in Bids})
  IN  IF top < value[Pass] THEN Pass
      ELSE CHOOSE c \in Bids : value[c] = top /\ \A b \in Bids : value[b] = top => ~ Later(b, c)

setPar(amVul) == LastOfBest([c \in Bids \cup {Pass} |-> Total(c, amVul)])

impsVsPar(c, p) == ImpsAgainst(c, p, curVulCode % 2 = 0)

BestInImps(rawPar) == LastOfBest([c \in Bids \cup {Pass} |-> impsVsPar(c, rawPar)])

-----------------------------------------------------------------------------
Init ==
  /\ currentVul \in VulCode
  /\ toDo \in {<<currentVul>>, <<1, 4>>}   (* writeSDASummary(), summarize() *)
  /\ phase = "deal" /\ pbnHands = <<>> /\ hnum = 0 /\ handNum = 1
  /\ maxTricksList = [i \in Hands |-> Unset] /\ unread \in Garbage
  /\ par = Pass /\ parAveScore = 0 /\ row = [c \in {} |-> 0] /\ ddaPars = <<>>

Room == Len(pbnHands) < nhands

(* A deal that obeys the rules was found. *)
DealOne ==
  /\ phase = "deal" /\ Room
  /\ \E d \in Deal : pbnHands' = Append(pbnHands, d)
  /\ UNCHANGED <<currentVul, phase, solveVars, unread, toDo, parVars>>

(* All are dealt, or tries ran out: the rest is never dealt. *)
StopDealing ==
  /\ phase = "deal"
  /\ phase' = "solve"
  /\ UNCHANGED <<currentVul, pbnHands, solveVars, unread, toDo, parVars>>

(* Mutant: the deal at which the last batch breaks off is lost. *)
ShortRound == Max({0, Min({maxHandsPerRound, Len(pbnHands) - hnum - 1})})

(* A round of ddsMain(): the deals that are left, at most so many. *)
handsThisRound == Min({maxHandsPerRound, Len(pbnHands) - hnum})

SolveRound ==
  /\ phase = "solve" /\ handsThisRound > 0
  /\ maxTricksList' = [i \in Hands |->
                         IF i \in handNum .. (handNum + handsThisRound - 1)
                         THEN pbnHands[hnum + 1 + i - handNum]
                         ELSE maxTricksList[i]]
  /\ ddaPars' = ddaPars \o
       [j \in 1 .. handsThisRound |-> NSparDD(Solution[pbnHands[hnum + j]], NsVul(curVulCode))]
  /\ hnum' = hnum + handsThisRound
  /\ handNum' = handNum + handsThisRound
  /\ UNCHANGED <<currentVul, phase, pbnHands, unread, toDo, parVars>>

AllSolved ==
  /\ phase = "solve" /\ handsThisRound = 0
  /\ phase' = "score"
  /\ UNCHANGED <<currentVul, pbnHands, solveVars, unread, toDo, parVars>>

(* Par, and what every contract is worth against it. *)
Summarize ==
  /\ phase = "score" /\ toDo # <<>>
  /\ LET vul == NsVul(Head(toDo))
     IN  /\ par' = BestInImps(setPar(vul))
         /\ parAveScore' = Total(par', vul)
         /\ row' = [c \in Bids \cup {Pass} |-> impsVsPar(c, par')]
  /\ toDo' = Tail(toDo)
  /\ UNCHANGED <<currentVul, phase, pbnHands, solveVars, unread>>

Next == DealOne \/ StopDealing \/ SolveRound \/ AllSolved \/ Summarize

Spec == Init /\ [][Next]_vars

-----------------------------------------------------------------------------
(* Properties.                                                             *)

(* Whatever the size of the last batch, the tricks entered for a deal are  *)
(* those of that deal, and when the solver is done every deal has them.    *)
TricksAreOfTheDeal ==
  /\ \A i \in 1 .. hnum : maxTricksList[i] = pbnHands[i]
  /\ phase = "score" => hnum = Len(pbnHands)

(* The par of a single deal, found from the highest makeable contract of   *)
(* each strain, is the best score of any contract, and what is written as  *)
(* par is worth that, within the ten points the comment allows.            *)
ParOfDealIsBest ==
  \A i \in DOMAIN ddaPars :
    LET t == Solution[pbnHands[i]]
        best == Max({Score(c, t, NsVul(curVulCode)) : c \in Bids \cup {Pass}})
    IN  /\ ddaPars[i].score = best
        /\ \A c \in ddaPars[i].contracts : Score(c, t, NsVul(curVulCode)) >= best - 10

=============================================================================
