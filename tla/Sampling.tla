------------------------------ MODULE Sampling ------------------------------
(***************************************************************************)
(* How bidlab deals: createDeal() deals a board that obeys the rules of    *)
(* the command line or enters one from a PBN file, and runSimulation()     *)
(* samples the hands that are not known, once for the par of the board     *)
(* (North and South known) and once for every guess (the guesser's hand    *)
(* known, its partner's dealt subject to what the auction inferred), and   *)
(* has them solved in batches (bidlab.cpp, bidderDeal.cpp, pack.cpp).      *)
(*                                                                         *)
(* The pack is the set of cards left in it, which is all that Pack says a  *)
(* caller can tell.                                                        *)
(***************************************************************************)
EXTENDS BidEncoding, FiniteSets, Sequences

CONSTANTS
  Card,
  HandSize,           (* 13 in the code                                    *)
  MAXTRIES,
  totHandsToCheck,    (* --nchecks                                         *)
  maxHandsPerRound,   (* the solver's batch: 32                            *)
  numRuns,            (* auctions per board; each guesses at most once     *)
  numBoards,          (* boards asked for, or lines of the PBN file        *)
  RuleMaps,           (* the rules of the command line, by position        *)
  Inferred,           (* what an auction may infer about a hand            *)
  PartnerRules        (* -P: the pairs of North and South it accepts       *)

(* A rule is the set of hands it accepts. *)
Hand     == {h \in SUBSET Card : Cardinality(h) = HandSize}
Position == 0 .. 3
posEast  == 1
posWest  == 3

ASSUME SizesAssumption ==
  /\ IsFiniteSet(Card) /\ Cardinality(Card) = 4 * HandSize /\ HandSize \in Nat \ {0}
  /\ {MAXTRIES, totHandsToCheck, maxHandsPerRound} \subseteq Nat \ {0}
  /\ {numRuns, numBoards} \subseteq Nat \ {0}

ASSUME RulesAssumption ==
  /\ RuleMaps \subseteq [Position -> SUBSET Hand]
  /\ Inferred \subseteq SUBSET Hand
  /\ PartnerRules \subseteq SUBSET (Hand \X Hand)

(* The hands of an object that was never dealt to. *)
NoHands == [p \in Position |-> {}]

VARIABLES
  fromPbn,         (* whether the boards come from a PBN file              *)
  argRules,        (* the rules of the command line                        *)
  partnerRule,
  board,           (* the board being played (repsDone + 1)                *)
  boardNum,        (* boards created                                       *)
  boardsScored,
  pc,              (* "create", "simulate", "bid" or "done"                *)
  pack,            (* the cards left in thePack                            *)
  hands,           (* the auction object's hands: North's and South's      *)
  rules,           (* its rules, by position                               *)
  deal,            (* the hands of the bidderDeal in use                   *)
  dealRules,       (* its rules                                            *)
  twoKnown,
  bidder,          (* who guesses; North for the par of the board          *)
  run,
  tries,
  spack,           (* runSimulation()'s snapshot of the pack               *)
  batch,           (* the records not yet solved                           *)
  handsChecked,
  solved,          (* history: the last batch solved                       *)
  scored           (* history: how many samples were added to the scores   *)

argVars   == <<fromPbn, argRules, partnerRule>>
boardVars == <<board, boardNum, boardsScored>>
dealVars  == <<hands, rules, dealRules, twoKnown, bidder>>
batchVars == <<batch, handsChecked, solved, scored>>
vars == <<argVars, boardVars, pc, pack, dealVars, deal, run, tries, spack, batchVars>>

-----------------------------------------------------------------------------
(* Dealing.                                                                *)

Disjoint(hs)    == \A i, j \in DOMAIN hs : i # j => hs[i] \cap hs[j] = {}
CardsOf(hs)     == UNION {hs[i] : i \in DOMAIN hs}
Obeys(h, p, rl) == h \in rl[p]

(* The sequences of hands that dealAndCheck() may deal from the pool to    *)
(* the positions in todo: it stops at the first that breaks its rule.      *)
Attempts(pool, todo, rl) ==
  {hs \in UNION {[1 .. k -> Hand] : k \in 1 .. Len(todo)} :
     /\ CardsOf(hs) \subseteq pool /\ Disjoint(hs)
     /\ \A i \in 1 .. (Len(hs) - 1) : Obeys(hs[i], todo[i], rl)
     /\ Len(hs) < Len(todo) => ~ Obeys(hs[Len(hs)], todo[Len(hs)], rl)}

(* Mutant: the last hand's rule is not looked at. *)
AllDealt(hs, todo, rl) == Len(hs) = Len(todo)

Accepted(hs, todo, rl) ==
  Len(hs) = Len(todo) /\ Obeys(hs[Len(hs)], todo[Len(hs)], rl)

(* The deal d once the hands hs are dealt to the positions in todo. *)
Placed(d, hs, todo) ==
  [p \in Position |-> IF \E i \in DOMAIN hs : todo[i] = p
                      THEN hs[CHOOSE i \in DOMAIN hs : todo[i] = p]
                      ELSE d[p]]

AllFour == <<posNorth, posEast, posSouth, posWest>>
Unknown == IF twoKnown THEN <<posEast, posWest>> ELSE <<posEast, posSouth, posWest>>

(* Mutant: the known cards stay in the pack. *)
LeftIn(known) == Card

(* reshuffle(), then copyHand() takes the known cards out again. *)
WithoutKnown(known) == Card \ known

(* Mutant: the table is not turned. *)
Unturned(rl, b) == rl

(* The guesser sits North of the simulated deal. *)
Turned(rl, b) == [p \in Position |-> rl[(b + p) % 4]]

(* runSimulation() up to its loop. *)
StartSimulation(known) ==
  /\ pack' = WithoutKnown(known) /\ spack' = pack'
  /\ tries' = 0
  /\ batch' = <<>> /\ handsChecked' = 0
  /\ solved' = <<>> /\ scored' = 0
  /\ pc' = "simulate"

(* createDeal() once the board d is found: North and South are saved, and  *)
(* the par simulation starts.                                              *)
BoardCreated(d) ==
  /\ boardNum' = boardNum + 1 /\ boardsScored' = boardsScored + 1
  /\ deal' = d
  /\ hands' = [p \in Position |-> IF p \in Seat THEN d[p] ELSE {}]
  /\ bidder' = posNorth /\ twoKnown' = TRUE
  /\ StartSimulation(d[posNorth] \cup d[posSouth])
  /\ UNCHANGED <<argVars, board, rules, dealRules, run>>

Init ==
  /\ fromPbn \in BOOLEAN
  /\ argRules \in RuleMaps
  /\ partnerRule \in PartnerRules
  /\ board = 1 /\ boardNum = 0 /\ boardsScored = 0
  /\ pc = "create"
  /\ pack = {} /\ spack = {}
  /\ hands = NoHands /\ deal = NoHands
  /\ rules = argRules /\ dealRules = argRules
  /\ twoKnown = TRUE /\ bidder = posNorth /\ run = 0 /\ tries = 0
  /\ batch = <<>> /\ handsChecked = 0 /\ solved = <<>> /\ scored = 0

(* The next board's auction object; what the last simulation left is gone. *)
NextBoard ==
  /\ board' = board + 1
  /\ pc' = IF board < numBoards THEN "create" ELSE "done"
  /\ hands' = NoHands /\ deal' = NoHands
  /\ rules' = argRules /\ dealRules' = argRules
  /\ twoKnown' = TRUE /\ bidder' = posNorth /\ run' = 0 /\ tries' = 0
  /\ spack' = {}
  /\ batch' = <<>> /\ handsChecked' = 0 /\ solved' = <<>> /\ scored' = 0
  /\ UNCHANGED <<argVars, boardNum, boardsScored>>

(* One try of createDeal() at a random board. *)
TryBoard ==
  /\ pc = "create" /\ ~ fromPbn /\ tries < MAXTRIES
  /\ \E hs \in Attempts(Card, AllFour, dealRules) :
       LET d == Placed(deal, hs, AllFour)
       IN  IF Accepted(hs, AllFour, dealRules) /\ <<d[posNorth], d[posSouth]>> \in partnerRule
           THEN BoardCreated(d)
           ELSE /\ tries' = tries + 1
                /\ deal' = d
                /\ pack' = Card \ CardsOf(hs)
                /\ UNCHANGED <<argVars, boardVars, pc, dealVars, run, spack, batchVars>>

(* It gives up, which main() does not look at: empty hands are bid. *)
GiveUp ==
  /\ pc = "create" /\ ~ fromPbn /\ tries = MAXTRIES
  /\ boardsScored' = boardsScored + 1
  /\ pc' = "bid"
  /\ UNCHANGED <<argVars, board, boardNum, pack, dealVars, deal, run, tries, spack, batchVars>>

(* A line of the PBN file. One that is malformed or names a card twice is  *)
(* skipped, with the cards entered so far out of the pack.                 *)
EnterPbn ==
  /\ pc = "create" /\ fromPbn
  /\ \/ \E d \in [Position -> Hand] : Disjoint(d) /\ BoardCreated(d)
     \/ pack' \in SUBSET Card \ {{}} /\ NextBoard

-----------------------------------------------------------------------------
(* Mutant: the batch is solved one sample too late. *)
Overfull(n, total) == n > maxHandsPerRound \/ total = totHandsToCheck

(* Mutant: what is left at the end is not solved. *)
OnlyFull(n, total) == n = maxHandsPerRound

SolveNow(n, total) == n = maxHandsPerRound \/ total = totHandsToCheck

(* A sample that obeys the rules is recorded, and the batch solved and     *)
(* scored when it is full or the last. After the last the loop is left     *)
(* before the pack is restored.                                            *)
Record(sample) ==
  LET recorded == Append(batch, sample)
      total    == handsChecked + 1
      solve    == SolveNow(Len(recorded), total)
      last     == solve /\ total = totHandsToCheck
  IN  /\ handsChecked' = total
      /\ batch'  = IF solve THEN <<>> ELSE recorded
      /\ solved' = IF solve THEN recorded ELSE solved
      /\ scored' = IF solve THEN scored + Len(recorded) ELSE scored
      /\ pc'     = IF last THEN "bid" ELSE pc
      /\ pack'   = IF last THEN spack \ CardsOf([i \in 1 .. Len(Unknown) |-> sample[Unknown[i]]])
                           ELSE spack

(* One try of runSimulation(). *)
TrySample ==
  /\ pc = "simulate" /\ tries < MAXTRIES
  /\ tries' = tries + 1
  /\ \E hs \in Attempts(pack, Unknown, dealRules) :
       /\ deal' = Placed(deal, hs, Unknown)
       /\ IF Accepted(hs, Unknown, dealRules)
          THEN Record(deal')
          ELSE pack' = spack /\ UNCHANGED <<pc, batchVars>>
  /\ UNCHANGED <<argVars, boardVars, dealVars, run, spack>>

(* The tries are used up; what is in the batch is not solved. *)
OutOfTries ==
  /\ pc = "simulate" /\ tries = MAXTRIES
  /\ pc' = "bid"
  /\ UNCHANGED <<argVars, boardVars, pack, dealVars, deal, run, tries, spack, batchVars>>

(* A run whose auction ends by rule. *)
NoGuess ==
  /\ pc = "bid" /\ run < numRuns
  /\ run' = run + 1
  /\ UNCHANGED <<argVars, boardVars, pc, pack, dealVars, deal, tries, spack, batchVars>>

(* A run that guesses: suggestContract() with what its auction inferred.   *)
(* A hand that was never dealt is the card numbered 0 thirteen times, and  *)
(* is refused at the second.                                               *)
Guess ==
  /\ pc = "bid" /\ run < numRuns
  /\ run' = run + 1
  /\ \E b \in Seat, partner \in Inferred :
       /\ bidder' = b
       /\ rules' = [argRules EXCEPT ![nextBidder(b)] = partner]
       /\ dealRules' = Turned(rules', b)
       /\ deal' = [NoHands EXCEPT ![posNorth] = hands[b]]
       /\ twoKnown' = FALSE
       /\ IF hands[b] # {}
          THEN StartSimulation(hands[b])
          ELSE /\ \E c \in Card : pack' = Card \ {c}
               /\ UNCHANGED <<pc, tries, spack, batchVars>>
  /\ UNCHANGED <<argVars, boardVars, hands>>

(* All runs are bid. *)
BoardDone == pc = "bid" /\ run = numRuns /\ UNCHANGED pack /\ NextBoard

Next == \/ TryBoard \/ GiveUp \/ EnterPbn \/ TrySample \/ OutOfTries
        \/ NoGuess \/ Guess \/ BoardDone

Spec == Init /\ [][Next]_vars
-----------------------------------------------------------------------------
(* Properties.                                                             *)

(* Type invariant: every variable holds values of its kind. *)
TypeOK ==
  /\ fromPbn \in BOOLEAN /\ argRules \in RuleMaps /\ partnerRule \in PartnerRules
  /\ {board, boardNum, boardsScored} \subseteq 0 .. (numBoards + 1)
  /\ pc \in {"create", "simulate", "bid", "done"}
  /\ pack \subseteq Card /\ spack \subseteq Card
  /\ {hands, deal} \subseteq [Position -> Hand \cup {{}}]
  /\ {rules, dealRules} \subseteq [Position -> SUBSET Hand]
  /\ twoKnown \in BOOLEAN /\ bidder \in Seat
  /\ run \in 0 .. numRuns /\ tries \in 0 .. MAXTRIES
  /\ Len(batch) < maxHandsPerRound /\ Len(solved) <= maxHandsPerRound
  /\ {handsChecked, scored} \subseteq 0 .. totHandsToCheck

(* The hands the solver was given or will be given. *)
Samples == {batch[i] : i \in DOMAIN batch} \cup {solved[i] : i \in DOMAIN solved}

(* Every sample the solver gets is a whole deal around the hands that are  *)
(* known: the four hands share no card, between them they hold the pack,   *)
(* the guesser's own hand is North's (South's, too, for the par), whatever *)
(* tries were rejected half-way before it and whatever board preceded it.  *)
SamplesAreWhole ==
  \A s \in Samples :
    /\ Disjoint(s) /\ CardsOf(s) = Card
    /\ s[posNorth] = hands[bidder]
    /\ twoKnown => s[posSouth] = hands[posSouth]

(* Every hand of a sample obeys what is known of the seat it stands for:   *)
(* the opponents the rules of the command line, at their own place at the  *)
(* real table, the guesser's partner the rule its auction inferred.        *)
SamplesObeyRules ==
  \A s \in Samples :
    /\ \A p \in {posEast, posWest} : s[p] \in argRules[(bidder + p) % 4]
    /\ ~ twoKnown => s[posSouth] \in rules[nextBidder(bidder)]

(* No sample is dropped or scored twice while tries are left: the scores   *)
(* and the open batch account for every sample counted, the batch never    *)
(* outgrows the solver's table, and a simulation that ends with tries left *)
(* has scored exactly the samples it divides by.                           *)
BatchAccounting ==
  /\ scored + Len(batch) = handsChecked
  /\ Len(solved) <= maxHandsPerRound
  /\ pc = "bid" /\ handsChecked > 0 /\ tries < MAXTRIES => scored = totHandsToCheck

(* A board that was dealt obeys all four rules of the command line and the *)
(* partner rule when its par is simulated, and a board is bid without      *)
(* hands only after every try was used up.                                 *)
BoardObeysRules ==
  /\ pc = "simulate" /\ twoKnown /\ tries = 0 /\ ~ fromPbn =>
       /\ \A p \in Position : deal[p] \in argRules[p]
       /\ <<hands[posNorth], hands[posSouth]>> \in partnerRule
  /\ pc = "bid" /\ hands = NoHands => ~ fromPbn /\ boardNum < boardsScored

=============================================================================
