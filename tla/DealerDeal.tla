----------------------------- MODULE DealerDeal -----------------------------
(***************************************************************************)
(* How deallab deals (dealerDeal.cpp) for its three analyses (deallab.cpp):*)
(* hands only, double dummy, and single dummy, where the North and South   *)
(* of a first deal are kept and East and West are dealt around them. A     *)
(* request is a line of the hands file, or the rules of the command line:  *)
(* for each position a rule, or the cards of a hand in PBN.                *)
(*                                                                         *)
(* The pack is the set of cards left in it (Pack). A rule is the set of    *)
(* hands it accepts.                                                       *)
(***************************************************************************)
EXTENDS Integers, FiniteSets, Sequences

CONSTANTS
  Card,
  HandSize,       (* 13 in the code                                        *)
  MAXTRIES,
  EWiters,        (* -E: deals for each line of the file, or East-Wests    *)
  reps,           (* the deals, or single-dummy rows, of the command line  *)
  HandsFiles,     (* -F: the sequences of requests a file may hold         *)
  Commands,       (* the sequences of rules the command line may hold      *)
  PartnerRules,   (* -P: the pairs of North and South it accepts           *)
  Vuls, NoVul,    (* vulnerabilities; a line may name none                 *)
  NoRule          (* the null rule of a position that is given as cards    *)

Hand     == {h \in SUBSET Card : Cardinality(h) = HandSize}
Position == 0 .. 3
North    == 0
East     == 1
South    == 2
West     == 3

(* What is asked of one position: a rule, or no rule and the cards. *)
Wish    == [rule: {NoRule}, cards: Hand] \cup [rule: SUBSET Hand, cards: {{}}]
Request == [wishes: [Position -> Wish], vul: Vuls \cup {NoVul}]

ASSUME DealerAssumption ==
  /\ HandSize \in Nat \ {0} /\ IsFiniteSet(Card) /\ Cardinality(Card) = 4 * HandSize
  /\ MAXTRIES \in Nat /\ EWiters \in Nat /\ reps \in Nat
  /\ NoVul \notin Vuls /\ \A r \in SUBSET Hand : r # NoRule
  /\ PartnerRules \subseteq SUBSET (Hand \X Hand)

ASSUME RequestsAssumption ==
  /\ HandsFiles \subseteq Seq(Request)
  /\ Commands \subseteq {a \in Seq(SUBSET Hand) : Len(a) <= 4}

VARIABLES
  mode,          (* "generate" (-G), "sda" (-S) or "dda"                   *)
  file,          (* the requests                                           *)
  wanted,        (* deals asked for by each of them                        *)
  partnerRule,
  phase,         (* "construct", "first", "deal", "done" or "exit"         *)
  line,          (* the request being served (hnum)                        *)
  thePack,       (* the cards left                                         *)
  myPack,        (* the object's copy, from which every try starts         *)
  hands,         (* its hands                                              *)
  rules,         (* its rules                                              *)
  nToDeal,       (* the positions to be dealt                              *)
  handsDealt,    (* tries so far, static: it outlives the object           *)
  currentVul,
  found,         (* the deals found for this request                       *)
  rows           (* the requests served: their deals, their vulnerability  *)

argVars  == <<mode, file, wanted, partnerRule>>
dealVars == <<thePack, myPack, hands, rules, nToDeal>>
vars == <<argVars, phase, line, dealVars, handsDealt, currentVul, found, rows>>

CardsOf(hs)  == UNION {hs[p] : p \in Position}
Disjoint(hs) == \A p, q \in Position : p # q => hs[p] \cap hs[q] = {}

wishes == file[line].wishes
Given  == [p \in Position |-> wishes[p].cards]

(* The rules of the command line go to North, East, South and West, but    *)
(* two of them to North and South; any hand will do for the others.        *)
RuleNames(args) ==
  [p \in Position |->
     CASE Len(args) = 2 /\ p = South          -> args[2]
       [] Len(args) = 2 /\ p \in {East, West} -> Hand
       [] Len(args) # 2 /\ p >= Len(args)     -> Hand
       [] OTHER                               -> args[p + 1]]

CommandRequest(args) ==
  [wishes |-> [p \in Position |-> [rule |-> RuleNames(args)[p], cards |-> {}]], vul |-> NoVul]

-----------------------------------------------------------------------------
Init ==
  /\ mode \in {"generate", "sda", "dda"}
  /\ \/ file \in HandsFiles /\ wanted = EWiters
     \/ \E args \in Commands :
          IF mode = "sda"
          THEN file = [i \in 1 .. reps |-> CommandRequest(args)] /\ wanted = EWiters
          ELSE file = <<CommandRequest(args)>> /\ wanted = reps
  /\ partnerRule \in PartnerRules
  /\ phase = "construct" /\ line = 1
  /\ thePack = Card /\ myPack = Card
  /\ hands = [p \in Position |-> {}] /\ rules = [p \in Position |-> NoRule]
  /\ nToDeal = {} /\ handsDealt = 0
  /\ currentVul \in Vuls
  /\ found = <<>> /\ rows = <<>>

(* Mutant: every request has MAXTRIES tries of its own. *)
NoTries == 0

(* Nothing resets the count of tries. *)
TriesBefore == handsDealt

(* The next request: its vulnerability, if it names one, and the           *)
(* constructor, which enters the known hands and takes them from the pack. *)
Construct ==
  /\ phase = "construct" /\ line <= Len(file) /\ Disjoint(Given)
  /\ phase' = IF mode = "sda" THEN "first" ELSE "deal"
  /\ currentVul' = IF file[line].vul = NoVul THEN currentVul ELSE file[line].vul
  /\ thePack' = Card \ CardsOf(Given) /\ myPack' = thePack'
  /\ hands' = Given
  /\ rules' = [p \in Position |-> wishes[p].rule]
  /\ nToDeal' = {p \in Position : wishes[p].rule # NoRule}
  /\ found' = <<>>
  /\ handsDealt' = TriesBefore
  /\ UNCHANGED <<argVars, line, rows>>

(* A card that two of the known hands claim: exit(1). *)
ConstructFails ==
  /\ phase = "construct" /\ line <= Len(file) /\ ~ Disjoint(Given)
  /\ phase' = "exit"
  /\ UNCHANGED <<argVars, line, dealVars, handsDealt, currentVul, found, rows>>

AllServed ==
  /\ phase = "construct" /\ line > Len(file)
  /\ phase' = "done"
  /\ UNCHANGED <<argVars, line, dealVars, handsDealt, currentVul, found, rows>>

-----------------------------------------------------------------------------
StartingPack == myPack

ToDeal == {p \in nToDeal : rules[p] # NoRule}

(* The hands after one try: positions are dealt in order up to the first   *)
(* hand that breaks its rule (4: none does); the others keep what they     *)
(* hold.                                                                   *)
DealtUpTo(last) == {p \in ToDeal : p <= last}

Dealings(last) ==
  {d \in [DealtUpTo(last) -> {h \in Hand : h \subseteq StartingPack}] :
     /\ \A p, q \in DOMAIN d : p # q => d[p] \cap d[q] = {}
     /\ \A p \in DOMAIN d : d[p] \in rules[p] <=> p # last}

TryOutcomes ==
  UNION {{[p \in Position |-> IF p \in DOMAIN d THEN d[p] ELSE hands[p]] : d \in Dealings(last)} :
           last \in ToDeal \cup {4}}

AllPassed(new) == \A p \in ToDeal : new[p] \in rules[p]

(* Mutant: only tries that reach the partner rule are counted. *)
CountPassed(new) == IF AllPassed(new) THEN handsDealt + 1 ELSE handsDealt

Counted(new) == handsDealt + 1

(* Mutant: the pack is filled, and the kept hands are not taken out. *)
FullPack(ns) == Card

(* Mutant: all four are dealt again. *)
Everyone == Position

(* saveNS(): North and South are taken from a full pack and kept; East and *)
(* West are dealt anew.                                                    *)
PackWithout(ns) == Card \ ns

EastWest == {East, West}

(* One pass of dealAndCheck()'s loop. A single-dummy analysis keeps the    *)
(* North and South of its first deal; the deals that count come after.     *)
Try ==
  /\ phase = "first" \/ (phase = "deal" /\ Len(found) < wanted)
  /\ handsDealt < MAXTRIES
  /\ \E new \in TryOutcomes :
       LET match == AllPassed(new) /\ <<new[North], new[South]>> \in partnerRule
           first == match /\ phase = "first"
           left  == StartingPack \ UNION {new[p] : p \in ToDeal}
       IN  /\ hands' = new
           /\ handsDealt' = Counted(new)
           /\ found' = IF match /\ phase = "deal" THEN Append(found, new) ELSE found
           /\ phase' = IF first THEN "deal" ELSE phase
           /\ nToDeal' = IF first THEN EastWest ELSE nToDeal
           /\ myPack' = IF first THEN PackWithout(new[North] \cup new[South]) ELSE myPack
           /\ thePack' = IF first THEN myPack' ELSE left
  /\ UNCHANGED <<argVars, line, rules, currentVul, rows>>

(* No first deal within the tries: the analysis ends without a row. *)
NoFirstDeal ==
  /\ phase = "first" /\ handsDealt >= MAXTRIES
  /\ phase' = "done"
  /\ UNCHANGED <<argVars, line, dealVars, handsDealt, currentVul, found, rows>>

(* The deals asked for are found, or tries have run out: what was found is *)
(* summed up. Only a single-dummy analysis goes on after too few.          *)
RequestDone ==
  /\ phase = "deal" /\ (Len(found) >= wanted \/ handsDealt >= MAXTRIES)
  /\ rows' = Append(rows, [deals |-> Len(found), vul |-> currentVul])
  /\ IF mode = "sda" \/ Len(found) = wanted
     THEN phase' = "construct" /\ line' = line + 1
     ELSE phase' = "done" /\ UNCHANGED line
  /\ UNCHANGED <<argVars, dealVars, handsDealt, currentVul, found>>

Next == Construct \/ ConstructFails \/ AllServed \/ Try \/ NoFirstDeal \/ RequestDone

(* Everything runs in one thread, which nothing holds up. *)
Spec == Init /\ [][Next]_vars /\ WF_vars(Next)
-----------------------------------------------------------------------------
(* Properties.                                                             *)

(* Type invariant: every variable holds values of its kind. *)
TypeOK ==
  /\ mode \in {"generate", "sda", "dda"} /\ file \in Seq(Request)
  /\ wanted \in Nat /\ partnerRule \in PartnerRules
  /\ phase \in {"construct", "first", "deal", "done", "exit"} /\ line \in Nat \ {0}
  /\ thePack \subseteq Card /\ myPack \subseteq Card
  /\ hands \in [Position -> Hand \cup {{}}]
  /\ rules \in [Position -> {NoRule} \cup SUBSET Hand]
  /\ nToDeal \subseteq Position
  /\ handsDealt \in 0 .. MAXTRIES /\ currentVul \in Vuls
  /\ found \in Seq([Position -> Hand])
  /\ rows \in Seq([deals: Nat, vul: Vuls])

(* Every deal that is counted is a whole deal: four hands that share no    *)
(* card and hold the pack between them, whatever tries broke off half-way  *)
(* before it, and, in a single-dummy analysis, from whatever pack its      *)
(* North and South came.                                                   *)
Whole(d) == Disjoint(d) /\ CardsOf(d) = Card

EveryDealIsWhole == \A i \in DOMAIN found : Whole(found[i])

(* So it is, but for a single-dummy analysis with East or West given as    *)
(* cards: saveNS() puts those cards back into the pack.                    *)
DealsAreWhole ==
  (mode = "sda" => rules[East] # NoRule /\ rules[West] # NoRule) => EveryDealIsWhole

(* Every deal that is counted is what was asked for: the cards given for a *)
(* position, or a hand that obeys its rule, a North and South that obey    *)
(* the partner rule, and, in a single-dummy analysis, one North and South  *)
(* in all of them.                                                         *)
DealsAsAsked ==
  phase = "deal" => \A i \in DOMAIN found :
    /\ \A p \in Position :
         IF wishes[p].rule = NoRule THEN found[i][p] = wishes[p].cards
                                    ELSE found[i][p] \in wishes[p].rule
    /\ <<found[i][North], found[i][South]>> \in partnerRule
    /\ mode = "sda" => \A p \in {North, South} : found[i][p] = hands[p]

(* A row that averages over fewer deals than were asked for is the last:   *)
(* tries are not given back, so a request after it finds no first deal.    *)
ShortRowIsLast ==
  \A i \in DOMAIN rows : rows[i].deals < wanted => i = Len(rows)

(* Liveness: whatever the rules, even ones no hand obeys, the analysis     *)
(* comes to an end.                                                        *)
AnalysisEnds == <>(phase \in {"done", "exit"})
=============================================================================
