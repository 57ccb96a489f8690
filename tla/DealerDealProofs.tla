-------------------------- MODULE DealerDealProofs --------------------------
(***************************************************************************)
(* For packs and hands of any size, any requests and any limits: deallab   *)
(* counts whole deals only, unless a single-dummy analysis is given East   *)
(* or West as cards, each as it was asked for, and no row but the last     *)
(* counts too few.                                                         *)
(***************************************************************************)
EXTENDS DealerDeal, FiniteSetTheorems, TLAPS

LEMMA DisjointUnion ==
  ASSUME NEW S, NEW T, IsFiniteSet(S), IsFiniteSet(T), S \cap T = {}
  PROVE  IsFiniteSet(S \cup T) /\ Cardinality(S \cup T) = Cardinality(S) + Cardinality(T)
<1>1. Cardinality(S) \in Nat /\ Cardinality(T) \in Nat BY FS_CardinalityType
<1>2. Cardinality(S \cap T) = 0 BY FS_EmptySet
<1>3. /\ IsFiniteSet(S \cup T)
      /\ Cardinality(S \cup T) = Cardinality(S) + Cardinality(T) - Cardinality(S \cap T)
  BY FS_Union
<1>4. QED BY <1>1, <1>2, <1>3

(* Four hands that share no card are the whole pack. *)
LEMMA FourHandsCover ==
  ASSUME NEW d, \A p \in Position : d[p] \in Hand, Disjoint(d)
  PROVE  Whole(d)
<1> DEFINE N == d[0]  E == d[1]  S == d[2]  W == d[3]
<1>1. Position = {0, 1, 2, 3} BY DEF Position
<1>2. /\ N \in SUBSET Card /\ E \in SUBSET Card /\ S \in SUBSET Card /\ W \in SUBSET Card
      /\ Cardinality(N) = HandSize /\ Cardinality(E) = HandSize
      /\ Cardinality(S) = HandSize /\ Cardinality(W) = HandSize
  BY <1>1 DEF Hand
<1>3. /\ N \cap E = {} /\ (N \cup E) \cap S = {} /\ (N \cup E \cup S) \cap W = {}
  <2>1. /\ N \cap E = {} /\ N \cap S = {} /\ N \cap W = {}
        /\ E \cap S = {} /\ E \cap W = {} /\ S \cap W = {}
    BY <1>1 DEF Disjoint
  <2>2. QED BY <2>1
<1>4. CardsOf(d) = N \cup E \cup S \cup W BY <1>1 DEF CardsOf
<1>5. IsFiniteSet(Card) /\ HandSize \in Nat /\ Cardinality(Card) = 4 * HandSize
  BY DealerAssumption
<1> HIDE DEF N, E, S, W
<1>7. IsFiniteSet(N) /\ IsFiniteSet(E) /\ IsFiniteSet(S) /\ IsFiniteSet(W)
  BY <1>2, <1>5, FS_Subset
<1>8. IsFiniteSet(N \cup E) /\ Cardinality(N \cup E) = HandSize + HandSize
  BY <1>2, <1>3, <1>7, DisjointUnion
<1>9. IsFiniteSet(N \cup E \cup S)
      /\ Cardinality(N \cup E \cup S) = HandSize + HandSize + HandSize
  BY <1>2, <1>3, <1>7, <1>8, DisjointUnion
<1>10. Cardinality(N \cup E \cup S \cup W) = HandSize + HandSize + HandSize + HandSize
  BY <1>2, <1>3, <1>7, <1>9, DisjointUnion
<1>11. N \cup E \cup S \cup W \in SUBSET Card BY <1>2
<1>6. HandSize + HandSize + HandSize + HandSize = 4 * HandSize BY <1>5
<1>12. N \cup E \cup S \cup W = Card BY <1>5, <1>6, <1>10, <1>11, FS_Subset
<1>13. QED BY <1>4, <1>12 DEF Whole

(* The command line makes a request of four rules. *)
LEMMA CommandIsRequest ==
  ASSUME NEW args \in Commands PROVE CommandRequest(args) \in Request
<1> USE DEF Position, North, East, South, West
<1>1. args \in Seq(SUBSET Hand) /\ Len(args) \in Nat BY RequestsAssumption
<1>2. Hand \in SUBSET Hand OBVIOUS
<1>3. ASSUME NEW p \in Position PROVE RuleNames(args)[p] \in SUBSET Hand
  <2>1. CASE Len(args) = 2
    <3>1. args[1] \in SUBSET Hand /\ args[2] \in SUBSET Hand BY <1>1, <2>1
    <3>2. QED BY <3>1, <2>1, <1>2 DEF RuleNames
  <2>2. CASE Len(args) # 2 /\ p >= Len(args) BY <2>2, <1>2 DEF RuleNames
  <2>3. CASE Len(args) # 2 /\ p < Len(args)
    <3>1. p + 1 \in 1 .. Len(args) BY <1>1, <2>3
    <3>2. args[p + 1] \in SUBSET Hand BY <1>1, <3>1
    <3>3. ~ (p >= Len(args)) BY <1>1, <2>3
    <3>4. RuleNames(args)[p] = args[p + 1] BY <2>3, <3>3 DEF RuleNames
    <3>5. QED BY <3>2, <3>4
  <2>4. p >= Len(args) \/ p < Len(args) BY <1>1
  <2>5. QED BY <2>1, <2>2, <2>3, <2>4
<1>4. QED BY <1>3 DEF CommandRequest, Request, Wish

-----------------------------------------------------------------------------
(* The hands that are not dealt are hands, share no card with one another, *)
(* and are not in the pack every try starts from.                          *)
Standing == Position \ ToDeal

StandingApart ==
  /\ \A p \in Standing : hands[p] \in Hand /\ hands[p] \cap myPack = {}
  /\ \A p, q \in Standing : p # q => hands[p] \cap hands[q] = {}

DealtRound == mode = "sda" => rules[East] # NoRule /\ rules[West] # NoRule

IInv ==
  /\ file \in Seq(Request) /\ line \in Nat \ {0}
  /\ phase \in {"construct", "first", "deal", "done", "exit"}
  /\ nToDeal \subseteq Position
  /\ DealtRound => found \in Seq([Position -> Hand])
  /\ phase = "first" => mode = "sda" /\ \A p \in Position \ nToDeal : rules[p] = NoRule
  /\ phase \in {"first", "deal"} /\ DealtRound => StandingApart
  /\ DealsAreWhole

LEMMA InitIInv == Init => IInv
<1> SUFFICES ASSUME Init PROVE IInv OBVIOUS
<1>1. file \in Seq(Request)
  <2>1. CASE file \in HandsFiles BY <2>1, RequestsAssumption
  <2>2. ASSUME NEW args \in Commands, file = [i \in 1 .. reps |-> CommandRequest(args)]
        PROVE  file \in Seq(Request)
    BY <2>2, CommandIsRequest, DealerAssumption
  <2>3. ASSUME NEW args \in Commands, file = <<CommandRequest(args)>>
        PROVE  file \in Seq(Request)
    BY <2>3, CommandIsRequest
  <2>4. QED BY <2>1, <2>2, <2>3 DEF Init
<1>2. QED BY <1>1 DEF Init, IInv, DealsAreWhole, EveryDealIsWhole, Position

(* A try that passes every rule deals hands from the pack to the positions *)
(* that are dealt, and leaves the others.                                  *)
LEMMA PassedTry ==
  ASSUME nToDeal \subseteq Position, NEW new \in TryOutcomes, AllPassed(new)
  PROVE  /\ \A p \in Standing : new[p] = hands[p]
         /\ \A p \in ToDeal : new[p] \in Hand /\ new[p] \subseteq myPack
         /\ \A p, q \in ToDeal : p # q => new[p] \cap new[q] = {}
         /\ DOMAIN new = Position /\ new = [p \in Position |-> new[p]]
<1>1. PICK last \in ToDeal \cup {4} :
        \E d \in Dealings(last) :
          new = [p \in Position |-> IF p \in DOMAIN d THEN d[p] ELSE hands[p]]
  BY DEF TryOutcomes
<1>2. PICK d \in Dealings(last) :
        new = [p \in Position |-> IF p \in DOMAIN d THEN d[p] ELSE hands[p]]
  BY <1>1
<1>3. ToDeal \subseteq Position BY DEF ToDeal
<1>4. DOMAIN d = DealtUpTo(last) BY DEF Dealings
<1>5. last = 4
  <2>1. SUFFICES ASSUME last \in ToDeal PROVE FALSE BY <1>1
  <2>2. last \in DealtUpTo(last) BY <2>1, <1>3 DEF DealtUpTo, Position
  <2>3. d[last] \notin rules[last] BY <2>2, <1>4 DEF Dealings
  <2>4. new[last] = d[last] BY <2>1, <2>2, <1>2, <1>3, <1>4
  <2>5. QED BY <2>1, <2>3, <2>4 DEF AllPassed
<1>6. DOMAIN d = ToDeal
  <2>1. \A p \in ToDeal : p <= last BY <1>3, <1>5 DEF Position
  <2>2. QED BY <1>4, <2>1 DEF DealtUpTo
<1>7. /\ d \in [ToDeal -> {h \in Hand : h \subseteq myPack}]
      /\ \A p, q \in ToDeal : p # q => d[p] \cap d[q] = {}
  BY <1>4, <1>6 DEF Dealings, StartingPack
<1>8. QED BY <1>2, <1>3, <1>6, <1>7 DEF Standing

(* Such a try deals a whole deal around the hands that stand. *)
LEMMA PassedTryIsWhole ==
  ASSUME nToDeal \subseteq Position, StandingApart,
         NEW new \in TryOutcomes, AllPassed(new)
  PROVE  new \in [Position -> Hand] /\ Whole(new)
<1>1. \A p \in Position : p \in ToDeal \/ p \in Standing BY DEF Standing
<1>2. /\ \A p \in Standing : new[p] = hands[p]
      /\ \A p \in ToDeal : new[p] \in Hand /\ new[p] \subseteq myPack
      /\ \A p, q \in ToDeal : p # q => new[p] \cap new[q] = {}
      /\ new = [p \in Position |-> new[p]]
  BY PassedTry
<1>3. \A p \in Position : new[p] \in Hand BY <1>1, <1>2 DEF StandingApart
<1>4. ASSUME NEW p \in Position, NEW q \in Position, p # q
      PROVE  new[p] \cap new[q] = {}
  <2>1. CASE p \in ToDeal /\ q \in ToDeal BY <1>2, <1>4, <2>1
  <2>2. CASE p \in Standing /\ q \in Standing BY <1>2, <1>4, <2>2 DEF StandingApart
  <2>3. CASE p \in ToDeal /\ q \in Standing BY <1>2, <2>3 DEF StandingApart
  <2>4. CASE p \in Standing /\ q \in ToDeal BY <1>2, <2>4 DEF StandingApart
  <2>5. QED BY <1>1, <2>1, <2>2, <2>3, <2>4
<1>5. Disjoint(new) BY <1>4 DEF Disjoint
<1>6. new \in [Position -> Hand] BY <1>2, <1>3
<1>7. QED BY <1>3, <1>5, <1>6, FourHandsCover

-----------------------------------------------------------------------------
(* The constructor: what is given as cards stands apart from the pack.     *)
LEMMA ConstructKeepsIInv == IInv /\ Construct => IInv'
<1> SUFFICES ASSUME IInv, Construct PROVE IInv' OBVIOUS
<1>1. file[line] \in Request /\ line \in 1 .. Len(file) BY DEF IInv, Construct
<1>2. \A p \in Position : wishes[p] \in Wish BY <1>1 DEF Request, wishes
<1>3. \A p \in Position : wishes[p].rule = NoRule => wishes[p].cards \in Hand
  BY <1>2, DealerAssumption DEF Wish
<1>4. /\ hands' = Given /\ myPack' = Card \ CardsOf(Given) /\ Disjoint(Given)
      /\ rules' = [p \in Position |-> wishes[p].rule]
      /\ nToDeal' = {p \in Position : wishes[p].rule # NoRule}
  BY DEF Construct
<1>5. \A p \in Position : rules'[p] = wishes[p].rule BY <1>4
<1>6. ToDeal' = nToDeal' BY <1>4, <1>5 DEF ToDeal
<1>7. \A p \in Standing' : p \in Position /\ wishes[p].rule = NoRule
  BY <1>4, <1>6 DEF Standing
<1>8. StandingApart'
  <2>1. ASSUME NEW p \in Standing' PROVE hands'[p] \in Hand /\ hands'[p] \cap myPack' = {}
    <3>1. hands'[p] = wishes[p].cards BY <1>4, <1>7, <2>1 DEF Given
    <3>2. hands'[p] \subseteq CardsOf(Given) BY <1>4, <1>7, <2>1 DEF CardsOf
    <3>3. QED BY <1>3, <1>4, <1>7, <2>1, <3>1, <3>2
  <2>2. ASSUME NEW p \in Standing', NEW q \in Standing', p # q
        PROVE  hands'[p] \cap hands'[q] = {}
    BY <1>4, <1>7, <2>2 DEF Disjoint
  <2>3. QED BY <2>1, <2>2 DEF StandingApart
<1>9. \A p \in Position \ nToDeal' : rules'[p] = NoRule BY <1>4, <1>5
<1>10. found' = <<>> /\ DealsAreWhole' BY DEF Construct, DealsAreWhole, EveryDealIsWhole
<1>11. /\ phase' = IF mode = "sda" THEN "first" ELSE "deal"
       /\ UNCHANGED <<mode, file, line>>
  BY DEF Construct, argVars
<1>12. QED BY <1>4, <1>8, <1>9, <1>10, <1>11 DEF IInv

(* A try: what it finds is whole, and a first deal leaves East and West to *)
(* be dealt from the rest of a full pack.                                  *)
LEMMA TryKeepsIInv == IInv /\ Try => IInv'
<1> SUFFICES ASSUME IInv, Try PROVE IInv' OBVIOUS
<1>1. PICK new \in TryOutcomes :
        LET match == AllPassed(new) /\ <<new[North], new[South]>> \in partnerRule
            first == match /\ phase = "first"
            left  == StartingPack \ UNION {new[p] : p \in ToDeal}
        IN  /\ hands' = new
            /\ handsDealt' = Counted(new)
            /\ found' = IF match /\ phase = "deal" THEN Append(found, new) ELSE found
            /\ phase' = IF first THEN "deal" ELSE phase
            /\ nToDeal' = IF first THEN EastWest ELSE nToDeal
            /\ myPack' = IF first THEN PackWithout(new[North] \cup new[South]) ELSE myPack
            /\ thePack' = IF first THEN myPack' ELSE left
  BY DEF Try
<1>2. UNCHANGED <<mode, file, line, rules>> BY DEF Try, argVars
<1>3. phase \in {"first", "deal"} /\ nToDeal \subseteq Position BY DEF Try, IInv
<1> DEFINE match == AllPassed(new) /\ <<new[North], new[South]>> \in partnerRule
<1>4. CASE ~ match
  <2>1. UNCHANGED <<found, phase, nToDeal, myPack>> BY <1>1, <1>4
  <2>2. ToDeal' = ToDeal /\ Standing' = Standing BY <1>2, <2>1 DEF ToDeal, Standing
  <2>3. \A p \in Standing : new[p] = hands[p]
    <3>1. PICK last \in ToDeal \cup {4} :
            \E d \in Dealings(last) :
              new = [p \in Position |-> IF p \in DOMAIN d THEN d[p] ELSE hands[p]]
      BY DEF TryOutcomes
    <3>2. PICK d \in Dealings(last) :
            new = [p \in Position |-> IF p \in DOMAIN d THEN d[p] ELSE hands[p]]
      BY <3>1
    <3>3. DOMAIN d \subseteq ToDeal BY DEF Dealings, DealtUpTo
    <3>4. QED BY <3>2, <3>3 DEF Standing
  <2>4. StandingApart => StandingApart' BY <1>1, <2>1, <2>2, <2>3 DEF StandingApart
  <2>5. DealtRound' <=> DealtRound BY <1>2 DEF DealtRound
  <2>6. DealsAreWhole' BY <1>2, <2>1 DEF IInv, DealsAreWhole, EveryDealIsWhole
  <2>7. QED BY <1>2, <1>3, <2>1, <2>4, <2>5, <2>6 DEF IInv
<1>5. CASE match /\ phase = "first"
  <2>1. /\ hands' = new /\ found' = found /\ phase' = "deal" /\ nToDeal' = EastWest
        /\ myPack' = Card \ (new[North] \cup new[South])
    BY <1>1, <1>5 DEF PackWithout
  <2>2. DealsAreWhole' BY <1>2, <2>1 DEF IInv, DealsAreWhole, EveryDealIsWhole
  <2>3. ASSUME DealtRound' PROVE StandingApart'
    <3>1. DealtRound /\ StandingApart BY <1>2, <1>3, <2>3 DEF DealtRound, IInv
    <3>2. new \in [Position -> Hand] /\ Disjoint(new)
      BY <1>3, <1>5, <3>1, PassedTryIsWhole DEF Whole
    <3>3. rules[East] # NoRule /\ rules[West] # NoRule
      BY <1>5, <3>1 DEF DealtRound, IInv
    <3>4. ToDeal' = {East, West} BY <1>2, <2>1, <3>3 DEF ToDeal, EastWest
    <3>5. Standing' = {North, South}
      BY <3>4 DEF Standing, Position, North, East, South, West
    <3>6. North \in Position /\ South \in Position BY DEF Position, North, South
    <3>7. QED BY <2>1, <3>2, <3>5, <3>6 DEF StandingApart, Disjoint
  <2>4. EastWest \subseteq Position BY DEF EastWest, Position, East, West
  <2>5. DealtRound' => found' \in Seq([Position -> Hand])
    BY <1>2, <2>1 DEF IInv, DealtRound
  <2>6. QED BY <1>2, <2>1, <2>2, <2>3, <2>4, <2>5 DEF IInv
<1>6. CASE match /\ phase = "deal"
  <2>1. /\ hands' = new /\ found' = Append(found, new)
        /\ UNCHANGED <<phase, nToDeal, myPack>>
    BY <1>1, <1>6
  <2>2. ToDeal' = ToDeal /\ Standing' = Standing BY <1>2, <2>1 DEF ToDeal, Standing
  <2>3. \A p \in Standing : new[p] = hands[p] BY <1>3, <1>6, PassedTry
  <2>4. StandingApart => StandingApart' BY <2>1, <2>2, <2>3 DEF StandingApart
  <2>5. DealtRound' <=> DealtRound BY <1>2 DEF DealtRound
  <2>6. ASSUME DealtRound
        PROVE  found' \in Seq([Position -> Hand]) /\ EveryDealIsWhole'
    <3>1. new \in [Position -> Hand] /\ Whole(new)
      BY <1>3, <1>6, <2>6, PassedTryIsWhole DEF IInv
    <3>2. found \in Seq([Position -> Hand]) /\ EveryDealIsWhole
      BY <2>6 DEF IInv, DealsAreWhole, DealtRound
    <3>3. \A i \in DOMAIN found' : found'[i] = new \/ (i \in DOMAIN found /\ found'[i] = found[i])
      BY <2>1, <3>1, <3>2
    <3>4. found' \in Seq([Position -> Hand]) BY <2>1, <3>1, <3>2
    <3>5. EveryDealIsWhole' BY <3>1, <3>2, <3>3 DEF EveryDealIsWhole, Whole, Disjoint, CardsOf
    <3>6. QED BY <3>4, <3>5
  <2>7. DealsAreWhole' BY <2>5, <2>6 DEF DealsAreWhole, DealtRound
  <2>8. phase = "deal" /\ phase' = phase BY <1>6, <2>1
  <2>9. DealtRound' => StandingApart' BY <1>3, <2>4, <2>5 DEF IInv
  <2>10. DealtRound' => found' \in Seq([Position -> Hand]) BY <2>5, <2>6
  <2>11. QED BY <1>2, <1>3, <2>1, <2>7, <2>8, <2>9, <2>10 DEF IInv
<1>7. QED BY <1>3, <1>4, <1>5, <1>6

LEMMA StepIInv == IInv /\ [Next]_vars => IInv'
<1> SUFFICES ASSUME IInv, [Next]_vars PROVE IInv' OBVIOUS
<1>1. CASE Construct BY <1>1, ConstructKeepsIInv
<1>2. CASE Try BY <1>2, TryKeepsIInv
<1>3. ASSUME UNCHANGED <<mode, file, dealVars, found>>,
             line' \in Nat \ {0}, phase' \in {"construct", "done", "exit"} \/ phase' = phase
      PROVE  IInv'
  <2>1. UNCHANGED <<mode, file, hands, rules, nToDeal, myPack, found>> BY <1>3 DEF dealVars
  <2>2. /\ DealtRound' <=> DealtRound
        /\ StandingApart' <=> StandingApart
        /\ DealsAreWhole' <=> DealsAreWhole
    BY <2>1 DEF DealtRound, StandingApart, Standing, ToDeal, DealsAreWhole, EveryDealIsWhole
  <2>3. QED BY <1>3, <2>1, <2>2 DEF IInv
<1>4. CASE ConstructFails BY <1>3, <1>4 DEF ConstructFails, argVars, IInv
<1>5. CASE AllServed BY <1>3, <1>5 DEF AllServed, argVars, IInv
<1>6. CASE NoFirstDeal BY <1>3, <1>6 DEF NoFirstDeal, argVars, IInv
<1>7. CASE RequestDone
  <2>1. line' \in Nat \ {0} BY <1>7 DEF RequestDone, IInv
  <2>2. QED BY <1>3, <1>7, <2>1 DEF RequestDone, argVars
<1>8. CASE UNCHANGED vars BY <1>3, <1>8 DEF vars, argVars, IInv
<1>9. QED BY <1>1, <1>2, <1>4, <1>5, <1>6, <1>7, <1>8 DEF Next

(* DealsAreWhole: no card is in two hands of a deal that counts, and none  *)
(* is missing, for packs, hands, requests and limits of any size; only a   *)
(* single-dummy analysis with East or West given as cards is excepted      *)
(* (dealAndCheck(), saveNS()).                                             *)
THEOREM CountedDealsAreWhole == Spec => []DealsAreWhole
<1>1. IInv => DealsAreWhole BY DEF IInv
<1>2. QED BY InitIInv, StepIInv, <1>1, PTL DEF Spec

-----------------------------------------------------------------------------
(* Once a row has counted too few, the tries are used up, and no request   *)
(* that follows gets past its first deal.                                  *)
Short == \E i \in DOMAIN rows : rows[i].deals < wanted

RowsInv ==
  /\ hands \in [Position -> SUBSET Card] /\ found \in Seq([Position -> SUBSET Card])
  /\ wanted \in Nat /\ handsDealt \in Nat /\ currentVul \in Vuls
  /\ rows \in Seq([deals: Nat, vul: Vuls])
  /\ Short => handsDealt >= MAXTRIES /\ (phase = "done" \/ (mode = "sda" /\ phase # "deal"))
  /\ ShortRowIsLast

LEMMA InitRows == Init => RowsInv
<1> SUFFICES ASSUME Init PROVE RowsInv OBVIOUS
<1>1. wanted \in Nat BY DealerAssumption DEF Init
<1>2. rows = <<>> /\ found = <<>> BY DEF Init
<1>3. QED BY <1>1, <1>2 DEF Init, RowsInv, Short, ShortRowIsLast

(* What a try leaves in a position is the hand dealt to it, or the old one. *)
LEMMA TryTypes ==
  ASSUME NEW new \in TryOutcomes, hands \in [Position -> SUBSET Card], nToDeal \subseteq Position
  PROVE  new \in [Position -> SUBSET Card]
<1>1. PICK last \in ToDeal \cup {4} :
        \E d \in Dealings(last) :
          new = [p \in Position |-> IF p \in DOMAIN d THEN d[p] ELSE hands[p]]
  BY DEF TryOutcomes
<1>2. PICK d \in Dealings(last) :
        new = [p \in Position |-> IF p \in DOMAIN d THEN d[p] ELSE hands[p]]
  BY <1>1
<1>3. d \in [DealtUpTo(last) -> {h \in Hand : h \subseteq StartingPack}] BY DEF Dealings
<1>4. \A p \in DOMAIN d : d[p] \in SUBSET Card BY <1>3 DEF Hand
<1>5. QED BY <1>2, <1>4

LEMMA StepRows == IInv /\ RowsInv /\ [Next]_vars => RowsInv'
<1> SUFFICES ASSUME IInv, RowsInv, [Next]_vars PROVE RowsInv' OBVIOUS
<1> USE DEF argVars, dealVars
<1>1. CASE Construct
  <2>1. file[line] \in Request BY <1>1 DEF IInv, Construct
  <2>2. \A p \in Position : wishes[p] \in Wish BY <2>1 DEF Request, wishes
  <2>3. \A p \in Position : Given[p] \in SUBSET Card BY <2>2 DEF Wish, Given, Hand
  <2>4. hands' \in [Position -> SUBSET Card] BY <1>1, <2>3 DEF Construct, Given
  <2>5. currentVul' \in Vuls BY <1>1, <2>1 DEF Construct, Request, RowsInv
  <2>6. UNCHANGED <<mode, wanted, handsDealt, rows>> /\ found' = <<>>
    BY <1>1 DEF Construct, TriesBefore
  <2>7. phase = "construct" /\ (mode = "sda" => phase' = "first") BY <1>1 DEF Construct
  <2>8. Short' <=> Short BY <2>6 DEF Short
  <2>9. QED BY <2>4, <2>5, <2>6, <2>7, <2>8 DEF RowsInv, ShortRowIsLast
<1>2. CASE Try
  <2>1. PICK new \in TryOutcomes :
          /\ hands' = new /\ handsDealt' = handsDealt + 1
          /\ found' = found \/ found' = Append(found, new)
    BY <1>2 DEF Try, Counted
  <2>2. ~ Short
    <3>1. handsDealt < MAXTRIES BY <1>2 DEF Try
    <3>2. QED BY <3>1, DealerAssumption DEF RowsInv
  <2>3. new \in [Position -> SUBSET Card] BY TryTypes DEF RowsInv, IInv
  <2>4. found' \in Seq([Position -> SUBSET Card])
    <3> DEFINE Deal == [Position -> SUBSET Card]
    <3>1. found \in Seq(Deal) /\ new \in Deal BY <2>3 DEF RowsInv
    <3> HIDE DEF Deal
    <3>2. Append(found, new) \in Seq(Deal) BY <3>1
    <3>3. found' \in Seq(Deal) BY <2>1, <3>1, <3>2
    <3>4. QED BY <3>3 DEF Deal
  <2>5. UNCHANGED <<mode, wanted, currentVul, rows>> BY <1>2 DEF Try
  <2>6. ~ Short' BY <2>2, <2>5 DEF Short
  <2>7. QED BY <2>1, <2>3, <2>4, <2>5, <2>6 DEF RowsInv, ShortRowIsLast
<1>3. CASE RequestDone
  <2>1. UNCHANGED <<mode, wanted, handsDealt, currentVul, found, hands>> BY <1>3 DEF RequestDone
  <2>2. ~ Short BY <1>3, DealerAssumption DEF RequestDone, RowsInv
  <2>3. Len(found) \in Nat /\ wanted \in Nat /\ handsDealt \in Nat /\ MAXTRIES \in Nat
    BY DealerAssumption DEF RowsInv
  <2>4. rows' = Append(rows, [deals |-> Len(found), vul |-> currentVul]) BY <1>3 DEF RequestDone
  <2>5. /\ rows' \in Seq([deals: Nat, vul: Vuls]) /\ Len(rows') = Len(rows) + 1
        /\ \A i \in DOMAIN rows : rows'[i] = rows[i]
        /\ rows'[Len(rows')].deals = Len(found)
        /\ DOMAIN rows' = DOMAIN rows \cup {Len(rows')}
    BY <2>3, <2>4 DEF RowsInv
  <2>6. \A i \in DOMAIN rows : ~ (rows'[i].deals < wanted) BY <2>2, <2>5 DEF Short
  <2>7. ShortRowIsLast' BY <2>1, <2>5, <2>6 DEF ShortRowIsLast
  <2>8. ASSUME Short'
        PROVE  handsDealt >= MAXTRIES /\ (phase' = "done" \/ (mode = "sda" /\ phase' # "deal"))
    <3>1. Len(found) < wanted BY <2>1, <2>5, <2>6, <2>8 DEF Short
    <3>2. QED BY <1>3, <2>3, <3>1 DEF RequestDone
  <2>9. QED BY <2>1, <2>5, <2>7, <2>8 DEF RowsInv
<1>4. ASSUME UNCHANGED <<mode, wanted, handsDealt, currentVul, found, hands, rows>>,
             phase' \in {"done", "exit"} \/ phase' = phase,
             Short => phase' = "done" \/ mode = "sda"
      PROVE  RowsInv'
  BY <1>4 DEF RowsInv, Short, ShortRowIsLast
<1>5. CASE ConstructFails BY <1>4, <1>5 DEF ConstructFails, RowsInv
<1>6. CASE AllServed BY <1>4, <1>6 DEF AllServed
<1>7. CASE NoFirstDeal BY <1>4, <1>7 DEF NoFirstDeal
<1>8. CASE UNCHANGED vars BY <1>4, <1>8 DEF vars, RowsInv
<1>9. QED BY <1>1, <1>2, <1>3, <1>5, <1>6, <1>7, <1>8 DEF Next

(* ShortRowIsLast: only the last row may average over fewer deals than     *)
(* were asked for, for any requests and limits (the static handsDealt of   *)
(* dealAndCheck(), runSDA(), analyzeHands()).                              *)
THEOREM OnlyTheLastRowIsShort == Spec => []ShortRowIsLast
<1>1. IInv /\ RowsInv /\ [Next]_vars => IInv' /\ RowsInv' BY StepIInv, StepRows
<1>2. RowsInv => ShortRowIsLast BY DEF RowsInv
<1>3. QED BY InitIInv, InitRows, <1>1, <1>2, PTL DEF Spec
-----------------------------------------------------------------------------
(* Types. That every deal that counts is made of hands of the right size   *)
(* rests on what stands in the positions that are not dealt.               *)
TypeInv ==
  /\ TypeOK
  /\ phase \in {"first", "deal"} => \A p \in Standing : hands[p] \in Hand

LEMMA InitTypes == Init => TypeInv
<1> SUFFICES ASSUME Init PROVE TypeInv OBVIOUS
<1>1. file \in Seq(Request) BY InitIInv DEF IInv
<1>2. wanted \in Nat /\ MAXTRIES \in Nat BY DealerAssumption DEF Init
<1>3. found = <<>> /\ rows = <<>> /\ handsDealt = 0 BY DEF Init
<1>4. hands \in [Position -> Hand \cup {{}}] /\ rules \in [Position -> {NoRule} \cup SUBSET Hand]
  BY DEF Init
<1>5. QED BY <1>1, <1>2, <1>3, <1>4 DEF Init, TypeInv, TypeOK

LEMMA ConstructKeepsTypes == TypeInv /\ Construct => TypeInv'
<1> SUFFICES ASSUME TypeInv, Construct PROVE TypeInv' OBVIOUS
<1>1. file[line] \in Request BY DEF TypeInv, TypeOK, Construct
<1>2. \A p \in Position : wishes[p] \in Wish BY <1>1 DEF Request, wishes
<1>3. \A p \in Position : /\ wishes[p].rule \in {NoRule} \cup SUBSET Hand
                          /\ wishes[p].cards \in Hand \cup {{}}
                          /\ wishes[p].rule = NoRule => wishes[p].cards \in Hand
  BY <1>2, DealerAssumption DEF Wish
<1>4. /\ hands' = [p \in Position |-> wishes[p].cards]
      /\ rules' = [p \in Position |-> wishes[p].rule]
      /\ nToDeal' = {p \in Position : wishes[p].rule # NoRule}
      /\ phase' \in {"first", "deal"}
  BY DEF Construct, Given
<1>5. \A p \in Standing' : p \in Position /\ wishes[p].rule = NoRule
  BY <1>4 DEF Standing, ToDeal
<1>6. \A p \in Standing' : hands'[p] \in Hand BY <1>3, <1>4, <1>5
<1>7. /\ hands' \in [Position -> Hand \cup {{}}]
      /\ rules' \in [Position -> {NoRule} \cup SUBSET Hand]
  BY <1>3, <1>4
<1>8. currentVul' \in Vuls BY <1>1 DEF Construct, Request, TypeInv, TypeOK
<1>9. thePack' \subseteq Card /\ myPack' \subseteq Card /\ found' = <<>> BY DEF Construct
<1>10. UNCHANGED <<mode, file, wanted, partnerRule, line, handsDealt, rows>>
  BY DEF Construct, argVars, TriesBefore
<1>11. QED BY <1>4, <1>6, <1>7, <1>8, <1>9, <1>10 DEF TypeInv, TypeOK

LEMMA TryKeepsTypes == TypeInv /\ Try => TypeInv'
<1> SUFFICES ASSUME TypeInv, Try PROVE TypeInv' OBVIOUS
<1>1. PICK new \in TryOutcomes :
        LET match == AllPassed(new) /\ <<new[North], new[South]>> \in partnerRule
            first == match /\ phase = "first"
            left  == StartingPack \ UNION {new[p] : p \in ToDeal}
        IN  /\ hands' = new
            /\ handsDealt' = Counted(new)
            /\ found' = IF match /\ phase = "deal" THEN Append(found, new) ELSE found
            /\ phase' = IF first THEN "deal" ELSE phase
            /\ nToDeal' = IF first THEN EastWest ELSE nToDeal
            /\ myPack' = IF first THEN PackWithout(new[North] \cup new[South]) ELSE myPack
            /\ thePack' = IF first THEN myPack' ELSE left
  BY DEF Try
<1>2. UNCHANGED <<mode, file, wanted, partnerRule, line, rules, currentVul, rows>>
  BY DEF Try, argVars
<1>3. phase \in {"first", "deal"} /\ nToDeal \subseteq Position BY DEF Try, TypeInv, TypeOK
<1>4. PICK last \in ToDeal \cup {4} :
        \E d \in Dealings(last) :
          new = [p \in Position |-> IF p \in DOMAIN d THEN d[p] ELSE hands[p]]
  BY DEF TryOutcomes
<1>5. PICK d \in Dealings(last) :
        new = [p \in Position |-> IF p \in DOMAIN d THEN d[p] ELSE hands[p]]
  BY <1>4
<1>6. d \in [DealtUpTo(last) -> {h \in Hand : h \subseteq StartingPack}] BY DEF Dealings
<1>7. new \in [Position -> Hand \cup {{}}] BY <1>5, <1>6 DEF TypeInv, TypeOK
<1>8. \A p \in Standing : new[p] \in Hand
  <2>1. DOMAIN d \subseteq ToDeal BY <1>6 DEF DealtUpTo
  <2>2. \A p \in Standing : new[p] = hands[p] BY <1>5, <2>1 DEF Standing
  <2>3. QED BY <1>3, <2>2 DEF TypeInv
<1>9. ASSUME AllPassed(new) PROVE new \in [Position -> Hand]
  <2>1. \A p \in ToDeal : new[p] \in Hand BY <1>3, <1>9, PassedTry
  <2>2. \A p \in Position : new[p] \in Hand BY <1>8, <2>1 DEF Standing
  <2>3. QED BY <1>7, <2>2
<1>10. phase' \in {"first", "deal"} /\ nToDeal' \subseteq Position
  BY <1>1, <1>3 DEF EastWest, East, West, Position
<1>11. \A p \in Standing' : hands'[p] \in Hand
  <2>1. CASE AllPassed(new)
    BY <1>1, <1>9, <2>1 DEF Standing
  <2>2. CASE ~ AllPassed(new)
    <3>1. nToDeal' = nToDeal BY <1>1, <2>2
    <3>2. Standing' = Standing BY <1>2, <3>1 DEF Standing, ToDeal
    <3>3. QED BY <1>1, <1>8, <3>2
  <2>3. QED BY <2>1, <2>2
<1>12. found' \in Seq([Position -> Hand])
  <2> DEFINE Deal == [Position -> Hand]
  <2>1. found \in Seq(Deal) /\ (AllPassed(new) => new \in Deal) BY <1>9 DEF TypeInv, TypeOK
  <2> HIDE DEF Deal
  <2>2. AllPassed(new) => Append(found, new) \in Seq(Deal) BY <2>1
  <2>3. found' = found \/ (AllPassed(new) /\ found' = Append(found, new)) BY <1>1
  <2>4. found' \in Seq(Deal) BY <2>1, <2>2, <2>3
  <2>5. QED BY <2>4 DEF Deal
<1>13. thePack' \subseteq Card /\ myPack' \subseteq Card
  BY <1>1 DEF PackWithout, StartingPack, TypeInv, TypeOK
<1>14. handsDealt' \in 0 .. MAXTRIES
  <2>1. handsDealt < MAXTRIES /\ handsDealt' = handsDealt + 1 BY <1>1 DEF Try, Counted
  <2>2. handsDealt \in 0 .. MAXTRIES /\ MAXTRIES \in Nat BY DealerAssumption DEF TypeInv, TypeOK
  <2>3. QED BY <2>1, <2>2
<1>15. hands' \in [Position -> Hand \cup {{}}] BY <1>1, <1>7
<1>16. phase' \in {"construct", "first", "deal", "done", "exit"} BY <1>10
<1>17. QED BY <1>2, <1>10, <1>11, <1>12, <1>13, <1>14, <1>15, <1>16 DEF TypeInv, TypeOK

LEMMA StepTypes == TypeInv /\ [Next]_vars => TypeInv'
<1> SUFFICES ASSUME TypeInv, [Next]_vars PROVE TypeInv' OBVIOUS
<1> USE DEF argVars, dealVars
<1>1. CASE Construct BY <1>1, ConstructKeepsTypes
<1>2. CASE Try BY <1>2, TryKeepsTypes
<1>3. ASSUME UNCHANGED <<argVars, dealVars, handsDealt, currentVul, found>>,
             phase' \in {"construct", "done", "exit"} \/ phase' = phase,
             line' \in Nat \ {0}, rows' \in Seq([deals: Nat, vul: Vuls])
      PROVE  TypeInv'
  <2>1. Standing' = Standing BY <1>3 DEF Standing, ToDeal
  <2>2. TypeOK' BY <1>3 DEF TypeInv, TypeOK
  <2>3. QED BY <1>3, <2>1, <2>2 DEF TypeInv
<1>4. line \in Nat \ {0} /\ rows \in Seq([deals: Nat, vul: Vuls]) BY DEF TypeInv, TypeOK
<1>5. CASE ConstructFails BY <1>3, <1>4, <1>5 DEF ConstructFails
<1>6. CASE AllServed BY <1>3, <1>4, <1>6 DEF AllServed
<1>7. CASE NoFirstDeal BY <1>3, <1>4, <1>7 DEF NoFirstDeal
<1>8. CASE RequestDone
  <2>1. [deals |-> Len(found), vul |-> currentVul] \in [deals: Nat, vul: Vuls]
    BY DEF TypeInv, TypeOK
  <2>2. rows' \in Seq([deals: Nat, vul: Vuls]) BY <1>4, <1>8, <2>1 DEF RequestDone
  <2>3. line' \in Nat \ {0} BY <1>4, <1>8 DEF RequestDone
  <2>4. QED BY <1>3, <1>8, <2>2, <2>3 DEF RequestDone
<1>9. CASE UNCHANGED vars BY <1>3, <1>4, <1>9 DEF vars
<1>10. QED BY <1>1, <1>2, <1>5, <1>6, <1>7, <1>8, <1>9 DEF Next

(* TypeOK: among the rest, whatever is counted is four hands of the right  *)
(* size, and no more tries are made than MAXTRIES over all requests.       *)
THEOREM DealingTypeCorrect == Spec => []TypeOK
<1>1. TypeInv => TypeOK BY DEF TypeInv
<1>2. QED BY InitTypes, StepTypes, <1>1, PTL DEF Spec
-----------------------------------------------------------------------------
(* The request that is served while its hands are dealt: what is given as  *)
(* cards stays as it was given, every rule has its position dealt, and a   *)
(* single-dummy analysis past its first deal holds a North and a South     *)
(* that obey what was asked of them.                                       *)
Served ==
  /\ rules = [p \in Position |-> wishes[p].rule]
  /\ \A p \in Position : rules[p] = NoRule => hands[p] = wishes[p].cards
  /\ phase = "first" => mode = "sda" /\ found = <<>>
  /\ phase = "first" \/ mode # "sda" => nToDeal = {p \in Position : rules[p] # NoRule}

NorthSouthKept ==
  /\ nToDeal = EastWest
  /\ \A p \in {North, South} : rules[p] # NoRule => hands[p] \in rules[p]
  /\ <<hands[North], hands[South]>> \in partnerRule

AskedInv ==
  /\ nToDeal \subseteq Position /\ found \in Seq([Position -> Hand])
  /\ phase \in {"first", "deal"} => Served
  /\ phase = "deal" /\ mode = "sda" => NorthSouthKept
  /\ DealsAsAsked

(* A try, matched or not, leaves the hands that stand. *)
LEMMA TryLeavesStanding ==
  ASSUME NEW new \in TryOutcomes
  PROVE  \A p \in Standing : new[p] = hands[p]
<1>1. PICK last \in ToDeal \cup {4} :
        \E d \in Dealings(last) :
          new = [p \in Position |-> IF p \in DOMAIN d THEN d[p] ELSE hands[p]]
  BY DEF TryOutcomes
<1>2. PICK d \in Dealings(last) :
        new = [p \in Position |-> IF p \in DOMAIN d THEN d[p] ELSE hands[p]]
  BY <1>1
<1>3. DOMAIN d \subseteq ToDeal BY DEF Dealings, DealtUpTo
<1>4. QED BY <1>2, <1>3 DEF Standing

(* A deal as the request of line n asks for it. *)
AsAsked(d, n) ==
  \A p \in Position :
    IF file[n].wishes[p].rule = NoRule THEN d[p] = file[n].wishes[p].cards
                                       ELSE d[p] \in file[n].wishes[p].rule

(* A try that passes every rule deals what the request asks for. *)
LEMMA PassedTryIsAsked ==
  ASSUME nToDeal \subseteq Position, Served, phase \in {"first", "deal"},
         phase = "deal" /\ mode = "sda" => NorthSouthKept,
         NEW new \in TryOutcomes, AllPassed(new)
  PROVE  /\ AsAsked(new, line)
         /\ phase = "deal" /\ mode = "sda" =>
              \A p \in {North, South} : p \in Standing /\ new[p] = hands[p]
<1>1. ToDeal = {p \in nToDeal : rules[p] # NoRule} BY DEF ToDeal
<1>2. \A p \in Standing : new[p] = hands[p] BY TryLeavesStanding
<1>3. \A p \in ToDeal : new[p] \in rules[p] BY DEF AllPassed
<1>4. \A p \in Position : rules[p] = file[line].wishes[p].rule BY DEF Served, wishes
<1>5. \A p \in Position : rules[p] = NoRule => new[p] = file[line].wishes[p].cards
  <2>1. SUFFICES ASSUME NEW p \in Position, rules[p] = NoRule
                 PROVE  new[p] = file[line].wishes[p].cards
    OBVIOUS
  <2>2. p \in Standing BY <1>1, <2>1 DEF Standing
  <2>3. QED BY <1>2, <2>1, <2>2 DEF Served, wishes
<1>6. CASE phase = "first" \/ mode # "sda"
  <2>1. ToDeal = {p \in Position : rules[p] # NoRule} BY <1>1, <1>6 DEF Served
  <2>2. \A p \in Position : rules[p] # NoRule => new[p] \in rules[p] BY <1>3, <2>1
  <2>3. QED BY <1>4, <1>5, <1>6, <2>2 DEF AsAsked
<1>7. CASE phase = "deal" /\ mode = "sda"
  <2>1. nToDeal = {East, West} BY <1>7 DEF NorthSouthKept, EastWest
  <2>2. Position = {North, East, South, West} BY DEF Position, North, East, South, West
  <2>3. \A p \in {North, South} : p \in Standing
    BY <1>1, <2>1, <2>2 DEF Standing, North, East, South, West
  <2>4. \A p \in {North, South} : new[p] = hands[p] BY <1>2, <2>3
  <2>5. \A p \in {North, South} : rules[p] # NoRule => new[p] \in rules[p]
    BY <1>7, <2>4 DEF NorthSouthKept
  <2>6. \A p \in {East, West} : rules[p] # NoRule => new[p] \in rules[p] BY <1>1, <1>3, <2>1
  <2>7. QED BY <1>4, <1>5, <2>2, <2>3, <2>4, <2>5, <2>6 DEF AsAsked
<1>8. QED BY <1>6, <1>7

LEMMA InitAsked == Init => AskedInv
BY DEF Init, AskedInv, DealsAsAsked

LEMMA ConstructKeepsAsked == AskedInv /\ Construct => AskedInv'
<1> SUFFICES ASSUME AskedInv, Construct PROVE AskedInv' OBVIOUS
<1>1. /\ hands' = [p \in Position |-> wishes[p].cards] /\ found' = <<>>
      /\ rules' = [p \in Position |-> wishes[p].rule]
      /\ nToDeal' = {p \in Position : wishes[p].rule # NoRule}
      /\ phase' = IF mode = "sda" THEN "first" ELSE "deal"
      /\ UNCHANGED <<mode, file, line>>
  BY DEF Construct, Given, argVars
<1>2. \A p \in Position : wishes'[p] = wishes[p] BY <1>1 DEF wishes
<1>3. \A p \in Position : rules'[p] = wishes[p].rule /\ hands'[p] = wishes[p].cards BY <1>1
<1>4. Served'
  <2>1. rules' = [p \in Position |-> wishes'[p].rule] BY <1>1, <1>2
  <2>2. nToDeal' = {p \in Position : rules'[p] # NoRule} BY <1>1, <1>3
  <2>3. QED BY <1>1, <1>2, <1>3, <2>1, <2>2 DEF Served
<1>5. ~ (phase' = "deal" /\ mode' = "sda") BY <1>1
<1>6. DealsAsAsked' BY <1>1 DEF DealsAsAsked
<1>7. found' \in Seq([Position -> Hand]) /\ nToDeal' \subseteq Position BY <1>1
<1>8. QED BY <1>4, <1>5, <1>6, <1>7 DEF AskedInv

LEMMA TryKeepsAsked == AskedInv /\ TypeInv' /\ Try => AskedInv'
<1> SUFFICES ASSUME AskedInv, TypeInv', Try PROVE AskedInv' OBVIOUS
<1>1. PICK new \in TryOutcomes :
        LET match == AllPassed(new) /\ <<new[North], new[South]>> \in partnerRule
            first == match /\ phase = "first"
        IN  /\ hands' = new
            /\ found' = IF match /\ phase = "deal" THEN Append(found, new) ELSE found
            /\ phase' = IF first THEN "deal" ELSE phase
            /\ nToDeal' = IF first THEN EastWest ELSE nToDeal
  BY DEF Try
<1> DEFINE match == AllPassed(new) /\ <<new[North], new[South]>> \in partnerRule
<1>2. UNCHANGED <<mode, file, line, rules, partnerRule>> BY DEF Try, argVars
<1>3. phase \in {"first", "deal"} /\ Served BY DEF Try, AskedInv
<1>4. /\ nToDeal' \subseteq Position /\ found' \in Seq([Position -> Hand])
      /\ nToDeal \subseteq Position /\ found \in Seq([Position -> Hand])
  BY DEF TypeInv, TypeOK, AskedInv
<1>5. \A p \in Standing : new[p] = hands[p] BY TryLeavesStanding
<1>6. \A p \in Position : wishes'[p] = wishes[p] BY <1>2 DEF wishes
<1>7. \A p \in Position : rules'[p] = NoRule => hands'[p] = wishes'[p].cards
  <2>1. SUFFICES ASSUME NEW p \in Position, rules[p] = NoRule PROVE new[p] = wishes[p].cards
    BY <1>1, <1>2, <1>6
  <2>2. p \in Standing BY <2>1 DEF Standing, ToDeal
  <2>3. QED BY <1>3, <1>5, <2>1, <2>2 DEF Served
<1>8. rules' = [p \in Position |-> wishes'[p].rule] BY <1>2, <1>3, <1>6 DEF Served
<1>9. match => /\ AsAsked(new, line)
               /\ phase = "deal" /\ mode = "sda" =>
                    \A p \in {North, South} : p \in Standing /\ new[p] = hands[p]
  BY <1>3, <1>4, PassedTryIsAsked DEF AskedInv
<1>10. {North, South} \subseteq Position BY DEF Position, North, South
<1>11. CASE ~ match
  <2>1. UNCHANGED <<found, phase, nToDeal>> BY <1>1, <1>11
  <2>2. Served' BY <1>2, <1>3, <1>7, <1>8, <2>1 DEF Served
  <2>3. ASSUME phase = "deal", mode = "sda"
        PROVE  NorthSouthKept' /\ \A p \in {North, South} : hands'[p] = hands[p]
    <3>1. NorthSouthKept BY <2>3 DEF AskedInv
    <3>2. \A p \in {North, South} : p \in Standing
      BY <3>1, <1>10 DEF NorthSouthKept, Standing, ToDeal, EastWest, North, East, South, West
    <3>3. \A p \in {North, South} : hands'[p] = hands[p] BY <1>1, <1>5, <3>2
    <3>4. NorthSouthKept' BY <1>2, <2>1, <3>1, <3>3 DEF NorthSouthKept
    <3>5. QED BY <3>3, <3>4
  <2>4. DealsAsAsked' BY <1>2, <1>6, <2>1, <2>3 DEF AskedInv, DealsAsAsked
  <2>5. QED BY <1>2, <1>4, <2>1, <2>2, <2>3, <2>4 DEF AskedInv
<1>12. CASE match /\ phase = "first"
  <2>1. /\ hands' = new /\ found' = <<>> /\ phase' = "deal" /\ nToDeal' = EastWest
        /\ mode' = "sda"
    BY <1>1, <1>2, <1>3, <1>12 DEF Served
  <2>2. Served' BY <1>7, <1>8, <2>1 DEF Served
  <2>3. \A p \in {North, South} : rules[p] # NoRule => new[p] \in rules[p]
    BY <1>3, <1>9, <1>10, <1>12 DEF AsAsked, Served, wishes
  <2>4. NorthSouthKept' BY <1>2, <1>12, <2>1, <2>3 DEF NorthSouthKept
  <2>5. DealsAsAsked' BY <2>1 DEF DealsAsAsked
  <2>6. QED BY <1>4, <2>2, <2>4, <2>5 DEF AskedInv
<1>13. CASE match /\ phase = "deal"
  <2>1. /\ hands' = new /\ found' = Append(found, new)
        /\ UNCHANGED <<phase, nToDeal>>
    BY <1>1, <1>13
  <2>2. Served' BY <1>2, <1>3, <1>7, <1>8, <1>13, <2>1 DEF Served
  <2>3. mode = "sda" => NorthSouthKept'
    <3>1. SUFFICES ASSUME mode = "sda" PROVE NorthSouthKept' OBVIOUS
    <3>2. NorthSouthKept /\ \A p \in {North, South} : hands'[p] = hands[p]
      BY <1>9, <1>13, <2>1, <3>1 DEF AskedInv
    <3>3. QED BY <1>2, <2>1, <3>2 DEF NorthSouthKept
  <2>4. \A i \in DOMAIN found' :
          \/ found'[i] = new
          \/ i \in DOMAIN found /\ found'[i] = found[i]
    <3> DEFINE Deal == [Position -> Hand]
    <3>1. found \in Seq(Deal) BY <1>4
    <3> HIDE DEF Deal
    <3>2. QED BY <2>1, <3>1
  <2>5. \A i \in DOMAIN found :
          /\ AsAsked(found[i], line)
          /\ <<found[i][North], found[i][South]>> \in partnerRule
          /\ mode = "sda" => \A p \in {North, South} : found[i][p] = hands[p]
    BY <1>13 DEF AskedInv, DealsAsAsked, AsAsked, wishes
  <2>6. ASSUME NEW i \in DOMAIN found'
        PROVE  /\ AsAsked(found'[i], line)
               /\ <<found'[i][North], found'[i][South]>> \in partnerRule
               /\ mode = "sda" => \A p \in {North, South} : found'[i][p] = hands'[p]
    <3>1. CASE found'[i] = new BY <1>9, <1>13, <2>1, <3>1
    <3>2. CASE i \in DOMAIN found /\ found'[i] = found[i] BY <1>9, <1>13, <2>1, <2>5, <3>2
    <3>3. QED BY <2>4, <3>1, <3>2
  <2>7. DealsAsAsked' BY <1>2, <2>6 DEF DealsAsAsked, AsAsked, wishes
  <2>8. QED BY <1>2, <1>4, <2>2, <2>3, <2>7 DEF AskedInv
<1>14. QED BY <1>3, <1>11, <1>12, <1>13

LEMMA StepAsked == AskedInv /\ TypeInv' /\ [Next]_vars => AskedInv'
<1> SUFFICES ASSUME AskedInv, TypeInv', [Next]_vars PROVE AskedInv' OBVIOUS
<1> USE DEF argVars, dealVars
<1>1. CASE Construct BY <1>1, ConstructKeepsAsked
<1>2. CASE Try BY <1>2, TryKeepsAsked
<1>3. ASSUME UNCHANGED <<nToDeal, found>>, phase' \in {"construct", "done", "exit"}
      PROVE  AskedInv'
  BY <1>3 DEF AskedInv, DealsAsAsked
<1>4. CASE ConstructFails BY <1>3, <1>4 DEF ConstructFails
<1>5. CASE AllServed BY <1>3, <1>5 DEF AllServed
<1>6. CASE NoFirstDeal BY <1>3, <1>6 DEF NoFirstDeal
<1>7. CASE RequestDone BY <1>3, <1>7 DEF RequestDone
<1>8. CASE UNCHANGED vars
  BY <1>8 DEF vars, AskedInv, Served, NorthSouthKept, DealsAsAsked, wishes
<1>9. QED BY <1>1, <1>2, <1>4, <1>5, <1>6, <1>7, <1>8 DEF Next

(* DealsAsAsked: for any requests, rules and limits, every deal that is    *)
(* counted has the cards given, hands that obey the rules of its request   *)
(* and of no other, a North and South that obey the partner rule, and in a *)
(* single-dummy analysis the North and South that were kept                *)
(* (dealAndCheck(), saveNS(), the DealerDeal constructor).                 *)
THEOREM CountedDealsAreAsAsked == Spec => []DealsAsAsked
<1>1. TypeInv /\ AskedInv /\ [Next]_vars => TypeInv' /\ AskedInv' BY StepTypes, StepAsked
<1>2. AskedInv => DealsAsAsked BY DEF AskedInv
<1>3. QED BY InitTypes, InitAsked, <1>1, <1>2, PTL DEF Spec
=============================================================================
