-------------------------- MODULE SamplingProofs --------------------------
(***************************************************************************)
(* For packs and hands of any size, any rules and any limits: what bidlab  *)
(* has solved are whole deals around the hands it knows, that obey the     *)
(* rules at their own seats, and all that are counted are scored.          *)
(***************************************************************************)
EXTENDS Sampling, Pack, FiniteSetTheorems, SequenceTheorems, TLAPS

Deal == [Position -> Hand \cup {{}}]

-----------------------------------------------------------------------------
(* The invariant.                                                          *)

Types ==
  /\ fromPbn \in BOOLEAN /\ argRules \in RuleMaps /\ partnerRule \in PartnerRules
  /\ pc \in {"create", "simulate", "bid", "done"}
  /\ pack \subseteq Card /\ spack \subseteq Card
  /\ hands \in Deal /\ deal \in Deal
  /\ rules \in [Position -> SUBSET Hand] /\ dealRules \in [Position -> SUBSET Hand]
  /\ twoKnown \in BOOLEAN /\ bidder \in Seat
  /\ run \in 0 .. numRuns /\ tries \in 0 .. MAXTRIES

(* A board is counted as scored at most once, and as created only then.    *)
Boards ==
  /\ board \in 1 .. (numBoards + 1) /\ (pc # "done" => board <= numBoards)
  /\ boardNum \in Nat /\ boardsScored \in Nat /\ boardNum <= boardsScored
  /\ boardsScored <= IF pc \in {"create", "done"} THEN board - 1 ELSE board

(* Until the limits are reached every sample counted is scored or waits in *)
(* a batch with room for more.                                             *)
Batches ==
  /\ batch \in Seq(Deal) /\ solved \in Seq(Deal)
  /\ Len(batch) < maxHandsPerRound /\ Len(solved) <= maxHandsPerRound
  /\ handsChecked \in 0 .. totHandsToCheck /\ scored \in Nat
  /\ scored + Len(batch) = handsChecked
  /\ pc = "simulate" => handsChecked < totHandsToCheck
  /\ pc = "bid" /\ handsChecked > 0 /\ tries < MAXTRIES => scored = totHandsToCheck

(* A board has both hands or none, and without hands nothing was sampled.  *)
Fresh ==
  /\ hands = NoHands \/ \A p \in Seat : hands[p] \in Hand
  /\ hands = NoHands => batch = <<>> /\ solved = <<>> /\ handsChecked = 0 /\ scored = 0
  /\ pc = "create" => hands = NoHands /\ dealRules = argRules
  /\ pc = "simulate" => hands # NoHands
  /\ twoKnown => bidder = posNorth
  /\ pc = "bid" /\ hands = NoHands => ~ fromPbn /\ boardNum < boardsScored

(* While a simulation runs its rules are those of the real table, turned,  *)
(* and its pack is what the known hands leave.                             *)
RulesTurned ==
  pc = "simulate" =>
    /\ \A p \in {posEast, posWest} : dealRules[p] = argRules[(bidder + p) % 4]
    /\ ~ twoKnown => dealRules[posSouth] = rules[nextBidder(bidder)]

Known == IF twoKnown THEN hands[posNorth] \cup hands[posSouth] ELSE hands[bidder]

KnownLeave ==
  pc = "simulate" =>
    /\ pack = Card \ Known /\ spack = Card \ Known
    /\ deal[posNorth] = hands[bidder]
    /\ twoKnown => /\ deal[posSouth] = hands[posSouth]
                   /\ hands[posNorth] \cap hands[posSouth] = {}

State == Types /\ Boards /\ Batches /\ Fresh /\ RulesTurned /\ KnownLeave

(* What is said of the samples, and of a board while its par is sampled.   *)
Good == SamplesAreWhole /\ SamplesObeyRules

Board ==
  pc = "simulate" /\ twoKnown /\ tries = 0 /\ ~ fromPbn =>
    /\ \A p \in Position : deal[p] \in argRules[p]
    /\ <<hands[posNorth], hands[posSouth]>> \in partnerRule

IInv == State /\ Good /\ Board

-----------------------------------------------------------------------------
(* Hands and deals.                                                        *)

LEMMA Seats ==
  /\ Position = {posNorth, posEast, posSouth, posWest} /\ Seat = {posNorth, posSouth}
  /\ posNorth = 0 /\ posEast = 1 /\ posSouth = 2 /\ posWest = 3
  BY DEF Position, posNorth, posEast, posSouth, posWest, Seat

(* No hand is empty, so a board with hands is not one without. *)
LEMMA HandFacts ==
  /\ {} \notin Hand /\ Hand \subseteq SUBSET Card
  /\ \A h \in Hand : IsFiniteSet(h) /\ Cardinality(h) = HandSize
  /\ HandSize \in Nat \ {0}
<1>1. HandSize \in Nat \ {0} /\ IsFiniteSet(Card) BY SizesAssumption
<1>2. Cardinality({}) = 0 BY FS_EmptySet
<1>3. {} \notin Hand BY <1>1, <1>2 DEF Hand
<1>4. \A h \in Hand : IsFiniteSet(h) BY <1>1, FS_Subset DEF Hand
<1>5. QED BY <1>1, <1>3, <1>4 DEF Hand

LEMMA DisjointUnion ==
  ASSUME NEW S, NEW T, IsFiniteSet(S), IsFiniteSet(T), S \cap T = {}
  PROVE  IsFiniteSet(S \cup T) /\ Cardinality(S \cup T) = Cardinality(S) + Cardinality(T)
<1>1. Cardinality(S) \in Nat /\ Cardinality(T) \in Nat BY FS_CardinalityType
<1>2. Cardinality(S \cap T) = 0 BY FS_EmptySet
<1>3. /\ IsFiniteSet(S \cup T)
      /\ Cardinality(S \cup T) = Cardinality(S) + Cardinality(T) - Cardinality(S \cap T)
  BY FS_Union
<1>4. QED BY <1>1, <1>2, <1>3

(* Four hands that share no card are the whole pack. *)
LEMMA FourHandsCover ==
  ASSUME NEW d \in Deal, \A p \in Position : d[p] \in Hand, Disjoint(d)
  PROVE  CardsOf(d) = Card
<1> DEFINE N == d[posNorth]  E == d[posEast]  S == d[posSouth]  W == d[posWest]
<1>1. /\ N \in Hand /\ E \in Hand /\ S \in Hand /\ W \in Hand /\ DOMAIN d = Position
  BY Seats DEF Deal
<1>2. /\ N \cap E = {} /\ (N \cup E) \cap S = {} /\ (N \cup E \cup S) \cap W = {}
  <2>1. /\ N \cap E = {} /\ N \cap S = {} /\ N \cap W = {}
        /\ E \cap S = {} /\ E \cap W = {} /\ S \cap W = {}
    BY <1>1, Seats DEF Disjoint
  <2>2. QED BY <2>1
<1>3. CardsOf(d) = N \cup E \cup S \cup W BY <1>1, Seats DEF CardsOf
<1> HIDE DEF N, E, S, W
<1>4. /\ IsFiniteSet(N) /\ IsFiniteSet(E) /\ IsFiniteSet(S) /\ IsFiniteSet(W)
      /\ Cardinality(N) = HandSize /\ Cardinality(E) = HandSize
      /\ Cardinality(S) = HandSize /\ Cardinality(W) = HandSize
      /\ N \cup E \cup S \cup W \in SUBSET Card /\ HandSize \in Nat
  BY <1>1, HandFacts
<1>5. IsFiniteSet(N \cup E) /\ Cardinality(N \cup E) = HandSize + HandSize
  BY <1>2, <1>4, DisjointUnion
<1>6. IsFiniteSet(N \cup E \cup S)
      /\ Cardinality(N \cup E \cup S) = HandSize + HandSize + HandSize
  <2> DEFINE NE == N \cup E
  <2>1. IsFiniteSet(NE) /\ Cardinality(NE) = HandSize + HandSize /\ NE \cap S = {}
    BY <1>2, <1>5
  <2> HIDE DEF NE
  <2>2. IsFiniteSet(NE \cup S) /\ Cardinality(NE \cup S) = Cardinality(NE) + Cardinality(S)
    BY <1>4, <2>1, DisjointUnion
  <2>3. QED BY <1>4, <2>1, <2>2 DEF NE
<1>7. Cardinality(N \cup E \cup S \cup W) = HandSize + HandSize + HandSize + HandSize
  BY <1>2, <1>4, <1>6, DisjointUnion
<1>8. IsFiniteSet(Card) /\ Cardinality(Card) = 4 * HandSize BY SizesAssumption
<1>9. HandSize + HandSize + HandSize + HandSize = 4 * HandSize BY <1>4
<1>10. N \cup E \cup S \cup W = Card BY <1>4, <1>7, <1>8, <1>9, FS_Subset
<1>11. QED BY <1>3, <1>10

(* What a try deals: hands of the pool that share no card, to the first of *)
(* the positions, and if it is accepted to all of them, as their rules ask.*)
Apart(pool, todo, hs) ==
  /\ Len(hs) \in 1 .. Len(todo) /\ DOMAIN hs = 1 .. Len(hs)
  /\ \A i \in DOMAIN hs : hs[i] \in Hand /\ hs[i] \subseteq pool
  /\ Disjoint(hs)

Passed(todo, rl, hs) ==
  Len(hs) = Len(todo) /\ \A i \in 1 .. Len(todo) : hs[i] \in rl[todo[i]]

LEMMA AttemptType ==
  ASSUME NEW pool \in SUBSET Card, NEW todo \in Seq(Position), NEW rl,
         NEW hs \in Attempts(pool, todo, rl)
  PROVE  Apart(pool, todo, hs) /\ (Accepted(hs, todo, rl) => Passed(todo, rl, hs))
<1>1. PICK k \in 1 .. Len(todo) : hs \in [1 .. k -> Hand] BY DEF Attempts
<1>2. Len(todo) \in Nat /\ k \in Nat BY <1>1, LenProperties
<1>3. hs \in Seq(Hand) BY <1>1, <1>2, SeqDef
<1>4. Len(hs) = k /\ DOMAIN hs = 1 .. k BY <1>1, <1>2, <1>3, LenProperties
<1>5. /\ CardsOf(hs) \subseteq pool /\ Disjoint(hs)
      /\ \A i \in 1 .. (Len(hs) - 1) : hs[i] \in rl[todo[i]]
  BY DEF Attempts, Obeys
<1>6. \A i \in DOMAIN hs : hs[i] \subseteq pool BY <1>5 DEF CardsOf
<1>7. ASSUME Accepted(hs, todo, rl)
      PROVE  Len(hs) = Len(todo) /\ \A i \in 1 .. Len(todo) : hs[i] \in rl[todo[i]]
  <2>1. Len(hs) = Len(todo) /\ hs[Len(hs)] \in rl[todo[Len(hs)]] BY <1>7 DEF Accepted, Obeys
  <2>2. \A i \in 1 .. Len(todo) : i \in 1 .. (Len(hs) - 1) \/ i = Len(hs) BY <1>2, <2>1
  <2>3. QED BY <1>5, <2>1, <2>2
<1>8. QED BY <1>1, <1>4, <1>5, <1>6, <1>7 DEF Apart, Passed

(* Where the hands go. *)
LEMMA PlacedAt ==
  ASSUME NEW d \in Deal, NEW hs, NEW todo, NEW p \in Position
  PROVE  \/ \E i \in DOMAIN hs : todo[i] = p /\ Placed(d, hs, todo)[p] = hs[i]
         \/ (\A i \in DOMAIN hs : todo[i] # p) /\ Placed(d, hs, todo)[p] = d[p]
<1>1. CASE \E i \in DOMAIN hs : todo[i] = p
  <2> DEFINE i == CHOOSE i \in DOMAIN hs : todo[i] = p
  <2>1. i \in DOMAIN hs /\ todo[i] = p BY <1>1
  <2>2. Placed(d, hs, todo)[p] = hs[i] BY <1>1 DEF Placed
  <2>3. QED BY <2>1, <2>2
<1>2. CASE \A i \in DOMAIN hs : todo[i] # p BY <1>2 DEF Placed
<1>3. QED BY <1>1, <1>2

LEMMA PlacedType ==
  ASSUME NEW d \in Deal, NEW hs, NEW todo, \A i \in DOMAIN hs : hs[i] \in Hand
  PROVE  Placed(d, hs, todo) \in Deal
<1>1. \A p \in Position : Placed(d, hs, todo)[p] \in Hand \cup {{}}
  BY PlacedAt DEF Deal
<1>2. DOMAIN Placed(d, hs, todo) = Position
      /\ Placed(d, hs, todo) = [p \in Position |-> Placed(d, hs, todo)[p]]
  BY DEF Placed
<1>3. QED BY <1>1, <1>2 DEF Deal

LEMMA Orders ==
  /\ AllFour \in Seq(Position) /\ Len(AllFour) = 4
  /\ AllFour[1] = posNorth /\ AllFour[2] = posEast /\ AllFour[3] = posSouth /\ AllFour[4] = posWest
  /\ Unknown \in Seq(Position)
  /\ twoKnown => Len(Unknown) = 2 /\ Unknown[1] = posEast /\ Unknown[2] = posWest
  /\ ~ twoKnown => /\ Len(Unknown) = 3 /\ Unknown[1] = posEast
                   /\ Unknown[2] = posSouth /\ Unknown[3] = posWest
<1>1. posNorth \in Position /\ posEast \in Position /\ posSouth \in Position /\ posWest \in Position
  BY Seats
<1>2. AllFour \in Seq(Position) /\ Unknown \in Seq(Position) BY <1>1 DEF AllFour, Unknown
<1>3. QED BY <1>2 DEF AllFour, Unknown

(* A board that is dealt and accepted: four hands that obey their rules. *)
LEMMA BoardDealt ==
  ASSUME NEW hs \in Attempts(Card, AllFour, dealRules), Accepted(hs, AllFour, dealRules),
         deal \in Deal
  PROVE  LET d == Placed(deal, hs, AllFour)
         IN  /\ d \in Deal /\ Disjoint(d)
             /\ \A p \in Position : d[p] \in Hand /\ d[p] \in dealRules[p]
<1> DEFINE d == Placed(deal, hs, AllFour)
<1>1. /\ DOMAIN hs = 1 .. 4 /\ Disjoint(hs)
      /\ \A i \in 1 .. 4 : hs[i] \in Hand /\ hs[i] \in dealRules[AllFour[i]]
  <2>1. AllFour \in Seq(Position) /\ Card \in SUBSET Card BY Orders
  <2>2. Apart(Card, AllFour, hs) /\ Passed(AllFour, dealRules, hs) BY <2>1, AttemptType
  <2>3. Len(AllFour) = 4 BY Orders
  <2>4. QED BY <2>2, <2>3 DEF Apart, Passed
<1>2. d \in Deal BY <1>1, PlacedType
<1>3. /\ d[posNorth] = hs[1] /\ d[posEast] = hs[2] /\ d[posSouth] = hs[3] /\ d[posWest] = hs[4]
  <2>1. \A p \in Position : \/ \E i \in 1 .. 4 : AllFour[i] = p /\ d[p] = hs[i]
                            \/ \A i \in 1 .. 4 : AllFour[i] # p
    BY <1>1, PlacedAt
  <2> HIDE DEF d
  <2>2. QED BY <2>1, Orders, Seats
<1> HIDE DEF d
<1>4. DOMAIN d = Position BY <1>2 DEF Deal
<1>5. Disjoint(d)
  <2>1. /\ hs[1] \cap hs[2] = {} /\ hs[1] \cap hs[3] = {} /\ hs[1] \cap hs[4] = {}
        /\ hs[2] \cap hs[3] = {} /\ hs[2] \cap hs[4] = {} /\ hs[3] \cap hs[4] = {}
    BY <1>1 DEF Disjoint
  <2>2. QED BY <1>3, <1>4, <2>1, Seats DEF Disjoint
<1>6. \A p \in Position : d[p] \in Hand /\ d[p] \in dealRules[p]
  BY <1>1, <1>3, Orders, Seats
<1>7. QED BY <1>2, <1>5, <1>6 DEF d

(* A try of a simulation leaves the known hands of the deal alone. *)
LEMMA KnownStay ==
  ASSUME deal \in Deal, NEW hs, DOMAIN hs \subseteq 1 .. Len(Unknown)
  PROVE  LET d == Placed(deal, hs, Unknown)
         IN  /\ d[posNorth] = deal[posNorth]
             /\ twoKnown => d[posSouth] = deal[posSouth]
<1>1. \A i \in DOMAIN hs : /\ Unknown[i] # posNorth
                           /\ twoKnown => Unknown[i] # posSouth
  BY Orders, Seats
<1>2. posNorth \in Position /\ posSouth \in Position BY Seats
<1>3. QED BY <1>1, <1>2, PlacedAt

(* A sample that is accepted is whole and obeys the rules. *)
LEMMA SampleDealt ==
  ASSUME State, pc = "simulate",
         NEW hs \in Attempts(pack, Unknown, dealRules), Accepted(hs, Unknown, dealRules)
  PROVE  LET s == Placed(deal, hs, Unknown)
         IN  /\ s \in Deal /\ Disjoint(s) /\ CardsOf(s) = Card
             /\ s[posNorth] = hands[bidder] /\ (twoKnown => s[posSouth] = hands[posSouth])
             /\ \A p \in {posEast, posWest} : s[p] \in argRules[(bidder + p) % 4]
             /\ ~ twoKnown => s[posSouth] \in rules[nextBidder(bidder)]
<1> DEFINE s == Placed(deal, hs, Unknown)
<1>0. deal \in Deal /\ pack \in SUBSET Card BY DEF State, Types
<1>1. /\ DOMAIN hs = 1 .. Len(Unknown) /\ Disjoint(hs)
      /\ \A i \in 1 .. Len(Unknown) :
           hs[i] \in Hand /\ hs[i] \subseteq pack /\ hs[i] \in dealRules[Unknown[i]]
  <2>1. Unknown \in Seq(Position) BY Orders
  <2>2. Apart(pack, Unknown, hs) /\ Passed(Unknown, dealRules, hs) BY <1>0, <2>1, AttemptType
  <2>3. QED BY <2>2 DEF Apart, Passed
<1>2. s \in Deal BY <1>0, <1>1, PlacedType
<1>3. s[posNorth] = hands[bidder] /\ (twoKnown => s[posSouth] = hands[posSouth])
  BY <1>0, <1>1, KnownStay DEF State, KnownLeave
<1>4. /\ hands[bidder] \in Hand /\ hands[posNorth] \in Hand /\ hands[posSouth] \in Hand
      /\ pack = Card \ Known
      /\ twoKnown => hands[posNorth] \cap hands[posSouth] = {} /\ bidder = posNorth
  BY Seats DEF State, Types, Fresh, KnownLeave
<1>5. \A p \in Position : \/ \E i \in 1 .. Len(Unknown) : Unknown[i] = p /\ s[p] = hs[i]
                          \/ \A i \in 1 .. Len(Unknown) : Unknown[i] # p
  BY <1>0, <1>1, PlacedAt
<1> HIDE DEF s
<1>6. DOMAIN s = Position BY <1>2 DEF Deal
<1>7. /\ \A p \in Position : s[p] \in Hand
      /\ Disjoint(s)
      /\ s[posEast] \in dealRules[posEast] /\ s[posWest] \in dealRules[posWest]
      /\ ~ twoKnown => s[posSouth] \in dealRules[posSouth]
  <2>1. CASE twoKnown
    <3>1. s[posEast] = hs[1] /\ s[posWest] = hs[2] /\ Len(Unknown) = 2
      <4>1. Len(Unknown) = 2 /\ Unknown[1] = posEast /\ Unknown[2] = posWest
        BY <2>1, Orders
      <4>2. \A p \in {posEast, posWest} : \E i \in 1 .. 2 : Unknown[i] = p /\ s[p] = hs[i]
        <5>1. \A p \in {posEast, posWest} : p \in Position /\ \E i \in 1 .. 2 : Unknown[i] = p
          BY <4>1, Seats
        <5>2. QED BY <1>5, <4>1, <5>1
      <4>3. posEast # posWest BY Seats
      <4>4. QED BY <4>1, <4>2, <4>3
    <3>2. hs[1] \cap hs[2] = {} BY <1>1, <3>1 DEF Disjoint
    <3>3. /\ hs[1] \in Hand /\ hs[2] \in Hand /\ hs[1] \subseteq pack /\ hs[2] \subseteq pack
          /\ hs[1] \in dealRules[posEast] /\ hs[2] \in dealRules[posWest]
      BY <1>1, <2>1, <3>1, Orders
    <3>4. /\ hands[posNorth] \cap pack = {} /\ hands[posSouth] \cap pack = {}
      BY <1>4, <2>1 DEF Known
    <3>5. Disjoint(s)
      <4>1. /\ s[posNorth] \cap s[posEast] = {} /\ s[posNorth] \cap s[posSouth] = {}
            /\ s[posNorth] \cap s[posWest] = {} /\ s[posEast] \cap s[posSouth] = {}
            /\ s[posEast] \cap s[posWest] = {} /\ s[posSouth] \cap s[posWest] = {}
        BY <1>3, <1>4, <2>1, <3>1, <3>2, <3>3, <3>4
      <4>2. QED BY <1>6, <4>1, Seats DEF Disjoint
    <3>6. \A p \in Position : s[p] \in Hand
      BY <1>3, <1>4, <2>1, <3>1, <3>3, Seats
    <3>7. QED BY <2>1, <3>1, <3>3, <3>5, <3>6
  <2>2. CASE ~ twoKnown
    <3>1. s[posEast] = hs[1] /\ s[posSouth] = hs[2] /\ s[posWest] = hs[3] /\ Len(Unknown) = 3
      <4>1. /\ Len(Unknown) = 3 /\ Unknown[1] = posEast /\ Unknown[2] = posSouth
            /\ Unknown[3] = posWest
        BY <2>2, Orders
      <4>2. \A p \in {posEast, posSouth, posWest} :
              \E i \in 1 .. 3 : Unknown[i] = p /\ s[p] = hs[i]
        <5>1. \A p \in {posEast, posSouth, posWest} :
                p \in Position /\ \E i \in 1 .. 3 : Unknown[i] = p
          BY <4>1, Seats
        <5>2. QED BY <1>5, <4>1, <5>1
      <4>3. posEast # posWest /\ posEast # posSouth /\ posSouth # posWest BY Seats
      <4>4. QED BY <4>1, <4>2, <4>3
    <3>2. hs[1] \cap hs[2] = {} /\ hs[1] \cap hs[3] = {} /\ hs[2] \cap hs[3] = {}
      BY <1>1, <3>1 DEF Disjoint
    <3>3. /\ hs[1] \in Hand /\ hs[2] \in Hand /\ hs[3] \in Hand
          /\ hs[1] \subseteq pack /\ hs[2] \subseteq pack /\ hs[3] \subseteq pack
          /\ hs[1] \in dealRules[posEast] /\ hs[2] \in dealRules[posSouth]
          /\ hs[3] \in dealRules[posWest]
      BY <1>1, <2>2, <3>1, Orders
    <3>4. hands[bidder] \cap pack = {} BY <1>4, <2>2 DEF Known
    <3>5. Disjoint(s)
      <4>1. /\ s[posNorth] \cap s[posEast] = {} /\ s[posNorth] \cap s[posSouth] = {}
            /\ s[posNorth] \cap s[posWest] = {} /\ s[posEast] \cap s[posSouth] = {}
            /\ s[posEast] \cap s[posWest] = {} /\ s[posSouth] \cap s[posWest] = {}
        BY <1>3, <3>1, <3>2, <3>3, <3>4
      <4>2. QED BY <1>6, <4>1, Seats DEF Disjoint
    <3>6. \A p \in Position : s[p] \in Hand BY <1>3, <1>4, <3>1, <3>3, Seats
    <3>7. QED BY <3>1, <3>3, <3>5, <3>6
  <2>3. QED BY <2>1, <2>2
<1>8. CardsOf(s) = Card BY <1>2, <1>7, FourHandsCover
<1>9. /\ \A p \in {posEast, posWest} : s[p] \in argRules[(bidder + p) % 4]
      /\ ~ twoKnown => s[posSouth] \in rules[nextBidder(bidder)]
  BY <1>7 DEF State, RulesTurned
<1>10. QED BY <1>2, <1>3, <1>7, <1>8, <1>9 DEF s

-----------------------------------------------------------------------------
(* Every action keeps the invariant.                                       *)

LEMMA Limits ==
  /\ MAXTRIES \in Nat \ {0} /\ totHandsToCheck \in Nat \ {0} /\ maxHandsPerRound \in Nat \ {0}
  /\ numRuns \in Nat \ {0} /\ numBoards \in Nat \ {0}
  /\ \A r \in RuleMaps : r \in [Position -> SUBSET Hand]
  /\ \A h \in Inferred : h \in SUBSET Hand
  BY SizesAssumption, RulesAssumption

LEMMA Nothing ==
  /\ NoHands \in Deal /\ <<>> \in Seq(Deal) /\ Len(<<>>) = 0
  /\ \A p \in Position : NoHands[p] = {}
  BY DEF NoHands, Deal

(* A board's auction object as it is made. *)
NewBoard ==
  /\ hands = NoHands /\ deal = NoHands /\ rules = argRules /\ dealRules = argRules
  /\ twoKnown = TRUE /\ bidder = posNorth /\ run = 0 /\ tries = 0 /\ spack = {}
  /\ batch = <<>> /\ handsChecked = 0 /\ solved = <<>> /\ scored = 0

LEMMA NewBoardIsSound ==
  /\ NewBoard /\ Boards /\ pc \in {"create", "done"} /\ pack \subseteq Card
  /\ fromPbn \in BOOLEAN /\ argRules \in RuleMaps /\ partnerRule \in PartnerRules
  => IInv
<1>1. SUFFICES ASSUME NewBoard, Boards, pc \in {"create", "done"}, pack \subseteq Card,
                      fromPbn \in BOOLEAN, argRules \in RuleMaps, partnerRule \in PartnerRules
               PROVE  IInv
  OBVIOUS
<1>2. Types BY <1>1, Limits, Nothing, Seats DEF NewBoard, Types
<1>3. Batches BY <1>1, Limits, Nothing DEF NewBoard, Batches
<1>4. Fresh BY <1>1 DEF NewBoard, Fresh
<1>5. RulesTurned /\ KnownLeave /\ Board BY <1>1 DEF RulesTurned, KnownLeave, Board
<1>6. Good BY <1>1 DEF NewBoard, Good, Samples, SamplesAreWhole, SamplesObeyRules
<1>7. QED BY <1>1, <1>2, <1>3, <1>4, <1>5, <1>6 DEF IInv, State

LEMMA InitIInv == Init => IInv
<1>1. SUFFICES ASSUME Init PROVE IInv OBVIOUS
<1>2. NewBoard BY <1>1 DEF Init, NewBoard
<1>3. Boards BY <1>1, Limits DEF Init, Boards
<1>4. QED BY <1>1, <1>2, <1>3, NewBoardIsSound DEF Init

LEMMA NextBoardKeepsIInv ==
  ASSUME IInv, NextBoard, pc # "done", pack' \subseteq Card
  PROVE  IInv'
<1>1. NewBoard' /\ pc' \in {"create", "done"} BY DEF NextBoard, NewBoard, argVars
<1>2. Boards'
  <2>1. board \in Int /\ board >= 1 /\ board <= numBoards /\ numBoards \in Nat
    BY Limits DEF IInv, State, Boards
  <2>2. boardsScored <= board
    BY <2>1 DEF IInv, State, Boards
  <2>3. board' = board + 1 /\ boardNum' = boardNum /\ boardsScored' = boardsScored
        /\ pc' = IF board < numBoards THEN "create" ELSE "done"
    BY DEF NextBoard
  <2>4. board' \in 1 .. (numBoards + 1) /\ (pc' # "done" => board' <= numBoards)
    BY <2>1, <2>3
  <2>5. boardsScored' <= board' - 1 BY <2>1, <2>2, <2>3
  <2>6. QED BY <1>1, <2>3, <2>4, <2>5 DEF IInv, State, Boards
<1>3. fromPbn' \in BOOLEAN /\ argRules' \in RuleMaps /\ partnerRule' \in PartnerRules
  BY DEF NextBoard, argVars, IInv, State, Types
<1>4. (/\ NewBoard /\ Boards /\ pc \in {"create", "done"} /\ pack \subseteq Card
       /\ fromPbn \in BOOLEAN /\ argRules \in RuleMaps /\ partnerRule \in PartnerRules
       => IInv)'
  BY NewBoardIsSound, PTL
<1>5. QED BY <1>1, <1>2, <1>3, <1>4

(* A board that is found or entered. *)
LEMMA BoardCreatedKeepsIInv ==
  ASSUME IInv, pc = "create", NEW d \in Deal, \A p \in Position : d[p] \in Hand, Disjoint(d),
         BoardCreated(d),
         ~ fromPbn => /\ \A p \in Position : d[p] \in argRules[p]
                      /\ <<d[posNorth], d[posSouth]>> \in partnerRule
  PROVE  IInv'
<1>0. /\ UNCHANGED <<argVars, board, rules, dealRules, run>>
      /\ boardNum' = boardNum + 1 /\ boardsScored' = boardsScored + 1
      /\ deal' = d /\ hands' = [p \in Position |-> IF p \in Seat THEN d[p] ELSE {}]
      /\ bidder' = posNorth /\ twoKnown' = TRUE /\ pc' = "simulate"
      /\ tries' = 0 /\ batch' = <<>> /\ handsChecked' = 0 /\ solved' = <<>> /\ scored' = 0
      /\ pack' = Card \ (d[posNorth] \cup d[posSouth]) /\ spack' = pack'
  BY DEF BoardCreated, StartSimulation, WithoutKnown
<1>1. /\ d[posNorth] \in Hand /\ d[posSouth] \in Hand
      /\ hands'[posNorth] = d[posNorth] /\ hands'[posSouth] = d[posSouth]
      /\ hands' \in Deal /\ d[posNorth] \cap d[posSouth] = {}
  <2>1. d[posNorth] \cap d[posSouth] = {} BY Seats DEF Disjoint, Deal
  <2>2. QED BY <1>0, <2>1, Seats DEF Deal
<1>2. hands' # NoHands BY <1>1, HandFacts, Nothing, Seats
<1>3. Types' BY <1>0, <1>1, Limits, Seats DEF IInv, State, Types, argVars
<1>4. Boards' BY <1>0, Limits DEF IInv, State, Boards
<1>5. Batches' BY <1>0, Limits, Nothing DEF Batches
<1>6. Fresh' BY <1>0, <1>1, <1>2, Seats DEF Fresh
<1>7. RulesTurned'
  <2>1. dealRules' = argRules' BY <1>0 DEF IInv, State, Fresh, argVars
  <2>2. (posNorth + posEast) % 4 = posEast /\ (posNorth + posWest) % 4 = posWest BY Seats
  <2>3. QED BY <1>0, <2>1, <2>2 DEF RulesTurned
<1>8. KnownLeave'
  <2>1. Known' = d[posNorth] \cup d[posSouth] BY <1>0, <1>1 DEF Known
  <2>2. QED BY <1>0, <1>1, <2>1 DEF KnownLeave
<1>9. Good' BY <1>0 DEF Good, Samples, SamplesAreWhole, SamplesObeyRules
<1>10. Board'
  <2>1. fromPbn' = fromPbn /\ argRules' = argRules /\ partnerRule' = partnerRule
    BY <1>0 DEF argVars
  <2>2. CASE fromPbn BY <2>1, <2>2 DEF Board
  <2>3. CASE ~ fromPbn
    <3>1. \A p \in Position : deal'[p] \in argRules'[p] BY <1>0, <2>1, <2>3
    <3>2. <<hands'[posNorth], hands'[posSouth]>> \in partnerRule'
      <4>1. <<d[posNorth], d[posSouth]>> \in partnerRule BY <2>3
      <4>2. QED BY <1>1, <2>1, <4>1
    <3>3. QED BY <3>1, <3>2 DEF Board
  <2>4. QED BY <2>2, <2>3
<1>11. QED BY <1>3, <1>4, <1>5, <1>6, <1>7, <1>8, <1>9, <1>10 DEF IInv, State

LEMMA TryBoardKeepsIInv ==
  ASSUME IInv, TryBoard
  PROVE  IInv'
<1>1. pc = "create" /\ ~ fromPbn /\ tries < MAXTRIES /\ deal \in Deal
      /\ dealRules = argRules
  BY DEF TryBoard, IInv, State, Types, Fresh
<1>2. PICK hs \in Attempts(Card, AllFour, dealRules) :
        LET d == Placed(deal, hs, AllFour)
        IN  IF Accepted(hs, AllFour, dealRules) /\ <<d[posNorth], d[posSouth]>> \in partnerRule
            THEN BoardCreated(d)
            ELSE /\ tries' = tries + 1
                 /\ deal' = d
                 /\ pack' = Card \ CardsOf(hs)
                 /\ UNCHANGED <<argVars, boardVars, pc, dealVars, run, spack, batchVars>>
  BY DEF TryBoard
<1> DEFINE d == Placed(deal, hs, AllFour)
           found == Accepted(hs, AllFour, dealRules) /\ <<d[posNorth], d[posSouth]>> \in partnerRule
<1>3. CASE found
  <2>1. /\ d \in Deal /\ Disjoint(d)
        /\ \A p \in Position : d[p] \in Hand /\ d[p] \in dealRules[p]
    BY <1>1, <1>3, BoardDealt
  <2>2. BoardCreated(d) BY <1>2, <1>3
  <2> HIDE DEF d
  <2>3. QED BY <1>1, <1>3, <2>1, <2>2, BoardCreatedKeepsIInv
<1>4. CASE ~ found
  <2>1. /\ tries' = tries + 1 /\ deal' = d /\ pack' \subseteq Card
        /\ UNCHANGED <<argVars, boardVars, pc, dealVars, run, spack, batchVars>>
    BY <1>2, <1>4
  <2>2. d \in Deal
    <3>1. Apart(Card, AllFour, hs) BY AttemptType, Orders
    <3>2. QED BY <1>1, <3>1, PlacedType DEF Apart
  <2> HIDE DEF d
  <2>3. Types'
    BY <1>1, <2>1, <2>2, Limits DEF IInv, State, Types, argVars, dealVars
  <2>4. Boards' BY <2>1 DEF IInv, State, Boards, boardVars
  <2>5. Batches' BY <1>1, <2>1 DEF IInv, State, Batches, batchVars
  <2>6. Fresh' BY <1>1, <2>1 DEF IInv, State, Fresh, batchVars, dealVars, argVars
  <2>7. RulesTurned' /\ KnownLeave' /\ Board' BY <1>1, <2>1 DEF RulesTurned, KnownLeave, Board
  <2>8. Good' BY <2>1 DEF IInv, Good, SamplesAreWhole, SamplesObeyRules, Samples, batchVars,
                      dealVars, argVars
  <2>9. QED BY <2>3, <2>4, <2>5, <2>6, <2>7, <2>8 DEF IInv, State
<1>5. QED BY <1>3, <1>4

(* A step that touches no hands, rules or batch says nothing new of them. *)
LEMMA SamplesStay ==
  ASSUME Good, UNCHANGED <<argRules, rules, hands, bidder, twoKnown, batch, solved>>
  PROVE  Good'
  BY DEF Good, SamplesAreWhole, SamplesObeyRules, Samples

LEMMA GiveUpKeepsIInv ==
  ASSUME IInv, GiveUp
  PROVE  IInv'
<1>1. /\ pc = "create" /\ ~ fromPbn /\ tries = MAXTRIES
      /\ boardsScored' = boardsScored + 1 /\ pc' = "bid"
      /\ UNCHANGED <<fromPbn, argRules, partnerRule, board, boardNum, pack, hands, rules, dealRules,
                     twoKnown, bidder, deal, run, tries, spack, batch, handsChecked, solved, scored>>
  BY DEF GiveUp, argVars, dealVars, batchVars
<1>2. Types' BY <1>1 DEF IInv, State, Types
<1>3. Boards' BY <1>1, Limits DEF IInv, State, Boards
<1>4. Batches' BY <1>1, Limits DEF IInv, State, Batches
<1>5. Fresh' BY <1>1 DEF IInv, State, Boards, Fresh
<1>6. RulesTurned' /\ KnownLeave' /\ Board' BY <1>1 DEF RulesTurned, KnownLeave, Board
<1>7. Good' BY <1>1, SamplesStay DEF IInv
<1>8. QED BY <1>2, <1>3, <1>4, <1>5, <1>6, <1>7 DEF IInv, State

LEMMA EnterPbnKeepsIInv ==
  ASSUME IInv, EnterPbn
  PROVE  IInv'
<1>1. pc = "create" /\ fromPbn BY DEF EnterPbn
<1>2. CASE \E d \in [Position -> Hand] : Disjoint(d) /\ BoardCreated(d)
  <2>1. PICK d \in [Position -> Hand] : Disjoint(d) /\ BoardCreated(d) BY <1>2
  <2>2. d \in Deal /\ \A p \in Position : d[p] \in Hand BY DEF Deal
  <2>3. QED BY <1>1, <2>1, <2>2, BoardCreatedKeepsIInv
<1>3. CASE pack' \in SUBSET Card \ {{}} /\ NextBoard
  BY <1>1, <1>3, NextBoardKeepsIInv
<1>4. QED BY <1>2, <1>3 DEF EnterPbn

(* A try of a simulation that is rejected. *)
LEMMA RejectedKeepsIInv ==
  ASSUME IInv, pc = "simulate", tries < MAXTRIES, tries' = tries + 1,
         NEW hs \in Attempts(pack, Unknown, dealRules), deal' = Placed(deal, hs, Unknown),
         pack' = spack,
         UNCHANGED <<argVars, boardVars, dealVars, run, spack, pc, batchVars>>
  PROVE  IInv'
<1>1. UNCHANGED <<fromPbn, argRules, partnerRule, board, boardNum, boardsScored, hands, rules,
                  dealRules, twoKnown, bidder, run, spack, pc, batch, handsChecked, solved, scored>>
  BY DEF argVars, boardVars, dealVars, batchVars
<1>2. deal \in Deal /\ pack \in SUBSET Card BY DEF IInv, State, Types
<1>3. Apart(pack, Unknown, hs) BY <1>2, AttemptType, Orders
<1>4. deal' \in Deal BY <1>2, <1>3, PlacedType DEF Apart
<1>5. deal'[posNorth] = deal[posNorth] /\ (twoKnown => deal'[posSouth] = deal[posSouth])
  <2>1. DOMAIN hs \subseteq 1 .. Len(Unknown)
    <3>1. Len(Unknown) \in Nat BY Orders, LenProperties
    <3>2. QED BY <1>3, <3>1 DEF Apart
  <2>2. QED BY <1>2, <2>1, KnownStay
<1>6. Types' BY <1>1, <1>4, Limits DEF IInv, State, Types
<1>7. Boards' BY <1>1 DEF IInv, State, Boards
<1>8. Batches' BY <1>1 DEF IInv, State, Batches
<1>9. Fresh' BY <1>1 DEF IInv, State, Fresh
<1>10. RulesTurned' BY <1>1 DEF IInv, State, RulesTurned
<1>11. KnownLeave' BY <1>1, <1>5 DEF IInv, State, KnownLeave, Known
<1>12. Board'
  <2>1. tries' # 0 BY DEF IInv, State, Types
  <2>2. QED BY <2>1 DEF Board
<1>13. Good' BY <1>1, SamplesStay DEF IInv
<1>14. QED BY <1>6, <1>7, <1>8, <1>9, <1>10, <1>11, <1>12, <1>13 DEF IInv, State

(* What Record() does to the batch. *)
LEMMA RecordCounts ==
  ASSUME Batches, Types, pc = "simulate", NEW s \in Deal, Record(s)
  PROVE  /\ batch' \in Seq(Deal) /\ solved' \in Seq(Deal)
         /\ Len(batch') < maxHandsPerRound /\ Len(solved') <= maxHandsPerRound
         /\ handsChecked' \in 0 .. totHandsToCheck /\ scored' \in Nat
         /\ scored' + Len(batch') = handsChecked'
         /\ pc' \in {"simulate", "bid"}
         /\ pc' = "simulate" => handsChecked' < totHandsToCheck /\ pack' = spack
         /\ pc' = "bid" => scored' = totHandsToCheck /\ pack' \subseteq Card
         /\ Samples' \subseteq Samples \cup {s}
<1> DEFINE recorded == Append(batch, s)
           total    == handsChecked + 1
           solve    == SolveNow(Len(recorded), total)
           last     == solve /\ total = totHandsToCheck
<1>1. /\ handsChecked' = total
      /\ batch'  = IF solve THEN <<>> ELSE recorded
      /\ solved' = IF solve THEN recorded ELSE solved
      /\ scored' = IF solve THEN scored + Len(recorded) ELSE scored
      /\ pc'     = IF last THEN "bid" ELSE pc
      /\ pack'   = IF last THEN spack \ CardsOf([i \in 1 .. Len(Unknown) |-> s[Unknown[i]]])
                           ELSE spack
  BY DEF Record
<1>2. /\ batch \in Seq(Deal) /\ solved \in Seq(Deal) /\ Len(batch) \in Nat
      /\ Len(batch) < maxHandsPerRound /\ Len(solved) <= maxHandsPerRound
      /\ handsChecked \in Nat /\ handsChecked < totHandsToCheck /\ scored \in Nat
      /\ scored + Len(batch) = handsChecked
  BY LenProperties, Limits DEF Batches
<1>3. /\ recorded \in Seq(Deal) /\ Len(recorded) = Len(batch) + 1
      /\ \A i \in DOMAIN recorded : recorded[i] \in {batch[j] : j \in DOMAIN batch} \cup {s}
  <2>1. recorded \in Seq(Deal) /\ Len(recorded) = Len(batch) + 1 BY <1>2, AppendProperties
  <2>2. ASSUME NEW i \in DOMAIN recorded
        PROVE  recorded[i] \in {batch[j] : j \in DOMAIN batch} \cup {s}
    <3>1. i \in 1 .. (Len(batch) + 1) BY <2>1, LenProperties
    <3>2. CASE i = Len(batch) + 1 BY <1>2, <3>2, AppendProperties
    <3>3. CASE i \in 1 .. Len(batch)
      <4>1. recorded[i] = batch[i] /\ i \in DOMAIN batch
        BY <1>2, <3>3, AppendProperties, LenProperties
      <4>2. QED BY <4>1
    <3>4. QED BY <1>2, <3>1, <3>2, <3>3
  <2>3. QED BY <2>1, <2>2
<1>4. solve <=> (Len(recorded) = maxHandsPerRound \/ total = totHandsToCheck) BY DEF SolveNow
<1>5. last <=> total = totHandsToCheck BY <1>4
<1>6. total \in 1 .. totHandsToCheck /\ maxHandsPerRound \in Nat \ {0} /\ totHandsToCheck \in Nat
  BY <1>2, Limits
<1>7. <<>> \in Seq(Deal) /\ Len(<<>>) = 0 /\ DOMAIN <<>> = {} BY Nothing
<1>8. spack \subseteq Card BY DEF Types
<1> HIDE DEF solve, last, recorded, total
<1>9. CASE solve
  <2>1. batch' = <<>> /\ solved' = recorded /\ scored' = scored + Len(recorded)
    BY <1>1, <1>9
  <2>2. Samples' \subseteq Samples \cup {s} BY <1>3, <1>7, <2>1 DEF Samples
  <2>3. scored' = total /\ scored' \in Nat /\ scored' + Len(batch') = total
    BY <1>2, <1>3, <1>7, <2>1 DEF total
  <2>4. Len(solved') <= maxHandsPerRound BY <1>2, <1>3, <1>6, <2>1
  <2>5. /\ pc' \in {"simulate", "bid"}
        /\ pc' = "simulate" => total # totHandsToCheck /\ pack' = spack
        /\ pc' = "bid" => total = totHandsToCheck /\ pack' \subseteq Card
    <3>1. CASE last BY <1>1, <1>5, <1>8, <3>1
    <3>2. CASE ~ last BY <1>1, <1>5, <3>2
    <3>3. QED BY <3>1, <3>2
  <2>6. batch' \in Seq(Deal) /\ solved' \in Seq(Deal) /\ Len(batch') < maxHandsPerRound
    BY <1>3, <1>6, <1>7, <2>1
  <2>7. handsChecked' \in 0 .. totHandsToCheck /\ handsChecked' = total
        /\ (total # totHandsToCheck => handsChecked' < totHandsToCheck)
    BY <1>1, <1>6
  <2>8. QED BY <2>2, <2>3, <2>4, <2>5, <2>6, <2>7
<1>10. CASE ~ solve
  <2>1. batch' = recorded /\ solved' = solved /\ scored' = scored /\ ~ last
    BY <1>1, <1>4, <1>5, <1>10
  <2>2. Samples' \subseteq Samples \cup {s} BY <1>3, <2>1 DEF Samples
  <2>3. pc' = "simulate" /\ pack' = spack BY <1>1, <2>1
  <2>4. total < totHandsToCheck /\ total \in Nat BY <1>4, <1>6, <1>10
  <2>5. Len(recorded) < maxHandsPerRound BY <1>2, <1>3, <1>4, <1>6, <1>10
  <2>6. scored' + Len(batch') = total BY <1>2, <1>3, <2>1 DEF total
  <2>7. QED BY <1>1, <1>2, <1>3, <1>6, <2>1, <2>2, <2>3, <2>4, <2>5, <2>6
<1>11. QED BY <1>9, <1>10

(* A try of a simulation that is accepted. *)
LEMMA RecordKeepsIInv ==
  ASSUME IInv, pc = "simulate", tries < MAXTRIES, tries' = tries + 1,
         NEW hs \in Attempts(pack, Unknown, dealRules), Accepted(hs, Unknown, dealRules),
         deal' = Placed(deal, hs, Unknown), Record(deal'),
         UNCHANGED <<argVars, boardVars, dealVars, run, spack>>
  PROVE  IInv'
<1> DEFINE s == Placed(deal, hs, Unknown)
<1>1. UNCHANGED <<fromPbn, argRules, partnerRule, board, boardNum, boardsScored, hands, rules,
                  dealRules, twoKnown, bidder, run, spack>>
  BY DEF argVars, boardVars, dealVars
<1>2. State /\ Good BY DEF IInv
<1>3. /\ s \in Deal /\ Disjoint(s) /\ CardsOf(s) = Card
      /\ s[posNorth] = hands[bidder] /\ (twoKnown => s[posSouth] = hands[posSouth])
      /\ \A p \in {posEast, posWest} : s[p] \in argRules[(bidder + p) % 4]
      /\ ~ twoKnown => s[posSouth] \in rules[nextBidder(bidder)]
  BY <1>2, SampleDealt
<1> HIDE DEF s
<1>4. deal' = s /\ Record(s) BY DEF s
<1>5. /\ batch' \in Seq(Deal) /\ solved' \in Seq(Deal)
      /\ Len(batch') < maxHandsPerRound /\ Len(solved') <= maxHandsPerRound
      /\ handsChecked' \in 0 .. totHandsToCheck /\ scored' \in Nat
      /\ scored' + Len(batch') = handsChecked'
      /\ pc' \in {"simulate", "bid"}
      /\ pc' = "simulate" => handsChecked' < totHandsToCheck /\ pack' = spack
      /\ pc' = "bid" => scored' = totHandsToCheck /\ pack' \subseteq Card
      /\ Samples' \subseteq Samples \cup {s}
  BY <1>2, <1>3, <1>4, RecordCounts DEF State
<1>6. Types'
  <2>1. tries' \in 0 .. MAXTRIES BY <1>2, Limits DEF State, Types
  <2>2. pack' \subseteq Card BY <1>2, <1>5 DEF State, Types
  <2>3. QED BY <1>1, <1>2, <1>3, <1>4, <1>5, <2>1, <2>2 DEF State, Types
<1>7. Boards' BY <1>1, <1>2, <1>5 DEF State, Boards
<1>8. Batches' BY <1>5 DEF Batches
<1>9. Fresh' BY <1>1, <1>2, <1>5 DEF State, Fresh
<1>10. RulesTurned' BY <1>1, <1>2 DEF State, RulesTurned
<1>11. KnownLeave' BY <1>1, <1>2, <1>3, <1>4, <1>5 DEF State, KnownLeave, Known
<1>12. Board'
  <2>1. tries' # 0 BY <1>2 DEF State, Types
  <2>2. QED BY <2>1 DEF Board
<1>13. Good'
  <2>1. SamplesAreWhole' BY <1>1, <1>2, <1>3, <1>5 DEF Good, SamplesAreWhole
  <2>2. SamplesObeyRules' BY <1>1, <1>2, <1>3, <1>5 DEF Good, SamplesObeyRules
  <2>3. QED BY <2>1, <2>2 DEF Good
<1>14. QED BY <1>6, <1>7, <1>8, <1>9, <1>10, <1>11, <1>12, <1>13 DEF IInv, State

LEMMA TrySampleKeepsIInv ==
  ASSUME IInv, TrySample
  PROVE  IInv'
<1>1. /\ pc = "simulate" /\ tries < MAXTRIES /\ tries' = tries + 1
      /\ UNCHANGED <<argVars, boardVars, dealVars, run, spack>>
  BY DEF TrySample
<1>2. PICK hs \in Attempts(pack, Unknown, dealRules) :
        /\ deal' = Placed(deal, hs, Unknown)
        /\ IF Accepted(hs, Unknown, dealRules)
           THEN Record(deal')
           ELSE pack' = spack /\ UNCHANGED <<pc, batchVars>>
  BY DEF TrySample
<1>3. CASE Accepted(hs, Unknown, dealRules) BY <1>1, <1>2, <1>3, RecordKeepsIInv
<1>4. CASE ~ Accepted(hs, Unknown, dealRules) BY <1>1, <1>2, <1>4, RejectedKeepsIInv
<1>5. QED BY <1>3, <1>4

LEMMA OutOfTriesKeepsIInv ==
  ASSUME IInv, OutOfTries
  PROVE  IInv'
<1>1. /\ pc = "simulate" /\ tries = MAXTRIES /\ pc' = "bid"
      /\ UNCHANGED <<fromPbn, argRules, partnerRule, board, boardNum, boardsScored, pack, hands,
                     rules, dealRules, twoKnown, bidder, deal, run, tries, spack, batch,
                     handsChecked, solved, scored>>
  BY DEF OutOfTries, argVars, boardVars, dealVars, batchVars
<1>2. Types' BY <1>1 DEF IInv, State, Types
<1>3. Boards' BY <1>1 DEF IInv, State, Boards
<1>4. Batches' BY <1>1, Limits DEF IInv, State, Batches
<1>5. Fresh' BY <1>1 DEF IInv, State, Fresh
<1>6. RulesTurned' /\ KnownLeave' /\ Board' BY <1>1 DEF RulesTurned, KnownLeave, Board
<1>7. Good' BY <1>1, SamplesStay DEF IInv
<1>8. QED BY <1>2, <1>3, <1>4, <1>5, <1>6, <1>7 DEF IInv, State

LEMMA NoGuessKeepsIInv ==
  ASSUME IInv, NoGuess
  PROVE  IInv'
<1>1. /\ pc = "bid" /\ run < numRuns /\ run' = run + 1
      /\ UNCHANGED <<fromPbn, argRules, partnerRule, board, boardNum, boardsScored, pc, pack, hands,
                     rules, dealRules, twoKnown, bidder, deal, tries, spack, batch,
                     handsChecked, solved, scored>>
  BY DEF NoGuess, argVars, boardVars, dealVars, batchVars
<1>2. Types' BY <1>1, Limits DEF IInv, State, Types
<1>3. Boards' BY <1>1 DEF IInv, State, Boards
<1>4. Batches' BY <1>1 DEF IInv, State, Batches
<1>5. Fresh' BY <1>1 DEF IInv, State, Fresh
<1>6. RulesTurned' /\ KnownLeave' /\ Board' BY <1>1 DEF RulesTurned, KnownLeave, Board
<1>7. Good' BY <1>1, SamplesStay DEF IInv
<1>8. QED BY <1>2, <1>3, <1>4, <1>5, <1>6, <1>7 DEF IInv, State

LEMMA GuessKeepsIInv ==
  ASSUME IInv, Guess
  PROVE  IInv'
<1>1. /\ pc = "bid" /\ run < numRuns /\ run' = run + 1
      /\ UNCHANGED <<fromPbn, argRules, partnerRule, board, boardNum, boardsScored, hands>>
  BY DEF Guess, argVars, boardVars
<1>2. PICK b \in Seat, partner \in Inferred :
        /\ bidder' = b
        /\ rules' = [argRules EXCEPT ![nextBidder(b)] = partner]
        /\ dealRules' = Turned(rules', b)
        /\ deal' = [NoHands EXCEPT ![posNorth] = hands[b]]
        /\ twoKnown' = FALSE
        /\ IF hands[b] # {}
           THEN StartSimulation(hands[b])
           ELSE /\ \E c \in Card : pack' = Card \ {c}
                /\ UNCHANGED <<pc, tries, spack, batchVars>>
  BY DEF Guess
<1>3. /\ b \in Position /\ nextBidder(b) \in Seat /\ nextBidder(b) \in Position
      /\ nextBidder(b) = (b + posSouth) % 4
      /\ \A p \in Position : (b + p) % 4 \in Position
      /\ \A p \in {posEast, posWest} : (b + p) % 4 # nextBidder(b)
  BY Seats DEF nextBidder
<1>4. State /\ Good BY DEF IInv
<1>5. argRules \in [Position -> SUBSET Hand] /\ partner \in SUBSET Hand
  BY <1>4, Limits DEF State, Types
<1>6. rules' \in [Position -> SUBSET Hand] BY <1>2, <1>3, <1>5
<1>7. /\ dealRules' = [p \in Position |-> rules'[(b + p) % 4]]
      /\ dealRules' \in [Position -> SUBSET Hand]
  BY <1>2, <1>3, <1>6 DEF Turned
<1>8. /\ \A p \in {posEast, posWest} : dealRules'[p] = argRules[(b + p) % 4]
      /\ dealRules'[posSouth] = rules'[nextBidder(b)]
  BY <1>2, <1>3, <1>5, <1>7, Seats
<1>9. deal' \in Deal /\ deal'[posNorth] = hands[b]
  <2>1. hands[b] \in Hand \cup {{}} BY <1>3, <1>4 DEF State, Types, Deal
  <2>2. NoHands \in [Position -> Hand \cup {{}}] BY Nothing DEF Deal
  <2>3. QED BY <1>2, <2>1, <2>2, Seats DEF Deal
<1>10. run' \in 0 .. numRuns BY <1>1, <1>4, Limits DEF State, Types
<1>11. RulesTurned' BY <1>1, <1>2, <1>8 DEF RulesTurned
<1>12. Board' BY <1>2 DEF Board
<1>13. CASE hands[b] # {}
  <2>1. /\ pack' = Card \ hands[b] /\ spack' = pack' /\ tries' = 0 /\ pc' = "simulate"
        /\ batch' = <<>> /\ handsChecked' = 0 /\ solved' = <<>> /\ scored' = 0
    BY <1>2, <1>13 DEF StartSimulation, WithoutKnown
  <2>2. hands # NoHands BY <1>3, <1>13, Nothing
  <2>3. Types'
    <3>1. pack' \subseteq Card /\ spack' \subseteq Card /\ tries' \in 0 .. MAXTRIES
          /\ twoKnown' \in BOOLEAN
      <4>1. pack' \subseteq Card /\ spack' \subseteq Card BY <2>1
      <4>2. 0 \in 0 .. MAXTRIES BY Limits
      <4>3. twoKnown' \in BOOLEAN BY <1>2
      <4>4. QED BY <2>1, <4>1, <4>2, <4>3
    <3>2. fromPbn \in BOOLEAN /\ argRules \in RuleMaps /\ partnerRule \in PartnerRules
          /\ hands \in Deal
      BY <1>4 DEF State, Types
    <3>3. QED BY <1>1, <1>2, <1>6, <1>7, <1>9, <1>10, <2>1, <3>1, <3>2 DEF Types
  <2>4. Boards' BY <1>1, <1>4, <2>1 DEF State, Boards
  <2>5. Batches' BY <2>1, Limits, Nothing DEF Batches
  <2>6. Fresh' BY <1>1, <1>2, <1>4, <2>1, <2>2 DEF State, Fresh
  <2>7. KnownLeave' BY <1>1, <1>2, <1>9, <2>1 DEF KnownLeave, Known
  <2>8. Good' BY <2>1 DEF Good, Samples, SamplesAreWhole, SamplesObeyRules
  <2>9. QED BY <1>11, <1>12, <2>3, <2>4, <2>5, <2>6, <2>7, <2>8 DEF IInv, State
<1>14. CASE hands[b] = {}
  <2>1. pack' \subseteq Card /\ UNCHANGED <<pc, tries, spack, batch, handsChecked, solved, scored>>
    BY <1>2, <1>14 DEF batchVars
  <2>2. hands = NoHands /\ batch = <<>> /\ solved = <<>>
    BY <1>4, <1>14, HandFacts DEF State, Fresh
  <2>3. Types' BY <1>1, <1>2, <1>4, <1>6, <1>7, <1>9, <1>10, <2>1 DEF State, Types
  <2>4. Boards' BY <1>1, <1>4, <2>1 DEF State, Boards
  <2>5. Batches' BY <1>4, <2>1 DEF State, Batches
  <2>6. Fresh' BY <1>1, <1>2, <1>4, <2>1 DEF State, Fresh
  <2>7. KnownLeave' BY <1>1, <2>1 DEF KnownLeave
  <2>8. Good' BY <2>1, <2>2 DEF Good, Samples, SamplesAreWhole, SamplesObeyRules
  <2>9. QED BY <1>11, <1>12, <2>3, <2>4, <2>5, <2>6, <2>7, <2>8 DEF IInv, State
<1>15. QED BY <1>13, <1>14

LEMMA BoardDoneKeepsIInv ==
  ASSUME IInv, BoardDone
  PROVE  IInv'
<1>1. pc # "done" /\ NextBoard /\ pack' \subseteq Card BY DEF BoardDone, IInv, State, Types
<1>2. QED BY <1>1, NextBoardKeepsIInv

LEMMA StutterKeepsIInv ==
  ASSUME IInv, UNCHANGED vars
  PROVE  IInv'
<1>1. UNCHANGED <<fromPbn, argRules, partnerRule, board, boardNum, boardsScored, pc, pack, hands,
                  rules, dealRules, twoKnown, bidder, deal, run, tries, spack, batch,
                  handsChecked, solved, scored>>
  BY DEF vars, argVars, boardVars, dealVars, batchVars
<1>2. State'
  BY <1>1 DEF IInv, State, Types, Boards, Batches, Fresh, RulesTurned, KnownLeave, Known
<1>3. Good' BY <1>1, SamplesStay DEF IInv
<1>4. Board' BY <1>1 DEF IInv, Board
<1>5. QED BY <1>2, <1>3, <1>4 DEF IInv

LEMMA StepKeepsIInv == IInv /\ [Next]_vars => IInv'
<1>1. SUFFICES ASSUME IInv, [Next]_vars PROVE IInv' OBVIOUS
<1>2. CASE TryBoard BY <1>1, <1>2, TryBoardKeepsIInv
<1>3. CASE GiveUp BY <1>1, <1>3, GiveUpKeepsIInv
<1>4. CASE EnterPbn BY <1>1, <1>4, EnterPbnKeepsIInv
<1>5. CASE TrySample BY <1>1, <1>5, TrySampleKeepsIInv
<1>6. CASE OutOfTries BY <1>1, <1>6, OutOfTriesKeepsIInv
<1>7. CASE NoGuess BY <1>1, <1>7, NoGuessKeepsIInv
<1>8. CASE Guess BY <1>1, <1>8, GuessKeepsIInv
<1>9. CASE BoardDone BY <1>1, <1>9, BoardDoneKeepsIInv
<1>10. CASE UNCHANGED vars BY <1>1, <1>10, StutterKeepsIInv
<1>11. QED BY <1>1, <1>2, <1>3, <1>4, <1>5, <1>6, <1>7, <1>8, <1>9, <1>10 DEF Next

LEMMA Invariant == Spec => []IInv
  BY InitIInv, StepKeepsIInv, PTL DEF Spec

-----------------------------------------------------------------------------
(* The theorems.                                                           *)

(* Every variable of bidlab's dealing holds values of its kind: boards are *)
(* counted up to the number asked for, and the tries, the samples and the  *)
(* batch stay within their limits.                                         *)
THEOREM SamplingTypeCorrect == Spec => []TypeOK
<1>1. IInv => TypeOK
  <2>1. SUFFICES ASSUME IInv PROVE TypeOK OBVIOUS
  <2>2. Types /\ Boards /\ Batches BY <2>1 DEF IInv, State
  <2>3. {board, boardNum, boardsScored} \subseteq 0 .. (numBoards + 1)
    <3>1. board \in 1 .. (numBoards + 1) /\ boardsScored \in Nat /\ boardsScored <= board
          /\ boardNum \in Nat /\ boardNum <= boardsScored /\ numBoards \in Nat
      BY <2>2, Limits DEF Boards
    <3>2. QED BY <3>1
  <2>4. {handsChecked, scored} \subseteq 0 .. totHandsToCheck
    <3>1. Len(batch) \in Nat BY <2>2, LenProperties DEF Batches
    <3>2. QED BY <2>2, <3>1, Limits DEF Batches
  <2>5. QED BY <2>2, <2>3, <2>4 DEF TypeOK, Types, Batches, Deal
<1>2. QED BY <1>1, Invariant, PTL

(* Whatever tries were rejected half-way before it, every deal runs        *)
(* through the solver whole: dealAndCheck() and the restored pack give it  *)
(* four hands that share no card, hold the pack and keep the known ones.   *)
THEOREM SamplesWhole == Spec => []SamplesAreWhole
<1>1. IInv => SamplesAreWhole BY DEF IInv, Good
<1>2. QED BY <1>1, Invariant, PTL

(* Every deal the solver gets obeys, seat by seat, the rules of the        *)
(* command line and what the auction inferred of the guesser's partner,    *)
(* though suggestContract() turns the table before it deals.               *)
THEOREM SamplesObey == Spec => []SamplesObeyRules
<1>1. IInv => SamplesObeyRules BY DEF IInv, Good
<1>2. QED BY <1>1, Invariant, PTL

(* runSimulation() drops no sample and scores none twice while it has      *)
(* tries left, for any batch size and any number of samples.               *)
THEOREM BatchesAccount == Spec => []BatchAccounting
<1>1. IInv => BatchAccounting BY DEF IInv, State, Batches, BatchAccounting
<1>2. QED BY <1>1, Invariant, PTL

(* createDeal() simulates only boards that obey the command line's rules   *)
(* and the partner rule, and leaves none without hands but by giving up.   *)
THEOREM BoardsObey == Spec => []BoardObeysRules
<1>1. IInv => BoardObeysRules
  <2>1. SUFFICES ASSUME IInv PROVE BoardObeysRules OBVIOUS
  <2>2. Board /\ Fresh BY <2>1 DEF IInv, State
  <2>3. QED BY <2>2 DEF Board, Fresh, BoardObeysRules
<1>2. QED BY <1>1, Invariant, PTL

-----------------------------------------------------------------------------
(* The pack the cards are dealt from (Pack): slots in use hold no card    *)
(* twice, and behave as a set.                                             *)

PackInv == PackTypeOK /\ NoDuplicates

-----------------------------------------------------------------------------
(* Vacating a slot. *)

LEMMA VacatedFacts ==
  ASSUME PackInv, NEW i \in 0 .. (undealt - 1)
  PROVE  /\ Vacated(i) \in Array
         /\ undealt - 1 \in 0 .. PACK_SIZE
         /\ NoRepeats(Vacated(i), undealt - 1)
         /\ InUse(Vacated(i), undealt - 1) = InUse(cards, undealt) \ {cards[i]}
         /\ cards[i] \in CardCode
<1> DEFINE n == undealt
           a == Vacated(i)
<1>1. n \in Nat /\ n <= PACK_SIZE /\ PACK_SIZE \in Nat
  BY SizeAssumption DEF PackInv, PackTypeOK
<1>2. 0 .. (n - 1) \subseteq Slot /\ n - 1 \in 0 .. PACK_SIZE /\ n - 1 \in 0 .. (n - 1)
  BY <1>1 DEF Slot
<1>3. cards \in [Slot -> CardCode] BY DEF PackInv, PackTypeOK, Array
<1>4. a \in [Slot -> CardCode] BY <1>2, <1>3 DEF Vacated
<1>5. \A j \in 0 .. (n - 1) : a[j] = IF j = i THEN cards[n - 1] ELSE cards[j]
  BY <1>2, <1>3 DEF Vacated
<1>6. \A j, k \in 0 .. (n - 1) : cards[j] = cards[k] => j = k
  BY DEF PackInv, NoDuplicates, NoRepeats
<1>7. 0 .. (n - 2) \subseteq 0 .. (n - 1) /\ n - 1 \notin 0 .. (n - 2)
      /\ 0 .. (n - 1) = 0 .. (n - 2) \cup {n - 1}
  BY <1>1, <1>2
<1>8. n - 1 - 1 = n - 2 BY <1>1
<1> HIDE DEF a, n
<1>9. NoRepeats(a, n - 1)
  BY <1>2, <1>5, <1>6, <1>7, <1>8 DEF NoRepeats
<1>10. InUse(a, n - 1) = InUse(cards, n) \ {cards[i]}
  <2>1. ASSUME NEW c \in InUse(a, n - 1) PROVE c \in InUse(cards, n) \ {cards[i]}
    <3>1. PICK j \in 0 .. (n - 2) : c = a[j] BY <2>1, <1>8 DEF InUse
    <3>2. CASE j = i BY <3>1, <3>2, <1>2, <1>5, <1>6, <1>7 DEF InUse, n
    <3>3. CASE j # i BY <3>1, <3>3, <1>2, <1>5, <1>6, <1>7 DEF InUse, n
    <3>4. QED BY <3>2, <3>3
  <2>2. ASSUME NEW c \in InUse(cards, n) \ {cards[i]} PROVE c \in InUse(a, n - 1)
    <3>1. PICK j \in 0 .. (n - 1) : c = cards[j] /\ j # i BY <2>2 DEF InUse
    <3>2. CASE j = n - 1
      <4>1. i \in 0 .. (n - 2) /\ a[i] = c BY <3>1, <3>2, <1>5, <1>7 DEF n
      <4>2. QED BY <4>1, <1>8 DEF InUse
    <3>3. CASE j # n - 1
      <4>1. j \in 0 .. (n - 2) /\ a[j] = c BY <3>1, <3>3, <1>5, <1>7
      <4>2. QED BY <4>1, <1>8 DEF InUse
    <3>4. QED BY <3>2, <3>3
  <2>3. QED BY <2>1, <2>2
<1>11. cards[i] \in CardCode BY <1>2, <1>3 DEF n
<1>12. QED BY <1>2, <1>4, <1>9, <1>10, <1>11 DEF a, n, Array

(* Where rem_card() looks, it finds the card. *)
LEMMA FoundFacts ==
  ASSUME PackInv, NEW c \in CardCode
  PROVE  /\ InPack(c) <=> c \in InUse(cards, undealt)
         /\ InPack(c) => Found(c) \in 0 .. (undealt - 1) /\ cards[Found(c)] = c
<1>1. Slots(c) # {} <=> c \in InUse(cards, undealt)
  BY DEF Slots, InUse
<1>2. undealt \in Nat /\ c \in Nat BY DEF PackInv, PackTypeOK, CardCode
<1>3. Likely(c) => c \in Slots(c)
  BY <1>2 DEF Likely, Slots
<1>4. ASSUME InPack(c), ~ Likely(c)
      PROVE  Found(c) \in Slots(c)
  <2>1. PICK i \in Slots(c) : TRUE BY <1>4 DEF InPack
  <2>2. \A j \in Slots(c) : i <= j
    <3>1. \A j \in Slots(c) : j = i
      BY <2>1 DEF Slots, PackInv, NoDuplicates, NoRepeats
    <3>2. i \in Int BY <2>1 DEF Slots
    <3>3. QED BY <3>1, <3>2
  <2>3. QED BY <1>4, <2>2 DEF Found
<1>5. InPack(c) => Found(c) \in Slots(c)
  BY <1>3, <1>4 DEF Found
<1>6. QED BY <1>1, <1>3, <1>5 DEF InPack, Slots

-----------------------------------------------------------------------------
LEMMA InitPackInv == PackInit => PackInv
<1> SUFFICES ASSUME PackInit PROVE PackInv OBVIOUS
<1>1. 0 \in CardCode /\ 0 \in 0 .. PACK_SIZE BY SizeAssumption DEF CardCode
<1>2. cards \in [Slot -> CardCode] BY <1>1 DEF PackInit
<1>3. PackTypeOK BY <1>1, <1>2 DEF PackInit, PackTypeOK, Array
<1>4. NoDuplicates BY DEF PackInit, NoDuplicates, NoRepeats
<1>5. QED BY <1>3, <1>4 DEF PackInv

LEMMA StepPackInv ==
  ASSUME PackInv, [PackNext]_packVars
  PROVE  PackInv'
<1>1. CASE reshuffle
  <2>1. \A j \in Slot : j \in CardCode BY DEF Slot, CardCode
  <2>2. InOrder \in [Slot -> CardCode] BY <2>1 DEF InOrder
  <2>3. PACK_SIZE \in 0 .. PACK_SIZE BY SizeAssumption
  <2>4. PackTypeOK' BY <1>1, <2>2, <2>3 DEF reshuffle, PackInv, PackTypeOK, Array
  <2>5. \A j \in 0 .. (PACK_SIZE - 1) : InOrder[j] = j BY DEF InOrder, Slot
  <2>6. NoRepeats(InOrder, PACK_SIZE) BY <2>5 DEF NoRepeats
  <2>7. NoDuplicates' BY <1>1, <2>6 DEF reshuffle, PackInv, NoDuplicates
  <2>8. QED BY <2>4, <2>7 DEF PackInv
<1>2. CASE deal_card
  <2>1. PICK i \in 0 .. (undealt - 1) :
          card' = cards[i] /\ cards' = Vacated(i) /\ undealt' = undealt - 1
    BY <1>2 DEF deal_card
  <2>2. PackTypeOK' BY <1>2, <2>1, VacatedFacts DEF deal_card, PackInv, PackTypeOK
  <2>3. NoDuplicates' BY <1>2, <2>1, VacatedFacts DEF deal_card, PackInv, NoDuplicates
  <2>4. QED BY <2>2, <2>3 DEF PackInv
<1>3. ASSUME NEW c \in CardCode, rem_card(c) PROVE PackInv'
  <2>1. CASE InPack(c)
    <3>1. Found(c) \in 0 .. (undealt - 1) BY <2>1, FoundFacts
    <3>2. /\ asked' = c /\ card' = c /\ cards' = Vacated(Found(c))
          /\ undealt' = undealt - 1 /\ saved' = saved
      BY <1>3, <2>1 DEF rem_card
    <3>3. PackTypeOK' BY <3>1, <3>2, VacatedFacts DEF PackInv, PackTypeOK
    <3>4. NoDuplicates' BY <3>1, <3>2, VacatedFacts DEF PackInv, NoDuplicates
    <3>5. QED BY <3>3, <3>4 DEF PackInv
  <2>2. CASE ~ InPack(c)
    BY <1>3, <2>2 DEF rem_card, PackInv, PackTypeOK, NoDuplicates
  <2>3. QED BY <2>1, <2>2
<1>4. CASE save_pack
  <2>1. saved' = [cards |-> cards, undealt |-> undealt]
        /\ saved' \in [cards: Array, undealt: 0 .. PACK_SIZE]
    BY <1>4 DEF save_pack, PackInv, PackTypeOK
  <2>2. PackTypeOK' BY <1>4, <2>1 DEF save_pack, PackInv, PackTypeOK
  <2>3. NoDuplicates' BY <1>4, <2>1 DEF save_pack, PackInv, NoDuplicates
  <2>4. QED BY <2>2, <2>3 DEF PackInv
<1>5. CASE restore_pack
  BY <1>5, NullAssumption DEF restore_pack, PackInv, PackTypeOK, NoDuplicates
<1>6. CASE UNCHANGED packVars
  BY <1>6 DEF packVars, PackInv, PackTypeOK, NoDuplicates
<1>7. QED BY <1>1, <1>2, <1>3, <1>4, <1>5, <1>6 DEF PackNext

(* Whatever is dealt, removed, saved and restored, no card is in two of    *)
(* the slots in use.                                                       *)
THEOREM NeverTwice == PackSpec => []NoDuplicates
<1>1. PackInv /\ [PackNext]_packVars => PackInv' BY StepPackInv
<1>2. PackInv => NoDuplicates BY DEF PackInv
<1>3. QED BY InitPackInv, <1>1, <1>2, PTL DEF PackSpec

-----------------------------------------------------------------------------
(* The refinement. *)

LEMMA InitIsASet == PackInit => AsSet!PInit
  BY DEF PackInit, AsSet!PInit, InUse, AnyCard, Missing, AsSet!AnyCard, AsSet!Missing

LEMMA StepIsASet ==
  ASSUME PackInv, [PackNext]_packVars
  PROVE  [AsSet!PNext]_(AsSet!pvars)
<1> DEFINE R == InUse(cards, undealt)
           K == IF saved = NULL THEN NULL ELSE InUse(saved.cards, saved.undealt)
<1>1. CASE reshuffle
  <2>1. \A j \in 0 .. (PACK_SIZE - 1) : InOrder[j] = j BY DEF InOrder, Slot
  <2>2. InUse(InOrder, PACK_SIZE) = CardCode BY <2>1 DEF InUse, CardCode
  <2>3. AsSet!Refill BY <1>1, <2>2 DEF reshuffle, AsSet!Refill, AsSet!Card, CardCode
  <2>4. QED BY <2>3 DEF AsSet!PNext
<1>2. CASE deal_card
  <2>1. PICK i \in 0 .. (undealt - 1) :
          card' = cards[i] /\ cards' = Vacated(i) /\ undealt' = undealt - 1
    BY <1>2 DEF deal_card
  <2>2. cards[i] \in R BY DEF InUse
  <2>3. R' = R \ {cards[i]} BY <2>1, VacatedFacts
  <2>4. asked' = AsSet!AnyCard /\ K' = K BY <1>2 DEF deal_card, AnyCard, AsSet!AnyCard
  <2>5. AsSet!TakeAny BY <2>1, <2>2, <2>3, <2>4 DEF AsSet!TakeAny
  <2>6. QED BY <2>5 DEF AsSet!PNext
<1>3. ASSUME NEW c \in CardCode, rem_card(c) PROVE AsSet!PNext
  <2>1. asked' = c /\ K' = K BY <1>3 DEF rem_card
  <2>2. card' = (IF c \in R THEN c ELSE AsSet!Missing) /\ R' = R \ {c}
    <3>1. CASE InPack(c)
      <4>1. Found(c) \in 0 .. (undealt - 1) /\ cards[Found(c)] = c /\ c \in R
        BY <3>1, FoundFacts
      <4>2. card' = c /\ cards' = Vacated(Found(c)) /\ undealt' = undealt - 1
        BY <1>3, <3>1 DEF rem_card
      <4>3. QED BY <4>1, <4>2, VacatedFacts
    <3>2. CASE ~ InPack(c)
      <4>1. c \notin R BY <3>2, FoundFacts
      <4>2. card' = Missing /\ R' = R BY <1>3, <3>2 DEF rem_card
      <4>3. QED BY <4>1, <4>2 DEF Missing, AsSet!Missing
    <3>3. QED BY <3>1, <3>2
  <2>3. c \in AsSet!Card BY DEF CardCode, AsSet!Card
  <2>4. AsSet!TakeThis BY <2>1, <2>2, <2>3 DEF AsSet!TakeThis
  <2>5. QED BY <2>4 DEF AsSet!PNext
<1>4. CASE save_pack
  <2>1. saved' = [cards |-> cards, undealt |-> undealt] /\ saved' # NULL
    <3>1. [cards |-> cards, undealt |-> undealt] \in [cards: Array, undealt: 0 .. PACK_SIZE]
      BY DEF PackInv, PackTypeOK
    <3>2. QED BY <1>4, <3>1, NullAssumption DEF save_pack
  <2>2. K' = R /\ R' = R BY <1>4, <2>1 DEF save_pack
  <2>3. AsSet!Keep BY <1>4, <2>2 DEF save_pack, AsSet!Keep
  <2>4. QED BY <2>3 DEF AsSet!PNext
<1>5. CASE restore_pack
  <2>1. K # NULL
    <3>1. saved \in [cards: Array, undealt: 0 .. PACK_SIZE]
      BY <1>5 DEF restore_pack, PackInv, PackTypeOK
    <3>2. 0 .. (saved.undealt - 1) \subseteq Slot /\ saved.cards \in [Slot -> CardCode]
      BY <3>1, SizeAssumption DEF Slot, Array
    <3>3. InUse(saved.cards, saved.undealt) \in SUBSET CardCode BY <3>2 DEF InUse
    <3>4. QED BY <1>5, <3>3, NullAssumption DEF restore_pack
  <2>2. R' = K /\ K' = K BY <1>5 DEF restore_pack
  <2>3. AsSet!PutBack BY <1>5, <2>1, <2>2 DEF restore_pack, AsSet!PutBack
  <2>4. QED BY <2>3 DEF AsSet!PNext
<1>6. CASE UNCHANGED packVars
  BY <1>6 DEF packVars, AsSet!pvars
<1>7. QED BY <1>1, <1>2, <1>3, <1>4, <1>5, <1>6 DEF PackNext

(* The array behaves as a set of cards. *)
THEOREM PackIsASet == PackSpec => ImplementsSet
<1>1. PackInv /\ [PackNext]_packVars => PackInv' BY StepPackInv
<1>2. PackInv /\ [PackNext]_packVars => [AsSet!PNext]_(AsSet!pvars) BY StepIsASet
<1>3. QED BY InitPackInv, InitIsASet, <1>1, <1>2, PTL DEF PackSpec, ImplementsSet, AsSet!PSpec
=============================================================================
