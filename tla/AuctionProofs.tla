--------------------------- MODULE AuctionProofs ---------------------------
(***************************************************************************)
(* The walk of the tree, the invariants of Auction and what --validate     *)
(* says of it, proved for all trees, run lists and score tables.           *)
(***************************************************************************)
EXTENDS ValidationProperties, SequenceTheorems, WellFoundedInduction, TLAPS

-----------------------------------------------------------------------------
(* The rule algebra and the walk of the tree.                              *)

(* FirstOf() is the least element of a set of positions. *)
LEMMA FirstOfLeast ==
  ASSUME NEW I \in SUBSET Nat, I # {}
  PROVE  FirstOf(I) \in I /\ \A j \in I : FirstOf(I) <= j
<1>1. \E less : IsWellFoundedOn(less, Nat) /\ \A i, j \in Nat : (<<j, i>> \in less) <=> j < i
  <2>1. \A i, j \in Nat : (<<j, i>> \in OpToRel(<, Nat)) <=> j < i
    BY Zenon DEF OpToRel
  <2>2. QED BY <2>1, NatLessThanWellFounded, Zenon
<1>2. PICK less : /\ IsWellFoundedOn(less, Nat)
                  /\ \A i, j \in Nat : (<<j, i>> \in less) <=> j < i
  BY <1>1
<1>3. PICK i \in I : \A j \in I : ~ (<<j, i>> \in less)
  BY <1>2, WFMin
<1>4. \A j \in I : ~ (j < i)
  BY <1>2, <1>3, Zenon
<1>5. \A j \in I : i <= j
  BY <1>4
<1>6. QED BY <1>5 DEF FirstOf

(* There is only one least element. *)
LEMMA FirstOfUnique ==
  ASSUME NEW I \in SUBSET Nat, NEW i \in I, \A j \in I : i <= j
  PROVE  FirstOf(I) = i
<1>1. FirstOf(I) \in I /\ FirstOf(I) <= i
  BY FirstOfLeast
<1>2. FirstOf(I) \in Nat /\ i \in Nat /\ i <= FirstOf(I)
  BY <1>1
<1>3. QED BY <1>1, <1>2

-----------------------------------------------------------------------------
LEMMA AnyRuleType == AnyRule \in RulePtr /\ Ext(AnyRule) = Hand
  BY TreeAssumption DEF AnyRule, RulePtr, Rule, Ext

LEMMA ExtType ==
  ASSUME NEW r \in RulePtr
  PROVE  Ext(r) \subseteq Hand
  BY DEF Ext, RulePtr, Rule

LEMMA CombineType ==
  ASSUME NEW l \in RulePtr, NEW r \in RulePtr
  PROVE  combineRule(l, r) \in RulePtr
<1>1. CASE l = NULL BY <1>1 DEF combineRule
<1>2. CASE r = NULL BY <1>2 DEF combineRule
<1>3. CASE l # NULL /\ r # NULL BY <1>3 DEF combineRule, RulePtr, Rule
<1>4. QED BY <1>1, <1>2, <1>3

(* combineRule() is the conjunction of its operands, also when it drops    *)
(* both because they are trivially true.                                   *)
LEMMA CombineExt ==
  ASSUME NEW l \in RulePtr, NEW r \in RulePtr
  PROVE  Ext(combineRule(l, r)) = Ext(l) \cap Ext(r)
<1>1. CASE l = NULL BY <1>1, ExtType DEF combineRule, Ext
<1>2. CASE r = NULL BY <1>2, ExtType DEF combineRule, Ext
<1>3. CASE l # NULL /\ r # NULL
  <2>1. CASE l.top /\ r.top BY <1>3, <2>1 DEF combineRule, RulePtr, Rule, Ext
  <2>2. CASE ~ (l.top /\ r.top)
    <3>1. combineRule(l, r) = [ext |-> l.ext \cap r.ext, top |-> FALSE]
      BY <1>3, <2>2 DEF combineRule
    <3>2. combineRule(l, r) # NULL
      <4>1. l.ext \cap r.ext \in SUBSET Hand BY <1>3 DEF RulePtr, Rule
      <4>2. [ext |-> l.ext \cap r.ext, top |-> FALSE] \in Rule BY <4>1 DEF Rule
      <4>3. QED BY <3>1, <4>2, TreeAssumption
    <3>3. QED BY <1>3, <3>1, <3>2 DEF Ext
  <2>3. QED BY <2>1, <2>2
<1>4. QED BY <1>1, <1>2, <1>3

-----------------------------------------------------------------------------
(* The typing of a tree, unfolded. *)
LEMMA TreeType ==
  ASSUME NEW t, WellFormed(t), NEW n \in Node
  PROVE  /\ t.kids[n] \in Seq(Node)
         /\ DOMAIN t.kids[n] \in SUBSET Nat
         /\ \A i \in DOMAIN t.kids[n] : t.kids[n][i] \in Node
         /\ t.rule[n] \in RulePtr
         /\ t.call[n] \in Call
  BY DEF WellFormed, Tree

LEMMA NegatedKidsExt ==
  ASSUME NEW t, WellFormed(t), NEW n \in Node, NEW I \in SUBSET DOMAIN t.kids[n]
  PROVE  /\ NegatedKids(t, n, I) \in RulePtr
         /\ Ext(NegatedKids(t, n, I)) =
              {h \in Hand : \A i \in I : Ruled(t, t.kids[n][i]) =>
                              ~ checkHand(h, t.rule[t.kids[n][i]])}
<1> DEFINE ruled == {i \in I : Ruled(t, t.kids[n][i])}
           neg   == [ext |-> {h \in Hand : \A i \in ruled : h \notin t.rule[t.kids[n][i]].ext},
                     top |-> FALSE]
<1>1. CASE ruled = {}
  BY <1>1 DEF NegatedKids, RulePtr, Ext
<1>2. CASE ruled # {}
  <2>1. NegatedKids(t, n, I) = neg BY <1>2 DEF NegatedKids
  <2>2. neg \in Rule BY DEF Rule
  <2>3. neg # NULL BY <2>2, TreeAssumption
  <2>4. \A i \in ruled : Ext(t.rule[t.kids[n][i]]) = t.rule[t.kids[n][i]].ext
    BY DEF Ext, Ruled
  <2>5. QED BY <2>1, <2>2, <2>3, <2>4 DEF RulePtr, Ext, checkHand
<1>3. QED BY <1>1, <1>2

(* The first match at a node, when there is one. *)
LEMMA FirstMatching ==
  ASSUME NEW t, WellFormed(t), NEW n \in Node, NEW h \in Hand, Matching(t, n, h) # {}
  PROVE  LET i == FirstOf(Matching(t, n, h))
         IN  /\ i \in DOMAIN t.kids[n]
             /\ i \in Matching(t, n, h)
             /\ \A j \in Matching(t, n, h) : i <= j
<1>1. Matching(t, n, h) \in SUBSET Nat BY TreeType DEF Matching
<1>2. QED BY <1>1, FirstOfLeast DEF Matching

(* Which hands choose the kid at position i of n: those that its rule      *)
(* accepts and no earlier sibling's does.                                  *)
LEMMA ChoosesKid ==
  ASSUME NEW t, WellFormed(t), NEW n \in Node, NEW i \in DOMAIN t.kids[n],
         Ruled(t, t.kids[n][i]), NEW h \in Hand
  PROVE  (h \in Ext(negatedEarlierSiblings(t, n, i)) /\ h \in Ext(t.rule[t.kids[n][i]]))
           <=> (Matching(t, n, h) # {} /\ FirstOf(Matching(t, n, h)) = i)
<1>0. t.kids[n] \in Seq(Node) /\ DOMAIN t.kids[n] = 1 .. Len(t.kids[n])
      /\ Len(t.kids[n]) \in Nat
  BY TreeType
<1>1. 1 .. (i - 1) \in SUBSET DOMAIN t.kids[n]
  BY <1>0
<1>2. h \in Ext(negatedEarlierSiblings(t, n, i)) <=>
        \A j \in 1 .. (i - 1) : j \notin Matching(t, n, h)
  <2>1. Ext(NegatedKids(t, n, 1 .. (i - 1))) =
          {g \in Hand : \A j \in 1 .. (i - 1) : Ruled(t, t.kids[n][j]) =>
                          ~ checkHand(g, t.rule[t.kids[n][j]])}
    BY <1>1, NegatedKidsExt
  <2>2. \A j \in 1 .. (i - 1) : j \in DOMAIN t.kids[n]
    BY <1>1
  <2>3. QED BY <2>1, <2>2 DEF negatedEarlierSiblings, Matching
<1>3. h \in Ext(t.rule[t.kids[n][i]]) <=> i \in Matching(t, n, h)
  BY DEF Matching, checkHand
<1>4. Matching(t, n, h) \in SUBSET (1 .. Len(t.kids[n]))
  BY <1>0 DEF Matching
<1>5. ASSUME i \in Matching(t, n, h), \A j \in 1 .. (i - 1) : j \notin Matching(t, n, h)
      PROVE  FirstOf(Matching(t, n, h)) = i
  <2>1. \A j \in Matching(t, n, h) : i <= j BY <1>0, <1>4, <1>5
  <2>2. QED BY <1>4, <1>5, <2>1, FirstOfUnique
<1>6. ASSUME Matching(t, n, h) # {}, FirstOf(Matching(t, n, h)) = i
      PROVE  i \in Matching(t, n, h) /\ \A j \in 1 .. (i - 1) : j \notin Matching(t, n, h)
  <2>1. i \in Matching(t, n, h) /\ \A j \in Matching(t, n, h) : i <= j
    BY <1>6, FirstMatching
  <2>2. QED BY <1>0, <2>1
<1>7. QED BY <1>2, <1>3, <1>5, <1>6

(* What is inferred from a node is inferred from the hands that match none *)
(* of its kids.                                                            *)
LEMMA MissesAll ==
  ASSUME NEW t, WellFormed(t), NEW n \in Node
  PROVE  /\ negatedAllChildren(t, n) \in RulePtr
         /\ \A g \in Hand : g \in Ext(negatedAllChildren(t, n)) <=> Matching(t, n, g) = {}
<1>1. Ext(NegatedKids(t, n, DOMAIN t.kids[n])) =
        {g \in Hand : \A i \in DOMAIN t.kids[n] : Ruled(t, t.kids[n][i]) =>
                        ~ checkHand(g, t.rule[t.kids[n][i]])}
  BY NegatedKidsExt
<1>2. NegatedKids(t, n, DOMAIN t.kids[n]) \in RulePtr
  BY NegatedKidsExt
<1>3. QED BY <1>1, <1>2 DEF negatedAllChildren, Matching

(* Kids of one node differ, and no node is a kid of two. *)
LEMMA KidsDiffer ==
  ASSUME NEW t, WellFormed(t), NEW n \in Node, NEW m \in Node,
         NEW i \in DOMAIN t.kids[n], NEW j \in DOMAIN t.kids[m],
         t.kids[n][i] = t.kids[m][j]
  PROVE  n = m /\ i = j
<1>1. t.kids[n][i] \in Kids(t, n) /\ t.kids[m][j] \in Kids(t, m) BY DEF Kids
<1>2. n = m BY <1>1 DEF WellFormed
<1>3. QED BY <1>2 DEF WellFormed

(* The call a hand makes does not depend on what was inferred before it. *)
LEMMA WhichMatch ==
  ASSUME NEW t, NEW n, NEW p, NEW g, NEW acc
  PROVE  LET s == findMatchingChild(t, n, p, g, acc).match
         IN  /\ Matching(t, n, g) # {} => s = t.kids[n][FirstOf(Matching(t, n, g))]
             /\ Matching(t, n, g) = {} /\ (p /\ n # Root) /\ Matching(t, Root, g) # {} =>
                  s = t.kids[Root][FirstOf(Matching(t, Root, g))]
             /\ Matching(t, n, g) = {} /\ ~ ((p /\ n # Root) /\ Matching(t, Root, g) # {}) =>
                  s = NULL
<1>1. CASE Matching(t, n, g) # {}
  BY <1>1 DEF findMatchingChild, MatchAt
<1>2. CASE Matching(t, n, g) = {} /\ (p /\ n # Root) /\ Matching(t, Root, g) # {}
  BY <1>2 DEF findMatchingChild, MatchAt
<1>3. CASE Matching(t, n, g) = {} /\ ~ ((p /\ n # Root) /\ Matching(t, Root, g) # {})
  BY <1>3 DEF findMatchingChild
<1>4. QED BY <1>1, <1>2, <1>3

(* A call narrows the caller's rule to exactly the hands that would have   *)
(* made that call there.                                                   *)
LEMMA MatchExact ==
  ASSUME NEW t, WellFormed(t), NEW n \in Node, NEW p \in BOOLEAN, NEW h \in Hand,
         NEW acc \in RulePtr, findMatchingChild(t, n, p, h, acc).match # NULL
  PROVE  LET f == findMatchingChild(t, n, p, h, acc)
             r == combineRule(f.acc, t.rule[f.match])
         IN  /\ f.match \in Node
             /\ Ruled(t, f.match)
             /\ r \in RulePtr
             /\ Ext(r) = Ext(acc) \cap
                           {g \in Hand : findMatchingChild(t, n, p, g, NULL).match = f.match}
<1> DEFINE f == findMatchingChild(t, n, p, h, acc)
           r == combineRule(f.acc, t.rule[f.match])
           Same(g) == findMatchingChild(t, n, p, g, NULL).match = f.match
<1> SUFFICES /\ f.match \in Node /\ Ruled(t, f.match) /\ r \in RulePtr
             /\ Ext(r) = Ext(acc) \cap {g \in Hand : Same(g)}
  OBVIOUS
<1>0. Root \in Node /\ NULL \notin Node BY TreeAssumption
<1>1. ASSUME NEW m \in Node, NEW i \in DOMAIN t.kids[m], NEW q \in RulePtr,
             i \in Matching(t, m, h), f.match = t.kids[m][i],
             f.acc = combineRule(q, negatedEarlierSiblings(t, m, i)),
             \A g \in Hand : g \in Ext(q) /\ Matching(t, m, g) # {} /\ FirstOf(Matching(t, m, g)) = i
                              <=> g \in Ext(acc) /\ Same(g)
      PROVE  /\ f.match \in Node /\ Ruled(t, f.match) /\ r \in RulePtr
             /\ Ext(r) = Ext(acc) \cap {g \in Hand : Same(g)}
  <2>1. t.kids[m][i] \in Node /\ Ruled(t, t.kids[m][i])
    BY <1>1, TreeType DEF Matching
  <2>2. t.rule[t.kids[m][i]] \in RulePtr BY <2>1, TreeType
  <2> DEFINE e == negatedEarlierSiblings(t, m, i)
  <2>3. e \in RulePtr
    <3>1. t.kids[m] \in Seq(Node) BY TreeType
    <3>2. 1 .. (i - 1) \in SUBSET DOMAIN t.kids[m] BY <3>1
    <3>3. QED BY <3>2, NegatedKidsExt DEF negatedEarlierSiblings
  <2>4. f.acc \in RulePtr /\ Ext(f.acc) = Ext(q) \cap Ext(e)
    BY <1>1, <2>3, CombineType, CombineExt
  <2>5. r \in RulePtr /\ Ext(r) = Ext(f.acc) \cap Ext(t.rule[t.kids[m][i]])
    BY <1>1, <2>2, <2>4, CombineType, CombineExt
  <2>6. \A g \in Hand : (g \in Ext(e) /\ g \in Ext(t.rule[t.kids[m][i]]))
                          <=> (Matching(t, m, g) # {} /\ FirstOf(Matching(t, m, g)) = i)
    BY <2>1, ChoosesKid
  <2>7. Ext(r) \subseteq Hand /\ Ext(acc) \subseteq Hand BY <2>5, ExtType
  <2> HIDE DEF r, e, f, Same
  <2>8. \A g \in Hand : g \in Ext(r) <=> g \in Ext(acc) /\ Same(g)
    BY <1>1, <2>4, <2>5, <2>6
  <2>9. QED BY <1>1, <2>1, <2>5, <2>7, <2>8
<1>2. CASE Matching(t, n, h) # {}
  <2> DEFINE i == FirstOf(Matching(t, n, h))
  <2>1. i \in DOMAIN t.kids[n] /\ i \in Matching(t, n, h) BY <1>2, FirstMatching
  <2>2. f = [match |-> t.kids[n][i],
             acc |-> combineRule(acc, negatedEarlierSiblings(t, n, i))]
    BY <1>2 DEF findMatchingChild, MatchAt
  <2>3. ASSUME NEW g \in Hand
        PROVE  (Matching(t, n, g) # {} /\ FirstOf(Matching(t, n, g)) = i) <=> Same(g)
    <3>1. CASE Matching(t, n, g) # {}
      <4>1. Same(g) <=> t.kids[n][FirstOf(Matching(t, n, g))] = t.kids[n][i]
        BY <2>2, <3>1, WhichMatch
      <4>2. FirstOf(Matching(t, n, g)) \in DOMAIN t.kids[n] BY <3>1, FirstMatching
      <4>3. QED BY <2>1, <3>1, <4>1, <4>2, KidsDiffer
    <3>2. CASE Matching(t, n, g) = {} /\ (p /\ n # Root) /\ Matching(t, Root, g) # {}
      <4>0. findMatchingChild(t, n, p, g, NULL).match = t.kids[Root][FirstOf(Matching(t, Root, g))]
        BY <3>2 DEF findMatchingChild, MatchAt
      <4>1. Same(g) <=> t.kids[Root][FirstOf(Matching(t, Root, g))] = t.kids[n][i]
        BY <2>2, <4>0
      <4>2. FirstOf(Matching(t, Root, g)) \in DOMAIN t.kids[Root]
        BY <1>0, <3>2, FirstMatching
      <4>3. QED BY <1>0, <2>1, <3>2, <4>1, <4>2, KidsDiffer
    <3>3. CASE Matching(t, n, g) = {} /\ ~ ((p /\ n # Root) /\ Matching(t, Root, g) # {})
      <4>1. Same(g) <=> NULL = t.kids[n][i]
        BY <2>2, <3>3, WhichMatch
      <4>2. t.kids[n][i] \in Node BY <2>1, TreeType
      <4>3. QED BY <1>0, <3>3, <4>1, <4>2
    <3>4. QED BY <3>1, <3>2, <3>3
  <2>4. f.match = t.kids[n][i] /\ f.acc = combineRule(acc, negatedEarlierSiblings(t, n, i))
    BY <2>2
  <2> HIDE DEF i, f, r, Same
  <2>5. QED BY <1>1, <2>1, <2>3, <2>4
<1>3. CASE Matching(t, n, h) = {} /\ (p /\ n # Root) /\ Matching(t, Root, h) # {}
  <2> DEFINE i == FirstOf(Matching(t, Root, h))
             q == combineRule(acc, negatedAllChildren(t, n))
  <2>1. i \in DOMAIN t.kids[Root] /\ i \in Matching(t, Root, h)
    BY <1>0, <1>3, FirstMatching
  <2>2. f = [match |-> t.kids[Root][i],
             acc |-> combineRule(q, negatedEarlierSiblings(t, Root, i))]
    BY <1>3 DEF findMatchingChild, MatchAt
  <2>3. q \in RulePtr /\ \A g \in Hand : g \in Ext(q) <=> g \in Ext(acc) /\ Matching(t, n, g) = {}
    BY MissesAll, CombineType, CombineExt
  <2>4. ASSUME NEW g \in Hand
        PROVE  (Matching(t, n, g) = {} /\ Matching(t, Root, g) # {} /\ FirstOf(Matching(t, Root, g)) = i)
                 <=> Same(g)
    <3>1. CASE Matching(t, n, g) # {}
      <4>1. Same(g) <=> t.kids[n][FirstOf(Matching(t, n, g))] = t.kids[Root][i]
        BY <2>2, <3>1, WhichMatch
      <4>2. FirstOf(Matching(t, n, g)) \in DOMAIN t.kids[n] BY <3>1, FirstMatching
      <4>3. QED BY <1>0, <1>3, <2>1, <3>1, <4>1, <4>2, KidsDiffer
    <3>2. CASE Matching(t, n, g) = {} /\ (p /\ n # Root) /\ Matching(t, Root, g) # {}
      <4>0. findMatchingChild(t, n, p, g, NULL).match = t.kids[Root][FirstOf(Matching(t, Root, g))]
        BY <3>2 DEF findMatchingChild, MatchAt
      <4>1. Same(g) <=> t.kids[Root][FirstOf(Matching(t, Root, g))] = t.kids[Root][i]
        BY <2>2, <4>0
      <4>2. FirstOf(Matching(t, Root, g)) \in DOMAIN t.kids[Root]
        BY <1>0, <3>2, FirstMatching
      <4>3. QED BY <1>0, <2>1, <3>2, <4>1, <4>2, KidsDiffer
    <3>3. CASE Matching(t, n, g) = {} /\ ~ ((p /\ n # Root) /\ Matching(t, Root, g) # {})
      <4>1. Same(g) <=> NULL = t.kids[Root][i]
        BY <2>2, <3>3, WhichMatch
      <4>2. t.kids[Root][i] \in Node BY <1>0, <2>1, TreeType
      <4>3. QED BY <1>0, <1>3, <3>3, <4>1, <4>2
    <3>4. QED BY <3>1, <3>2, <3>3
  <2>5. \A g \in Hand : g \in Ext(q) /\ Matching(t, Root, g) # {} /\ FirstOf(Matching(t, Root, g)) = i
                         <=> g \in Ext(acc) /\ Same(g)
    <3> HIDE DEF i, q, Same
    <3>1. QED BY <2>3, <2>4
  <2>6. f.match = t.kids[Root][i] /\ f.acc = combineRule(q, negatedEarlierSiblings(t, Root, i))
    BY <2>2
  <2> HIDE DEF i, q, f, r, Same
  <2>7. QED BY <1>0, <1>1, <2>1, <2>3, <2>5, <2>6
<1>4. CASE Matching(t, n, h) = {} /\ ~ ((p /\ n # Root) /\ Matching(t, Root, h) # {})
  BY <1>4, WhichMatch
<1>5. QED BY <1>2, <1>3, <1>4
-----------------------------------------------------------------------------
(* The invariant.                                                          *)

(* The write position never runs past the text by more than the one byte   *)
(* that outputResults() takes back: without it Written() cuts the text out *)
(* of nothing and TypeOK is not inductive.                                 *)
TextFits ==
  /\ pc = "bidding" => nextBidp <= Len(bidStr)
  /\ pc = "closed"  => nextBidp <= Len(bidStr) + 1

IInv == TypeOK /\ TextFits

-----------------------------------------------------------------------------
(* Facts about the encoding of calls and the constants. *)

LEMMA CallFacts ==
  /\ bidPass \in Call
  /\ Call \subseteq Int
  /\ Call \subseteq BestBid
  /\ Call \subseteq Token
  /\ Dash \in Token /\ AP \in Token
  /\ \A b \in BestBid : bidStrain(b) \in Strain /\ (b = bidNotFound \/ b >= bidPass)
  /\ \A s \in Seat : nextBidder(s) \in Seat
  BY MaxBidAssumption
  DEF Call, BestBid, bidPass, bidNotFound, Token, Dash, AP, bidStrain, Strain,
      Seat, nextBidder, posNorth, posSouth

LEMMA StartFacts ==
  /\ posNorth \in Seat /\ bidNotFound \in BestBid /\ AnyRule \in RulePtr /\ Root \in Node
  /\ <<>> \in Seq(Token) /\ <<>> \in Seq(Nat) /\ <<>> \in Seq(Decision)
  BY MaxBidAssumption, TreeAssumption, AnyRuleType
  DEF Seat, posNorth, BestBid, bidNotFound

LEMMA TreeOfRun ==
  ASSUME TypeOK
  PROVE  WellFormed(tree)
  BY RunsAssumption DEF TypeOK, tree

(* A prefix of the text is a text. *)
LEMMA PrefixType ==
  ASSUME NEW s \in Seq(Token), NEW k \in Nat, k <= Len(s)
  PROVE  SubSeq(s, 1, k) \in Seq(Token) /\ Len(SubSeq(s, 1, k)) = k
<1>1. CASE k = 0 BY <1>1, SubSeqProperties
<1>2. CASE k > 0
  <2>1. 1 \in 1 .. Len(s) + 1 /\ k \in 0 .. Len(s) BY <1>2
  <2>2. QED BY <1>2, <2>1, SubSeqProperties
<1>3. QED BY <1>1, <1>2

LEMMA WrittenType ==
  ASSUME IInv, pc = "bidding", NEW t \in Seq(Token)
  PROVE  Written(t) \in Seq(Token) /\ Len(Written(t)) = nextBidp + Len(t)
<1>1. SubSeq(bidStr, 1, nextBidp) \in Seq(Token)
      /\ Len(SubSeq(bidStr, 1, nextBidp)) = nextBidp
  BY PrefixType DEF IInv, TypeOK, TextFits
<1>2. QED BY <1>1, ConcatProperties DEF Written

LEMMA WithoutDashType ==
  ASSUME NEW s \in Seq(Token)
  PROVE  WithoutDash(s) \in Seq(Token)
<1>1. CASE Len(s) > 0
  <2>1. Len(s) - 1 \in Nat /\ Len(s) - 1 <= Len(s) BY <1>1, LenProperties
  <2>2. QED BY <2>1, PrefixType DEF WithoutDash
<1>2. CASE ~ (Len(s) > 0) BY <1>2 DEF WithoutDash
<1>3. QED BY <1>1, <1>2

LEMMA StrippedType ==
  ASSUME IInv, pc = "closed"
  PROVE  Stripped \in Seq(Token)
<1>1. CASE nextBidp > 0
  <2>1. nextBidp - 1 \in Nat /\ nextBidp - 1 <= Len(bidStr)
    BY <1>1, LenProperties DEF IInv, TypeOK, TextFits
  <2>2. QED BY <1>1, <2>1, PrefixType DEF IInv, TypeOK, Stripped
<1>2. CASE ~ (nextBidp > 0) BY <1>2 DEF IInv, TypeOK, Stripped
<1>3. QED BY <1>1, <1>2

(* Growing and bumping a coverage counter. *)
LEMMA TallyType ==
  ASSUME NEW tally \in Seq(Nat), NEW k \in Nat \ {0}
  PROVE  Grown(tally, k) \in Seq(Nat) /\ Bumped(tally, k) \in Seq(Nat)
<1> DEFINE n == IF Len(tally) < k THEN k ELSE Len(tally)
<1>1. n \in Nat /\ k \in 1 .. n BY LenProperties
<1>2. Grown(tally, k) \in [1 .. n -> Nat]
  BY <1>1, ElementOfSeq DEF Grown
<1> HIDE DEF n
<1>3. Bumped(tally, k) \in [1 .. n -> Nat] BY <1>1, <1>2 DEF Bumped
<1>4. QED BY <1>1, <1>2, <1>3, SeqDef

LEMMA TalliesType ==
  ASSUME NEW f \in [DOMAIN runs -> Seq(Nat)], NEW k \in Nat \ {0}
  PROVE  /\ [f EXCEPT ![run] = Grown(@, k)] \in [DOMAIN runs -> Seq(Nat)]
         /\ [f EXCEPT ![run] = Bumped(@, k)] \in [DOMAIN runs -> Seq(Nat)]
  BY TallyType

LEMMA DeclarerType ==
  ASSUME TypeOK, bidder \in Seat, NEW b \in BestBid
  PROVE  /\ DeclarerWith(b) \in [Strain -> Seat \cup {-1}]
         /\ DeclarerWith(b)[bidStrain(b)] \in Seat
<1>1. bidStrain(b) \in Strain BY CallFacts
<1>2. QED BY <1>1 DEF DeclarerWith, TypeOK, Seat, posNorth, posSouth

LEMMA SuggestedType ==
  ASSUME TypeOK, NEW st
  PROVE  SuggestedBid(st) \in Call
<1>1. Suggestions(st) \subseteq (maxBid + 1) .. bidMaxBid BY DEF Suggestions
<1>2. (maxBid + 1) .. bidMaxBid \subseteq Call
  BY MaxBidAssumption DEF TypeOK, BestBid, Call, bidNotFound, bidPass
<1>3. QED BY <1>1, <1>2, CallFacts DEF SuggestedBid

-----------------------------------------------------------------------------
(* Every action keeps the types and the text within its bounds. *)

LEMMA InitIInv ==
  ASSUME Init
  PROVE  IInv
<1>1. runs \in Seq(Run) /\ Len(runs) > 0 BY RunsAssumption DEF Init
<1>2. 1 \in DOMAIN runs BY <1>1
<1>3. declarer \in [Strain -> Seat \cup {-1}] /\ rules \in [Seat -> RulePtr]
  BY StartFacts DEF Init
<1>4. matched \in [DOMAIN runs -> Seq(Nat)] /\ guessed \in [DOMAIN runs -> Seq(Nat)]
  BY StartFacts DEF Init
<1>5. TypeOK
  BY <1>2, <1>3, <1>4, StartFacts DEF Init, TypeOK, Phases
<1>6. TextFits BY <1>5 DEF Init, TextFits
<1>7. QED BY <1>5, <1>6 DEF IInv

LEMMA BidHandIInv ==
  ASSUME IInv, BidHand
  PROVE  IInv'
<1>1. rules' \in [Seat -> RulePtr] BY StartFacts DEF BidHand
<1>2. TypeOK'
  BY <1>1, StartFacts DEF IInv, TypeOK, BidHand, dealVars, Phases
<1>3. TextFits' BY LenProperties DEF IInv, TypeOK, TextFits, BidHand
<1>4. QED BY <1>2, <1>3 DEF IInv

LEMMA MatchBidIInv ==
  ASSUME IInv, MatchBid
  PROVE  IInv'
<1> DEFINE s == Found.match
           b == tree.call[s]
<1>1. bidder \in Seat /\ sysp \in Node /\ allPassSoFar \in BOOLEAN
      /\ hands[bidder] \in Hand /\ rules[bidder] \in RulePtr
  BY DEF IInv, TypeOK, MatchBid
<1>2. s \in Node /\ combineRule(Found.acc, tree.rule[s]) \in RulePtr
  BY <1>1, TreeOfRun, MatchExact DEF Found, IInv, MatchBid
<1>3. b \in Call BY <1>2, TreeOfRun, TreeType DEF IInv
<1>4. b \in BestBid /\ b \in Token BY <1>3, CallFacts
<1>5. <<b, Dash>> \in Seq(Token) /\ <<b, Dash, AP>> \in Seq(Token)
  BY <1>4, CallFacts
<1>6. /\ Written(<<b, Dash>>) \in Seq(Token) /\ Len(Written(<<b, Dash>>)) = nextBidp + 2
      /\ Written(<<b, Dash, AP>>) \in Seq(Token) /\ Len(Written(<<b, Dash, AP>>)) = nextBidp + 3
  BY <1>5, WrittenType DEF MatchBid
<1>7. DeclarerWith(b) \in [Strain -> Seat \cup {-1}] BY <1>1, <1>4, DeclarerType DEF IInv
<1>8. nextBidder(bidder) \in Seat BY <1>1, CallFacts
<1>9. [seat |-> bidder, from |-> sysp, passed |-> allPassSoFar, to |-> s] \in Decision
  BY <1>1, <1>2 DEF Decision
<1>10. roundNum + 1 \in Nat \ {0} BY DEF IInv, TypeOK
<1>11. /\ matched' \in [DOMAIN runs -> Seq(Nat)]
       /\ guessed' \in [DOMAIN runs -> Seq(Nat)]
  BY <1>10, TalliesType DEF IInv, TypeOK, MatchBid
<1>12. /\ rules' \in [Seat -> RulePtr]
       /\ sysp' \in Node
       /\ allPassSoFar' \in BOOLEAN
       /\ nextBidp' = nextBidp + 2
       /\ trail' \in Seq(Decision)
  BY <1>1, <1>2, <1>9 DEF IInv, TypeOK, MatchBid
<1>13. /\ pc' \in Phases /\ bidder' \in Seat \cup {-1} /\ (pc' = "bidding" => bidder' \in Seat)
       /\ maxBid' \in BestBid /\ declarer' \in [Strain -> Seat \cup {-1}]
       /\ bidStr' \in Seq(Token) /\ nextBidp' <= Len(bidStr')
  <2>0. nextBidp \in Nat BY DEF IInv, TypeOK
  <2>1. CASE NewBestBid(b)
    BY <1>4, <1>6, <1>7, <1>8, <2>0, <2>1 DEF IInv, TypeOK, MatchBid, Phases
  <2>2. CASE ~ NewBestBid(b)
    BY <1>4, <1>6, <1>7, <1>8, <2>0, <2>2 DEF IInv, TypeOK, MatchBid, Phases, bestVars
  <2>3. QED BY <2>1, <2>2
<1>14. TypeOK'
  BY <1>10, <1>11, <1>12, <1>13 DEF IInv, TypeOK, MatchBid, dealVars
<1>15. TextFits'
  BY <1>12, <1>13, <1>14, LenProperties DEF TextFits, IInv, TypeOK
<1>16. QED BY <1>14, <1>15 DEF IInv

(* What the three actions without a matching rule share. *)
LEMMA NoRuleTypes ==
  ASSUME IInv, NoRule
  PROVE  /\ pc = "bidding" /\ bidder \in Seat
         /\ roundNum' \in Nat
         /\ matched' \in [DOMAIN runs -> Seq(Nat)]
         /\ guessed' \in [DOMAIN runs -> Seq(Nat)]
         /\ guessWasCalled' \in BOOLEAN
         /\ guessPoint' \in Seq(Token)
         /\ UNCHANGED <<dealVars, run, rules, sysp, allPassSoFar, trail>>
<1>1. roundNum + 1 \in Nat \ {0} BY DEF IInv, TypeOK
<1>2. matched' \in [DOMAIN runs -> Seq(Nat)] /\ guessed' \in [DOMAIN runs -> Seq(Nat)]
  BY <1>1, TalliesType DEF IInv, TypeOK, NoRule
<1>3. guessPoint' \in Seq(Token) BY WithoutDashType DEF IInv, TypeOK, NoRule
<1>4. QED BY <1>1, <1>2, <1>3 DEF IInv, TypeOK, NoRule

LEMMA StopAtRulesIInv ==
  ASSUME IInv, StopAtRules
  PROVE  IInv'
<1>1. NoRule BY DEF StopAtRules
<1>2. TypeOK'
  BY <1>1, NoRuleTypes DEF IInv, TypeOK, StopAtRules, dealVars, bestVars, textVars, Phases
<1>3. TextFits'
  BY <1>1, NoRuleTypes, LenProperties DEF IInv, TypeOK, TextFits, StopAtRules, textVars
<1>4. QED BY <1>2, <1>3 DEF IInv

LEMMA GuessBidIInv ==
  ASSUME IInv, GuessBid
  PROVE  IInv'
<1>1. NoRule BY DEF GuessBid
<1>2. PICK st \in ScoreTables :
        LET b == SuggestedBid(st)
        IN  /\ \/ NewBestBid(b) /\ maxBid' = b /\ declarer' = DeclarerWith(b)
               \/ ~ NewBestBid(b) /\ UNCHANGED bestVars
            /\ bidStr' = Written(<<b, Dash, AP>>)
            /\ nextBidp' = nextBidp + 4
  BY DEF GuessBid
<1> DEFINE b == SuggestedBid(st)
<1>3. b \in BestBid /\ b \in Token BY SuggestedType, CallFacts DEF IInv
<1>4. <<b, Dash, AP>> \in Seq(Token) BY <1>3, CallFacts
<1>5. Written(<<b, Dash, AP>>) \in Seq(Token) /\ Len(Written(<<b, Dash, AP>>)) = nextBidp + 3
  BY <1>1, <1>4, WrittenType, NoRuleTypes
<1>6. DeclarerWith(b) \in [Strain -> Seat \cup {-1}]
  BY <1>1, <1>3, NoRuleTypes, DeclarerType DEF IInv
<1> HIDE DEF b
<1>7. maxBid' \in BestBid /\ declarer' \in [Strain -> Seat \cup {-1}]
  BY <1>2, <1>3, <1>6 DEF b, IInv, TypeOK, bestVars
<1>8. bidStr' \in Seq(Token) /\ nextBidp' \in Nat /\ nextBidp' <= Len(bidStr') + 1
  BY <1>2, <1>5 DEF b, IInv, TypeOK
<1>9. bidder' = -1 /\ pc' = "closed" BY DEF GuessBid
<1>10. TypeOK'
  BY <1>1, <1>7, <1>8, <1>9, NoRuleTypes DEF IInv, TypeOK, dealVars, Phases
<1>11. TextFits' BY <1>8, <1>9 DEF TextFits
<1>12. QED BY <1>10, <1>11 DEF IInv

LEMMA GuessAbortsIInv ==
  ASSUME IInv, GuessAborts
  PROVE  IInv'
<1>1. NoRule BY DEF GuessAborts
<1>2. TypeOK'
  BY <1>1, NoRuleTypes DEF IInv, TypeOK, GuessAborts, dealVars, bestVars, textVars, Phases
<1>3. TextFits' BY DEF TextFits, GuessAborts
<1>4. QED BY <1>2, <1>3 DEF IInv

LEMMA OutputResultsIInv ==
  ASSUME IInv, OutputResults
  PROVE  IInv'
<1>1. bidStr' \in Seq(Token) BY StrippedType DEF OutputResults
<1>2. nextBidp' \in Nat BY DEF IInv, TypeOK, OutputResults
<1>3. run' \in DOMAIN runs /\ pc' \in {"start", "done"}
  <2>1. runs \in Seq(Run) BY RunsAssumption DEF IInv, TypeOK
  <2>2. DOMAIN runs = 1 .. Len(runs) /\ Len(runs) \in Nat BY <2>1
  <2>3. QED BY <2>2 DEF IInv, TypeOK, OutputResults
<1>4. TypeOK'
  BY <1>1, <1>2, <1>3 DEF IInv, TypeOK, OutputResults, dealVars, bestVars, Phases
<1>5. TextFits' BY <1>3 DEF TextFits
<1>6. QED BY <1>4, <1>5 DEF IInv

LEMMA StepIInv ==
  ASSUME IInv, [Next]_vars
  PROVE  IInv'
<1>1. CASE BidHand BY <1>1, BidHandIInv
<1>2. CASE MatchBid BY <1>2, MatchBidIInv
<1>3. CASE StopAtRules BY <1>3, StopAtRulesIInv
<1>4. CASE GuessBid BY <1>4, GuessBidIInv
<1>5. CASE GuessAborts BY <1>5, GuessAbortsIInv
<1>6. CASE OutputResults BY <1>6, OutputResultsIInv
<1>7. CASE UNCHANGED vars
  BY <1>7 DEF IInv, TypeOK, TextFits, vars, dealVars, bestVars, textVars
<1>8. QED BY <1>1, <1>2, <1>3, <1>4, <1>5, <1>6, <1>7 DEF Next

(* The auction object's state is well typed throughout a deal, for every   *)
(* tree: the match is always a node of the tree, the accumulated rule a    *)
(* rule or null, the write position inside the text.                       *)
THEOREM TypeCorrect == Spec => []TypeOK
<1>1. Init => IInv BY InitIInv
<1>2. IInv /\ [Next]_vars => IInv' BY StepIInv
<1>3. IInv => TypeOK BY DEF IInv
<1>4. QED BY <1>1, <1>2, <1>3, PTL DEF Spec

-----------------------------------------------------------------------------
(* The accumulated rules are exact.                                        *)

(* SameDecision() in a tree t. *)
SameIn(t, d, h) == findMatchingChild(t, d.from, d.passed, h, NULL).match = d.to

(* One more decision narrows the consistent hands of its own seat only. *)
LEMMA OneMoreDecision ==
  ASSUME NEW tr \in Seq(Decision), NEW d \in Decision, NEW t, NEW s, NEW h
  PROVE  (\A i \in DOMAIN Append(tr, d) :
             Append(tr, d)[i].seat = s => SameIn(t, Append(tr, d)[i], h))
           <=> /\ \A i \in DOMAIN tr : tr[i].seat = s => SameIn(t, tr[i], h)
               /\ d.seat = s => SameIn(t, d, h)
<1>1. /\ DOMAIN Append(tr, d) = 1 .. Len(tr) + 1 /\ DOMAIN tr = 1 .. Len(tr) /\ Len(tr) \in Nat
      /\ \A i \in 1 .. Len(tr) : Append(tr, d)[i] = tr[i]
      /\ Append(tr, d)[Len(tr) + 1] = d
  BY AppendProperties
<1>2. DOMAIN Append(tr, d) = DOMAIN tr \cup {Len(tr) + 1} BY <1>1
<1>3. QED BY <1>1, <1>2, Zenon

LEMMA BidHandExact ==
  ASSUME IInv, BidHand
  PROVE  RulesExact'
<1>1. \A s \in Seat : Ext(rules[s])' = Hand BY AnyRuleType DEF BidHand
<1>2. \A s \in Seat : Consistent(s)' = Hand BY DEF BidHand, Consistent
<1>3. QED BY <1>1, <1>2 DEF RulesExact

LEMMA MatchBidExact ==
  ASSUME IInv, RulesExact, MatchBid
  PROVE  RulesExact'
<1> DEFINE t == tree
           s == Found.match
           d == [seat |-> bidder, from |-> sysp, passed |-> allPassSoFar, to |-> s]
           r == combineRule(Found.acc, t.rule[s])
<1>1. bidder \in Seat /\ sysp \in Node /\ allPassSoFar \in BOOLEAN
      /\ hands[bidder] \in Hand /\ rules[bidder] \in RulePtr
  BY DEF IInv, TypeOK, MatchBid
<1>2. s \in Node /\ Ext(r) = Ext(rules[bidder]) \cap {g \in Hand : SameIn(t, d, g)}
  BY <1>1, TreeOfRun, MatchExact DEF Found, IInv, MatchBid, SameIn
<1>3. d \in Decision /\ trail \in Seq(Decision) /\ trail' = Append(trail, d)
  BY <1>1, <1>2 DEF Decision, IInv, TypeOK, MatchBid
<1>4. tree' = t BY DEF MatchBid, dealVars, tree
<1>5. rules' = [rules EXCEPT ![bidder] = r] /\ rules \in [Seat -> RulePtr]
  BY DEF MatchBid, IInv, TypeOK
<1>6. \A w \in Seat : Ext(rules[w]) = {g \in Hand : \A i \in DOMAIN trail :
                                       trail[i].seat = w => SameIn(t, trail[i], g)}
  BY DEF MatchBid, RulesExact, Consistent, SameDecision, SameIn
<1> HIDE DEF t, r, d
<1>7. ASSUME NEW w \in Seat
      PROVE  Ext(rules'[w]) = {g \in Hand : \A i \in DOMAIN trail' :
                                 trail'[i].seat = w => SameIn(t, trail'[i], g)}
  <2>1. \A g \in Hand : (\A i \in DOMAIN trail' : trail'[i].seat = w => SameIn(t, trail'[i], g))
          <=> /\ \A i \in DOMAIN trail : trail[i].seat = w => SameIn(t, trail[i], g)
              /\ d.seat = w => SameIn(t, d, g)
    BY <1>3, OneMoreDecision
  <2>2. d.seat = bidder BY DEF d
  <2>3. CASE w = bidder BY <1>1, <1>2, <1>5, <1>6, <2>1, <2>2, <2>3
  <2>4. CASE w # bidder BY <1>5, <1>6, <2>1, <2>2, <2>4
  <2>5. QED BY <2>3, <2>4
<1>8. QED BY <1>4, <1>7 DEF RulesExact, Consistent, SameDecision, SameIn

(* The other actions change neither the rules nor the trail. *)
LEMMA SameRulesExact ==
  ASSUME RulesExact, pc \in {"bidding", "closed", "aborted"},
         UNCHANGED <<runs, run, rules, trail>>
  PROVE  RulesExact'
  BY DEF RulesExact, Consistent, SameDecision, tree

LEMMA StepExact ==
  ASSUME IInv, RulesExact, [Next]_vars
  PROVE  RulesExact'
<1>1. CASE BidHand BY <1>1, BidHandExact
<1>2. CASE MatchBid BY <1>2, MatchBidExact
<1>3. CASE StopAtRules \/ GuessBid \/ GuessAborts
  BY <1>3, SameRulesExact DEF StopAtRules, GuessBid, GuessAborts, NoRule, dealVars
<1>4. CASE OutputResults BY <1>4 DEF OutputResults, RulesExact
<1>5. CASE UNCHANGED vars
  BY <1>5 DEF vars, dealVars, RulesExact, Consistent, SameDecision, tree
<1>6. QED BY <1>1, <1>2, <1>3, <1>4, <1>5 DEF Next

(* The rule accumulated for a seat accepts exactly the hands with which it *)
(* would have made each of its calls, for every well-formed tree.          *)
THEOREM InferenceExact == Spec => []RulesExact
<1>1. Init => IInv BY InitIInv
<1>2. Init => RulesExact BY DEF Init, RulesExact
<1>3. IInv /\ [Next]_vars => IInv' BY StepIInv
<1>4. IInv /\ RulesExact /\ [Next]_vars => RulesExact' BY StepExact
<1>5. QED BY <1>1, <1>2, <1>3, <1>4, PTL DEF Spec

-----------------------------------------------------------------------------
(* The contract has a declarer.                                            *)

(* The strain of the best call so far has a declarer on record, and an     *)
(* auction that is written with a contract has a best call: ContractHas-   *)
(* Declarer alone says nothing of the states before the auction closes.    *)
NamedStrain ==
  /\ pc \in {"bidding", "closed"} /\ maxBid # bidNotFound => declarer[bidStrain(maxBid)] \in Seat
  /\ pc = "closed" /\ ~ rulesOnlyMode => maxBid # bidNotFound

LEMMA StepNamed ==
  ASSUME IInv, NamedStrain, [Next]_vars
  PROVE  NamedStrain'
<1>1. CASE BidHand BY <1>1 DEF BidHand, NamedStrain
<1>2. CASE MatchBid
  <2> DEFINE b == tree.call[Found.match]
  <2>1. bidder \in Seat /\ b \in Call
    <3>1. Found.match \in Node
      BY <1>2, TreeOfRun, MatchExact DEF Found, IInv, TypeOK, MatchBid
    <3>2. QED BY <1>2, <3>1, TreeOfRun, TreeType DEF IInv, TypeOK, MatchBid
  <2>2. maxBid \in BestBid BY DEF IInv, TypeOK
  <2>3. CASE NewBestBid(b)
    <3>1. DeclarerWith(b)[bidStrain(b)] \in Seat
      BY <2>1, CallFacts, DeclarerType DEF IInv
    <3>2. maxBid' = b /\ declarer' = DeclarerWith(b) /\ pc' = "bidding"
      BY <1>2, <2>3 DEF MatchBid
    <3>3. QED BY <3>1, <3>2 DEF NamedStrain
  <2>4. CASE ~ NewBestBid(b)
    <3>1. maxBid # bidNotFound
      BY <2>1, <2>2, <2>4 DEF NewBestBid, Call, BestBid, bidPass, bidNotFound
    <3>2. maxBid' = maxBid /\ declarer' = declarer /\ pc = "bidding"
      BY <1>2, <2>4 DEF MatchBid, bestVars
    <3>3. QED BY <3>1, <3>2 DEF NamedStrain
  <2>5. QED BY <2>3, <2>4
<1>3. CASE StopAtRules
  BY <1>3 DEF StopAtRules, NoRule, NamedStrain, bestVars, dealVars
<1>4. CASE GuessBid
  <2>1. NoRule BY <1>4 DEF GuessBid
  <2>2. PICK st \in ScoreTables :
          \/ /\ NewBestBid(SuggestedBid(st))
             /\ maxBid' = SuggestedBid(st) /\ declarer' = DeclarerWith(SuggestedBid(st))
          \/ ~ NewBestBid(SuggestedBid(st)) /\ UNCHANGED bestVars
    BY <1>4 DEF GuessBid
  <2> DEFINE b == SuggestedBid(st)
  <2>3. b \in Call /\ maxBid \in BestBid BY SuggestedType DEF IInv, TypeOK
  <2>4. CASE NewBestBid(b)
    <3>1. DeclarerWith(b)[bidStrain(b)] \in Seat
      BY <2>1, <2>3, CallFacts, DeclarerType, NoRuleTypes DEF IInv
    <3>2. b # bidNotFound
      BY <2>3 DEF Call, bidPass, bidNotFound
    <3>3. QED BY <2>2, <2>4, <3>1, <3>2 DEF NamedStrain
  <2>5. CASE ~ NewBestBid(b)
    <3>1. maxBid # bidNotFound
      BY <2>3, <2>5 DEF NewBestBid, Call, BestBid, bidPass, bidNotFound
    <3>2. maxBid' = maxBid /\ declarer' = declarer /\ pc = "bidding"
      BY <2>1, <2>2, <2>5, NoRuleTypes DEF bestVars
    <3>3. QED BY <3>1, <3>2 DEF NamedStrain
  <2>6. QED BY <2>4, <2>5
<1>5. CASE GuessAborts BY <1>5 DEF GuessAborts, NamedStrain
<1>6. CASE OutputResults BY <1>6 DEF OutputResults, NamedStrain
<1>7. CASE UNCHANGED vars BY <1>7 DEF vars, dealVars, bestVars, NamedStrain
<1>8. QED BY <1>1, <1>2, <1>3, <1>4, <1>5, <1>6, <1>7 DEF Next

(* A contract is always written with a seat that can declare it, whatever  *)
(* the auctions before it left in declarer[].                              *)
THEOREM DeclarerKnown == Spec => []ContractHasDeclarer
<1>1. Init => IInv /\ NamedStrain BY InitIInv DEF Init, NamedStrain
<1>2. IInv /\ [Next]_vars => IInv' BY StepIInv
<1>3. IInv /\ NamedStrain /\ [Next]_vars => NamedStrain' BY StepNamed
<1>4. IInv /\ NamedStrain => ContractHasDeclarer
  <2>1. SUFFICES ASSUME IInv, NamedStrain, Contracted
                 PROVE  getDeclarer(maxBid) \in Seat
    BY DEF ContractHasDeclarer
  <2>2. declarer[bidStrain(maxBid)] \in Seat BY <2>1 DEF NamedStrain, Contracted
  <2>3. QED BY <2>2 DEF getDeclarer, Seat, posNorth, posSouth
<1>5. QED BY <1>1, <1>2, <1>3, <1>4, PTL DEF Spec
-----------------------------------------------------------------------------
(* The auction is an auction.                                              *)

(* A match is a child that has a rule: of the node reached, or, while only *)
(* passes were made, of the root.                                          *)
LEMMA MatchIsKid ==
  ASSUME NEW t, WellFormed(t), NEW n \in Node, NEW p \in BOOLEAN, NEW h \in Hand,
         NEW acc, findMatchingChild(t, n, p, h, acc).match # NULL
  PROVE  LET k == findMatchingChild(t, n, p, h, acc).match
         IN  /\ k \in Node /\ k # Root /\ Ruled(t, k)
             /\ k \in Kids(t, n) \/ (p /\ n # Root /\ k \in Kids(t, Root))
<1> DEFINE k == findMatchingChild(t, n, p, h, acc).match
<1>1. Root \in Node BY TreeAssumption
<1>2. ASSUME NEW m \in Node, Matching(t, m, h) # {}
      PROVE  LET j == MatchAt(t, m, h, acc).match IN j \in Kids(t, m) /\ Ruled(t, j)
  <2>1. FirstOf(Matching(t, m, h)) \in Matching(t, m, h) BY <1>2, FirstMatching
  <2>2. QED BY <2>1 DEF MatchAt, Matching, Kids
<1>3. \A a, b : MatchAt(t, Root, h, a).match = MatchAt(t, Root, h, b).match BY DEF MatchAt
<1>4. \/ Matching(t, n, h) # {} /\ k = MatchAt(t, n, h, acc).match
      \/ /\ p /\ n # Root /\ Matching(t, Root, h) # {}
         /\ k = MatchAt(t, Root, h, acc).match
  <2> DEFINE missed == combineRule(acc, negatedAllChildren(t, n))
  <2>1. CASE Matching(t, n, h) # {} BY <2>1 DEF findMatchingChild
  <2>2. CASE Matching(t, n, h) = {} /\ (p /\ n # Root) /\ Matching(t, Root, h) # {}
    <3>1. findMatchingChild(t, n, p, h, acc) = MatchAt(t, Root, h, missed)
      BY <2>2 DEF findMatchingChild
    <3>2. QED BY <1>3, <2>2, <3>1
  <2>3. CASE Matching(t, n, h) = {} /\ ~ ((p /\ n # Root) /\ Matching(t, Root, h) # {})
    <3>1. k = NULL BY <2>3 DEF findMatchingChild
    <3>2. QED BY <3>1
  <2>4. QED BY <2>1, <2>2, <2>3
<1>5. \A m \in Node : Kids(t, m) \subseteq Node /\ Root \notin Kids(t, m)
  <2>1. \A m \in Node : Root \notin Kids(t, m) BY DEF WellFormed
  <2>2. ASSUME NEW m \in Node PROVE Kids(t, m) \subseteq Node
    <3>1. \A i \in DOMAIN t.kids[m] : t.kids[m][i] \in Node BY TreeType
    <3>2. QED BY <3>1 DEF Kids
  <2>3. QED BY <2>1, <2>2
<1>6. QED BY <1>1, <1>2, <1>4, <1>5

(* Whose turn it is, where the tree has been reached and which call is the *)
(* best so far, told by the decisions made.                                *)
Walk ==
  pc = "bidding" =>
    /\ guess = NULL
    /\ bidder = IF Len(trail) % 2 = 0 THEN posNorth ELSE posSouth
    /\ trail = <<>> => sysp = Root /\ maxBid = bidNotFound
    /\ trail # <<>> => sysp # Root /\ maxBid = tree.call[sysp]
    /\ allPassSoFar => maxBid <= bidPass

LEMMA Alternate ==
  ASSUME NEW n \in Nat
  PROVE  nextBidder(IF n % 2 = 0 THEN posNorth ELSE posSouth)
           = IF (n + 1) % 2 = 0 THEN posNorth ELSE posSouth
<1>1. n % 2 = 0 <=> (n + 1) % 2 # 0 OBVIOUS
<1>2. QED BY <1>1 DEF nextBidder, posNorth, posSouth

(* What a call by rule leaves: the call is a Pass or a new best bid. *)
LEMMA MatchBidCall ==
  ASSUME IInv, Walk, MatchBid
  PROVE  LET s == Found.match
             b == tree.call[s]
         IN  /\ b \in Call /\ s # Root
             /\ ~ NewBestBid(b) => b = bidPass /\ trail # <<>>
<1> DEFINE s == Found.match
           b == tree.call[s]
<1>1. /\ bidder \in Seat /\ sysp \in Node /\ allPassSoFar \in BOOLEAN
      /\ hands[bidder] \in Hand /\ maxBid \in BestBid
  BY DEF IInv, TypeOK, MatchBid
<1>2. WellFormed(tree) BY TreeOfRun DEF IInv
<1>3. /\ s \in Node /\ s # Root /\ Ruled(tree, s)
      /\ s \in Kids(tree, sysp) \/ (allPassSoFar /\ sysp # Root /\ s \in Kids(tree, Root))
  BY <1>1, <1>2, MatchIsKid DEF Found, MatchBid
<1>4. b \in Call BY <1>2, <1>3, TreeType
<1>5. ASSUME ~ NewBestBid(b) PROVE b = bidPass /\ trail # <<>>
  <2>1. b <= maxBid BY <1>1, <1>4, <1>5 DEF NewBestBid, BestBid, Call, bidNotFound, bidPass
  <2>2. trail # <<>> BY <1>4, <2>1 DEF Walk, MatchBid, Call, bidNotFound, bidPass
  <2>3. sysp # Root /\ maxBid = tree.call[sysp] BY <2>2 DEF Walk, MatchBid
  <2>4. CASE s \in Kids(tree, sysp)
    <3>1. b = bidPass \/ b > tree.call[sysp] BY <1>1, <1>2, <1>3, <2>3, <2>4 DEF WellFormed
    <3>2. QED BY <1>1, <1>4, <2>1, <2>2, <2>3, <3>1 DEF BestBid, Call
  <2>5. CASE allPassSoFar
    BY <1>1, <1>4, <2>1, <2>2, <2>5 DEF Walk, MatchBid, BestBid, Call, bidNotFound, bidPass
  <2>6. QED BY <1>3, <2>4, <2>5
<1>6. QED BY <1>3, <1>4, <1>5

LEMMA StepWalk ==
  ASSUME IInv, Walk, [Next]_vars
  PROVE  Walk'
<1>1. CASE BidHand
  <2>1. /\ guess' = NULL /\ bidder' = posNorth /\ trail' = <<>> /\ sysp' = Root
        /\ maxBid' = bidNotFound
    BY <1>1 DEF BidHand
  <2>2. Len(<<>>) % 2 = 0 OBVIOUS
  <2>3. QED BY <2>1, <2>2 DEF Walk, bidNotFound, bidPass
<1>2. CASE MatchBid
  <2> DEFINE s == Found.match
             b == tree.call[s]
             d == [seat |-> bidder, from |-> sysp, passed |-> allPassSoFar, to |-> s]
  <2>1. SUFFICES ASSUME pc' = "bidding" PROVE Walk' BY DEF Walk
  <2>2. NewBestBid(b) /\ maxBid' = b /\ bidder' = nextBidder(bidder)
    BY <1>2, <2>1 DEF MatchBid
  <2>3. /\ trail' = Append(trail, d) /\ sysp' = s /\ guess' = NULL
        /\ allPassSoFar' = (allPassSoFar /\ b = bidPass) /\ tree' = tree
    BY <1>2 DEF MatchBid, Walk, dealVars, tree
  <2>4. b \in Call /\ s # Root BY <1>2, MatchBidCall
  <2>5. trail \in Seq(Decision) /\ Len(trail) \in Nat BY DEF IInv, TypeOK
  <2>6. Len(trail') = Len(trail) + 1 /\ trail' # <<>> BY <2>3, <2>5
  <2>7. bidder' = IF Len(trail') % 2 = 0 THEN posNorth ELSE posSouth
    BY <1>2, <2>2, <2>5, <2>6, Alternate DEF Walk, MatchBid
  <2>8. maxBid' = tree'.call[sysp'] BY <2>2, <2>3
  <2>9. allPassSoFar' => maxBid' <= bidPass
    <3>1. allPassSoFar' => b = bidPass BY <2>3, Zenon
    <3>2. allPassSoFar' => maxBid' = bidPass BY <2>2, <3>1, Zenon
    <3>3. QED BY <3>2 DEF bidPass
  <2>10. QED BY <2>3, <2>4, <2>6, <2>7, <2>8, <2>9 DEF Walk
<1>3. CASE StopAtRules \/ GuessBid \/ GuessAborts
  BY <1>3 DEF StopAtRules, GuessBid, GuessAborts, Walk
<1>4. CASE OutputResults BY <1>4 DEF OutputResults, Walk
<1>5. CASE UNCHANGED vars BY <1>5 DEF vars, dealVars, bestVars, tree, Walk
<1>6. QED BY <1>1, <1>2, <1>3, <1>4, <1>5 DEF Next

(* One more decision is one more call. *)
Seated == [seat: Seat, call: Call]

LEMMA SeatedCallsType ==
  ASSUME NEW t, WellFormed(t), NEW tr \in Seq(Decision)
  PROVE  SeatedCalls(t, tr) \in Seq(Seated) /\ Len(SeatedCalls(t, tr)) = Len(tr)
<1>1. \A i \in 1 .. Len(tr) : tr[i] \in Decision BY ElementOfSeq
<1>2. \A i \in 1 .. Len(tr) : tr[i].seat \in Seat /\ t.call[tr[i].to] \in Call
  BY <1>1, TreeType DEF Decision
<1>3. SeatedCalls(t, tr) \in [1 .. Len(tr) -> Seated]
  BY <1>2 DEF SeatedCalls, Seated
<1>4. Len(tr) \in Nat BY LenProperties
<1>5. QED BY <1>3, <1>4, SeqDef

LEMMA OneMoreCall ==
  ASSUME NEW t, WellFormed(t), NEW tr \in Seq(Decision), NEW d \in Decision
  PROVE  SeatedCalls(t, Append(tr, d))
           = Append(SeatedCalls(t, tr), [seat |-> d.seat, call |-> t.call[d.to]])
<1> DEFINE e == [seat |-> d.seat, call |-> t.call[d.to]]
           old == SeatedCalls(t, tr)
           new == SeatedCalls(t, Append(tr, d))
<1>1. old \in Seq(Seated) /\ Len(old) = Len(tr) BY SeatedCallsType
<1>2. Append(tr, d) \in Seq(Decision) BY AppendProperties
<1>3. new \in Seq(Seated) /\ Len(new) = Len(Append(tr, d)) BY <1>2, SeatedCallsType
<1>4. e \in Seated BY TreeType DEF Seated, Decision
<1>5. Append(old, e) \in Seq(Seated) /\ Len(Append(old, e)) = Len(tr) + 1
  BY <1>1, <1>4, AppendProperties
<1>6. Len(new) = Len(tr) + 1 BY <1>3, AppendProperties
<1>7. ASSUME NEW i \in 1 .. Len(tr) + 1 PROVE new[i] = Append(old, e)[i]
  <2>1. new[i] = [seat |-> Append(tr, d)[i].seat, call |-> t.call[Append(tr, d)[i].to]]
    BY <1>2, AppendProperties DEF SeatedCalls
  <2>2. CASE i = Len(tr) + 1
    <3>1. Append(tr, d)[i] = d BY <2>2, AppendProperties
    <3>2. Append(old, e)[i] = e BY <1>1, <1>4, <2>2, AppendProperties
    <3>3. QED BY <2>1, <3>1, <3>2
  <2>3. CASE i # Len(tr) + 1
    <3>1. i \in 1 .. Len(tr) BY <2>3, LenProperties
    <3>2. Append(tr, d)[i] = tr[i] BY <3>1, AppendProperties
    <3>3. Append(old, e)[i] = old[i] BY <1>1, <1>4, <3>1, AppendProperties
    <3>4. old[i] = [seat |-> tr[i].seat, call |-> t.call[tr[i].to]]
      BY <3>1, LenProperties DEF SeatedCalls
    <3>5. QED BY <2>1, <3>2, <3>3, <3>4
  <2>4. QED BY <2>2, <2>3
<1> HIDE DEF old, new, e
<1>8. QED BY <1>3, <1>5, <1>6, <1>7, SeqEqual DEF old, new, e
(* What is kept of a guess is not NULL. *)
LEMMA GuessIsKept ==
  ASSUME IInv, pc = "bidding", NEW st \in ScoreTables
  PROVE  [seat |-> bidder, over |-> maxBid, scores |-> st, bid |-> SuggestedBid(st),
          declarers |-> [c \in Call |-> getDeclarer(c)]] # NULL
<1>1. bidder \in Seat /\ maxBid \in BestBid /\ declarer \in [Strain -> Seat \cup {-1}]
  BY DEF IInv, TypeOK
<1>2. SuggestedBid(st) \in Call BY SuggestedType DEF IInv
<1>3. \A c \in Call : bidStrain(c) \in Strain BY CallFacts
<1>4. \A c \in Call : getDeclarer(c) \in Seat
  BY <1>1, <1>3 DEF getDeclarer, Seat, posNorth, posSouth
<1>5. [c \in Call |-> getDeclarer(c)] \in [Call -> Seat] BY <1>4
<1>6. [seat |-> bidder, over |-> maxBid, scores |-> st, bid |-> SuggestedBid(st),
       declarers |-> [c \in Call |-> getDeclarer(c)]] \in Guess
  BY <1>1, <1>2, <1>5 DEF Guess
<1>7. QED BY <1>6, GuessAssumption

(* While bidding, the calls made are those of the trail, and it is the     *)
(* bidder's turn.                                                          *)
LEMMA BiddingView ==
  ASSUME IInv, Walk, pc = "bidding"
  PROVE  /\ AuctionPhase = "open"
         /\ CallsMade = SeatedCalls(tree, trail)
         /\ CallsMade \in Seq(Seated) /\ Len(CallsMade) = Len(trail)
         /\ Abstract!Turn = bidder
         /\ trail # <<>> => CallsMade # <<>>
         /\ trail \in Seq(Decision) /\ bidder \in Seat
<1>1. trail \in Seq(Decision) /\ bidder \in Seat BY DEF IInv, TypeOK
<1>2. /\ SeatedCalls(tree, trail) \in Seq(Seated)
      /\ Len(SeatedCalls(tree, trail)) = Len(trail)
  BY <1>1, TreeOfRun, SeatedCallsType DEF IInv
<1>3. guess = NULL BY DEF Walk
<1>4. CallsMade = SeatedCalls(tree, trail) \o <<>> BY <1>3 DEF CallsMade, TrailTree
<1>5. CallsMade = SeatedCalls(tree, trail) BY <1>2, <1>4, ConcatEmptySeq
<1>6. trail # <<>> => CallsMade # <<>> BY <1>1, <1>2, <1>5
<1>7. Abstract!Turn = bidder
  BY <1>2, <1>5 DEF Walk, Abstract!Turn, Abstract!posNorth, Abstract!posSouth, posNorth, posSouth
<1>8. QED BY <1>1, <1>2, <1>5, <1>6, <1>7 DEF AuctionPhase

(* A guess adds its call. *)
LEMMA GuessedView ==
  ASSUME IInv, Walk, pc = "bidding", pc' = "closed", UNCHANGED <<runs, run, trail>>,
         NEW b \in Call, guess'.seat = bidder, guess'.bid = b, guess' # NULL
  PROVE  CallsMade' = Append(CallsMade, [seat |-> bidder, call |-> b])
<1>1. tree' = tree /\ TrailTree' = tree BY DEF tree, TrailTree
<1>2. CallsMade' = SeatedCalls(tree, trail) \o <<[seat |-> bidder, call |-> b]>>
  BY <1>1 DEF CallsMade, SeatedCalls
<1>3. CallsMade = SeatedCalls(tree, trail) /\ CallsMade \in Seq(Seated) /\ bidder \in Seat
  BY BiddingView
<1>4. [seat |-> bidder, call |-> b] \in Seated BY <1>3 DEF Seated
<1>5. QED BY <1>2, <1>3, <1>4, AppendIsConcat

LEMMA StepRefines ==
  ASSUME IInv, Walk, [Next]_vars
  PROVE  [Abstract!ANext]_(Abstract!avars)
<1>1. CASE BidHand
  <2>1. pc = "start" /\ pc' = "bidding" /\ trail' = <<>> /\ guess' = NULL /\ maxBid' = bidNotFound
    BY <1>1 DEF BidHand
  <2>2. AuctionPhase # "open" /\ AuctionPhase' = "open" BY <2>1 DEF AuctionPhase
  <2>3. CallsMade' = <<>>
    <3>1. SeatedCalls(TrailTree, trail)' = <<>> BY <2>1 DEF SeatedCalls
    <3>2. QED BY <2>1, <3>1 DEF CallsMade
  <2>4. Abstract!Open BY <2>1, <2>2, <2>3 DEF Abstract!Open, Abstract!bidNotFound, bidNotFound
  <2>5. QED BY <2>4 DEF Abstract!ANext
<1>2. CASE MatchBid
  <2> DEFINE s == Found.match
             b == tree.call[s]
             d == [seat |-> bidder, from |-> sysp, passed |-> allPassSoFar, to |-> s]
  <2>1. pc = "bidding" /\ pc' \in {"bidding", "closed"} /\ guess' = NULL /\ guess = NULL
    BY <1>2 DEF MatchBid, Walk
  <2>2. tree' = tree /\ TrailTree' = tree /\ trail' = Append(trail, d)
    BY <1>2, <2>1 DEF MatchBid, dealVars, tree, TrailTree
  <2>3. b \in Call /\ s \in Node
    BY <1>2, TreeOfRun, MatchExact, MatchBidCall DEF Found, IInv, TypeOK, MatchBid
  <2>4. d \in Decision BY <2>1, <2>3 DEF Decision, IInv, TypeOK
  <2>5. /\ AuctionPhase = "open" /\ CallsMade = SeatedCalls(tree, trail)
        /\ CallsMade \in Seq(Seated) /\ Abstract!Turn = bidder
        /\ trail # <<>> => CallsMade # <<>> /\ trail \in Seq(Decision) /\ bidder \in Seat
    BY <2>1, BiddingView
  <2>6. trail \in Seq(Decision) /\ bidder \in Seat BY <2>1, BiddingView
  <2>7. CallsMade' = Append(CallsMade, [seat |-> bidder, call |-> b])
    <3>1. SeatedCalls(tree, Append(trail, d)) = Append(CallsMade, [seat |-> bidder, call |-> b])
      BY <2>4, <2>5, <2>6, TreeOfRun, OneMoreCall DEF IInv
    <3>2. CallsMade' = SeatedCalls(tree, Append(trail, d)) \o <<>>
      BY <2>1, <2>2 DEF CallsMade, SeatedCalls
    <3>3. Append(trail, d) \in Seq(Decision) BY <2>4, <2>6, AppendProperties
    <3>4. SeatedCalls(tree, Append(trail, d)) \in Seq(Seated)
      BY <3>3, TreeOfRun, SeatedCallsType DEF IInv
    <3>5. QED BY <3>1, <3>2, <3>4, ConcatEmptySeq
  <2>8. Abstract!Made(b) BY <2>5, <2>7 DEF Abstract!Made
  <2>9. CASE NewBestBid(b)
    <3>1. pc' = "bidding" /\ maxBid' = b /\ b > maxBid BY <1>2, <2>9 DEF MatchBid, NewBestBid
    <3>2. AuctionPhase' = "open" BY <3>1 DEF AuctionPhase
    <3>3. Abstract!Raise(b) BY <2>5, <2>8, <3>1, <3>2 DEF Abstract!Raise
    <3>4. b \in Abstract!Call BY <2>3 DEF Abstract!Call, Abstract!bidPass, Call, bidPass
    <3>5. QED BY <3>3, <3>4 DEF Abstract!ANext
  <2>10. CASE ~ NewBestBid(b)
    <3>1. pc' = "closed" /\ maxBid' = maxBid BY <1>2, <2>10 DEF MatchBid, bestVars
    <3>2. AuctionPhase' = "over" BY <3>1 DEF AuctionPhase
    <3>3. b = bidPass /\ trail # <<>> BY <1>2, <2>10, MatchBidCall
    <3>4. CallsMade # <<>> BY <2>5, <3>3
    <3>5. Abstract!PassOut
      BY <2>5, <2>8, <3>1, <3>2, <3>3, <3>4
      DEF Abstract!PassOut, Abstract!bidPass, bidPass
    <3>6. QED BY <3>5 DEF Abstract!ANext
  <2>11. QED BY <2>9, <2>10
<1>3. CASE StopAtRules \/ GuessAborts
  <2>1. /\ pc = "bidding" /\ pc' \in {"closed", "aborted"} /\ maxBid' = maxBid
        /\ guess' = guess /\ UNCHANGED <<runs, run, trail>>
    BY <1>3 DEF StopAtRules, GuessAborts, NoRule, bestVars, dealVars
  <2>2. AuctionPhase = "open" /\ AuctionPhase' = "over" BY <2>1 DEF AuctionPhase
  <2>3. CallsMade' = CallsMade BY <2>1 DEF CallsMade, TrailTree, tree, SeatedCalls
  <2>4. Abstract!Abandon BY <2>1, <2>2, <2>3 DEF Abstract!Abandon
  <2>5. QED BY <2>4 DEF Abstract!ANext
<1>4. CASE GuessBid
  <2>1. pc = "bidding" /\ pc' = "closed" /\ UNCHANGED <<runs, run, trail>>
    BY <1>4 DEF GuessBid, NoRule, dealVars
  <2>2. PICK st \in ScoreTables :
          LET b == SuggestedBid(st)
          IN  /\ \/ NewBestBid(b) /\ maxBid' = b
                 \/ ~ NewBestBid(b) /\ UNCHANGED bestVars
              /\ guess' = [seat |-> bidder, over |-> maxBid, scores |-> st, bid |-> b,
                           declarers |-> [c \in Call |-> getDeclarer(c)]]
    BY <1>4 DEF GuessBid
  <2> DEFINE b == SuggestedBid(st)
  <2>3. b \in Call /\ maxBid \in BestBid BY SuggestedType DEF IInv, TypeOK
  <2>4. guess' # NULL /\ guess'.seat = bidder /\ guess'.bid = b
    BY <2>1, <2>2, GuessIsKept
  <2>5. b = bidPass \/ b > maxBid
    <3>1. Suggestions(st) \subseteq (maxBid + 1) .. bidMaxBid BY DEF Suggestions
    <3>2. b = bidPass \/ b \in Suggestions(st) BY DEF SuggestedBid
    <3>3. QED BY <2>3, <3>1, <3>2 DEF BestBid, Call
  <2>6. /\ AuctionPhase = "open" /\ Abstract!Turn = bidder
        /\ trail # <<>> => CallsMade # <<>>
        /\ CallsMade = SeatedCalls(tree, trail)
    BY <2>1, BiddingView
  <2>7. CallsMade' = Append(CallsMade, [seat |-> bidder, call |-> b])
    BY <2>1, <2>3, <2>4, GuessedView
  <2> HIDE DEF b
  <2>8. Abstract!Made(b) BY <2>6, <2>7 DEF Abstract!Made
  <2>9. AuctionPhase' = "over" BY <2>1 DEF AuctionPhase
  <2>10. (NewBestBid(b) /\ maxBid' = b) \/ (~ NewBestBid(b) /\ maxBid' = maxBid)
    BY <2>2 DEF b, bestVars
  <2>11. CASE b = bidPass
    <3>1. CASE trail = <<>>
      <4>1. maxBid = bidNotFound BY <2>1, <3>1 DEF Walk
      <4>2. maxBid' = bidPass
        BY <2>10, <2>11, <4>1 DEF NewBestBid, bidNotFound, bidPass
      <4>3. CallsMade = <<>> BY <2>6, <3>1 DEF SeatedCalls
      <4>4. Abstract!PassOut
        BY <2>6, <2>8, <2>9, <2>11, <4>2, <4>3
        DEF Abstract!PassOut, Abstract!bidPass, bidPass
      <4>5. QED BY <4>4 DEF Abstract!ANext
    <3>2. CASE trail # <<>>
      <4>1. maxBid >= bidPass
        <5>1. maxBid = tree.call[sysp] /\ sysp \in Node BY <2>1, <3>2 DEF Walk, IInv, TypeOK
        <5>2. maxBid \in Call BY <5>1, TreeOfRun, TreeType DEF IInv
        <5>3. QED BY <5>2 DEF Call, bidPass
      <4>2. maxBid' = maxBid BY <2>3, <2>10, <2>11, <4>1 DEF NewBestBid, BestBid, bidPass, bidNotFound
      <4>3. Abstract!PassOut
        BY <2>6, <2>8, <2>9, <2>11, <3>2, <4>2
        DEF Abstract!PassOut, Abstract!bidPass, bidPass
      <4>4. QED BY <4>3 DEF Abstract!ANext
    <3>3. QED BY <3>1, <3>2
  <2>12. CASE b # bidPass
    <3>1. b > maxBid /\ b > bidPass BY <2>3, <2>5, <2>12 DEF Call, bidPass
    <3>2. maxBid' = b BY <2>10, <3>1 DEF NewBestBid
    <3>3. Abstract!FinalBid(b)
      BY <2>6, <2>8, <2>9, <3>1, <3>2 DEF Abstract!FinalBid, Abstract!bidPass, bidPass
    <3>4. b \in Abstract!Call BY <2>3 DEF Abstract!Call, Abstract!bidPass, Call, bidPass
    <3>5. QED BY <3>3, <3>4 DEF Abstract!ANext
  <2>13. QED BY <2>11, <2>12
<1>5. CASE OutputResults
  <2>1. /\ pc = "closed" /\ pc' \in {"start", "done"} /\ maxBid' = maxBid
        /\ UNCHANGED <<runs, trail, guess>> /\ out' # <<>>
        /\ pc' = "start" => run' = run + 1
        /\ pc' = "done" => run' = run
    BY <1>5, LenProperties DEF OutputResults, bestVars, dealVars
  <2>2. AuctionPhase = "over" /\ AuctionPhase' = "over" BY <2>1 DEF AuctionPhase
  <2>3. run \in Nat /\ run > 0
    <3>1. runs \in Seq(Run) BY RunsAssumption DEF IInv, TypeOK
    <3>2. QED BY <3>1, LenProperties DEF IInv, TypeOK
  <2>4. TrailTree' = TrailTree BY <2>1, <2>3 DEF TrailTree, tree
  <2>5. CallsMade' = CallsMade BY <2>1, <2>4 DEF CallsMade, SeatedCalls
  <2>6. QED BY <2>1, <2>2, <2>5 DEF Abstract!avars
<1>6. CASE UNCHANGED vars
  BY <1>6 DEF vars, dealVars, bestVars, AuctionPhase, CallsMade, TrailTree, tree, SeatedCalls,
              Abstract!avars
<1>7. QED BY <1>1, <1>2, <1>3, <1>4, <1>5, <1>6 DEF Next

(* Whatever the tree, the limit and the outcome of a simulation, what is   *)
(* bid is an auction: seats in turn, every call but a last Pass higher     *)
(* than all before it, and the contract the highest call (nextBid(),       *)
(* findMatchingChild()'s retry at the root, suggestContract()).            *)
THEOREM AuctionsAscend == Spec => RefinesAscendingAuction
<1>1. Init => IInv /\ Walk BY InitIInv DEF Init, Walk
<1>2. IInv /\ [Next]_vars => IInv' BY StepIInv
<1>3. IInv /\ Walk /\ [Next]_vars => Walk' BY StepWalk
<1>4. IInv /\ Walk /\ [Next]_vars => [Abstract!ANext]_(Abstract!avars) BY StepRefines
<1>5. Init => Abstract!AInit
  <2>1. SUFFICES ASSUME Init PROVE Abstract!AInit OBVIOUS
  <2>2. trail = <<>> /\ guess = NULL /\ pc = "start" /\ out = <<>> /\ maxBid = bidNotFound
    BY <2>1 DEF Init
  <2>3. CallsMade = <<>>
    <3>1. SeatedCalls(TrailTree, trail) = <<>> BY <2>2 DEF SeatedCalls
    <3>2. QED BY <2>2, <3>1 DEF CallsMade
  <2>4. AuctionPhase = "idle" BY <2>2 DEF AuctionPhase
  <2>5. QED BY <2>2, <2>3, <2>4 DEF Abstract!AInit, Abstract!bidNotFound, bidNotFound
<1>6. QED BY <1>1, <1>2, <1>3, <1>4, <1>5, PTL DEF Spec, RefinesAscendingAuction, Abstract!ASpec
-----------------------------------------------------------------------------
(* The coverage counters.                                                  *)

(* The counters of the runs that are written, of the one that is bid and   *)
(* of those to come, none of which has counted anything.                   *)
CountsInv ==
  /\ out \in Seq({out[i] : i \in DOMAIN out})
  /\ DOMAIN out = 1 .. (IF pc = "done" THEN run ELSE run - 1)
  /\ \A r \in DOMAIN runs :
       r > run \/ (r = run /\ pc = "start") => matched[r] = <<>> /\ guessed[r] = <<>>
  /\ pc = "bidding" =>
       Counts(run, trail) /\ Len(matched[run]) = Len(trail) /\ roundNum = Len(trail)
  /\ pc = "closed" => Counts(run, trail)
  /\ CoverageCounts

LEMMA RunType ==
  ASSUME TypeOK
  PROVE  /\ DOMAIN runs = 1 .. Len(runs) /\ Len(runs) \in Nat
         /\ run \in Nat \ {0} /\ run <= Len(runs)
<1>1. runs \in Seq(Run) BY RunsAssumption DEF TypeOK
<1>2. QED BY <1>1, LenProperties DEF TypeOK

(* A sequence of whatever stays one when it grows. *)
LEMMA OneMore ==
  ASSUME NEW s, s \in Seq({s[i] : i \in DOMAIN s}), NEW e
  PROVE  LET t == Append(s, e)
         IN  /\ t \in Seq({t[i] : i \in DOMAIN t})
             /\ DOMAIN t = 1 .. Len(s) + 1 /\ DOMAIN s = 1 .. Len(s) /\ Len(s) \in Nat
             /\ t[Len(s) + 1] = e
             /\ \A i \in DOMAIN s : t[i] = s[i]
<1> DEFINE t == Append(s, e)
           S == {s[i] : i \in DOMAIN s}
           T == S \cup {e}
<1>1. /\ Len(s) \in Nat /\ DOMAIN s = 1 .. Len(s) /\ s \in [1 .. Len(s) -> S]
  BY LenProperties
<1>2. s \in [1 .. Len(s) -> T] BY <1>1
<1> HIDE DEF S, T
<1>3. s \in Seq(T) BY <1>1, <1>2, SeqDef
<1>4. e \in T BY DEF T
<1>5. /\ t \in Seq(T) /\ Len(t) = Len(s) + 1 /\ t[Len(s) + 1] = e
      /\ \A i \in 1 .. Len(s) : t[i] = s[i]
  BY <1>3, <1>4, AppendProperties
<1> HIDE DEF t
<1>6. DOMAIN t = 1 .. Len(t) /\ Len(t) \in Nat BY <1>5, LenProperties
<1>7. t \in [1 .. Len(t) -> {t[i] : i \in DOMAIN t}] BY <1>5, <1>6
<1>8. t \in Seq({t[i] : i \in DOMAIN t}) BY <1>6, <1>7, SeqDef
<1>9. QED BY <1>1, <1>5, <1>6, <1>8 DEF t

(* A counter that has reached the last round grows by one. *)
LEMMA GrownNext ==
  ASSUME NEW tally \in Seq(Nat), NEW k \in Nat, k = Len(tally) + 1
  PROVE  /\ Len(Grown(tally, k)) = k /\ Len(Bumped(tally, k)) = k
         /\ DOMAIN Grown(tally, k) = 1 .. k /\ DOMAIN Bumped(tally, k) = 1 .. k
         /\ \A i \in 1 .. Len(tally) : Grown(tally, k)[i] = tally[i] /\ Bumped(tally, k)[i] = tally[i]
         /\ Grown(tally, k)[k] = 0 /\ Bumped(tally, k)[k] = 1
<1>1. Len(tally) \in Nat BY LenProperties
<1>2. Grown(tally, k) = [i \in 1 .. k |-> IF i <= Len(tally) THEN tally[i] ELSE 0]
  BY <1>1 DEF Grown
<1>3. Grown(tally, k) \in Seq(Nat) /\ Bumped(tally, k) \in Seq(Nat) BY <1>1, TallyType
<1>4. /\ DOMAIN Grown(tally, k) = 1 .. k /\ Grown(tally, k)[k] = 0
      /\ \A i \in 1 .. Len(tally) : Grown(tally, k)[i] = tally[i]
  BY <1>1, <1>2
<1>5. /\ DOMAIN Bumped(tally, k) = 1 .. k /\ Bumped(tally, k)[k] = 1
      /\ \A i \in 1 .. Len(tally) : Bumped(tally, k)[i] = tally[i]
  BY <1>1, <1>4 DEF Bumped
<1>6. Len(Grown(tally, k)) = k /\ Len(Bumped(tally, k)) = k
  BY <1>3, <1>4, <1>5, LenProperties
<1>7. QED BY <1>4, <1>5, <1>6

(* A decision by rule is counted as matched in its round. *)
LEMMA MatchCounted ==
  ASSUME IInv, CountsInv, MatchBid
  PROVE  Counts(run, trail)' /\ Len(matched'[run]) = Len(trail') /\ roundNum' = Len(trail')
<1> DEFINE n == Len(trail)
<1>1. /\ n \in Nat /\ roundNum = n /\ run \in DOMAIN runs
      /\ matched \in [DOMAIN runs -> Seq(Nat)] /\ guessed \in [DOMAIN runs -> Seq(Nat)]
      /\ Counts(run, trail) /\ Len(matched[run]) = n
  BY DEF IInv, TypeOK, CountsInv, MatchBid
<1>2. matched[run] \in Seq(Nat) /\ guessed[run] \in Seq(Nat) BY <1>1
<1>3. /\ run' = run /\ roundNum' = n + 1
      /\ matched'[run] = Bumped(matched[run], n + 1)
      /\ guessed'[run] = Grown(guessed[run], n + 1)
  BY <1>1 DEF MatchBid
<1>4. Len(trail') = n + 1
  <2>1. trail \in Seq(Decision) BY DEF IInv, TypeOK
  <2>2. \E d : trail' = Append(trail, d) BY DEF MatchBid
  <2>3. QED BY <2>1, <2>2
<1>5. Len(guessed[run]) = n BY <1>1 DEF Counts
<1> HIDE DEF n
<1>6. /\ Len(matched'[run]) = n + 1 /\ DOMAIN matched'[run] = 1 .. n + 1
      /\ \A i \in 1 .. n : matched'[run][i] = matched[run][i]
      /\ matched'[run][n + 1] = 1
  <2> DEFINE m == matched[run]
             b == Bumped(m, n + 1)
  <2>1. m \in Seq(Nat) /\ Len(m) = n /\ n + 1 \in Nat BY <1>1, <1>2
  <2> HIDE DEF m
  <2>2. /\ Len(b) = n + 1 /\ DOMAIN b = 1 .. n + 1 /\ b[n + 1] = 1
        /\ \A i \in 1 .. n : b[i] = m[i]
    BY <2>1, GrownNext
  <2>3. matched'[run] = b BY <1>3 DEF m
  <2>4. QED BY <2>2, <2>3 DEF m
<1>7. /\ Len(guessed'[run]) = n + 1
      /\ \A i \in 1 .. n : guessed'[run][i] = guessed[run][i]
      /\ guessed'[run][n + 1] = 0
  <2> DEFINE m == guessed[run]
             b == Grown(m, n + 1)
  <2>1. m \in Seq(Nat) /\ Len(m) = n /\ n + 1 \in Nat BY <1>1, <1>2, <1>5
  <2> HIDE DEF m
  <2>2. /\ Len(b) = n + 1 /\ DOMAIN b = 1 .. n + 1 /\ b[n + 1] = 0
        /\ \A i \in 1 .. n : b[i] = m[i]
    BY <2>1, GrownNext
  <2>3. guessed'[run] = b BY <1>3 DEF m
  <2>4. QED BY <2>2, <2>3 DEF m
<1>8. \A i \in 1 .. n : matched[run][i] = 1 /\ guessed[run][i] = 0
  <2>1. DOMAIN matched[run] = 1 .. n BY <1>1, <1>2, LenProperties
  <2>2. QED BY <1>1, <2>1 DEF Counts, n
<1>9. \A k \in DOMAIN matched'[run] : k <= n + 1 /\ matched'[run][k] = 1 /\ guessed'[run][k] = 0
  <2>1. \A k \in 1 .. n + 1 : k \in 1 .. n \/ k = n + 1 BY <1>1
  <2>2. QED BY <1>1, <1>6, <1>7, <1>8, <2>1
<1>10. QED BY <1>3, <1>4, <1>6, <1>7, <1>9 DEF Counts

(* A guess is counted as guessed, in the round after the last by rule. *)
LEMMA GuessCounted ==
  ASSUME IInv, CountsInv, NoRule
  PROVE  Counts(run, trail)'
<1> DEFINE n == Len(trail)
<1>1. /\ n \in Nat /\ roundNum = n /\ run \in DOMAIN runs
      /\ matched \in [DOMAIN runs -> Seq(Nat)] /\ guessed \in [DOMAIN runs -> Seq(Nat)]
      /\ Counts(run, trail) /\ Len(matched[run]) = n
  BY DEF IInv, TypeOK, CountsInv, NoRule
<1>2. matched[run] \in Seq(Nat) /\ guessed[run] \in Seq(Nat) BY <1>1
<1>3. /\ run' = run /\ trail' = trail
      /\ matched'[run] = Grown(matched[run], n + 1)
      /\ guessed'[run] = Bumped(guessed[run], n + 1)
  BY <1>1 DEF NoRule
<1>4. Len(guessed[run]) = n BY <1>1 DEF Counts
<1> HIDE DEF n
<1>5. /\ Len(matched'[run]) = n + 1 /\ DOMAIN matched'[run] = 1 .. n + 1
      /\ \A i \in 1 .. n : matched'[run][i] = matched[run][i]
      /\ matched'[run][n + 1] = 0
  <2> DEFINE m == matched[run]
             b == Grown(m, n + 1)
  <2>1. m \in Seq(Nat) /\ Len(m) = n /\ n + 1 \in Nat BY <1>1, <1>2
  <2> HIDE DEF m
  <2>2. /\ Len(b) = n + 1 /\ DOMAIN b = 1 .. n + 1 /\ b[n + 1] = 0
        /\ \A i \in 1 .. n : b[i] = m[i]
    BY <2>1, GrownNext
  <2>3. matched'[run] = b BY <1>3 DEF m
  <2>4. QED BY <2>2, <2>3 DEF m
<1>6. /\ Len(guessed'[run]) = n + 1
      /\ \A i \in 1 .. n : guessed'[run][i] = guessed[run][i]
      /\ guessed'[run][n + 1] = 1
  <2> DEFINE m == guessed[run]
             b == Bumped(m, n + 1)
  <2>1. m \in Seq(Nat) /\ Len(m) = n /\ n + 1 \in Nat BY <1>1, <1>2, <1>4
  <2> HIDE DEF m
  <2>2. /\ Len(b) = n + 1 /\ DOMAIN b = 1 .. n + 1 /\ b[n + 1] = 1
        /\ \A i \in 1 .. n : b[i] = m[i]
    BY <2>1, GrownNext
  <2>3. guessed'[run] = b BY <1>3 DEF m
  <2>4. QED BY <2>2, <2>3 DEF m
<1>7. \A i \in 1 .. n : matched[run][i] = 1 /\ guessed[run][i] = 0
  <2>1. DOMAIN matched[run] = 1 .. n BY <1>1, <1>2, LenProperties
  <2>2. QED BY <1>1, <2>1 DEF Counts, n
<1>8. \A k \in DOMAIN matched'[run] :
        IF k <= n THEN matched'[run][k] = 1 /\ guessed'[run][k] = 0
                  ELSE matched'[run][k] = 0 /\ guessed'[run][k] = 1
  <2>1. \A k \in 1 .. n + 1 : (k \in 1 .. n /\ k <= n) \/ (k = n + 1 /\ ~ (k <= n)) BY <1>1
  <2>2. QED BY <1>1, <1>5, <1>6, <1>7, <2>1
<1>9. QED BY <1>3, <1>5, <1>6, <1>8 DEF Counts, n

(* A decision touches the counters of the run that makes it only. *)
LEMMA OthersUncounted ==
  ASSUME IInv, CountsInv, pc = "bidding", pc' # "start", pc' # "done",
         UNCHANGED <<runs, run, out>>,
         \A r \in DOMAIN runs : r # run => matched'[r] = matched[r] /\ guessed'[r] = guessed[r]
  PROVE  /\ DOMAIN out' = 1 .. (IF pc' = "done" THEN run' ELSE run' - 1)
         /\ \A r \in DOMAIN runs' :
              r > run' \/ (r = run' /\ pc' = "start") => matched'[r] = <<>> /\ guessed'[r] = <<>>
         /\ CoverageCounts'
         /\ out' \in Seq({out'[i] : i \in DOMAIN out'})
<1>1. run \in Nat \ {0} /\ run <= Len(runs) /\ DOMAIN runs = 1 .. Len(runs) /\ Len(runs) \in Nat
  BY RunType DEF IInv
<1>2. DOMAIN out = 1 .. (run - 1) BY DEF CountsInv
<1>3. \A r \in DOMAIN out : r # run /\ r \in DOMAIN runs BY <1>1, <1>2
<1>4. CoverageCounts'
  BY <1>3 DEF CountsInv, CoverageCounts, Counts
<1>5. \A r \in DOMAIN runs : r > run => r # run BY <1>1
<1>6. QED BY <1>2, <1>4, <1>5 DEF CountsInv

LEMMA InitCounts ==
  ASSUME Init
  PROVE  CountsInv
<1>1. out = <<>> /\ run = 1 /\ pc = "start" BY DEF Init
<1>2. DOMAIN out = 1 .. (run - 1) /\ DOMAIN out = {} BY <1>1
<1>3. CoverageCounts BY <1>2 DEF CoverageCounts
<1>4. out \in Seq({out[i] : i \in DOMAIN out}) BY <1>1
<1>5. QED BY <1>1, <1>2, <1>3, <1>4 DEF Init, CountsInv

LEMMA StepCounts ==
  ASSUME IInv, CountsInv, [Next]_vars
  PROVE  CountsInv'
<1>0. run \in Nat \ {0} /\ run <= Len(runs) /\ DOMAIN runs = 1 .. Len(runs) /\ Len(runs) \in Nat
  BY RunType DEF IInv
<1>1. CASE BidHand
  <2>1. /\ pc = "start" /\ pc' = "bidding" /\ trail' = <<>> /\ roundNum' = 0
        /\ UNCHANGED <<runs, run, matched, guessed, out>>
    BY <1>1 DEF BidHand, dealVars
  <2>2. matched[run] = <<>> /\ guessed[run] = <<>> BY <1>0, <2>1 DEF CountsInv
  <2>3. Counts(run, trail)' /\ Len(matched'[run]) = Len(trail')
    BY <2>1, <2>2 DEF Counts
  <2>4. CoverageCounts' BY <2>1 DEF CountsInv, CoverageCounts, Counts
  <2>5. QED BY <2>1, <2>3, <2>4 DEF CountsInv
<1>2. CASE MatchBid
  <2>1. Counts(run, trail)' /\ Len(matched'[run]) = Len(trail') /\ roundNum' = Len(trail')
    BY <1>2, MatchCounted
  <2>2. /\ pc = "bidding" /\ pc' \in {"bidding", "closed"} /\ UNCHANGED <<runs, run, out>>
        /\ \A r \in DOMAIN runs : r # run => matched'[r] = matched[r] /\ guessed'[r] = guessed[r]
    BY <1>2 DEF MatchBid, dealVars, IInv, TypeOK
  <2>3. QED BY <2>1, <2>2, OthersUncounted DEF CountsInv
<1>3. CASE StopAtRules \/ GuessBid \/ GuessAborts
  <2>1. NoRule /\ pc' \in {"closed", "aborted"} BY <1>3 DEF StopAtRules, GuessBid, GuessAborts
  <2>2. Counts(run, trail)' BY <2>1, GuessCounted
  <2>3. /\ pc = "bidding" /\ UNCHANGED <<runs, run, out>>
        /\ \A r \in DOMAIN runs : r # run => matched'[r] = matched[r] /\ guessed'[r] = guessed[r]
    BY <2>1 DEF NoRule, dealVars, IInv, TypeOK
  <2>4. QED BY <2>1, <2>2, <2>3, OthersUncounted DEF CountsInv
<1>4. CASE OutputResults
  <2> DEFINE o == [columns |-> Columns, trail |-> trail, guess |-> guess]
  <2>1. /\ pc = "closed" /\ out' = Append(out, o)
        /\ UNCHANGED <<runs, matched, guessed>>
        /\ \/ run < Len(runs) /\ run' = run + 1 /\ pc' = "start"
           \/ run = Len(runs) /\ run' = run /\ pc' = "done"
    BY <1>4 DEF OutputResults, dealVars
  <2>2. DOMAIN out = 1 .. (run - 1) BY <2>1 DEF CountsInv
  <2>3. /\ DOMAIN out' = 1 .. run /\ out'[run].trail = trail
        /\ \A r \in DOMAIN out : out'[r] = out[r]
        /\ out' \in Seq({out'[i] : i \in DOMAIN out'})
    <3>1. out \in Seq({out[i] : i \in DOMAIN out}) BY DEF CountsInv
    <3>2. /\ out' \in Seq({out'[i] : i \in DOMAIN out'})
          /\ DOMAIN out' = 1 .. Len(out) + 1 /\ DOMAIN out = 1 .. Len(out) /\ Len(out) \in Nat
          /\ out'[Len(out) + 1] = o
          /\ \A i \in DOMAIN out : out'[i] = out[i]
      BY <2>1, <3>1, OneMore
    <3>3. Len(out) = run - 1 BY <1>0, <2>2, <3>2, LenProperties, <3>1
    <3>4. out'[run] = o BY <1>0, <3>2, <3>3
    <3>5. QED BY <1>0, <3>2, <3>3, <3>4
  <2>4. CoverageCounts'
    <3>1. Counts(run, trail) BY <2>1 DEF CountsInv
    <3>2. \A r \in DOMAIN out' : r = run \/ r \in DOMAIN out BY <1>0, <2>2, <2>3
    <3>3. \A r \in DOMAIN out' : Counts(r, out'[r].trail)
      BY <2>3, <3>1, <3>2 DEF CountsInv, CoverageCounts
    <3>4. QED BY <2>1, <3>3 DEF CoverageCounts, Counts
  <2>5. DOMAIN out' = 1 .. (IF pc' = "done" THEN run' ELSE run' - 1)
    <3>2. CASE pc' = "start"
      <4>1. run' - 1 = run BY <1>0, <2>1, <3>2
      <4>2. QED BY <2>3, <3>2, <4>1
    <3>3. CASE pc' = "done" BY <2>1, <2>3, <3>3
    <3>4. QED BY <2>1, <3>2, <3>3
  <2>6. \A r \in DOMAIN runs' :
          r > run' \/ (r = run' /\ pc' = "start") => matched'[r] = <<>> /\ guessed'[r] = <<>>
    <3>1. SUFFICES ASSUME NEW r \in DOMAIN runs, r > run' \/ (r = run' /\ pc' = "start")
                   PROVE  matched[r] = <<>> /\ guessed[r] = <<>>
      BY <2>1
    <3>2. r \in Nat /\ r <= Len(runs) BY <1>0
    <3>3. r > run
      <4>1. run' \in Nat /\ run' >= run /\ (pc' = "start" => run' = run + 1)
        <5>1. CASE run' = run + 1 /\ pc' = "start" BY <1>0, <5>1
        <5>2. CASE run' = run /\ pc' = "done" BY <1>0, <5>2
        <5>3. QED BY <2>1, <5>1, <5>2
      <4>2. CASE r > run' BY <1>0, <3>2, <4>1, <4>2
      <4>3. CASE r = run' /\ pc' = "start" BY <1>0, <4>1, <4>3
      <4>4. QED BY <3>1, <4>2, <4>3
    <3>4. QED BY <3>3 DEF CountsInv
  <2>7. QED BY <2>1, <2>3, <2>4, <2>5, <2>6 DEF CountsInv
<1>5. CASE UNCHANGED vars
  BY <1>5 DEF vars, dealVars, CountsInv, CoverageCounts, Counts
<1>6. QED BY <1>1, <1>2, <1>3, <1>4, <1>5 DEF Next

(* --stats: in every run and round, each decision is counted once, and     *)
(* only the last one of an auction as a guess (matchedByRound and          *)
(* guessedByRound in nextBid()).                                           *)
THEOREM CoverageIsCounted == Spec => []CoverageCounts
<1>1. Init => IInv /\ CountsInv BY InitIInv, InitCounts
<1>2. IInv /\ [Next]_vars => IInv' BY StepIInv
<1>3. IInv /\ CountsInv /\ [Next]_vars => CountsInv' BY StepCounts
<1>4. CountsInv => CoverageCounts BY DEF CountsInv
<1>5. QED BY <1>1, <1>2, <1>3, <1>4, PTL DEF Spec
-----------------------------------------------------------------------------
(* The first run's declarer.                                               *)

(* The new best calls of a strain as setDeclarer() takes them, in any tree *)
(* and decisions: Naming() and, for notrump, an opening Pass.              *)
Namers(t, tr, s) ==
  {i \in DOMAIN tr : /\ bidStrain(t.call[tr[i].to]) = s
                     /\ \A j \in 1 .. (i - 1) : t.call[tr[j].to] < t.call[tr[i].to]}

(* What the decisions tell of who is on record for a strain, if nobody was *)
(* when they began.                                                        *)
NamedBy(t, tr, s) ==
  IF Namers(t, tr, s) = {} THEN -1 ELSE tr[FirstOf(Namers(t, tr, s))].seat

(* While the first run is bid, the best call is the highest call, and      *)
(* whoever first named a strain is on record for it.                       *)
Recorded ==
  run = 1 =>
    /\ pc = "start" => declarer = [s \in Strain |-> -1]
    /\ pc = "bidding" =>
         /\ \A i \in DOMAIN trail : tree.call[trail[i].to] <= maxBid
         /\ maxBid # bidNotFound => \E i \in DOMAIN trail : tree.call[trail[i].to] = maxBid
         /\ \A s \in Strain : declarer[s] = NamedBy(tree, trail, s)
    /\ FirstRunDeclarer

(* Unless the auction was opened with a Pass that stands for the strain,   *)
(* the calls that put a seat on record for it are bids.                    *)
LEMMA NamersAreBids ==
  ASSUME NEW t, WellFormed(t), NEW tr \in Seq(Decision), NEW s,
         ~ (s = bidStrain(bidPass) /\ tr # <<>> /\ t.call[tr[1].to] = bidPass)
  PROVE  {i \in DOMAIN tr : /\ t.call[tr[i].to] > bidPass
                            /\ bidStrain(t.call[tr[i].to]) = s
                            /\ \A j \in 1 .. (i - 1) : t.call[tr[j].to] < t.call[tr[i].to]}
           = Namers(t, tr, s)
<1> DEFINE c(i) == t.call[tr[i].to]
<1>1. /\ Len(tr) \in Nat /\ DOMAIN tr = 1 .. Len(tr)
      /\ \A i \in DOMAIN tr : c(i) \in Call
  <2>1. \A i \in DOMAIN tr : tr[i] \in Decision BY LenProperties
  <2>2. \A i \in DOMAIN tr : tr[i].to \in Node BY <2>1 DEF Decision
  <2>3. QED BY <2>2, TreeType, LenProperties
<1>2. ~ (s = bidStrain(bidPass) /\ tr # <<>> /\ c(1) = bidPass) OBVIOUS
<1>3. Namers(t, tr, s) = {i \in DOMAIN tr : /\ bidStrain(c(i)) = s
                                            /\ \A j \in 1 .. (i - 1) : c(j) < c(i)}
  BY DEF Namers
<1> HIDE DEF c
<1>4. ASSUME NEW i \in DOMAIN tr, bidStrain(c(i)) = s, \A j \in 1 .. (i - 1) : c(j) < c(i)
      PROVE  c(i) > bidPass
  <2>1. SUFFICES ASSUME c(i) = bidPass PROVE FALSE
    BY <1>1 DEF Call, bidPass
  <2>2. i = 1
    <3>1. SUFFICES ASSUME i # 1 PROVE FALSE OBVIOUS
    <3>2. 1 \in 1 .. (i - 1) /\ 1 \in DOMAIN tr BY <1>1, <3>1
    <3>3. QED BY <1>1, <1>4, <2>1, <3>2 DEF Call, bidPass
  <2>3. tr # <<>> BY <1>1
  <2>4. QED BY <1>2, <1>4, <2>1, <2>2, <2>3
<1>5. {i \in DOMAIN tr : /\ c(i) > bidPass /\ bidStrain(c(i)) = s
                         /\ \A j \in 1 .. (i - 1) : c(j) < c(i)} = Namers(t, tr, s)
  BY <1>3, <1>4
<1>6. QED BY <1>5 DEF c

LEMMA NamersType ==
  ASSUME NEW t, NEW tr \in Seq(Decision), NEW s
  PROVE  Namers(t, tr, s) \in SUBSET Nat /\ Namers(t, tr, s) \subseteq DOMAIN tr
  BY LenProperties DEF Namers

(* One more decision names its strain if its call is a new best. *)
LEMMA NamersNext ==
  ASSUME NEW t, NEW tr \in Seq(Decision), NEW d \in Decision, NEW s
  PROVE  LET best == \A i \in DOMAIN tr : t.call[tr[i].to] < t.call[d.to]
             k    == Len(tr) + 1
         IN  Namers(t, Append(tr, d), s)
               = Namers(t, tr, s)
                 \cup (IF best /\ bidStrain(t.call[d.to]) = s THEN {k} ELSE {})
<1> DEFINE u == Append(tr, d)
           k == Len(tr) + 1
           c(i) == t.call[tr[i].to]
           v(i) == t.call[u[i].to]
           e == t.call[d.to]
           best == \A i \in DOMAIN tr : c(i) < e
<1>1. /\ Len(tr) \in Nat /\ DOMAIN tr = 1 .. Len(tr) /\ DOMAIN u = 1 .. k
      /\ \A i \in DOMAIN tr : u[i] = tr[i]
      /\ u[k] = d
  BY AppendProperties
<1>2. (\A i \in DOMAIN tr : v(i) = c(i)) /\ v(k) = e BY <1>1
<1>3. Namers(t, u, s) = {i \in DOMAIN u : bidStrain(v(i)) = s /\ \A j \in 1 .. (i - 1) : v(j) < v(i)}
  BY DEF Namers
<1>4. Namers(t, tr, s) = {i \in DOMAIN tr : bidStrain(c(i)) = s /\ \A j \in 1 .. (i - 1) : c(j) < c(i)}
  BY DEF Namers
<1>5. SUFFICES Namers(t, u, s) = Namers(t, tr, s) \cup (IF best /\ bidStrain(e) = s THEN {k} ELSE {})
  OBVIOUS
<1> HIDE DEF u, k, c, v, e
<1>6. DOMAIN u = DOMAIN tr \cup {k} /\ k \notin DOMAIN tr /\ DOMAIN tr \subseteq Nat
  BY <1>1 DEF k
<1>7. ASSUME NEW i \in DOMAIN tr
      PROVE  i \in Namers(t, u, s) <=> i \in Namers(t, tr, s)
  <2>1. \A j \in 1 .. (i - 1) : j \in DOMAIN tr BY <1>1
  <2>2. \A j \in 1 .. (i - 1) : v(j) = c(j) BY <1>2, <2>1
  <2>3. v(i) = c(i) /\ i \in DOMAIN u BY <1>2, <1>6
  <2>4. (\A j \in 1 .. (i - 1) : v(j) < v(i)) <=> (\A j \in 1 .. (i - 1) : c(j) < c(i))
    BY <2>2, <2>3
  <2>5. QED BY <1>3, <1>4, <2>3, <2>4
<1>8. k \in Namers(t, u, s) <=> best /\ bidStrain(e) = s
  <2>1. 1 .. (k - 1) = DOMAIN tr BY <1>1 DEF k
  <2>2. (\A j \in 1 .. (k - 1) : v(j) < v(k)) <=> best BY <1>2, <2>1
  <2>3. QED BY <1>2, <1>3, <1>6, <2>2
<1>9. Namers(t, u, s) \subseteq DOMAIN u /\ Namers(t, tr, s) \subseteq DOMAIN tr BY <1>3, <1>4
<1> HIDE DEF best
<1>10. QED BY <1>6, <1>7, <1>8, <1>9

(* A strain that nobody had named is named by the decision that is a new   *)
(* best; one that somebody had named stays his.                            *)
LEMMA NamedNext ==
  ASSUME NEW t, NEW tr \in Seq(Decision), NEW d \in Decision, NEW s,
         \A i \in DOMAIN tr : t.call[tr[i].to] < t.call[d.to]
  PROVE  NamedBy(t, Append(tr, d), s)
           = IF Namers(t, tr, s) = {} /\ bidStrain(t.call[d.to]) = s THEN d.seat
             ELSE NamedBy(t, tr, s)
<1> DEFINE u == Append(tr, d)
           k == Len(tr) + 1
           old == Namers(t, tr, s)
           new == Namers(t, u, s)
<1>1. new = old \cup (IF bidStrain(t.call[d.to]) = s THEN {k} ELSE {})
  BY NamersNext, Zenon
<1>2. /\ Len(tr) \in Nat /\ DOMAIN tr = 1 .. Len(tr) /\ u[k] = d
      /\ \A i \in DOMAIN tr : u[i] = tr[i]
  BY AppendProperties
<1>3. old \in SUBSET Nat /\ old \subseteq DOMAIN tr BY NamersType
<1> HIDE DEF u, old, new, k
<1>4. CASE old = {}
  <2>1. CASE bidStrain(t.call[d.to]) = s
    <3>1. new = {k} BY <1>1, <1>4, <2>1
    <3>2. k \in Nat /\ FirstOf({k}) = k
      <4>1. k \in Nat /\ {k} \in SUBSET Nat /\ k \in {k} /\ \A j \in {k} : k <= j BY <1>2 DEF k
      <4>2. QED BY <4>1, FirstOfUnique
    <3>3. QED BY <1>2, <1>4, <2>1, <3>1, <3>2 DEF NamedBy, new, u, old
  <2>2. CASE bidStrain(t.call[d.to]) # s
    BY <1>1, <1>4, <2>2 DEF NamedBy, new, u, old
  <2>3. QED BY <2>1, <2>2
<1>5. CASE old # {}
  <2>1. FirstOf(old) \in old /\ \A j \in old : FirstOf(old) <= j BY <1>3, <1>5, FirstOfLeast
  <2>2. FirstOf(old) \in DOMAIN tr /\ FirstOf(old) <= k /\ k \in Nat
    <3>1. FirstOf(old) \in 1 .. Len(tr) BY <1>2, <1>3, <2>1
    <3>2. QED BY <1>2, <3>1 DEF k
  <2>3. \A j \in new : j \in old \/ j = k BY <1>1
  <2>4. FirstOf(old) \in new /\ \A j \in new : FirstOf(old) <= j BY <1>1, <2>1, <2>2, <2>3
  <2>5. new \in SUBSET Nat BY <1>3, <2>2, <2>3
  <2>6. FirstOf(new) = FirstOf(old) BY <2>4, <2>5, FirstOfUnique
  <2>7. QED BY <1>2, <1>5, <2>2, <2>4, <2>6 DEF NamedBy, new, u, old
<1>6. QED BY <1>4, <1>5

(* A call that is no new best names nothing. *)
LEMMA NamedStays ==
  ASSUME NEW t, NEW tr \in Seq(Decision), NEW d \in Decision, NEW s,
         \E i \in DOMAIN tr : ~ (t.call[tr[i].to] < t.call[d.to])
  PROVE  /\ Namers(t, Append(tr, d), s) = Namers(t, tr, s)
         /\ NamedBy(t, Append(tr, d), s) = NamedBy(t, tr, s)
<1>1. Namers(t, Append(tr, d), s) = Namers(t, tr, s)
  <2> DEFINE best == \A i \in DOMAIN tr : t.call[tr[i].to] < t.call[d.to]
  <2>1. ~ best OBVIOUS
  <2>2. Namers(t, Append(tr, d), s)
          = Namers(t, tr, s)
            \cup (IF best /\ bidStrain(t.call[d.to]) = s THEN {Len(tr) + 1} ELSE {})
    BY NamersNext, Zenon
  <2> HIDE DEF best
  <2>3. QED BY <2>1, <2>2
<1>2. ASSUME Namers(t, tr, s) # {}
      PROVE  Append(tr, d)[FirstOf(Namers(t, tr, s))] = tr[FirstOf(Namers(t, tr, s))]
  <2>1. FirstOf(Namers(t, tr, s)) \in DOMAIN tr BY <1>2, NamersType, FirstOfLeast
  <2>2. QED BY <2>1, AppendProperties, LenProperties
<1>3. QED BY <1>1, <1>2 DEF NamedBy

LEMMA StepRecorded ==
  ASSUME IInv, NamedStrain, NamedStrain', Walk, Recorded, [Next]_vars
  PROVE  Recorded'
<1>1. CASE BidHand
  <2>1. /\ pc = "start" /\ pc' = "bidding" /\ run' = run /\ trail' = <<>>
        /\ declarer' = declarer /\ maxBid' = bidNotFound
    BY <1>1 DEF BidHand
  <2>2. \A s \in Strain : NamedBy(tree', <<>>, s) = -1
    <3>1. \A s : Namers(tree', <<>>, s) = {} BY DEF Namers
    <3>2. QED BY <3>1 DEF NamedBy
  <2>3. QED BY <2>1, <2>2 DEF Recorded, FirstRunDeclarer, Contracted
<1>2. CASE MatchBid
  <2> DEFINE b == tree.call[Found.match]
             d == [seat |-> bidder, from |-> sysp, passed |-> allPassSoFar, to |-> Found.match]
  <2>1. /\ pc = "bidding" /\ run' = run /\ tree' = tree /\ guess' = guess
        /\ trail' = Append(trail, d)
    BY <1>2 DEF MatchBid, dealVars, tree
  <2>2. bidder \in Seat /\ b \in Call /\ Found.match \in Node
    <3>1. Found.match \in Node
      BY <1>2, TreeOfRun, MatchExact DEF Found, IInv, TypeOK, MatchBid
    <3>2. QED BY <2>1, <3>1, TreeOfRun, TreeType DEF IInv, TypeOK
  <2>3. trail \in Seq(Decision) /\ d \in Decision /\ d.seat = bidder
    BY <2>1, <2>2 DEF IInv, TypeOK, Decision
  <2>4. SUFFICES ASSUME run = 1 PROVE Recorded' BY <2>1 DEF Recorded
  <2>5. /\ \A i \in DOMAIN trail : tree.call[trail[i].to] <= maxBid
        /\ maxBid # bidNotFound => \E i \in DOMAIN trail : tree.call[trail[i].to] = maxBid
        /\ \A s \in Strain : declarer[s] = NamedBy(tree, trail, s)
        /\ maxBid \in BestBid
    BY <2>1, <2>4 DEF Recorded, IInv, TypeOK
  <2>6. \A i \in DOMAIN trail : tree.call[trail[i].to] \in Int
    <3>1. \A i \in DOMAIN trail : trail[i] \in Decision BY <2>3, LenProperties
    <3>2. \A i \in DOMAIN trail : trail[i].to \in Node BY <3>1 DEF Decision
    <3>3. QED BY <3>2, TreeOfRun, TreeType, CallFacts DEF IInv
  <2>7. CASE NewBestBid(b)
    <3>1. maxBid' = b /\ declarer' = DeclarerWith(b) /\ pc' = "bidding"
      BY <1>2, <2>7 DEF MatchBid
    <3>2. \A i \in DOMAIN trail : tree.call[trail[i].to] < b
      BY <2>2, <2>5, <2>6, <2>7 DEF NewBestBid, Call, BestBid
    <3>3. \A s \in Strain :
            NamedBy(tree, trail', s) = IF Namers(tree, trail, s) = {} /\ bidStrain(b) = s
                                       THEN bidder ELSE NamedBy(tree, trail, s)
      BY <2>1, <2>3, <3>2, NamedNext
    <3>4. \A s \in Strain : declarer'[s] = NamedBy(tree, trail', s)
      <4>1. SUFFICES ASSUME NEW s \in Strain
                     PROVE  declarer'[s] = NamedBy(tree, trail', s)
        OBVIOUS
      <4>2. Namers(tree, trail, s) = {} <=> declarer[s] < 0
        <5>1. CASE Namers(tree, trail, s) = {} BY <2>5, <5>1 DEF NamedBy
        <5>2. CASE Namers(tree, trail, s) # {}
          <6>1. FirstOf(Namers(tree, trail, s)) \in DOMAIN trail
            BY <2>3, <5>2, NamersType, FirstOfLeast
          <6>2. trail[FirstOf(Namers(tree, trail, s))].seat \in Seat
            <7>1. \A i \in DOMAIN trail : trail[i] \in Decision BY <2>3, LenProperties
            <7>2. QED BY <6>1, <7>1 DEF Decision
          <6>3. declarer[s] \in Seat BY <2>5, <5>2, <6>2 DEF NamedBy
          <6>4. QED BY <5>2, <6>3 DEF Seat, posNorth, posSouth
        <5>3. QED BY <5>1, <5>2
      <4>3. declarer \in [Strain -> Seat \cup {-1}] BY DEF IInv, TypeOK
      <4>4. declarer'[s] = IF declarer[s] < 0 /\ bidStrain(b) = s THEN bidder ELSE declarer[s]
        BY <3>1, <4>3 DEF DeclarerWith
      <4>5. declarer[s] = NamedBy(tree, trail, s) BY <2>5
      <4>6. QED BY <3>3, <4>2, <4>4, <4>5
    <3>5. \A i \in DOMAIN trail' : tree.call[trail'[i].to] <= b
      <4>1. /\ DOMAIN trail' = 1 .. Len(trail) + 1 /\ DOMAIN trail = 1 .. Len(trail)
            /\ Len(trail) \in Nat /\ trail'[Len(trail) + 1] = d
            /\ \A i \in 1 .. Len(trail) : trail'[i] = trail[i]
        BY <2>1, <2>3, AppendProperties
      <4>2. \A i \in DOMAIN trail' : i \in DOMAIN trail \/ i = Len(trail) + 1 BY <4>1
      <4>3. b <= b /\ \A i \in DOMAIN trail : tree.call[trail[i].to] <= b
        BY <2>2, <2>6, <3>2 DEF Call
      <4>4. QED BY <4>1, <4>2, <4>3
    <3>6. \E i \in DOMAIN trail' : tree.call[trail'[i].to] = b
      <4>1. Len(trail) + 1 \in DOMAIN trail' /\ trail'[Len(trail) + 1] = d
        BY <2>1, <2>3, AppendProperties
      <4>2. QED BY <4>1
    <3>7. QED BY <2>1, <3>1, <3>4, <3>5, <3>6 DEF Recorded, FirstRunDeclarer, Contracted
  <2>8. CASE ~ NewBestBid(b)
    <3>1. maxBid' = maxBid /\ declarer' = declarer /\ pc' = "closed"
      BY <1>2, <2>8 DEF MatchBid, bestVars
    <3>2. maxBid # bidNotFound
      BY <2>2, <2>5, <2>8 DEF NewBestBid, Call, BestBid, bidPass, bidNotFound
    <3>3. bidStrain(maxBid) \in Strain /\ declarer[bidStrain(maxBid)] \in Seat
      BY <2>1, <2>5, <3>2, CallFacts DEF NamedStrain
    <3>4. declarer[bidStrain(maxBid)] = NamedBy(tree, trail, bidStrain(maxBid)) BY <2>5, <3>3
    <3>5. Namers(tree, trail, bidStrain(maxBid)) # {}
      BY <3>3, <3>4 DEF NamedBy, Seat, posNorth, posSouth
    <3>6. \E i \in DOMAIN trail : ~ (tree.call[trail[i].to] < b)
      <4>1. maxBid \in Int /\ b \in Int /\ ~ (maxBid < b)
        BY <2>2, <2>5, <2>8 DEF NewBestBid, Call, BestBid
      <4>2. QED BY <2>5, <3>2, <4>1
    <3>7. /\ Namers(tree, trail', bidStrain(maxBid)) # {}
          /\ NamedBy(tree, trail', bidStrain(maxBid)) = declarer[bidStrain(maxBid)]
      BY <2>1, <2>3, <3>4, <3>5, <3>6, NamedStays
    <3>8. FirstRunDeclarer'
      <4>1. getDeclarer(maxBid)' = declarer[bidStrain(maxBid)]
        BY <3>1, <3>3 DEF getDeclarer, Seat, posNorth, posSouth
      <4>2. SUFFICES ASSUME ~ PassNamesNotrump(maxBid)'
                     PROVE  getDeclarer(maxBid)' = FirstNamer(maxBid)'
        BY DEF FirstRunDeclarer
      <4>3. Naming(maxBid)' = Namers(tree, trail', bidStrain(maxBid))
        <5>1. trail' \in Seq(Decision) BY <2>1, <2>3, AppendProperties
        <5>2. ~ (/\ bidStrain(maxBid) = bidStrain(bidPass)
                 /\ trail' # <<>> /\ tree.call[trail'[1].to] = bidPass)
          BY <2>1, <3>1, <4>2 DEF PassNamesNotrump
        <5>3. WellFormed(tree) BY TreeOfRun DEF IInv
        <5> HIDE DEF b, d
        <5>4. Naming(maxBid)'
                = {i \in DOMAIN trail' :
                     /\ tree.call[trail'[i].to] > bidPass
                     /\ bidStrain(tree.call[trail'[i].to]) = bidStrain(maxBid)
                     /\ \A j \in 1 .. (i - 1) : tree.call[trail'[j].to] < tree.call[trail'[i].to]}
          BY <2>1, <3>1 DEF Naming
        <5>5. QED BY <5>1, <5>2, <5>3, <5>4, NamersAreBids
      <4>4. FirstNamer(maxBid)' = NamedBy(tree, trail', bidStrain(maxBid))
        BY <2>1, <3>1, <3>7, <4>3 DEF FirstNamer, NamedBy
      <4>5. QED BY <3>7, <4>1, <4>4
    <3>9. QED BY <3>1, <3>8 DEF Recorded
  <2>9. QED BY <2>7, <2>8
<1>3. CASE StopAtRules
  BY <1>3 DEF StopAtRules, NoRule, dealVars, Recorded, FirstRunDeclarer, Contracted
<1>4. CASE GuessBid
  <2>1. /\ pc = "bidding" /\ bidder \in Seat /\ tree' = tree /\ trail' = trail /\ run' = run
        /\ pc' = "closed"
    BY <1>4 DEF GuessBid, NoRule, dealVars, tree, IInv, TypeOK
  <2>2. SUFFICES ASSUME run = 1 PROVE FirstRunDeclarer' BY <2>1 DEF Recorded
  <2>3. PICK st \in ScoreTables :
          /\ \/ /\ NewBestBid(SuggestedBid(st))
                /\ maxBid' = SuggestedBid(st) /\ declarer' = DeclarerWith(SuggestedBid(st))
             \/ ~ NewBestBid(SuggestedBid(st)) /\ UNCHANGED bestVars
          /\ guess'.seat = bidder
    BY <1>4 DEF GuessBid
  <2> DEFINE b == SuggestedBid(st)
  <2>4. b \in Call /\ maxBid \in BestBid /\ declarer \in [Strain -> Seat \cup {-1}]
    BY SuggestedType DEF IInv, TypeOK
  <2>5. \A s \in Strain : declarer[s] = NamedBy(tree, trail, s) BY <2>1, <2>2 DEF Recorded
  <2>6. maxBid' \in BestBid /\ maxBid' # bidNotFound /\ bidStrain(maxBid') \in Strain
    <3>1. maxBid' \in BestBid /\ maxBid' # bidNotFound
      BY <2>3, <2>4, CallFacts
      DEF NewBestBid, bestVars, Call, BestBid, bidPass, bidNotFound
    <3>2. QED BY <3>1, CallFacts
  <2>7. getDeclarer(maxBid)' = declarer'[bidStrain(maxBid')]
    <3>1. declarer'[bidStrain(maxBid')] \in Seat BY <2>1, <2>6 DEF NamedStrain
    <3>2. QED BY <3>1 DEF getDeclarer, Seat, posNorth, posSouth
  <2>8. SUFFICES ASSUME ~ PassNamesNotrump(maxBid)'
                  PROVE  getDeclarer(maxBid)' = FirstNamer(maxBid)'
    BY DEF FirstRunDeclarer
  <2>9. Naming(maxBid)' = Namers(tree, trail, bidStrain(maxBid'))
    <3>1. trail \in Seq(Decision) BY DEF IInv, TypeOK
    <3>2. QED BY <2>1, <2>8, <3>1, TreeOfRun, NamersAreBids
              DEF Naming, PassNamesNotrump, IInv
  <2>10. CASE Namers(tree, trail, bidStrain(maxBid')) = {}
    <3>1. declarer[bidStrain(maxBid')] = -1 BY <2>5, <2>6, <2>10 DEF NamedBy
    <3>2. NewBestBid(b)
      <4>1. SUFFICES ASSUME ~ NewBestBid(b) PROVE FALSE OBVIOUS
      <4>2. declarer[bidStrain(maxBid')] \in Seat
        BY <2>1, <2>3, <2>6, <4>1 DEF NamedStrain, bestVars
      <4>3. QED BY <3>1, <4>2 DEF Seat, posNorth, posSouth
    <3>3. declarer'[bidStrain(maxBid')] = bidder
      BY <2>3, <2>4, <2>6, <3>1, <3>2 DEF DeclarerWith
    <3>4. FirstNamer(maxBid)' = bidder
      BY <2>3, <2>10, <2>9 DEF FirstNamer
    <3>5. QED BY <2>7, <3>3, <3>4
  <2>11. CASE Namers(tree, trail, bidStrain(maxBid')) # {}
    <3>1. declarer[bidStrain(maxBid')] = NamedBy(tree, trail, bidStrain(maxBid'))
      BY <2>5, <2>6
    <3>2. FirstNamer(maxBid)' = NamedBy(tree, trail, bidStrain(maxBid'))
      BY <2>1, <2>11, <2>9 DEF FirstNamer, NamedBy
    <3>3. declarer[bidStrain(maxBid')] \in Seat
      <4>1. trail \in Seq(Decision) BY DEF IInv, TypeOK
      <4>2. FirstOf(Namers(tree, trail, bidStrain(maxBid'))) \in DOMAIN trail
        BY <2>11, <4>1, NamersType, FirstOfLeast
      <4>3. \A i \in DOMAIN trail : trail[i] \in Decision BY <4>1, LenProperties
      <4>4. QED BY <2>11, <3>1, <4>2, <4>3 DEF NamedBy, Decision
    <3>4. declarer'[bidStrain(maxBid')] = declarer[bidStrain(maxBid')]
      BY <2>3, <2>4, <2>6, <3>3 DEF DeclarerWith, bestVars, Seat, posNorth, posSouth
    <3>5. QED BY <2>7, <3>1, <3>2, <3>4
  <2>12. QED BY <2>10, <2>11
<1>5. CASE GuessAborts
  BY <1>5 DEF GuessAborts, Recorded, FirstRunDeclarer, Contracted
<1>6. CASE OutputResults
  <2>1. pc' = "done" \/ (pc' = "start" /\ run' = run + 1) BY <1>6 DEF OutputResults
  <2>2. run \in Nat \ {0} BY RunType DEF IInv
  <2>3. QED BY <2>1, <2>2 DEF Recorded, FirstRunDeclarer, Contracted
<1>7. CASE UNCHANGED vars
  BY <1>7 DEF vars, dealVars, bestVars, tree, Recorded, FirstRunDeclarer, Contracted,
              FirstNamer, Naming, PassNamesNotrump, getDeclarer
<1>8. QED BY <1>1, <1>2, <1>3, <1>4, <1>5, <1>6, <1>7 DEF Next

(* In a deal's first run a contract is declared by the seat that first bid *)
(* its strain, whatever the guess did, but for notrump after an opening    *)
(* Pass (setDeclarer(), getDeclarer()).                                    *)
THEOREM FirstDeclarerStands == Spec => []FirstRunDeclarer
<1>1. Init => IInv /\ NamedStrain /\ Walk /\ Recorded
  BY InitIInv DEF Init, NamedStrain, Walk, Recorded, FirstRunDeclarer, Contracted
<1>2. IInv /\ [Next]_vars => IInv' BY StepIInv
<1>3. IInv /\ NamedStrain /\ [Next]_vars => NamedStrain' BY StepNamed
<1>4. IInv /\ Walk /\ [Next]_vars => Walk' BY StepWalk
<1>5. IInv /\ NamedStrain /\ NamedStrain' /\ Walk /\ Recorded /\ [Next]_vars => Recorded'
  BY StepRecorded
<1>6. Recorded => FirstRunDeclarer BY DEF Recorded, FirstRunDeclarer
<1>7. QED BY <1>1, <1>2, <1>3, <1>4, <1>5, <1>6, PTL DEF Spec
-----------------------------------------------------------------------------
(* A limit only cuts short.                                                *)

(* What the decisions before the i-th of tr say of who makes it, where and *)
(* with which child, over the hands g and the tree t.                      *)
SeatAt(tr, i)      == IF i = 1 THEN posNorth ELSE nextBidder(tr[i - 1].seat)
NodeAt(tr, i)      == IF i = 1 THEN Root ELSE tr[i - 1].to
PassedAt(t, tr, i) == IF i = 1 THEN TRUE
                      ELSE tr[i - 1].passed /\ t.call[tr[i - 1].to] = bidPass

Chosen(g, t, tr, i) ==
  findMatchingChild(t, NodeAt(tr, i), PassedAt(t, tr, i), g[SeatAt(tr, i)], NULL).match

DecisionAt(g, t, tr, i) ==
  [seat |-> SeatAt(tr, i), from |-> NodeAt(tr, i), passed |-> PassedAt(t, tr, i),
   to |-> Chosen(g, t, tr, i)]

(* No call before the i-th has closed the auction, and the limit k lets it *)
(* be made.                                                                *)
Open(t, tr, i) == i > 2 => t.call[tr[i - 1].to] > t.call[tr[i - 2].to]
Within(k, i)   == k >= 0 => i <= k

Decides(g, t, k, tr, i) == Open(t, tr, i) /\ Within(k, i) /\ Chosen(g, t, tr, i) # NULL

(* Each decision follows from those before it, and the last is the last.   *)
Lawful(g, t, k, tr) ==
  \A i \in DOMAIN tr : Decides(g, t, k, tr, i) /\ tr[i] = DecisionAt(g, t, tr, i)
Ended(g, t, k, tr) == ~ Decides(g, t, k, tr, Len(tr) + 1)

(* Every run's decisions can be retold from its tree and limit alone.      *)
Retold ==
  /\ pc = "bidding" =>
       /\ Lawful(hands, tree, nrules, trail) /\ Open(tree, trail, Len(trail) + 1)
       /\ bidder = SeatAt(trail, Len(trail) + 1)
       /\ sysp = NodeAt(trail, Len(trail) + 1)
       /\ allPassSoFar = PassedAt(tree, trail, Len(trail) + 1)
  /\ pc = "closed" => Lawful(hands, tree, nrules, trail) /\ Ended(hands, tree, nrules, trail)
  /\ \A r \in DOMAIN out :
       /\ out[r].trail \in Seq(Decision)
       /\ Lawful(hands, runs[r].tree, runs[r].nrules, out[r].trail)
       /\ Ended(hands, runs[r].tree, runs[r].nrules, out[r].trail)

(* The rule accumulated so far has no part in the choice. *)
LEMMA MatchIgnoresRules ==
  ASSUME NEW t, NEW n, NEW p \in BOOLEAN, NEW h, NEW acc
  PROVE  findMatchingChild(t, n, p, h, acc).match = findMatchingChild(t, n, p, h, NULL).match
<1>1. \A m, a : MatchAt(t, m, h, a).match = t.kids[m][FirstOf(Matching(t, m, h))]
  BY DEF MatchAt
<1>2. CASE Matching(t, n, h) # {}
  <2>1. \A a : findMatchingChild(t, n, p, h, a) = MatchAt(t, n, h, a)
    BY <1>2 DEF findMatchingChild
  <2>2. QED BY <1>1, <2>1
<1>3. CASE Matching(t, n, h) = {} /\ (p /\ n # Root) /\ Matching(t, Root, h) # {}
  <2>1. \A a : findMatchingChild(t, n, p, h, a)
                 = MatchAt(t, Root, h, combineRule(a, negatedAllChildren(t, n)))
    BY <1>3 DEF findMatchingChild
  <2>2. QED BY <1>1, <2>1
<1>4. CASE Matching(t, n, h) = {} /\ ~ ((p /\ n # Root) /\ Matching(t, Root, h) # {})
  <2>1. \A a : findMatchingChild(t, n, p, h, a).match = NULL
    BY <1>4 DEF findMatchingChild
  <2>2. QED BY <2>1
<1>5. QED BY <1>2, <1>3, <1>4

(* Auctions that agree on what came before agree on what comes next.       *)
LEMMA SameBefore ==
  ASSUME NEW g, NEW t, NEW tr, NEW u, NEW i \in Nat \ {0},
         \A j \in 1 .. (i - 1) : tr[j] = u[j]
  PROVE  /\ SeatAt(tr, i) = SeatAt(u, i) /\ NodeAt(tr, i) = NodeAt(u, i)
         /\ PassedAt(t, tr, i) = PassedAt(t, u, i)
         /\ Chosen(g, t, tr, i) = Chosen(g, t, u, i)
         /\ DecisionAt(g, t, tr, i) = DecisionAt(g, t, u, i)
         /\ Open(t, tr, i) <=> Open(t, u, i)
<1>1. i = 1 \/ tr[i - 1] = u[i - 1] OBVIOUS
<1>2. i > 2 => tr[i - 2] = u[i - 2] OBVIOUS
<1>3. SeatAt(tr, i) = SeatAt(u, i) /\ NodeAt(tr, i) = NodeAt(u, i)
  BY <1>1 DEF SeatAt, NodeAt
<1>4. PassedAt(t, tr, i) = PassedAt(t, u, i)
  <2>1. CASE i = 1 BY <2>1 DEF PassedAt
  <2>2. CASE i # 1 BY <1>1, <2>2, Zenon DEF PassedAt
  <2>3. QED BY <2>1, <2>2
<1>5. Chosen(g, t, tr, i) = Chosen(g, t, u, i) BY <1>3, <1>4, Zenon DEF Chosen
<1>6. DecisionAt(g, t, tr, i) = DecisionAt(g, t, u, i)
  BY <1>3, <1>4, <1>5, Zenon DEF DecisionAt
<1>7. Open(t, tr, i) <=> Open(t, u, i)
  <2>1. i > 2 => tr[i - 1] = u[i - 1] BY <1>1
  <2>2. QED BY <1>2, <2>1 DEF Open
<1>8. QED BY <1>3, <1>4, <1>5, <1>6, <1>7

LEMMA LawfulNext ==
  ASSUME NEW g, NEW t, NEW k, NEW tr \in Seq(Decision), NEW d \in Decision,
         Lawful(g, t, k, tr), Decides(g, t, k, tr, Len(tr) + 1),
         d = DecisionAt(g, t, tr, Len(tr) + 1)
  PROVE  Lawful(g, t, k, Append(tr, d))
<1> DEFINE u == Append(tr, d)
           n == Len(tr)
<1>1. /\ n \in Nat /\ DOMAIN tr = 1 .. n /\ DOMAIN u = 1 .. n + 1
      /\ \A j \in 1 .. n : u[j] = tr[j]
      /\ u[n + 1] = d
  BY AppendProperties
<1> HIDE DEF u, n
<1>2. SUFFICES ASSUME NEW i \in DOMAIN u
               PROVE  Decides(g, t, k, u, i) /\ u[i] = DecisionAt(g, t, u, i)
  BY DEF Lawful, u
<1>3. i \in Nat \ {0} /\ \A j \in 1 .. (i - 1) : u[j] = tr[j] BY <1>1
<1>4. /\ DecisionAt(g, t, u, i) = DecisionAt(g, t, tr, i)
      /\ Decides(g, t, k, u, i) <=> Decides(g, t, k, tr, i)
  BY <1>3, SameBefore DEF Decides
<1>5. Decides(g, t, k, tr, i) /\ u[i] = DecisionAt(g, t, tr, i)
  <2>1. CASE i = n + 1 BY <1>1, <2>1 DEF n
  <2>2. CASE i \in 1 .. n BY <1>1, <2>2 DEF Lawful
  <2>3. QED BY <1>1, <2>1, <2>2
<1>6. QED BY <1>4, <1>5

(* The first decision on which two auctions over one tree differ is one    *)
(* that only one of them makes, so the one with the lower limit is a       *)
(* prefix of the other.                                                    *)
LEMMA LimitCutsShort ==
  ASSUME NEW g, NEW t, NEW k \in Nat, NEW m \in Nat \cup {-1}, m < 0 \/ k <= m,
         NEW s \in Seq(Decision), Lawful(g, t, k, s), Ended(g, t, k, s),
         NEW l \in Seq(Decision), Lawful(g, t, m, l), Ended(g, t, m, l)
  PROVE  s = SubSeq(l, 1, IF k < Len(l) THEN k ELSE Len(l))
<1>1. /\ Len(s) \in Nat /\ DOMAIN s = 1 .. Len(s)
      /\ Len(l) \in Nat /\ DOMAIN l = 1 .. Len(l)
  BY LenProperties
<1> DEFINE both == DOMAIN s \cap DOMAIN l
<1>2. \A i \in both : s[i] = l[i]
  <2> DEFINE D == {i \in both : s[i] # l[i]}
  <2>1. SUFFICES ASSUME D # {} PROVE FALSE OBVIOUS
  <2> DEFINE i == FirstOf(D)
  <2>2. D \in SUBSET Nat BY <1>1
  <2>3. i \in D /\ \A j \in D : i <= j BY <2>1, <2>2, FirstOfLeast
  <2> HIDE DEF i
  <2>4. i \in Nat \ {0} /\ i \in DOMAIN s /\ i \in DOMAIN l /\ s[i] # l[i] BY <1>1, <2>3
  <2>5. \A j \in 1 .. (i - 1) : s[j] = l[j]
    <3>1. SUFFICES ASSUME NEW j \in 1 .. (i - 1), s[j] # l[j] PROVE FALSE OBVIOUS
    <3>2. j \in both /\ ~ (i <= j) BY <1>1, <2>4
    <3>3. QED BY <2>3, <3>1, <3>2
  <2>6. DecisionAt(g, t, s, i) = DecisionAt(g, t, l, i) BY <2>4, <2>5, SameBefore
  <2>7. s[i] = DecisionAt(g, t, s, i) /\ l[i] = DecisionAt(g, t, l, i)
    BY <2>4 DEF Lawful
  <2>8. QED BY <2>4, <2>6, <2>7
<1>3. Len(s) <= k
  <2>1. CASE Len(s) = 0 BY <2>1
  <2>2. CASE Len(s) > 0
    <3>1. Len(s) \in DOMAIN s BY <1>1, <2>2
    <3>2. QED BY <3>1 DEF Lawful, Decides, Within
  <2>3. QED BY <1>1, <2>1, <2>2
<1>4. ASSUME NEW i \in Nat \ {0}, \A j \in 1 .. (i - 1) : j \in both, i <= k
      PROVE  Decides(g, t, k, s, i) <=> Decides(g, t, m, l, i)
  <2>1. \A j \in 1 .. (i - 1) : s[j] = l[j] BY <1>2, <1>4
  <2>2. Within(k, i) /\ Within(m, i) BY <1>4 DEF Within
  <2>3. QED BY <2>1, <2>2, SameBefore DEF Decides
<1>5. Len(s) <= Len(l)
  <2>1. SUFFICES ASSUME Len(s) > Len(l) PROVE FALSE BY <1>1
  <2> DEFINE i == Len(l) + 1
  <2>2. i \in DOMAIN s /\ i \in Nat \ {0} /\ i <= k /\ \A j \in 1 .. (i - 1) : j \in both
    BY <1>1, <1>3, <2>1
  <2>3. Decides(g, t, k, s, i) BY <2>2 DEF Lawful
  <2>4. Decides(g, t, m, l, i) BY <1>4, <2>2, <2>3
  <2>5. QED BY <2>4 DEF Ended
<1>6. ~ (Len(s) < k /\ Len(s) < Len(l))
  <2>1. SUFFICES ASSUME Len(s) < k, Len(s) < Len(l) PROVE FALSE OBVIOUS
  <2> DEFINE i == Len(s) + 1
  <2>2. i \in DOMAIN l /\ i \in Nat \ {0} /\ i <= k /\ \A j \in 1 .. (i - 1) : j \in both
    BY <1>1, <2>1
  <2>3. Decides(g, t, m, l, i) BY <2>2 DEF Lawful
  <2>4. Decides(g, t, k, s, i) BY <1>4, <2>2, <2>3
  <2>5. QED BY <2>4 DEF Ended
<1>7. Len(s) = IF k < Len(l) THEN k ELSE Len(l)
  <2> DEFINE a == Len(s)
             b == Len(l)
  <2>1. a \in Nat /\ b \in Nat /\ a <= k /\ a <= b /\ ~ (a < k /\ a < b)
    BY <1>1, <1>3, <1>5, <1>6
  <2> HIDE DEF a, b
  <2>2. a = IF k < b THEN k ELSE b BY <2>1
  <2>3. QED BY <2>2 DEF a, b
<1>8. s = SubSeq(l, 1, Len(s))
  <2>1. \A i \in 1 .. Len(s) : s[i] = l[i] BY <1>1, <1>2, <1>5
  <2>2. s = [i \in 1 .. Len(s) |-> s[i]] BY LenProperties
  <2>3. SubSeq(l, 1, Len(s)) = [i \in 1 .. Len(s) |-> l[i]]
    <3>1. CASE Len(s) = 0 BY <1>1, <3>1, SubSeqProperties
    <3>2. CASE Len(s) > 0
      <4>1. 1 \in 1 .. Len(l) + 1 /\ Len(s) \in 0 .. Len(l) BY <1>1, <1>5, <3>2
      <4>2. QED BY <1>1, <3>2, <4>1, SubSeqProperties
    <3>3. QED BY <1>1, <3>1, <3>2
  <2>4. QED BY <2>1, <2>2, <2>3
<1>9. QED BY <1>7, <1>8

(* The decision that MatchBid makes is the one its predecessors call for.  *)
LEMMA MatchRetold ==
  ASSUME IInv, CountsInv, Retold, MatchBid
  PROVE  LET k == Len(trail) + 1
             d == DecisionAt(hands, tree, trail, k)
         IN  /\ trail' = Append(trail, d) /\ d \in Decision /\ d.to = Found.match
             /\ Decides(hands, tree, nrules, trail, k)
<1> DEFINE k == Len(trail) + 1
           d == DecisionAt(hands, tree, trail, k)
<1>1. /\ bidder \in Seat /\ sysp \in Node /\ allPassSoFar \in BOOLEAN /\ hands[bidder] \in Hand
      /\ Found.match # NULL /\ ~ LimitReached /\ roundNum = Len(trail)
  BY DEF IInv, TypeOK, MatchBid, CountsInv
<1>2. /\ bidder = SeatAt(trail, k) /\ sysp = NodeAt(trail, k)
      /\ allPassSoFar = PassedAt(tree, trail, k) /\ Open(tree, trail, k)
  BY DEF Retold, MatchBid
<1>3. Found.match = Chosen(hands, tree, trail, k)
  BY <1>1, <1>2, MatchIgnoresRules DEF Found, Chosen
<1>4. d = [seat |-> bidder, from |-> sysp, passed |-> allPassSoFar, to |-> Found.match]
  BY <1>2, <1>3 DEF DecisionAt
<1>5. Found.match \in Node
  BY <1>1, TreeOfRun, MatchIsKid DEF Found, IInv
<1>6. Within(nrules, k)
  <2>1. nrules \in Nat \cup {-1}
    <3>1. runs \in Seq(Run) /\ run \in DOMAIN runs BY RunsAssumption DEF IInv, TypeOK
    <3>2. runs[run] \in Run BY <3>1, LenProperties
    <3>3. QED BY <3>2 DEF nrules, Run
  <2>2. Len(trail) \in Nat BY LenProperties DEF IInv, TypeOK
  <2>3. QED BY <1>1, <2>1, <2>2 DEF LimitReached, Within
<1> HIDE DEF k
<1>7. Decides(hands, tree, nrules, trail, k) BY <1>1, <1>2, <1>3, <1>6 DEF Decides
<1>8. trail' = Append(trail, d) BY <1>4 DEF MatchBid
<1>9. d \in Decision /\ d.to = Found.match BY <1>1, <1>4, <1>5 DEF Decision
<1>10. QED BY <1>7, <1>8, <1>9 DEF k

(* What is written stays as it was retold. *)
LEMMA WrittenStays ==
  ASSUME Retold, UNCHANGED <<runs, hands, out>>
  PROVE  \A r \in DOMAIN out' :
           /\ out'[r].trail \in Seq(Decision)
           /\ Lawful(hands', runs'[r].tree, runs'[r].nrules, out'[r].trail)
           /\ Ended(hands', runs'[r].tree, runs'[r].nrules, out'[r].trail)
  BY DEF Retold

LEMMA StepRetold ==
  ASSUME IInv, Walk, CountsInv, Retold, [Next]_vars
  PROVE  Retold'
<1>0. trail \in Seq(Decision) /\ Len(trail) \in Nat /\ DOMAIN trail = 1 .. Len(trail)
  BY LenProperties DEF IInv, TypeOK
<1>1. CASE BidHand
  <2>1. /\ pc' = "bidding" /\ trail' = <<>> /\ bidder' = posNorth /\ sysp' = Root
        /\ allPassSoFar' = TRUE /\ UNCHANGED <<runs, hands, out>>
    BY <1>1 DEF BidHand, dealVars
  <2>2. Len(<<>>) + 1 = 1 OBVIOUS
  <2>3. Lawful(hands', tree', nrules', <<>>) BY DEF Lawful
  <2>4. /\ SeatAt(<<>>, 1) = posNorth /\ NodeAt(<<>>, 1) = Root
        /\ PassedAt(tree', <<>>, 1) = TRUE /\ Open(tree', <<>>, 1)
    BY DEF SeatAt, NodeAt, PassedAt, Open
  <2>5. QED BY <2>1, <2>2, <2>3, <2>4, WrittenStays DEF Retold
<1>2. CASE MatchBid
  <2> DEFINE k == Len(trail) + 1
             d == DecisionAt(hands, tree, trail, k)
             b == tree.call[d.to]
  <2>1. /\ trail' = Append(trail, d) /\ d \in Decision /\ d.to = Found.match
        /\ Decides(hands, tree, nrules, trail, k)
    BY <1>2, MatchRetold
  <2> HIDE DEF d
  <2>2. UNCHANGED <<runs, run, hands, out, tree, nrules>> /\ pc = "bidding"
    BY <1>2 DEF MatchBid, dealVars, tree, nrules
  <2>3. Lawful(hands, tree, nrules, trail')
    BY <1>0, <2>1, <2>2, LawfulNext DEF Retold, d
  <2>4. /\ Len(trail') = k /\ trail'[k] = d /\ \A i \in 1 .. Len(trail) : trail'[i] = trail[i]
    BY <1>0, <2>1, AppendProperties
  <2>5. /\ SeatAt(trail', k + 1) = nextBidder(bidder) /\ NodeAt(trail', k + 1) = Found.match
        /\ PassedAt(tree, trail', k + 1) = (allPassSoFar /\ b = bidPass)
    <3>1. d.seat = bidder /\ d.passed = allPassSoFar
      BY <2>2 DEF Retold, d, DecisionAt
    <3>2. k + 1 # 1 /\ (k + 1) - 1 = k BY <1>0
    <3>3. SeatAt(trail', k + 1) = nextBidder(bidder) /\ NodeAt(trail', k + 1) = Found.match
      BY <2>1, <2>4, <3>1, <3>2 DEF SeatAt, NodeAt
    <3>4. PassedAt(tree, trail', k + 1) = (allPassSoFar /\ b = bidPass)
      BY <2>4, <3>1, <3>2, Zenon DEF PassedAt
    <3>5. QED BY <3>3, <3>4
  <2>6. Open(tree, trail', k + 1) <=> NewBestBid(b)
    <3>1. b \in Call /\ (~ NewBestBid(b) => trail # <<>>) BY <1>2, <2>1, MatchBidCall
    <3>2. CASE trail = <<>>
      <4>1. ~ (k + 1 > 2) BY <3>2
      <4>2. QED BY <3>1, <3>2, <4>1 DEF Open
    <3>3. CASE trail # <<>>
      <4>1. k + 1 > 2 /\ (k + 1) - 1 = k /\ (k + 1) - 2 = Len(trail) /\ k - 1 = Len(trail)
            /\ k # 1 /\ Len(trail) \in 1 .. Len(trail)
        BY <1>0, <3>3
      <4>2. sysp = trail[Len(trail)].to BY <2>2, <4>1 DEF Retold, NodeAt
      <4>3. maxBid = tree.call[sysp] BY <2>2, <3>3 DEF Walk
      <4>4. Open(tree, trail', k + 1) <=> b > maxBid BY <2>4, <4>1, <4>2, <4>3 DEF Open
      <4>5. QED BY <4>4 DEF NewBestBid
    <3>4. QED BY <3>2, <3>3
  <2>7. CASE NewBestBid(b)
    <3>1. /\ pc' = "bidding" /\ bidder' = nextBidder(bidder) /\ sysp' = Found.match
          /\ allPassSoFar' = (allPassSoFar /\ b = bidPass)
      BY <1>2, <2>1, <2>7 DEF MatchBid
    <3>2. QED BY <2>2, <2>3, <2>4, <2>5, <2>6, <2>7, <3>1, WrittenStays DEF Retold
  <2>8. CASE ~ NewBestBid(b)
    <3>1. pc' = "closed" BY <1>2, <2>1, <2>8 DEF MatchBid
    <3>2. Ended(hands, tree, nrules, trail') BY <2>4, <2>6, <2>8 DEF Ended, Decides
    <3>3. QED BY <2>2, <2>3, <3>1, <3>2, WrittenStays DEF Retold
  <2>9. QED BY <2>7, <2>8
<1>3. CASE StopAtRules \/ GuessBid \/ GuessAborts
  <2> DEFINE k == Len(trail) + 1
  <2>1. /\ NoRule /\ pc = "bidding" /\ pc' \in {"closed", "aborted"}
        /\ UNCHANGED <<runs, run, hands, out, trail, tree, nrules>>
    BY <1>3 DEF StopAtRules, GuessBid, GuessAborts, NoRule, dealVars, tree, nrules
  <2>2. Ended(hands, tree, nrules, trail)
    <3>1. CASE LimitReached
      <4>1. nrules >= 0 /\ k > nrules BY <2>1, <3>1 DEF LimitReached, CountsInv
      <4>2. ~ Within(nrules, k)
        <5>1. runs \in Seq(Run) /\ run \in DOMAIN runs BY RunsAssumption DEF IInv, TypeOK
        <5>2. runs[run] \in Run BY <5>1, LenProperties
        <5>3. nrules \in Int BY <5>2 DEF nrules, Run
        <5>4. QED BY <1>0, <4>1, <5>3 DEF Within
      <4>3. QED BY <4>2 DEF Ended, Decides
    <3>2. CASE Found.match = NULL
      <4>1. allPassSoFar \in BOOLEAN BY DEF IInv, TypeOK
      <4>2. Chosen(hands, tree, trail, k) = NULL
        BY <2>1, <3>2, <4>1, MatchIgnoresRules DEF Found, Chosen, Retold
      <4>3. QED BY <4>2 DEF Ended, Decides
    <3>3. QED BY <2>1, <3>1, <3>2 DEF NoRule, MustGuess
  <2>3. QED BY <2>1, <2>2, WrittenStays DEF Retold
<1>4. CASE OutputResults
  <2> DEFINE o == [columns |-> Columns, trail |-> trail, guess |-> guess]
  <2>1. /\ pc = "closed" /\ pc' \in {"start", "done"} /\ out' = Append(out, o)
        /\ UNCHANGED <<runs, hands>>
    BY <1>4 DEF OutputResults, dealVars
  <2>2. /\ DOMAIN out' = 1 .. Len(out) + 1 /\ DOMAIN out = 1 .. Len(out) /\ Len(out) \in Nat
        /\ out'[Len(out) + 1] = o
        /\ \A i \in DOMAIN out : out'[i] = out[i]
    <3>1. out \in Seq({out[i] : i \in DOMAIN out}) BY DEF CountsInv
    <3>2. QED BY <2>1, <3>1, OneMore
  <2>3. Len(out) + 1 = run
    <3>1. DOMAIN out = 1 .. (run - 1) BY <2>1 DEF CountsInv
    <3>2. run \in Nat \ {0} BY RunType DEF IInv
    <3>3. out \in Seq({out[i] : i \in DOMAIN out}) BY DEF CountsInv
    <3>4. QED BY <2>2, <3>1, <3>2, <3>3, LenProperties
  <2>4. out'[run].trail = trail BY <2>2, <2>3
  <2>5. \A r \in DOMAIN out' : r = run \/ r \in DOMAIN out BY <2>2, <2>3
  <2>6. Lawful(hands, tree, nrules, trail) /\ Ended(hands, tree, nrules, trail)
    BY <2>1 DEF Retold
  <2>7. QED BY <1>0, <2>1, <2>2, <2>4, <2>5, <2>6 DEF Retold, tree, nrules
<1>5. CASE UNCHANGED vars
  BY <1>5 DEF vars, dealVars, tree, nrules, Retold
<1>6. QED BY <1>1, <1>2, <1>3, <1>4, <1>5 DEF Next

(* Two runs of one system over one deal agree up to the smaller --nrules   *)
(* limit, whatever the guesses and the inferences of the runs in between   *)
(* (nextBid() on its limit, findMatchingChild() and its retry).            *)
THEOREM LimitsCutShort == Spec => []CutoffIsPrefix
<1>1. Init => IInv /\ Walk /\ CountsInv /\ Retold
  <2>1. Init => IInv /\ Walk BY InitIInv DEF Init, Walk
  <2>2. Init => CountsInv BY InitCounts
  <2>3. Init => Retold BY DEF Init, Retold
  <2>4. QED BY <2>1, <2>2, <2>3
<1>2. IInv /\ [Next]_vars => IInv' BY StepIInv
<1>3. IInv /\ Walk /\ [Next]_vars => Walk' BY StepWalk
<1>4. IInv /\ CountsInv /\ [Next]_vars => CountsInv' BY StepCounts
<1>5. IInv /\ Walk /\ CountsInv /\ Retold /\ [Next]_vars => Retold' BY StepRetold
<1>6. IInv /\ CountsInv /\ Retold => CutoffIsPrefix
  <2>1. SUFFICES ASSUME IInv, CountsInv, Retold, NEW r \in DOMAIN out, NEW q \in DOMAIN out,
                        runs[r].tree = runs[q].tree, runs[r].nrules >= 0,
                        runs[q].nrules < 0 \/ runs[r].nrules <= runs[q].nrules
                 PROVE  LET long  == out[q].trail
                            short == out[r].trail
                        IN  short = SubSeq(long, 1, IF runs[r].nrules < Len(long)
                                                    THEN runs[r].nrules ELSE Len(long))
    BY DEF CutoffIsPrefix
  <2>2. r \in DOMAIN runs /\ q \in DOMAIN runs BY <2>1, RunType DEF CountsInv, IInv
  <2>3. runs[r] \in Run /\ runs[q] \in Run
    <3>1. runs \in Seq(Run) BY <2>1, RunsAssumption DEF IInv, TypeOK
    <3>2. QED BY <2>2, <3>1, LenProperties
  <2>4. runs[r].nrules \in Nat /\ runs[q].nrules \in Nat \cup {-1}
    <3>1. runs[r].nrules \in Nat \cup {-1} /\ runs[q].nrules \in Nat \cup {-1}
      BY <2>3 DEF Run
    <3>2. QED BY <2>1, <3>1
  <2>5. QED BY <2>1, <2>4, LimitCutsShort DEF Retold
<1>7. QED BY <1>1, <1>2, <1>3, <1>4, <1>5, <1>6, PTL DEF Spec
-----------------------------------------------------------------------------
(* The guess is the best.                                                  *)

(* Of finitely many values in a row one is the first of the highest. *)
LEMMA HighestExists ==
  ASSUME NEW lo \in Nat, NEW hi \in Nat, lo <= hi, NEW f, \A i \in lo .. hi : f[i] \in Int
  PROVE  \E b \in lo .. hi : \A c \in lo .. hi : f[c] <= f[b] /\ (c < b => f[c] < f[b])
<1> DEFINE Top(k, b) == b \in k .. hi /\ \A c \in k .. hi : f[c] <= f[b]
           K == {k \in lo .. hi : \E b \in lo .. hi : Top(k, b)}
           k == FirstOf(K)
<1>1. hi \in K
  <2>1. Top(hi, hi) OBVIOUS
  <2>2. QED BY <2>1
<1>2. K \in SUBSET Nat OBVIOUS
<1>3. k \in K /\ \A j \in K : k <= j BY <1>1, <1>2, FirstOfLeast
<1> HIDE DEF k
<1>4. k \in lo .. hi BY <1>3
<1>5. PICK a \in lo .. hi : Top(k, a) BY <1>3
<1>6. k = lo
  <2>1. SUFFICES ASSUME k # lo PROVE FALSE OBVIOUS
  <2> DEFINE j == k - 1
  <2>2. j \in lo .. hi /\ ~ (k <= j) BY <1>4, <2>1
  <2>3. \A c \in j .. hi : c = j \/ c \in k .. hi BY <1>4
  <2>4. j \in j .. hi /\ k .. hi \subseteq j .. hi BY <1>4, <2>2
  <2>5. f[j] \in Int /\ f[a] \in Int BY <1>5, <2>2
  <2> HIDE DEF j
  <2>6. CASE f[j] <= f[a]
    <3>1. Top(j, a) BY <1>5, <2>3, <2>4, <2>6
    <3>2. QED BY <1>3, <2>2, <3>1
  <2>7. CASE f[a] < f[j]
    <3>1. \A c \in k .. hi : f[c] \in Int BY <1>4
    <3>2. \A c \in k .. hi : f[c] <= f[j] BY <1>5, <2>5, <2>7, <3>1
    <3>3. Top(j, j) BY <2>3, <2>4, <2>5, <3>2
    <3>4. QED BY <1>3, <2>2, <3>3
  <2>8. QED BY <2>5, <2>6, <2>7
<1> DEFINE H == {b \in lo .. hi : Top(lo, b)}
           b == FirstOf(H)
<1>7. a \in H /\ H \in SUBSET Nat BY <1>5, <1>6
<1>8. b \in H /\ \A c \in H : b <= c BY <1>7, FirstOfLeast
<1> HIDE DEF b
<1>9. b \in lo .. hi /\ \A c \in lo .. hi : f[c] <= f[b] BY <1>8
<1>10. \A c \in lo .. hi : c < b => f[c] < f[b]
  <2>1. SUFFICES ASSUME NEW c \in lo .. hi, c < b, ~ (f[c] < f[b]) PROVE FALSE OBVIOUS
  <2>2. f[c] = f[b] BY <1>9, <2>1
  <2>3. c \in H BY <1>9, <2>2
  <2>4. QED BY <1>8, <1>9, <2>1, <2>3
<1>11. QED BY <1>9, <1>10

(* What a contract is expected to score; no contract scores nothing. *)
Worth(st, b) == IF b > bidPass THEN st[getDeclarer(b)][b] ELSE 0

(* What the guess leaves as the contract. *)
Left(b) == IF NewBestBid(b) THEN b ELSE maxBid

(* suggestContract() leaves a contract that no other would beat. *)
LEMMA SuggestedIsBest ==
  ASSUME IInv, bidder \in Seat, NEW st \in ScoreTables,
         NEW c \in {maxBid} \cup ((maxBid + 1) .. bidMaxBid)
  PROVE  Worth(st, c) <= Worth(st, Left(SuggestedBid(st)))
<1> DEFINE y(i) == st[getDeclarer(i)][i]
           avail == (maxBid + 1) .. bidMaxBid
           top == SuggestedBid(st)
<1>1. /\ maxBid \in BestBid /\ declarer \in [Strain -> Seat \cup {-1}] /\ maxBid \in Int
      /\ bidMaxBid \in Nat /\ maxBid >= 3 /\ maxBid <= bidMaxBid
  BY MaxBidAssumption DEF IInv, TypeOK, BestBid, bidNotFound
<1>2. avail \subseteq Call BY <1>1 DEF Call, bidPass
<1>3. \A i \in Call : getDeclarer(i) \in Seat
  <2>1. \A i \in Call : bidStrain(i) \in Strain BY CallFacts
  <2>2. QED BY <1>1, <2>1 DEF getDeclarer, Seat, posNorth, posSouth
<1>4. /\ st \in [Seat -> [Call -> Int]]
      /\ \A s \in Seat : st[s][bidPass] = 0
  BY ScoresAssumption
<1>5. \A i \in Call : y(i) \in Int BY <1>3, <1>4
<1>6. \A i \in Call : Worth(st, i) = y(i)
  <2>1. \A i \in Call : i > bidPass \/ i = bidPass BY DEF Call, bidPass
  <2>2. ~ (bidPass > bidPass) BY DEF bidPass
  <2>3. QED BY <1>3, <1>4, <2>1, <2>2, CallFacts DEF Worth
<1>7. bestExp(st) = Worth(st, maxBid) BY DEF bestExp, Worth
<1>8. Worth(st, maxBid) \in Int
  <2>1. maxBid > bidPass => maxBid \in Call BY <1>1 DEF Call, bidPass
  <2>2. QED BY <1>5, <2>1 DEF Worth
<1>9. Suggestions(st) = {b \in avail : /\ y(b) > bestExp(st)
                                       /\ \A d \in avail : y(d) <= y(b)
                                       /\ \A d \in avail : d < b => y(d) < y(b)}
  BY DEF Suggestions
<1> HIDE DEF y, avail
<1>10. CASE Suggestions(st) # {}
  <2>1. top \in Suggestions(st) BY <1>10 DEF SuggestedBid
  <2>2. /\ top \in avail /\ y(top) > bestExp(st) /\ \A d \in avail : y(d) <= y(top)
    BY <1>9, <2>1
  <2>3. NewBestBid(top) BY <1>1, <2>2 DEF NewBestBid, avail
  <2>4. Left(top) = top /\ Worth(st, top) = y(top) BY <1>2, <1>6, <2>2, <2>3 DEF Left
  <2>5. CASE c = maxBid
    <3>1. y(top) \in Int BY <1>2, <1>5, <2>2
    <3>2. QED BY <1>7, <1>8, <2>2, <2>4, <2>5, <3>1
  <2>6. CASE c \in avail BY <1>2, <1>6, <2>2, <2>4, <2>6
  <2>7. QED BY <2>5, <2>6 DEF avail
<1>11. CASE Suggestions(st) = {}
  <2>1. top = bidPass BY <1>11 DEF SuggestedBid
  <2>2. Worth(st, Left(top)) = Worth(st, maxBid)
    BY <1>1, <2>1 DEF Left, NewBestBid, Worth, bidPass
  <2>3. CASE c = maxBid BY <1>8, <2>2, <2>3
  <2>4. CASE c \in avail
    <3> DEFINE f == [i \in avail |-> y(i)]
    <3>1. \A i \in avail : f[i] = y(i) /\ f[i] \in Int BY <1>2, <1>5
    <3> HIDE DEF f
    <3>2. maxBid + 1 \in Nat /\ maxBid + 1 <= bidMaxBid BY <1>1, <2>4 DEF avail
    <3>3. PICK b \in avail : \A d \in avail : f[d] <= f[b] /\ (d < b => f[d] < f[b])
      BY <1>1, <3>1, <3>2, HighestExists DEF avail
    <3>4. ~ (y(b) > bestExp(st)) BY <1>9, <1>11, <3>1, <3>3
    <3>5. y(c) <= y(b) BY <2>4, <3>1, <3>3
    <3>6. y(c) \in Int /\ y(b) \in Int BY <1>2, <1>5, <2>4, <3>3
    <3>7. y(c) <= Worth(st, maxBid) BY <1>7, <1>8, <3>4, <3>5, <3>6
    <3>8. QED BY <1>2, <1>6, <2>2, <2>4, <3>7
  <2>5. QED BY <2>3, <2>4 DEF avail
<1>12. QED BY <1>10, <1>11

LEMMA StepBest ==
  ASSUME IInv, Walk, NorthGuessIsBest, [Next]_vars
  PROVE  NorthGuessIsBest'
<1>1. CASE BidHand \/ GuessAborts \/ OutputResults
  BY <1>1 DEF BidHand, GuessAborts, OutputResults, NorthGuessIsBest, Contracted
<1>2. CASE MatchBid
  <2>1. guess' = NULL BY <1>2 DEF MatchBid, Walk
  <2>2. QED BY <2>1 DEF NorthGuessIsBest
<1>3. CASE StopAtRules
  BY <1>3 DEF StopAtRules, NoRule, dealVars, NorthGuessIsBest, Contracted
<1>4. CASE GuessBid
  <2>1. PICK st \in ScoreTables :
          /\ \/ NewBestBid(SuggestedBid(st)) /\ maxBid' = SuggestedBid(st)
             \/ ~ NewBestBid(SuggestedBid(st)) /\ maxBid' = maxBid
          /\ guess' = [seat |-> bidder, over |-> maxBid, scores |-> st,
                       bid |-> SuggestedBid(st), declarers |-> [c \in Call |-> getDeclarer(c)]]
    BY <1>4 DEF GuessBid, bestVars
  <2>2. maxBid' = Left(SuggestedBid(st)) BY <2>1 DEF Left
  <2>3. bidder \in Seat BY <1>4 DEF GuessBid, NoRule, IInv, TypeOK
  <2>4. \A b \in BestBid : Expected(guess', b) = Worth(st, b)
    <3>1. \A b \in BestBid : b > bidPass => b \in Call
      BY DEF BestBid, Call, bidPass, bidNotFound
    <3>2. guess'.scores = st /\ \A c \in Call : guess'.declarers[c] = getDeclarer(c) BY <2>1
    <3>3. QED BY <3>1, <3>2 DEF Expected, Worth
  <2>5. maxBid' \in BestBid /\ guess'.over = maxBid /\ maxBid \in BestBid
    <3>1. SuggestedBid(st) \in BestBid BY SuggestedType, CallFacts DEF IInv
    <3>2. QED BY <2>1, <3>1 DEF IInv, TypeOK
  <2>6. \A b \in {maxBid} \cup ((maxBid + 1) .. bidMaxBid) : b \in BestBid
    BY <2>5, MaxBidAssumption DEF BestBid, bidNotFound
  <2>7. \A b \in {maxBid} \cup ((maxBid + 1) .. bidMaxBid) :
          Expected(guess', b) <= Expected(guess', maxBid')
    BY <2>2, <2>3, <2>4, <2>5, <2>6, SuggestedIsBest
  <2>8. QED BY <2>5, <2>7 DEF NorthGuessIsBest, Expected
<1>5. CASE UNCHANGED vars
  BY <1>5 DEF vars, dealVars, bestVars, NorthGuessIsBest, Contracted
<1>6. QED BY <1>1, <1>2, <1>3, <1>4, <1>5 DEF Next

(* When North guesses, no bid still available and not the contract that    *)
(* stands was expected to score more than the contract the guess leaves    *)
(* (the loop at the end of suggestContract()).                             *)
THEOREM GuessIsBest == Spec => []NorthGuessIsBest
<1>1. Init => IInv /\ Walk /\ NorthGuessIsBest
  BY InitIInv DEF Init, Walk, NorthGuessIsBest, Contracted
<1>2. IInv /\ [Next]_vars => IInv' BY StepIInv
<1>3. IInv /\ Walk /\ [Next]_vars => Walk' BY StepWalk
<1>4. IInv /\ Walk /\ NorthGuessIsBest /\ [Next]_vars => NorthGuessIsBest' BY StepBest
<1>5. QED BY <1>1, <1>2, <1>3, <1>4, PTL DEF Spec
-----------------------------------------------------------------------------
(* The text.                                                               *)

(* What the buffer holds for calls made by rule: a dash after each.        *)
Spelled(calls) ==
  [i \in 1 .. 2 * Len(calls) |-> IF i % 2 = 1 THEN calls[(i + 1) \div 2] ELSE Dash]

LEMMA SpelledType ==
  ASSUME NEW calls \in Seq(Call)
  PROVE  /\ Spelled(calls) \in Seq(Token) /\ Len(Spelled(calls)) = 2 * Len(calls)
         /\ \A i \in 1 .. 2 * Len(calls) :
              Spelled(calls)[i] = IF i % 2 = 1 THEN calls[(i + 1) \div 2] ELSE Dash
<1>1. Len(calls) \in Nat BY LenProperties
<1>2. ASSUME NEW i \in 1 .. 2 * Len(calls), i % 2 = 1
      PROVE  calls[(i + 1) \div 2] \in Token
  <2>1. (i + 1) \div 2 \in 1 .. Len(calls) BY <1>1, <1>2
  <2>2. QED BY <2>1, ElementOfSeq, CallFacts
<1>3. Dash \in Token /\ 2 * Len(calls) \in Nat BY <1>1, CallFacts
<1>4. Spelled(calls) \in [1 .. 2 * Len(calls) -> Token] BY <1>2, <1>3 DEF Spelled
<1>5. Spelled(calls) \in Seq(Token) BY <1>3, <1>4, SeqDef
<1>6. Len(Spelled(calls)) = 2 * Len(calls) BY <1>3, <1>4, <1>5, LenProperties
<1>7. QED BY <1>5, <1>6 DEF Spelled

(* A call and its dash are written after those of the calls before it. *)
LEMMA SpelledNext ==
  ASSUME NEW calls \in Seq(Call), NEW b \in Call
  PROVE  Spelled(calls) \o <<b, Dash>> = Spelled(Append(calls, b))
<1> DEFINE s == Spelled(calls)
           t == Spelled(Append(calls, b))
           u == s \o <<b, Dash>>
           n == Len(calls)
<1>1. /\ Append(calls, b) \in Seq(Call) /\ Len(Append(calls, b)) = n + 1 /\ n \in Nat
      /\ \A i \in 1 .. n : Append(calls, b)[i] = calls[i]
      /\ Append(calls, b)[n + 1] = b
  BY AppendProperties, LenProperties
<1>2. /\ s \in Seq(Token) /\ Len(s) = 2 * n
      /\ \A i \in 1 .. 2 * n : s[i] = IF i % 2 = 1 THEN calls[(i + 1) \div 2] ELSE Dash
  BY SpelledType
<1>3. /\ t \in Seq(Token) /\ Len(t) = 2 * (n + 1)
      /\ \A i \in 1 .. 2 * (n + 1) :
           t[i] = IF i % 2 = 1 THEN Append(calls, b)[(i + 1) \div 2] ELSE Dash
  BY <1>1, SpelledType
<1>4. <<b, Dash>> \in Seq(Token) /\ Len(<<b, Dash>>) = 2 BY CallFacts
<1>5. /\ u \in Seq(Token) /\ Len(u) = 2 * n + 2
      /\ \A i \in 1 .. 2 * n + 2 : u[i] = IF i <= 2 * n THEN s[i] ELSE <<b, Dash>>[i - 2 * n]
  BY <1>2, <1>4, ConcatProperties
<1> HIDE DEF s, t, u
<1> DEFINE c == Append(calls, b)
<1>6. /\ \A i \in 1 .. n : c[i] = calls[i]
      /\ c[n + 1] = b
      /\ \A i \in 1 .. 2 * (n + 1) : t[i] = IF i % 2 = 1 THEN c[(i + 1) \div 2] ELSE Dash
  BY <1>1, <1>3
<1> HIDE DEF c, n
<1>7. ASSUME NEW i \in 1 .. 2 * n + 2 PROVE u[i] = t[i]
  <2>1. CASE i <= 2 * n
    <3>1. i \in 1 .. 2 * n /\ i \in 1 .. 2 * (n + 1) BY <1>1, <2>1
    <3>2. i % 2 = 1 => (i + 1) \div 2 \in 1 .. n BY <1>1, <3>1
    <3>3. QED BY <1>2, <1>5, <1>6, <2>1, <3>1, <3>2
  <2>2. CASE i = 2 * n + 1
    <3>1. i % 2 = 1 /\ (i + 1) \div 2 = n + 1 /\ i - 2 * n = 1 /\ ~ (i <= 2 * n)
          /\ i \in 1 .. 2 * (n + 1)
      BY <1>1, <2>2
    <3>2. u[i] = b BY <1>5, <3>1
    <3>3. t[i] = b BY <1>6, <3>1
    <3>4. QED BY <3>2, <3>3
  <2>3. CASE i = 2 * n + 2
    <3>1. i % 2 # 1 /\ i - 2 * n = 2 /\ ~ (i <= 2 * n) /\ i \in 1 .. 2 * (n + 1)
      BY <1>1, <2>3
    <3>2. u[i] = Dash BY <1>5, <3>1
    <3>3. t[i] = Dash BY <1>6, <3>1
    <3>4. QED BY <3>2, <3>3
  <2>4. QED BY <1>1, <2>1, <2>2, <2>3
<1>8. Len(u) = Len(t) /\ Len(u) = 2 * n + 2 BY <1>1, <1>3, <1>5
<1>9. u = t BY <1>3, <1>5, <1>7, <1>8, SeqEqual
<1>10. QED BY <1>9 DEF u, s, t, c

(* A column of calls made by rule is what is left of the buffer before the *)
(* last of their dashes, whatever comes after it.                          *)
LEMMA TextIsCut ==
  ASSUME NEW calls \in Seq(Call), calls # <<>>, NEW s \in Seq(Token),
         Len(s) >= 2 * Len(calls),
         \A i \in 1 .. 2 * Len(calls) : s[i] = Spelled(calls)[i]
  PROVE  SubSeq(s, 1, 2 * Len(calls) - 1) = Text(calls)
<1> DEFINE n == Len(calls)
           k == 2 * n - 1
           cut == SubSeq(s, 1, k)
<1>1. n \in Nat \ {0} /\ k \in Nat /\ k <= Len(s) BY LenProperties
<1>2. cut \in Seq(Token) /\ Len(cut) = k BY <1>1, PrefixType
<1>3. \A i \in 1 .. k : cut[i] = s[i]
  <2>1. \A i \in 1 .. k : s[i] \in Token BY <1>1, ElementOfSeq
  <2>2. \A i \in 1 .. k : k - 1 + 1 = k /\ 1 + i - 1 = i BY <1>1
  <2>3. QED BY <1>1, <2>1, <2>2, SubSeqProperties
<1>4. Text(calls) = [i \in 1 .. k |-> IF i % 2 = 1 THEN calls[(i + 1) \div 2] ELSE Dash]
  BY DEF Text, Dashed
<1>5. \A i \in 1 .. k : s[i] = IF i % 2 = 1 THEN calls[(i + 1) \div 2] ELSE Dash
  <2>1. \A i \in 1 .. k : i \in 1 .. 2 * n BY <1>1
  <2>2. QED BY <2>1, SpelledType
<1> HIDE DEF cut, k
<1>6. cut = [i \in 1 .. k |-> cut[i]] BY <1>2
<1>7. QED BY <1>3, <1>4, <1>5, <1>6 DEF cut, k

(* The text of calls, and the dash after the last of them. *)
LEMMA SpelledIsText ==
  ASSUME NEW calls \in Seq(Call), calls # <<>>
  PROVE  Spelled(calls) \o <<AP>> = Text(calls) \o <<Dash, AP>>
<1>1. PICK n \in Nat \ {0} : n = Len(calls) BY LenProperties
<1> DEFINE s == Spelled(calls)
           t == Text(calls)
           u == s \o <<AP>>
           v == t \o <<Dash, AP>>
<1>2. /\ s \in Seq(Token) /\ Len(s) = 2 * n
      /\ s[2 * n] = Dash
  <2>1. 2 * n \in 1 .. 2 * n /\ (2 * n) % 2 # 1 BY <1>1
  <2>2. QED BY <1>1, <2>1, SpelledType
<1>3. SubSeq(s, 1, 2 * n - 1) = t
  <2>1. Len(s) >= 2 * n BY <1>1, <1>2
  <2>2. QED BY <1>1, <1>2, <2>1, TextIsCut
<1>4. /\ t \in Seq(Token) /\ Len(t) = 2 * n - 1
      /\ \A i \in 1 .. 2 * n - 1 : t[i] = s[i]
  <2>1. 2 * n - 1 \in Nat /\ 2 * n - 1 <= Len(s) BY <1>1, <1>2
  <2>2. \A i \in 1 .. 2 * n - 1 : s[i] \in Token BY <1>2, <2>1, ElementOfSeq
  <2>3. \A i \in 1 .. 2 * n - 1 : (2 * n - 1) - 1 + 1 = 2 * n - 1 /\ 1 + i - 1 = i BY <1>1
  <2>4. \A i \in 1 .. 2 * n - 1 : SubSeq(s, 1, 2 * n - 1)[i] = s[i]
    <3> HIDE DEF s
    <3>1. QED BY <2>1, <2>2, <2>3, SubSeqProperties
  <2>5. QED BY <1>2, <1>3, <2>1, <2>4, PrefixType
<1>5. <<AP>> \in Seq(Token) /\ <<Dash, AP>> \in Seq(Token) BY CallFacts
<1> HIDE DEF s, t
<1>6. /\ u \in Seq(Token) /\ Len(u) = 2 * n + 1
      /\ \A i \in 1 .. 2 * n + 1 : u[i] = IF i <= 2 * n THEN s[i] ELSE <<AP>>[i - 2 * n]
  <2>1. PICK w \in Seq(Token) : w = <<AP>> /\ Len(w) = 1 BY <1>5
  <2>2. /\ s \o w \in Seq(Token) /\ Len(s \o w) = Len(s) + Len(w)
        /\ \A i \in 1 .. Len(s) + Len(w) :
             (s \o w)[i] = IF i <= Len(s) THEN s[i] ELSE w[i - Len(s)]
    BY <1>2, <2>1, ConcatProperties
  <2>3. u = s \o w BY <2>1
  <2> HIDE DEF u
  <2>4. QED BY <1>2, <2>1, <2>2, <2>3
<1>7. /\ v \in Seq(Token) /\ Len(v) = 2 * n + 1
      /\ \A i \in 1 .. 2 * n + 1 :
           v[i] = IF i <= 2 * n - 1 THEN t[i] ELSE <<Dash, AP>>[i - (2 * n - 1)]
  <2>1. PICK w \in Seq(Token) : w = <<Dash, AP>> /\ Len(w) = 2 BY <1>5
  <2>2. /\ t \o w \in Seq(Token) /\ Len(t \o w) = Len(t) + Len(w)
        /\ \A i \in 1 .. Len(t) + Len(w) :
             (t \o w)[i] = IF i <= Len(t) THEN t[i] ELSE w[i - Len(t)]
    BY <1>4, <2>1, ConcatProperties
  <2>3. v = t \o w BY <2>1
  <2>4. (2 * n - 1) + 2 = 2 * n + 1 BY <1>1
  <2> HIDE DEF v
  <2>5. QED BY <1>4, <2>1, <2>2, <2>3, <2>4
<1> HIDE DEF u, v
<1>8. ASSUME NEW i \in 1 .. 2 * n + 1 PROVE u[i] = v[i]
  <2>1. CASE i <= 2 * n - 1
    <3>1. i <= 2 * n /\ i \in 1 .. 2 * n - 1 BY <1>1, <2>1
    <3>2. QED BY <1>4, <1>6, <1>7, <2>1, <3>1
  <2>2. CASE i = 2 * n
    <3>1. i <= 2 * n /\ ~ (i <= 2 * n - 1) /\ i - (2 * n - 1) = 1 BY <1>1, <2>2
    <3>2. u[i] = Dash BY <1>2, <1>6, <2>2, <3>1
    <3>3. v[i] = Dash BY <1>7, <3>1
    <3>4. QED BY <3>2, <3>3
  <2>3. CASE i = 2 * n + 1
    <3>1. ~ (i <= 2 * n) /\ ~ (i <= 2 * n - 1) /\ i - (2 * n - 1) = 2 /\ i - 2 * n = 1
      BY <1>1, <2>3
    <3>2. u[i] = AP BY <1>6, <3>1
    <3>3. v[i] = AP BY <1>7, <3>1
    <3>4. QED BY <3>2, <3>3
  <2>4. QED BY <1>1, <2>1, <2>2, <2>3
<1>9. u = v BY <1>6, <1>7, <1>8, SeqEqual
<1>10. QED BY <1>9 DEF u, v, s, t

LEMMA RuleCallsNext ==
  ASSUME NEW t, WellFormed(t), NEW tr \in Seq(Decision), NEW d \in Decision
  PROVE  /\ RuleCalls(t, tr) \in Seq(Call) /\ Len(RuleCalls(t, tr)) = Len(tr)
         /\ RuleCalls(t, Append(tr, d)) = Append(RuleCalls(t, tr), t.call[d.to])
<1>1. ASSUME NEW q \in Seq(Decision)
      PROVE  /\ RuleCalls(t, q) \in Seq(Call) /\ Len(RuleCalls(t, q)) = Len(q)
             /\ \A i \in 1 .. Len(q) : RuleCalls(t, q)[i] = t.call[q[i].to]
  <2>1. \A i \in 1 .. Len(q) : q[i] \in Decision BY ElementOfSeq
  <2>2. \A i \in 1 .. Len(q) : t.call[q[i].to] \in Call BY <2>1, TreeType DEF Decision
  <2>3. Len(q) \in Nat /\ DOMAIN q = 1 .. Len(q) BY LenProperties
  <2>4. RuleCalls(t, q) \in [1 .. Len(q) -> Call] BY <2>2, <2>3 DEF RuleCalls
  <2>5. RuleCalls(t, q) \in Seq(Call) BY <2>3, <2>4, SeqDef
  <2>6. QED BY <2>3, <2>4, <2>5, LenProperties DEF RuleCalls
<1> DEFINE p == Append(tr, d)
           c == t.call[d.to]
           new == RuleCalls(t, p)
           old == RuleCalls(t, tr)
<1>2. /\ p \in Seq(Decision) /\ Len(p) = Len(tr) + 1 /\ Len(tr) \in Nat
      /\ \A i \in 1 .. Len(tr) : p[i] = tr[i]
      /\ p[Len(tr) + 1] = d
  BY AppendProperties, LenProperties
<1>3. c \in Call BY TreeType DEF Decision
<1>4. /\ old \in Seq(Call) /\ Len(old) = Len(tr)
      /\ \A i \in 1 .. Len(tr) : old[i] = t.call[tr[i].to]
  BY <1>1
<1> HIDE DEF p
<1>5. /\ new \in Seq(Call) /\ Len(new) = Len(tr) + 1
      /\ \A i \in 1 .. Len(tr) + 1 : new[i] = t.call[p[i].to]
  BY <1>1, <1>2
<1> HIDE DEF new, old
<1>6. /\ Append(old, c) \in Seq(Call) /\ Len(Append(old, c)) = Len(tr) + 1
      /\ \A i \in 1 .. Len(tr) : Append(old, c)[i] = old[i]
      /\ Append(old, c)[Len(tr) + 1] = c
  BY <1>3, <1>4, AppendProperties
<1>7. ASSUME NEW i \in 1 .. Len(tr) + 1 PROVE new[i] = Append(old, c)[i]
  <2>1. CASE i = Len(tr) + 1 BY <1>2, <1>5, <1>6, <2>1
  <2>2. CASE i # Len(tr) + 1
    <3>1. i \in 1 .. Len(tr) BY <1>2, <2>2
    <3>2. QED BY <1>2, <1>4, <1>5, <1>6, <3>1
  <2>3. QED BY <2>1, <2>2
<1> HIDE DEF c
<1>8. new = Append(old, c) BY <1>5, <1>6, <1>7, SeqEqual
<1>9. QED BY <1>4, <1>8 DEF new, old, c, p
(* What the columns of a run say, for its decisions tr and its guess g. *)
ColumnsAre(t, tr, g, cols) ==
  LET calls == RuleCalls(t, tr)
  IN  /\ calls # <<>> => cols.auction = Text(calls)
      /\ ~ rulesOnlyMode =>
           cols.bidding = IF g = NULL THEN Text(calls)
                          ELSE Text(calls \o GuessCall(g)) \o <<Dash, AP>>

(* During the bidding the buffer holds, up to the write position, the      *)
(* calls of this run: and after the first of them nothing else, although   *)
(* before it it may hold an auction of an earlier run.                     *)
TextInv ==
  /\ pc = "bidding" =>
       /\ nextBidp = 2 * Len(trail) /\ ~ guessWasCalled
       /\ SubSeq(bidStr, 1, nextBidp) = Spelled(RuleCalls(tree, trail))
       /\ trail # <<>> => bidStr = Spelled(RuleCalls(tree, trail))
  /\ pc = "closed" => ColumnsAre(tree, trail, guess, Columns)
  /\ ColumnsTellTheAuction

LEMMA NoCallsYet == ASSUME NEW t PROVE Spelled(RuleCalls(t, <<>>)) = <<>>
<1>1. RuleCalls(t, <<>>) = <<>> BY DEF RuleCalls
<1>2. Len(<<>>) = 0 OBVIOUS
<1>3. QED BY <1>1, <1>2 DEF Spelled

LEMMA InitText == Init => TextInv
BY DEF Init, TextInv, ColumnsTellTheAuction

(* A call by rule, dashed, is written where the calls before it end; a     *)
(* repetition of it closes the auction with "AP", which is cut off again.  *)
LEMMA MatchBidText ==
  ASSUME IInv, Walk, TextInv, MatchBid
  PROVE  /\ pc' = "bidding" =>
              /\ nextBidp' = 2 * Len(trail') /\ ~ guessWasCalled'
              /\ SubSeq(bidStr', 1, nextBidp') = Spelled(RuleCalls(tree', trail'))
              /\ trail' # <<>> => bidStr' = Spelled(RuleCalls(tree', trail'))
         /\ pc' = "closed" => ColumnsAre(tree, trail, guess, Columns)'
<1> DEFINE b == tree.call[Found.match]
           d == [seat |-> bidder, from |-> sysp, passed |-> allPassSoFar, to |-> Found.match]
<1>1. /\ nextBidp = 2 * Len(trail) /\ ~ guessWasCalled
      /\ SubSeq(bidStr, 1, nextBidp) = Spelled(RuleCalls(tree, trail))
      /\ guess = NULL
  BY DEF TextInv, MatchBid, Walk
<1>2. /\ trail' = Append(trail, d) /\ nextBidp' = nextBidp + 2
      /\ UNCHANGED <<tree, rulesOnlyMode, guess, guessWasCalled>>
  BY DEF MatchBid, dealVars, tree
<1>3. trail \in Seq(Decision) /\ Len(trail) \in Nat /\ WellFormed(tree)
  BY TreeOfRun, LenProperties DEF IInv, TypeOK
<1>4. d \in Decision /\ d.to = Found.match /\ b \in Call
  <2>1. Found.match \in Node
    BY <1>3, MatchIsKid DEF Found, IInv, TypeOK, MatchBid
  <2>2. QED BY <2>1, MatchBidCall DEF Decision, IInv, TypeOK, MatchBid
<1>5. PICK calls : calls = RuleCalls(tree, trail) OBVIOUS
<1>6. PICK more : more = RuleCalls(tree, trail') OBVIOUS
<1> HIDE DEF d
<1>7. /\ calls \in Seq(Call) /\ Len(calls) = Len(trail)
      /\ more = Append(calls, b) /\ more \in Seq(Call) /\ Len(more) = Len(trail) + 1
      /\ more # <<>>
  <2>1. calls \in Seq(Call) /\ Len(calls) = Len(trail) /\ more = Append(calls, b)
    BY <1>2, <1>3, <1>4, <1>5, <1>6, RuleCallsNext
  <2> HIDE DEF b
  <2>2. QED BY <1>3, <1>4, <2>1, AppendProperties
<1>8. Len(trail') = Len(trail) + 1 BY <1>2, <1>3, <1>4, AppendProperties
<1> HIDE DEF b
<1>9. Spelled(calls) \o <<b, Dash>> = Spelled(more) BY <1>4, <1>7, SpelledNext
<1>10. Spelled(more) \in Seq(Token) /\ Len(Spelled(more)) = 2 * Len(more)
  BY <1>7, SpelledType
<1>11. CASE bidStr' = Written(<<b, Dash>>) /\ pc' = "bidding"
  <2>1. bidStr' = Spelled(more) BY <1>1, <1>5, <1>9, <1>11 DEF Written
  <2>2. nextBidp' = 2 * Len(trail') BY <1>1, <1>2, <1>3, <1>8
  <2>3. SubSeq(bidStr', 1, nextBidp') = bidStr'
    <3>1. nextBidp' = Len(Spelled(more)) BY <1>7, <1>8, <1>10, <2>2
    <3>2. PICK s \in Seq(Token) : s = Spelled(more) BY <1>10
    <3>3. SubSeq(s, 1, Len(s)) = s OBVIOUS
    <3>4. QED BY <2>1, <3>1, <3>2, <3>3
  <2>4. tree' = tree BY <1>2
  <2>5. QED BY <1>1, <1>2, <1>6, <1>11, <2>1, <2>2, <2>3, <2>4
<1>12. CASE bidStr' = Written(<<b, Dash, AP>>) /\ pc' = "closed"
  <2>1. bidStr' = Spelled(more) \o <<AP>>
    <3>1. PICK s \in Seq(Token) : s = Spelled(calls) BY <1>7, SpelledType
    <3>2. b \in Token /\ Dash \in Token /\ AP \in Token BY <1>4, CallFacts
    <3>3. s \o <<b, Dash, AP>> = (s \o <<b, Dash>>) \o <<AP>> BY <3>1, <3>2
    <3>4. QED BY <1>1, <1>5, <1>9, <1>12, <3>1, <3>3 DEF Written
  <2>2. nextBidp' = 2 * Len(more) /\ nextBidp' > 0 BY <1>1, <1>2, <1>3, <1>7
  <2>3. PICK s : s = bidStr' OBVIOUS
  <2>4. s \in Seq(Token) /\ Len(s) >= 2 * Len(more)
        /\ \A i \in 1 .. 2 * Len(more) : s[i] = Spelled(more)[i]
    <3>1. <<AP>> \in Seq(Token) BY CallFacts
    <3>2. Len(more) \in Nat /\ Len(<<AP>>) = 1 BY <1>3, <1>7
    <3>3. QED BY <1>10, <2>1, <2>3, <3>1, <3>2, ConcatProperties
  <2>5. SubSeq(s, 1, 2 * Len(more) - 1) = Text(more) BY <1>7, <2>4, TextIsCut
  <2>6. Stripped' = Text(more) BY <2>2, <2>3, <2>5 DEF Stripped
  <2>7. ~ guessWasCalled' /\ guess' = NULL /\ tree' = tree BY <1>1, <1>2
  <2>8. Columns'.auction = Text(more) /\ (~ rulesOnlyMode' => Columns'.bidding = Text(more))
    BY <2>6, <2>7 DEF Columns
  <2>9. RuleCalls(tree', trail') = more BY <1>6, <2>7
  <2>10. QED BY <1>12, <2>7, <2>8, <2>9 DEF ColumnsAre
<1>13. QED BY <1>11, <1>12 DEF MatchBid, b

(* Where a rule is missed the calls so far are put by, without the last    *)
(* dash; a guess is written after them, with the closing "AP".             *)
LEMMA NoRuleText ==
  ASSUME IInv, TextInv, NoRule
  PROVE  RuleCalls(tree, trail) # <<>> => guessPoint' = Text(RuleCalls(tree, trail))
<1>1. PICK calls : calls = RuleCalls(tree, trail) OBVIOUS
<1>2. trail \in Seq(Decision) /\ Len(trail) \in Nat /\ WellFormed(tree)
  BY TreeOfRun, LenProperties DEF IInv, TypeOK
<1>3. calls \in Seq(Call) /\ Len(calls) = Len(trail)
  <2>1. PICK n \in Node : TRUE BY TreeAssumption
  <2>2. [seat |-> posNorth, from |-> n, passed |-> TRUE, to |-> n] \in Decision
    BY StartFacts DEF Decision
  <2>3. QED BY <1>1, <1>2, <2>2, RuleCallsNext
<1>4. SUFFICES ASSUME calls # <<>> PROVE guessPoint' = Text(calls) BY <1>1
<1>5. trail # <<>> BY <1>3, <1>4
<1>6. bidStr = Spelled(calls) BY <1>1, <1>5 DEF TextInv, NoRule
<1>7. /\ bidStr \in Seq(Token) /\ Len(bidStr) = 2 * Len(calls) /\ Len(calls) \in Nat \ {0}
      /\ bidStr[Len(bidStr)] = Dash
  <2>1. Len(calls) \in Nat \ {0} BY <1>3, <1>4
  <2>2. 2 * Len(calls) \in 1 .. 2 * Len(calls) /\ (2 * Len(calls)) % 2 # 1 BY <2>1
  <2>3. QED BY <1>3, <1>6, <2>1, <2>2, SpelledType
<1>8. WithoutDash(bidStr) = SubSeq(bidStr, 1, 2 * Len(calls) - 1) BY <1>7 DEF WithoutDash
<1>9. SubSeq(bidStr, 1, 2 * Len(calls) - 1) = Text(calls)
  <2>1. Len(bidStr) >= 2 * Len(calls) BY <1>7
  <2>2. QED BY <1>3, <1>4, <1>6, <1>7, <2>1, TextIsCut
<1>10. QED BY <1>8, <1>9 DEF NoRule

LEMMA GuessBidText ==
  ASSUME IInv, TextInv, GuessBid
  PROVE  ColumnsAre(tree, trail, guess, Columns)'
<1>1. PICK st \in ScoreTables :
        /\ bidStr' = Written(<<SuggestedBid(st), Dash, AP>>)
        /\ nextBidp' = nextBidp + 4
        /\ guess' = [seat |-> bidder, over |-> maxBid, scores |-> st, bid |-> SuggestedBid(st),
                     declarers |-> [c \in Call |-> getDeclarer(c)]]
  BY DEF GuessBid
<1>2. PICK b \in Call : b = SuggestedBid(st) BY SuggestedType DEF IInv
<1>3. guess' # NULL /\ guess'.bid = b
  BY <1>1, <1>2, GuessIsKept DEF GuessBid, NoRule
<1>4. /\ pc = "bidding" /\ guessWasCalled' /\ ~ rulesOnlyMode
      /\ UNCHANGED <<tree, trail, rulesOnlyMode>>
  BY DEF GuessBid, NoRule, dealVars, tree
<1>5. trail \in Seq(Decision) /\ Len(trail) \in Nat /\ WellFormed(tree)
  BY TreeOfRun, LenProperties DEF IInv, TypeOK
<1>6. PICK calls : calls = RuleCalls(tree, trail) OBVIOUS
<1>7. calls \in Seq(Call) /\ Len(calls) = Len(trail)
  <2>1. PICK n \in Node : TRUE BY TreeAssumption
  <2>2. [seat |-> posNorth, from |-> n, passed |-> TRUE, to |-> n] \in Decision
    BY StartFacts DEF Decision
  <2>3. QED BY <1>5, <1>6, <2>2, RuleCallsNext
<1>8. nextBidp = 2 * Len(trail) /\ SubSeq(bidStr, 1, nextBidp) = Spelled(calls)
  BY <1>4, <1>6 DEF TextInv
<1>9. PICK more \in Seq(Call) : more = Append(calls, b) /\ Len(more) = Len(calls) + 1
  BY <1>7, AppendProperties
<1>10. calls \o GuessCall(guess') = more
  <2>1. GuessCall(guess') = <<b>> BY <1>3 DEF GuessCall
  <2>2. calls \o <<b>> = Append(calls, b) BY <1>7
  <2>3. QED BY <1>9, <2>1, <2>2
<1>11. bidStr' = Text(more) \o <<Dash, AP>> /\ bidStr' = Spelled(more) \o <<AP>>
  <2>1. PICK s \in Seq(Token) : s = Spelled(calls) BY <1>7, SpelledType
  <2>2. b \in Token /\ Dash \in Token /\ AP \in Token BY CallFacts
  <2>3. s \o <<b, Dash, AP>> = (s \o <<b, Dash>>) \o <<AP>> BY <2>1, <2>2
  <2>4. Spelled(calls) \o <<b, Dash>> = Spelled(more) BY <1>7, <1>9, SpelledNext
  <2>5. bidStr' = Spelled(more) \o <<AP>>
    BY <1>1, <1>2, <1>8, <2>1, <2>3, <2>4 DEF Written
  <2>6. more # <<>> BY <1>7, <1>9
  <2>7. QED BY <2>5, <2>6, SpelledIsText
<1>12. Stripped' = bidStr'
  <2>1. PICK s : s = bidStr' OBVIOUS
  <2>2. s \in Seq(Token) /\ Len(s) = nextBidp' - 1
    <3>1. Spelled(more) \in Seq(Token) /\ Len(Spelled(more)) = 2 * Len(more)
      BY <1>9, SpelledType
    <3>2. <<AP>> \in Seq(Token) /\ Len(<<AP>>) = 1 BY CallFacts
    <3>3. s \in Seq(Token) /\ Len(s) = 2 * Len(more) + 1
      BY <1>11, <2>1, <3>1, <3>2, ConcatProperties
    <3>4. nextBidp' - 1 = 2 * Len(more) + 1 BY <1>1, <1>5, <1>7, <1>8, <1>9
    <3>5. QED BY <3>3, <3>4
  <2>3. nextBidp' > 0 BY <1>1, <1>5, <1>8
  <2>4. SubSeq(s, 1, Len(s)) = s BY <2>2
  <2>5. QED BY <2>1, <2>2, <2>3, <2>4 DEF Stripped
<1>13. calls # <<>> => guessPoint' = Text(calls) BY <1>6, NoRuleText DEF GuessBid
<1>14. Columns'.auction = guessPoint' /\ Columns'.bidding = Text(more) \o <<Dash, AP>>
  BY <1>4, <1>11, <1>12 DEF Columns
<1>15. RuleCalls(tree', trail') = calls BY <1>4, <1>6
<1>16. QED BY <1>3, <1>10, <1>13, <1>14, <1>15 DEF ColumnsAre

LEMMA StepText ==
  ASSUME IInv, Walk, CountsInv, TextInv, [Next]_vars
  PROVE  TextInv'
<1>1. ASSUME UNCHANGED <<runs, rulesOnlyMode, out>> PROVE ColumnsTellTheAuction'
  BY <1>1 DEF TextInv, ColumnsTellTheAuction
<1>2. CASE BidHand
  <2>1. /\ pc' = "bidding" /\ trail' = <<>> /\ nextBidp' = 0 /\ ~ guessWasCalled'
        /\ UNCHANGED <<runs, rulesOnlyMode, out, bidStr>>
    BY <1>2 DEF BidHand, dealVars
  <2>2. SubSeq(bidStr', 1, nextBidp') = <<>> BY <2>1, SubSeqEmpty
  <2>3. Spelled(RuleCalls(tree', trail')) = <<>> BY <2>1, NoCallsYet
  <2>4. nextBidp' = 2 * Len(trail') BY <2>1
  <2>5. QED BY <1>1, <2>1, <2>2, <2>3, <2>4 DEF TextInv
<1>3. CASE MatchBid
  <2>1. UNCHANGED <<runs, rulesOnlyMode, out>> BY <1>3 DEF MatchBid, dealVars
  <2>2. QED BY <1>1, <1>3, <2>1, MatchBidText DEF TextInv
<1>4. CASE StopAtRules
  <2>1. /\ pc' = "closed" /\ rulesOnlyMode' /\ guessWasCalled'
        /\ UNCHANGED <<runs, rulesOnlyMode, out, tree, trail>>
    BY <1>4 DEF StopAtRules, NoRule, dealVars, tree
  <2>2. RuleCalls(tree', trail') = RuleCalls(tree, trail) BY <2>1
  <2>3. Columns'.auction = guessPoint' BY <2>1 DEF Columns
  <2>4. ColumnsAre(tree, trail, guess, Columns)'
    BY <1>4, <2>1, <2>2, <2>3, NoRuleText DEF ColumnsAre, StopAtRules
  <2>5. QED BY <1>1, <2>1, <2>4 DEF TextInv
<1>5. CASE GuessBid
  <2>1. pc' = "closed" /\ UNCHANGED <<runs, rulesOnlyMode, out>>
    BY <1>5 DEF GuessBid, NoRule, dealVars
  <2>2. QED BY <1>1, <1>5, <2>1, GuessBidText DEF TextInv
<1>6. CASE GuessAborts
  <2>1. pc' = "aborted" /\ UNCHANGED <<runs, rulesOnlyMode, out>>
    BY <1>6 DEF GuessAborts, NoRule, dealVars
  <2>2. QED BY <1>1, <2>1 DEF TextInv
<1>7. CASE OutputResults
  <2> DEFINE o == [columns |-> Columns, trail |-> trail, guess |-> guess]
  <2>1. /\ pc = "closed" /\ pc' \in {"start", "done"} /\ out' = Append(out, o)
        /\ UNCHANGED <<runs, rulesOnlyMode>>
    BY <1>7 DEF OutputResults, dealVars
  <2>2. /\ DOMAIN out' = 1 .. Len(out) + 1 /\ DOMAIN out = 1 .. Len(out) /\ Len(out) \in Nat
        /\ out'[Len(out) + 1] = o
        /\ \A i \in DOMAIN out : out'[i] = out[i]
    <3>1. out \in Seq({out[i] : i \in DOMAIN out}) BY DEF CountsInv
    <3>2. QED BY <2>1, <3>1, OneMore
  <2>3. Len(out) + 1 = run
    <3>1. DOMAIN out = 1 .. (run - 1) BY <2>1 DEF CountsInv
    <3>2. run \in Nat \ {0} BY RunType DEF IInv
    <3>3. out \in Seq({out[i] : i \in DOMAIN out}) BY DEF CountsInv
    <3>4. QED BY <2>2, <3>1, <3>2, <3>3, LenProperties
  <2>4. ColumnsAre(runs[run].tree, o.trail, o.guess, o.columns)
    BY <2>1 DEF TextInv, tree
  <2>5. \A r \in DOMAIN out :
          ColumnsAre(runs[r].tree, out[r].trail, out[r].guess, out[r].columns)
    BY DEF TextInv, ColumnsTellTheAuction, ColumnsAre
  <2> HIDE DEF o
  <2>6. ASSUME NEW r \in DOMAIN out'
        PROVE  ColumnsAre(runs[r].tree, out'[r].trail, out'[r].guess, out'[r].columns)
    <3>1. CASE r = run BY <2>2, <2>3, <2>4, <3>1
    <3>2. CASE r # run
      <4>1. r \in DOMAIN out BY <2>2, <2>3, <2>6, <3>2
      <4>2. QED BY <2>2, <2>5, <4>1
    <3>3. QED BY <3>1, <3>2
  <2>7. ColumnsTellTheAuction' BY <2>1, <2>6 DEF ColumnsTellTheAuction, ColumnsAre
  <2>8. QED BY <2>1, <2>7 DEF TextInv
<1>8. CASE UNCHANGED vars
  <2>1. UNCHANGED <<runs, rulesOnlyMode, out, pc, nextBidp, trail, guessWasCalled, bidStr,
                    tree, guess, Columns>>
    BY <1>8 DEF vars, dealVars, textVars, bestVars, tree, Columns, Stripped, getDeclarer
  <2>2. QED BY <1>1, <2>1 DEF TextInv, ColumnsAre
<1>9. QED BY <1>2, <1>3, <1>4, <1>5, <1>6, <1>7, <1>8 DEF Next

(* ColumnsTellTheAuction: for any trees, runs and simulations, the auction *)
(* column has the calls made by rule in their order, and the bidding       *)
(* column the guess and "AP" after them (nextBid(), suggestContract() and  *)
(* outputResults(), which write, cut and put by one buffer).               *)
THEOREM ColumnsAreTheAuction == Spec => []ColumnsTellTheAuction
<1>1. Init => IInv /\ Walk BY InitIInv DEF Init, Walk
<1>2. IInv /\ [Next]_vars => IInv' BY StepIInv
<1>3. IInv /\ Walk /\ [Next]_vars => Walk' BY StepWalk
<1>4. IInv /\ CountsInv /\ [Next]_vars => CountsInv' BY StepCounts
<1>5. IInv /\ Walk /\ CountsInv /\ TextInv /\ [Next]_vars => TextInv' BY StepText
<1>6. TextInv => ColumnsTellTheAuction BY DEF TextInv
<1>7. QED BY InitCounts, InitText, <1>1, <1>2, <1>3, <1>4, <1>5, <1>6, PTL DEF Spec
-----------------------------------------------------------------------------
(* The walk of --validate.                                                 *)

Visits(t, path, f) ==
  f = [i \in 0 .. Len(path) |-> IF i = 0 THEN AtRoot
                                ELSE AtChild(t, PathNode(path, i - 1), path[i], f[i - 1])]

(* A walk visits the nodes of its path one by one. *)
LEMMA WalkVisits ==
  ASSUME NEW t, NEW path, Len(path) \in Nat
  PROVE  \E f : Visits(t, path, f) /\ walkValidate(t, path) = f[Len(path)]
<1> DEFINE Child(i, v) == AtChild(t, PathNode(path, i - 1), path[i], v)
           F(f, n) == [i \in 0 .. n |-> IF i = 0 THEN AtRoot ELSE Child(i, f[i - 1])]
           bad == {n \in 0 .. Len(path) : ~ \E f : f = F(f, n)}
<1>1. bad = {}
  <2> HIDE DEF Child
  <2> SUFFICES ASSUME bad # {} PROVE FALSE OBVIOUS
  <2>1. PICK n \in bad : \A j \in bad : n <= j
    <3>1. bad \in SUBSET Nat OBVIOUS
    <3>2. QED BY <3>1, FirstOfLeast
  <2>2. n \in Nat /\ n \in 0 .. Len(path) BY <2>1
  <2>3. CASE n = 0
    <3>1. PICK f : f = [i \in 0 .. n |-> AtRoot] OBVIOUS
    <3>2. f = F(f, n) BY <2>3, <3>1
    <3>3. QED BY <2>1, <3>2
  <2>4. CASE n # 0
    <3>1. n - 1 \in 0 .. Len(path) /\ ~ (n <= n - 1) BY <2>2, <2>4
    <3>2. n - 1 \notin bad BY <2>1, <3>1
    <3>3. PICK f : f = F(f, n - 1) BY <3>1, <3>2
    <3>4. PICK g : g = [i \in 0 .. n |-> IF i = n THEN Child(n, f[n - 1]) ELSE f[i]]
      OBVIOUS
    <3>5. \A i \in 0 .. n : i # n => i \in 0 .. (n - 1) /\ g[i] = f[i] BY <2>2, <3>4
    <3>6. g[n] = Child(n, f[n - 1]) /\ g[n - 1] = f[n - 1] BY <2>2, <2>4, <3>1, <3>4
    <3>7. ASSUME NEW i \in 0 .. n
          PROVE  g[i] = IF i = 0 THEN AtRoot ELSE Child(i, g[i - 1])
      <4>1. CASE i = n BY <2>4, <3>6, <4>1
      <4>2. CASE i # n
        <5>1. i \in 0 .. (n - 1) /\ g[i] = f[i] BY <3>5, <4>2
        <5>2. f[i] = IF i = 0 THEN AtRoot ELSE Child(i, f[i - 1]) BY <3>3, <5>1
        <5>3. CASE i = 0 BY <5>1, <5>2, <5>3
        <5>4. CASE i # 0
          <6>1. i - 1 \in 0 .. n /\ i - 1 # n BY <2>2, <5>1, <5>4
          <6>2. g[i - 1] = f[i - 1] BY <3>5, <6>1
          <6>3. QED BY <5>1, <5>2, <5>4, <6>2
        <5>5. QED BY <5>3, <5>4
      <4>3. QED BY <4>1, <4>2
    <3>8. g = F(g, n) BY <3>4, <3>7
    <3>9. QED BY <2>1, <3>8
  <2>5. QED BY <2>3, <2>4
<1>2. Len(path) \notin bad BY <1>1
<1>3. \E f : f = F(f, Len(path)) BY <1>2
<1>4. QED BY <1>3 DEF Visits, walkValidate

(* What is known at the root, and at a child of the node a walk is at. *)
LEMMA WalkNext ==
  ASSUME NEW t
  PROVE  /\ walkValidate(t, <<>>) = AtRoot
         /\ \A path \in Seq(Node), n \in Node :
              walkValidate(t, Append(path, n)) =
                AtChild(t, NodeOf(path), n, walkValidate(t, path))
<1>1. walkValidate(t, <<>>) = AtRoot
  <2>1. PICK f : Visits(t, <<>>, f) /\ walkValidate(t, <<>>) = f[Len(<<>>)] BY WalkVisits
  <2>2. Len(<<>>) = 0 OBVIOUS
  <2>3. QED BY <2>1, <2>2 DEF Visits
<1>2. ASSUME NEW path \in Seq(Node), NEW n \in Node
      PROVE  walkValidate(t, Append(path, n)) =
               AtChild(t, NodeOf(path), n, walkValidate(t, path))
  <2>1. PICK m \in Nat : m = Len(path) BY LenProperties
  <2>2. PICK q : q = Append(path, n) OBVIOUS
  <2>3. Len(q) = m + 1 /\ q[m + 1] = n /\ \A i \in 1 .. m : q[i] = path[i]
    BY <2>1, <2>2, AppendProperties
  <2>4. PICK f : Visits(t, path, f) /\ walkValidate(t, path) = f[m] BY <2>1, WalkVisits
  <2>5. PICK g : Visits(t, q, g) /\ walkValidate(t, q) = g[m + 1]
    <3>1. Len(q) \in Nat BY <2>3
    <3>2. \E g : Visits(t, q, g) /\ walkValidate(t, q) = g[Len(q)] BY <3>1, WalkVisits
    <3>3. QED BY <2>3, <3>2
  <2>6. \A i \in 0 .. m : PathNode(q, i) = PathNode(path, i) BY <2>3 DEF PathNode
  <2>7. \A i \in 0 .. m : f[i] = IF i = 0 THEN AtRoot
                                 ELSE AtChild(t, PathNode(path, i - 1), path[i], f[i - 1])
    BY <2>1, <2>4 DEF Visits
  <2>8. \A i \in 0 .. (m + 1) : g[i] = IF i = 0 THEN AtRoot
                                       ELSE AtChild(t, PathNode(q, i - 1), q[i], g[i - 1])
    BY <2>3, <2>5 DEF Visits
  <2>9. \A i \in 0 .. m : f[i] = g[i]
    <3> DEFINE bad == {i \in 0 .. m : f[i] # g[i]}
    <3> SUFFICES ASSUME bad # {} PROVE FALSE OBVIOUS
    <3>1. PICK i \in bad : \A j \in bad : i <= j
      <4>1. bad \in SUBSET Nat OBVIOUS
      <4>2. QED BY <4>1, FirstOfLeast
    <3>2. i \in 0 .. m /\ f[i] # g[i] BY <3>1
    <3>3. i # 0 BY <2>7, <2>8, <3>2
    <3>4. i - 1 \in 0 .. m /\ ~ (i <= i - 1) BY <3>2, <3>3
    <3>5. f[i - 1] = g[i - 1] BY <3>1, <3>4
    <3>6. PathNode(q, i - 1) = PathNode(path, i - 1) /\ q[i] = path[i] BY <2>3, <2>6, <3>2, <3>3, <3>4
    <3>7. i \in 0 .. (m + 1) BY <3>2
    <3>8. QED BY <2>7, <2>8, <3>2, <3>3, <3>5, <3>6, <3>7
  <2>10. g[m + 1] = AtChild(t, PathNode(q, m), n, g[m])
    <3>1. m + 1 \in 0 .. (m + 1) /\ m + 1 # 0 /\ (m + 1) - 1 = m OBVIOUS
    <3>2. QED BY <2>3, <2>8, <3>1
  <2>11. m \in 0 .. m OBVIOUS
  <2>12. PathNode(q, m) = NodeOf(path) BY <2>1, <2>6, <2>11 DEF NodeOf
  <2>13. QED BY <2>2, <2>4, <2>5, <2>9, <2>10, <2>11, <2>12
<1>3. QED BY <1>1, <1>2

(* What a node was visited with. *)
Visit == [walked: BOOLEAN, depth: Nat, acc: [Seat -> RulePtr], allPassSoFar: BOOLEAN]

LEMMA SeatFacts ==
  ASSUME NEW d \in Nat
  PROVE  /\ ChildSeat(d) \in Seat /\ OwnSeat(d + 1) = ChildSeat(d)
         /\ ChildSeat(d + 1) = nextBidder(ChildSeat(d))
<1>1. d % 2 = 0 <=> (d + 1) % 2 # 0 OBVIOUS
<1>2. d % 2 = 0 <=> (d + 1) % 2 = 1 OBVIOUS
<1>3. QED BY <1>1, <1>2 DEF ChildSeat, OwnSeat, Seat, nextBidder, posNorth, posSouth

(* The siblings before a child are those before its place. *)
LEMMA EarlierSiblings ==
  ASSUME NEW t, WellFormed(t), NEW n \in Node, NEW i \in DOMAIN t.kids[n]
  PROVE  /\ siblingsBefore(t, n, t.kids[n][i]) = negatedEarlierSiblings(t, n, i)
         /\ negatedEarlierSiblings(t, n, i) \in RulePtr
<1>1. \A j \in DOMAIN t.kids[n] : t.kids[n][j] = t.kids[n][i] => j = i BY KidsDiffer
<1>2. (CHOOSE j \in DOMAIN t.kids[n] : t.kids[n][j] = t.kids[n][i]) = i BY <1>1
<1>3. 1 .. (i - 1) \in SUBSET DOMAIN t.kids[n]
  <2>1. t.kids[n] \in Seq(Node) BY TreeType
  <2>2. QED BY <2>1
<1>4. QED BY <1>2, <1>3, NegatedKidsExt DEF siblingsBefore, negatedEarlierSiblings

(* What the seat of a child learns is what a hand that chooses it tells.   *)
ChildKnows(t, n, i, v) ==
  LET k == t.kids[n][i]
      s == ChildSeat(v.depth)
      w == AtChild(t, n, k, v)
  IN  /\ w \in Visit /\ w.depth = v.depth + 1
      /\ w.allPassSoFar <=> v.allPassSoFar /\ t.call[k] = bidPass
      /\ w.walked <=> v.walked /\ Ext(v.acc[s]) # {}
      /\ \A q \in Seat : q # s => w.acc[q] = v.acc[q]
      /\ Ext(w.acc[s]) = Ext(v.acc[s]) \cap
                           (Ext(negatedEarlierSiblings(t, n, i)) \cap Ext(t.rule[k]))

LEMMA ChildTold ==
  ASSUME NEW t, WellFormed(t), NEW n \in Node, NEW i \in DOMAIN t.kids[n], NEW v \in Visit
  PROVE  ChildKnows(t, n, i, v)
<1> DEFINE k == t.kids[n][i]
           s == ChildSeat(v.depth)
           w == AtChild(t, n, k, v)
           e == negatedEarlierSiblings(t, n, i)
           r == combineRule(combineRule(v.acc[s], e), t.rule[k])
<1>1. s \in Seat /\ OwnSeat(v.depth + 1) = s BY SeatFacts DEF Visit
<1>2. k \in Node /\ t.rule[k] \in RulePtr
  <2>1. k \in Node BY TreeType
  <2>2. QED BY <2>1, TreeType
<1>3. siblingsBefore(t, n, k) = e /\ e \in RulePtr BY EarlierSiblings
<1>4. v.acc \in [Seat -> RulePtr] /\ v.acc[s] \in RulePtr BY <1>1 DEF Visit
<1>5. combineRule(v.acc[s], e) \in RulePtr /\ Ext(combineRule(v.acc[s], e)) = Ext(v.acc[s]) \cap Ext(e)
  BY <1>3, <1>4, CombineType, CombineExt
<1>6. r \in RulePtr /\ Ext(r) = (Ext(v.acc[s]) \cap Ext(e)) \cap Ext(t.rule[k])
  BY <1>2, <1>5, CombineType, CombineExt
<1>7. w = [walked       |-> v.walked /\ Ext(v.acc[s]) # {},
           depth        |-> v.depth + 1,
           acc          |-> [v.acc EXCEPT ![s] = r],
           allPassSoFar |-> v.allPassSoFar /\ t.call[k] = bidPass]
  <2>1. [[v.acc EXCEPT ![s] = combineRule(@, e)] EXCEPT ![s] = combineRule(@, t.rule[k])]
          = [v.acc EXCEPT ![s] = r]
    BY <1>1, <1>4
  <2> HIDE DEF k, s, e, r
  <2>2. QED BY <1>1, <1>3, <2>1 DEF w, s, AtChild, childPrecondition
<1> HIDE DEF k, s, e, r, w
<1>8. w.acc = [v.acc EXCEPT ![s] = r] /\ w.acc \in [Seat -> RulePtr] BY <1>1, <1>4, <1>6, <1>7
<1>9. w \in Visit BY <1>7, <1>8 DEF Visit
<1>10. w.acc[s] = r /\ \A q \in Seat : q # s => w.acc[q] = v.acc[q] BY <1>1, <1>4, <1>8
<1>11. /\ w.depth = v.depth + 1
       /\ w.allPassSoFar <=> v.allPassSoFar /\ t.call[k] = bidPass
       /\ w.walked <=> v.walked /\ Ext(v.acc[s]) # {}
  BY <1>7
<1>12. Ext(w.acc[s]) = Ext(v.acc[s]) \cap (Ext(e) \cap Ext(t.rule[k])) BY <1>6, <1>10
<1>13. QED BY <1>9, <1>10, <1>11, <1>12, Zenon DEF ChildKnows, k, s, e, w

(* The rule a call leaves, by the node m that its child was found at. *)
CallLeaves(t, n, p, h, acc, m) ==
  LET f    == findMatchingChild(t, n, p, h, acc)
      i    == FirstOf(Matching(t, m, h))
      r    == combineRule(f.acc, t.rule[f.match])
      told == Ext(negatedEarlierSiblings(t, m, i)) \cap Ext(t.rule[f.match])
  IN  /\ i \in DOMAIN t.kids[m] /\ f.match = t.kids[m][i]
      /\ Ext(r) \subseteq told
      /\ m = n => Ext(r) = Ext(acc) \cap told

LEMMA CallTells ==
  ASSUME NEW t, WellFormed(t), NEW n \in Node, NEW p \in BOOLEAN, NEW h \in Hand,
         NEW acc \in RulePtr, NEW m \in Node, Matching(t, m, h) # {},
         m = n \/ (m = Root /\ Matching(t, n, h) = {} /\ p /\ n # Root)
  PROVE  CallLeaves(t, n, p, h, acc, m)
<1> DEFINE f == findMatchingChild(t, n, p, h, acc)
           i == FirstOf(Matching(t, m, h))
           k == t.kids[m][i]
           e == negatedEarlierSiblings(t, m, i)
           q == IF m = n THEN acc ELSE combineRule(acc, negatedAllChildren(t, n))
<1>1. i \in DOMAIN t.kids[m] BY FirstMatching
<1>2. k \in Node /\ t.rule[k] \in RulePtr
  <2>1. k \in Node BY <1>1, TreeType
  <2>2. QED BY <2>1, TreeType
<1>3. e \in RulePtr BY <1>1, EarlierSiblings
<1>4. q \in RulePtr BY MissesAll, CombineType
<1>5. f.match = k /\ f.acc = combineRule(q, e)
  <2>1. CASE m = n BY <2>1 DEF findMatchingChild, MatchAt
  <2>2. CASE m # n BY <2>2 DEF findMatchingChild, MatchAt
  <2>3. QED BY <2>1, <2>2
<1> HIDE DEF f, i, k, e, q
<1>6. f.acc \in RulePtr /\ Ext(f.acc) = Ext(q) \cap Ext(e)
  BY <1>3, <1>4, <1>5, CombineType, CombineExt
<1>7. Ext(combineRule(f.acc, t.rule[k])) = (Ext(q) \cap Ext(e)) \cap Ext(t.rule[k])
  BY <1>2, <1>6, CombineExt
<1>8. m = n => q = acc BY DEF q
<1>9. /\ Ext(combineRule(f.acc, t.rule[f.match])) \subseteq Ext(e) \cap Ext(t.rule[f.match])
      /\ m = n => Ext(combineRule(f.acc, t.rule[f.match])) =
                    Ext(acc) \cap (Ext(e) \cap Ext(t.rule[f.match]))
  BY <1>5, <1>7, <1>8
<1>10. QED BY <1>1, <1>5, <1>9, Zenon DEF CallLeaves, f, i, k, e

(* The hand that makes a call is one that the call does not exclude. *)
LEMMA CallerKnown ==
  ASSUME NEW t, WellFormed(t), NEW n \in Node, NEW p \in BOOLEAN, NEW h \in Hand,
         NEW acc \in RulePtr, findMatchingChild(t, n, p, h, acc).match # NULL, h \in Ext(acc)
  PROVE  LET f == findMatchingChild(t, n, p, h, acc)
         IN  h \in Ext(combineRule(f.acc, t.rule[f.match]))
<1>1. findMatchingChild(t, n, p, h, NULL).match = findMatchingChild(t, n, p, h, acc).match
  BY WhichMatch
<1>2. QED BY <1>1, MatchExact

-----------------------------------------------------------------------------
(* The path of the auction.                                                *)

(* The last decision of tr that chose an opening bid of t. *)
LastOpening(t, tr, i) ==
  /\ i \in DOMAIN tr /\ tr[i].to \in Kids(t, Root)
  /\ \A j \in DOMAIN tr : tr[j].to \in Kids(t, Root) => j <= i

From(tr, i) == [j \in 1 .. (Len(tr) + 1 - i) |-> tr[i + j - 1].to]

PathOf(t, tr) ==
  IF tr = <<>> THEN <<>>
  ELSE From(tr, CHOOSE i \in DOMAIN tr :
                  tr[i].to \in Kids(t, Root)
                    /\ \A j \in DOMAIN tr : tr[j].to \in Kids(t, Root) => j <= i)

LEMMA PathFromOpening ==
  ASSUME NEW t, NEW tr \in Seq(Decision), NEW i, LastOpening(t, tr, i)
  PROVE  PathOf(t, tr) = From(tr, i)
<1>1. DOMAIN tr \subseteq Nat
  <2>1. DOMAIN tr = 1 .. Len(tr) /\ Len(tr) \in Nat BY LenProperties
  <2>2. QED BY <2>1
<1>2. \A j \in DOMAIN tr :
        (tr[j].to \in Kids(t, Root)
           /\ \A l \in DOMAIN tr : tr[l].to \in Kids(t, Root) => l <= j) => j = i
  BY <1>1 DEF LastOpening
<1>3. (CHOOSE j \in DOMAIN tr :
         tr[j].to \in Kids(t, Root)
           /\ \A l \in DOMAIN tr : tr[l].to \in Kids(t, Root) => l <= j) = i
  BY <1>2 DEF LastOpening
<1>4. tr # <<>> BY DEF LastOpening
<1>5. QED BY <1>3, <1>4 DEF PathOf

(* An opening bid starts the path anew, and any other call prolongs it. *)
LEMMA PathGrows ==
  ASSUME NEW t, NEW tr \in Seq(Decision), NEW d \in Decision,
         tr = <<>> => d.to \in Kids(t, Root),
         tr # <<>> => \E i : LastOpening(t, tr, i)
  PROVE  /\ \E i : LastOpening(t, Append(tr, d), i)
         /\ d.to \in Kids(t, Root) => PathOf(t, Append(tr, d)) = <<d.to>>
         /\ d.to \notin Kids(t, Root) => PathOf(t, Append(tr, d)) = Append(PathOf(t, tr), d.to)
<1>1. PICK m \in Nat : m = Len(tr) BY LenProperties
<1>2. PICK q : q = Append(tr, d) OBVIOUS
<1>3. /\ q \in Seq(Decision) /\ Len(q) = m + 1 /\ q[m + 1] = d
      /\ \A i \in 1 .. m : q[i] = tr[i]
      /\ DOMAIN q = 1 .. (m + 1) /\ DOMAIN tr = 1 .. m
  BY <1>1, <1>2, AppendProperties
<1>4. CASE d.to \in Kids(t, Root)
  <2>1. LastOpening(t, q, m + 1) BY <1>3, <1>4 DEF LastOpening
  <2>2. PathOf(t, q) = From(q, m + 1) BY <1>3, <2>1, PathFromOpening
  <2>3. From(q, m + 1) = [j \in 1 .. 1 |-> d.to]
    <3>1. (m + 1) + 1 - (m + 1) = 1 OBVIOUS
    <3>2. \A j \in 1 .. 1 : (m + 1) + j - 1 = m + 1 OBVIOUS
    <3>3. QED BY <1>3, <3>1, <3>2 DEF From
  <2>4. <<d.to>> = [j \in 1 .. 1 |-> d.to] OBVIOUS
  <2>5. QED BY <1>2, <1>4, <2>1, <2>2, <2>3, <2>4
<1>5. CASE d.to \notin Kids(t, Root)
  <2>1. PICK i : LastOpening(t, tr, i) BY <1>5
  <2>2. i \in 1 .. m BY <1>3, <2>1 DEF LastOpening
  <2>3. LastOpening(t, q, i)
    <3>1. i \in DOMAIN q /\ q[i].to \in Kids(t, Root) BY <1>3, <2>1, <2>2 DEF LastOpening
    <3>2. ASSUME NEW j \in DOMAIN q, q[j].to \in Kids(t, Root) PROVE j <= i
      <4>1. j # m + 1 BY <1>3, <1>5, <3>2
      <4>2. j \in 1 .. m /\ q[j] = tr[j] BY <1>3, <3>2, <4>1
      <4>3. QED BY <1>3, <2>1, <3>2, <4>2 DEF LastOpening
    <3>3. QED BY <3>1, <3>2 DEF LastOpening
  <2>4. PathOf(t, q) = From(q, i) /\ PathOf(t, tr) = From(tr, i)
    BY <1>3, <2>1, <2>3, PathFromOpening
  <2>5. PICK l \in Nat : l = m + 1 - i BY <2>2
  <2>6. From(tr, i) = [j \in 1 .. l |-> tr[i + j - 1].to] BY <1>1, <2>5 DEF From
  <2>7. From(q, i) = [j \in 1 .. (l + 1) |-> q[i + j - 1].to]
    <3>1. (m + 1) + 1 - i = l + 1 BY <2>2, <2>5
    <3>2. QED BY <1>3, <3>1 DEF From
  <2>8. \A j \in 1 .. l : i + j - 1 \in 1 .. m BY <2>2, <2>5
  <2>9. From(tr, i) \in Seq(Node) /\ Len(From(tr, i)) = l
    <3>1. \A j \in 1 .. m : tr[j].to \in Node
      <4>1. \A j \in 1 .. m : tr[j] \in Decision BY <1>1, ElementOfSeq
      <4>2. QED BY <4>1 DEF Decision
    <3>2. From(tr, i) \in [1 .. l -> Node] BY <2>6, <2>8, <3>1
    <3>3. QED BY <3>2, SeqDef, LenProperties
  <2>10. PICK u : u = From(tr, i) OBVIOUS
  <2>11. /\ Append(u, d.to) \in Seq(Node) /\ Len(Append(u, d.to)) = l + 1
         /\ Append(u, d.to)[l + 1] = d.to /\ \A j \in 1 .. l : Append(u, d.to)[j] = u[j]
         /\ DOMAIN Append(u, d.to) = 1 .. (l + 1)
    <3>1. d.to \in Node BY DEF Decision
    <3>2. QED BY <2>9, <2>10, <3>1, AppendProperties
  <2>12. ASSUME NEW j \in 1 .. (l + 1) PROVE Append(u, d.to)[j] = q[i + j - 1].to
    <3>1. CASE j = l + 1
      <4>1. i + j - 1 = m + 1 BY <2>2, <2>5, <3>1
      <4>2. QED BY <1>3, <2>11, <3>1, <4>1
    <3>2. CASE j # l + 1
      <4>1. j \in 1 .. l BY <3>2
      <4>2. u[j] = tr[i + j - 1].to BY <2>6, <2>10, <4>1
      <4>3. QED BY <1>3, <2>8, <2>11, <4>1, <4>2
    <3>3. QED BY <3>1, <3>2
  <2>13. Append(u, d.to) = [j \in 1 .. (l + 1) |-> q[i + j - 1].to]
    <3>1. Append(u, d.to) = [j \in 1 .. (l + 1) |-> Append(u, d.to)[j]] BY <2>11
    <3>2. QED BY <2>12, <3>1
  <2>14. QED BY <1>2, <1>5, <2>3, <2>4, <2>7, <2>10, <2>13
<1>6. QED BY <1>4, <1>5

-----------------------------------------------------------------------------
(* The walk at the end of the auction's path.                              *)

(* The seat the walk takes s for, when it is out of turn or not.           *)
SeatOf(turned, s) == IF turned THEN nextBidder(s) ELSE s

(* A visit v of the walk tells what the rules R say of the two hands when  *)
(* b is to bid: all of it while no opening bid was retried, and after that *)
(* nothing that excludes a hand, the seats exchanged or not.               *)
Tells(v, R, b, passed, retried) ==
  /\ v \in Visit /\ v.walked /\ (v.allPassSoFar <=> passed)
  /\ \E o \in BOOLEAN :
       /\ ChildSeat(v.depth) = SeatOf(o, b)
       /\ \A s \in Seat : Ext(R[s]) \subseteq Ext(v.acc[SeatOf(o, s)])
  /\ ~ retried => /\ ChildSeat(v.depth) = b
                  /\ \A s \in Seat : Ext(R[s]) = Ext(v.acc[s])

LEMMA TurnFacts ==
  ASSUME NEW o \in BOOLEAN, NEW b \in Seat
  PROVE  /\ SeatOf(o, b) \in Seat /\ nextBidder(b) \in Seat
         /\ nextBidder(SeatOf(o, b)) = SeatOf(o, nextBidder(b))
         /\ \A q \in Seat : q # b => SeatOf(o, q) # SeatOf(o, b) /\ q = nextBidder(b)
  BY DEF SeatOf, nextBidder, Seat, posNorth, posSouth

(* A call by a child of the node reached. *)
LEMMA ChildTells ==
  ASSUME NEW t, WellFormed(t), NEW n \in Node, NEW passed \in BOOLEAN, NEW h \in Hand,
         NEW R \in [Seat -> RulePtr], NEW b \in Seat, NEW v, NEW retried \in BOOLEAN,
         Tells(v, R, b, passed, retried), h \in Ext(R[b]), Matching(t, n, h) # {}
  PROVE  LET f == findMatchingChild(t, n, passed, h, R[b])
         IN  Tells(AtChild(t, n, f.match, v),
                   [R EXCEPT ![b] = combineRule(f.acc, t.rule[f.match])],
                   nextBidder(b), passed /\ t.call[f.match] = bidPass, retried)
<1> DEFINE f == findMatchingChild(t, n, passed, h, R[b])
           i == FirstOf(Matching(t, n, h))
           r == combineRule(f.acc, t.rule[f.match])
           told == Ext(negatedEarlierSiblings(t, n, i)) \cap Ext(t.rule[f.match])
           s == ChildSeat(v.depth)
           w == AtChild(t, n, f.match, v)
           Rn == [R EXCEPT ![b] = r]
<1>1. R[b] \in RulePtr OBVIOUS
<1>2. i \in DOMAIN t.kids[n] /\ f.match = t.kids[n][i] /\ Ext(r) = Ext(R[b]) \cap told
  <2>1. CallLeaves(t, n, passed, h, R[b], n) BY <1>1, CallTells
  <2>2. QED BY <2>1 DEF CallLeaves
<1>3. v \in Visit /\ v.walked /\ (v.allPassSoFar <=> passed) BY DEF Tells
<1> HIDE DEF f, i, r
<1>4. /\ w \in Visit /\ w.depth = v.depth + 1
      /\ w.allPassSoFar <=> v.allPassSoFar /\ t.call[f.match] = bidPass
      /\ w.walked <=> v.walked /\ Ext(v.acc[s]) # {}
      /\ \A q \in Seat : q # s => w.acc[q] = v.acc[q]
      /\ Ext(w.acc[s]) = Ext(v.acc[s]) \cap told
  <2>1. ChildKnows(t, n, i, v) BY <1>2, <1>3, ChildTold
  <2>2. t.kids[n][i] = f.match BY <1>2
  <2>3. QED BY <2>1, <2>2, Zenon DEF ChildKnows
<1> HIDE DEF told, w
<1>5. Rn[b] = r /\ \A q \in Seat : q # b => Rn[q] = R[q] OBVIOUS
<1> HIDE DEF Rn
<1>6. ChildSeat(w.depth) = nextBidder(s) /\ s \in Seat
  BY <1>3, <1>4, SeatFacts DEF Visit
<1> HIDE DEF s
<1>7. \A o \in BOOLEAN : s = SeatOf(o, b) => ChildSeat(w.depth) = SeatOf(o, nextBidder(b))
  BY <1>6, TurnFacts
<1>8. ASSUME NEW o \in BOOLEAN, s = SeatOf(o, b),
             \A q \in Seat : Ext(R[q]) \subseteq Ext(v.acc[SeatOf(o, q)])
      PROVE  \A q \in Seat : Ext(Rn[q]) \subseteq Ext(w.acc[SeatOf(o, q)])
  <2> TAKE q \in Seat
  <2>1. CASE q = b BY <1>2, <1>4, <1>5, <1>8, <2>1
  <2>2. CASE q # b
    <3>1. SeatOf(o, q) # s /\ SeatOf(o, q) \in Seat BY <1>8, <2>2, TurnFacts
    <3>2. w.acc[SeatOf(o, q)] = v.acc[SeatOf(o, q)] /\ Rn[q] = R[q] BY <1>4, <1>5, <2>2, <3>1
    <3>3. QED BY <1>8, <3>2
  <2>3. QED BY <2>1, <2>2
<1>9. PICK o \in BOOLEAN : /\ s = SeatOf(o, b)
                           /\ \A q \in Seat : Ext(R[q]) \subseteq Ext(v.acc[SeatOf(o, q)])
  BY DEF Tells, s
<1>10. w.walked
  <2>1. h \in Ext(v.acc[s]) BY <1>9
  <2>2. QED BY <1>3, <1>4, <2>1
<1>11. w.allPassSoFar <=> (passed /\ t.call[f.match] = bidPass) BY <1>3, <1>4
<1>12. ASSUME ~ retried
       PROVE  ChildSeat(w.depth) = nextBidder(b) /\ \A q \in Seat : Ext(Rn[q]) = Ext(w.acc[q])
  <2>1. s = b /\ \A q \in Seat : Ext(R[q]) = Ext(v.acc[q]) BY <1>12 DEF Tells, s
  <2>2. ASSUME NEW q \in Seat PROVE Ext(Rn[q]) = Ext(w.acc[q])
    <3>1. CASE q = b BY <1>2, <1>4, <1>5, <2>1, <3>1
    <3>2. CASE q # b
      <4>1. w.acc[q] = v.acc[q] /\ Rn[q] = R[q] BY <1>4, <1>5, <2>1, <3>2
      <4>2. QED BY <2>1, <4>1
    <3>3. QED BY <3>1, <3>2
  <2>3. QED BY <1>6, <2>1, <2>2
<1>13. Tells(w, Rn, nextBidder(b), passed /\ t.call[f.match] = bidPass, retried)
  <2>1. \E a \in BOOLEAN : /\ ChildSeat(w.depth) = SeatOf(a, nextBidder(b))
                           /\ \A q \in Seat : Ext(Rn[q]) \subseteq Ext(w.acc[SeatOf(a, q)])
    BY <1>7, <1>8, <1>9
  <2>2. QED BY <1>4, <1>10, <1>11, <1>12, <2>1 DEF Tells
<1>14. QED BY <1>13 DEF w, Rn, r, f

(* A call by an opening bid that was tried again. *)
LEMMA RetryTells ==
  ASSUME NEW t, WellFormed(t), NEW n \in Node, NEW passed \in BOOLEAN, passed, NEW h \in Hand,
         NEW R \in [Seat -> RulePtr], NEW b \in Seat, NEW retried \in BOOLEAN, retried,
         Matching(t, n, h) = {}, n # Root, Matching(t, Root, h) # {}
  PROVE  LET f == findMatchingChild(t, n, passed, h, R[b])
         IN  Tells(AtChild(t, Root, f.match, AtRoot),
                   [R EXCEPT ![b] = combineRule(f.acc, t.rule[f.match])],
                   nextBidder(b), passed /\ t.call[f.match] = bidPass, retried)
<1> DEFINE f == findMatchingChild(t, n, passed, h, R[b])
           i == FirstOf(Matching(t, Root, h))
           r == combineRule(f.acc, t.rule[f.match])
           told == Ext(negatedEarlierSiblings(t, Root, i)) \cap Ext(t.rule[f.match])
           s == ChildSeat(0)
           w == AtChild(t, Root, f.match, AtRoot)
           Rn == [R EXCEPT ![b] = r]
<1>1. R[b] \in RulePtr /\ Root \in Node BY TreeAssumption
<1>2. i \in DOMAIN t.kids[Root] /\ f.match = t.kids[Root][i] /\ Ext(r) \subseteq told
  <2>1. CallLeaves(t, n, passed, h, R[b], Root) BY <1>1, CallTells
  <2>2. QED BY <2>1 DEF CallLeaves
<1>3. /\ AtRoot \in Visit /\ AtRoot.depth = 0 /\ AtRoot.walked /\ AtRoot.allPassSoFar
      /\ \A q \in Seat : Ext(AtRoot.acc[q]) = Hand
  BY AnyRuleType DEF AtRoot, Visit
<1> HIDE DEF f, i, r
<1>4. /\ w \in Visit /\ w.depth = 0 + 1
      /\ w.allPassSoFar <=> AtRoot.allPassSoFar /\ t.call[f.match] = bidPass
      /\ w.walked <=> AtRoot.walked /\ Ext(AtRoot.acc[s]) # {}
      /\ \A q \in Seat : q # s => w.acc[q] = AtRoot.acc[q]
      /\ Ext(w.acc[s]) = Ext(AtRoot.acc[s]) \cap told
  <2>1. ChildKnows(t, Root, i, AtRoot) BY <1>1, <1>2, <1>3, ChildTold
  <2>2. t.kids[Root][i] = f.match /\ AtRoot.depth = 0 BY <1>2, <1>3
  <2>3. QED BY <2>1, <2>2, Zenon DEF ChildKnows
<1>5. s \in Seat /\ s = posNorth /\ ChildSeat(w.depth) = nextBidder(s)
  <2>0. 0 \in Nat OBVIOUS
  <2>1. s \in Seat /\ ChildSeat(0 + 1) = nextBidder(s) BY <2>0, SeatFacts
  <2>2. s = posNorth BY DEF ChildSeat
  <2>3. QED BY <1>4, <2>1, <2>2
<1>6. told \subseteq Hand
  <2>1. f.match \in Node BY <1>1, <1>2, TreeType
  <2>2. t.rule[f.match] \in RulePtr BY <2>1, TreeType
  <2>3. QED BY <2>2, ExtType
<1>7. Ext(w.acc[s]) = told BY <1>3, <1>4, <1>5, <1>6
<1> HIDE DEF told, w
<1>8. Rn[b] = r /\ \A q \in Seat : q # b => Rn[q] = R[q] OBVIOUS
<1>9. \A q \in Seat : Ext(R[q]) \subseteq Hand
  <2>1. \A q \in Seat : R[q] \in RulePtr OBVIOUS
  <2>2. QED BY <2>1, ExtType
<1> HIDE DEF Rn
<1>10. PICK o \in BOOLEAN : o = (b # posNorth) OBVIOUS
<1>11. SeatOf(o, b) = s BY <1>5, <1>10 DEF SeatOf, nextBidder, Seat, posNorth, posSouth
<1>12. ChildSeat(w.depth) = SeatOf(o, nextBidder(b)) BY <1>5, <1>11, TurnFacts
<1>13. ASSUME NEW q \in Seat PROVE Ext(Rn[q]) \subseteq Ext(w.acc[SeatOf(o, q)])
  <2>1. CASE q = b BY <1>2, <1>7, <1>8, <1>11, <2>1
  <2>2. CASE q # b
    <3>1. SeatOf(o, q) # s /\ SeatOf(o, q) \in Seat BY <1>11, <2>2, TurnFacts
    <3>2. Ext(w.acc[SeatOf(o, q)]) = Hand /\ Rn[q] = R[q] BY <1>3, <1>4, <1>8, <2>2, <3>1
    <3>3. QED BY <1>9, <3>2
  <2>3. QED BY <2>1, <2>2
<1>14. w.walked BY <1>3, <1>4, <1>5
<1>15. w.allPassSoFar <=> (passed /\ t.call[f.match] = bidPass) BY <1>3, <1>4
<1>16. Tells(w, Rn, nextBidder(b), passed /\ t.call[f.match] = bidPass, retried)
  BY <1>4, <1>12, <1>13, <1>14, <1>15 DEF Tells
<1>17. QED BY <1>16 DEF w, Rn, r, f

(* Where the auction stands, on the way to WalkKnowsTheHand: the walk of   *)
(* its path ends at the node reached and tells what is known of the hands. *)
WalkFollows ==
  pc = "bidding" =>
    /\ PathOf(tree, trail) \in Seq(Node) /\ NodeOf(PathOf(tree, trail)) = sysp
    /\ \A s \in Seat : hands[s] \in Ext(rules[s])
    /\ trail # <<>> => \E i : LastOpening(tree, trail, i)
    /\ Tells(walkValidate(tree, PathOf(tree, trail)), rules, bidder, allPassSoFar, Retried)

LEMMA LastOfPath ==
  ASSUME NEW path \in Seq(Node), NEW n \in Node
  PROVE  /\ Append(path, n) \in Seq(Node) /\ NodeOf(Append(path, n)) = n
         /\ NodeOf(<<>>) = Root
<1>1. PICK m \in Nat : m = Len(path) BY LenProperties
<1>2. PICK q : q = Append(path, n) OBVIOUS
<1>3. q \in Seq(Node) /\ Len(q) = m + 1 /\ q[m + 1] = n BY <1>1, <1>2, AppendProperties
<1>4. NodeOf(q) = n
  <2>1. m + 1 # 0 OBVIOUS
  <2>2. QED BY <1>3, <2>1 DEF NodeOf, PathNode
<1>5. NodeOf(<<>>) = Root BY DEF NodeOf, PathNode
<1>6. QED BY <1>2, <1>3, <1>4, <1>5

LEMMA BidHandFollows ==
  ASSUME IInv, BidHand
  PROVE  WalkFollows'
<1>1. /\ trail' = <<>> /\ rules' = [s \in Seat |-> AnyRule] /\ bidder' = posNorth
      /\ sysp' = Root /\ allPassSoFar' = TRUE /\ hands' = hands
  BY DEF BidHand, dealVars
<1>2. PathOf(tree, trail)' = <<>> BY <1>1 DEF PathOf
<1>3. PathOf(tree, trail)' \in Seq(Node) /\ NodeOf(PathOf(tree, trail))' = Root
  BY <1>2 DEF NodeOf, PathNode
<1>4. walkValidate(tree, PathOf(tree, trail))' = AtRoot
  <2>1. PICK t : t = tree' OBVIOUS
  <2>2. walkValidate(t, <<>>) = AtRoot BY WalkNext
  <2>3. QED BY <1>2, <2>1, <2>2
<1>5. ~ Retried' BY <1>1 DEF Retried
<1>6. \A s \in Seat : Ext(AnyRule) = Hand /\ hands[s] \in Hand BY AnyRuleType DEF IInv, TypeOK
<1>7. posNorth \in Seat /\ ChildSeat(0) = posNorth BY DEF Seat, ChildSeat
<1>8. AtRoot \in Visit BY AnyRuleType DEF AtRoot, Visit
<1>9. Tells(AtRoot, [s \in Seat |-> AnyRule], posNorth, TRUE, FALSE)
  <2>1. ChildSeat(AtRoot.depth) = SeatOf(FALSE, posNorth) BY <1>7 DEF AtRoot, SeatOf
  <2>2. \A s \in Seat : Ext([q \in Seat |-> AnyRule][s]) = Ext(AtRoot.acc[s]) BY DEF AtRoot
  <2>3. \A s \in Seat : SeatOf(FALSE, s) = s BY DEF SeatOf
  <2>4. \E o \in BOOLEAN :
          /\ ChildSeat(AtRoot.depth) = SeatOf(o, posNorth)
          /\ \A s \in Seat : Ext([q \in Seat |-> AnyRule][s]) \subseteq Ext(AtRoot.acc[SeatOf(o, s)])
    BY <2>1, <2>2, <2>3
  <2>5. AtRoot.walked /\ AtRoot.allPassSoFar BY DEF AtRoot
  <2>6. ChildSeat(AtRoot.depth) = posNorth BY <2>1 DEF SeatOf
  <2>7. QED BY <1>8, <2>2, <2>4, <2>5, <2>6 DEF Tells
<1>10. Tells(walkValidate(tree, PathOf(tree, trail)), rules, bidder, allPassSoFar, Retried)'
  <2>1. Retried' = FALSE BY <1>5 DEF Retried
  <2>2. QED BY <1>1, <1>4, <1>9, <2>1
<1>11. (\A s \in Seat : hands[s] \in Ext(rules[s]))' BY <1>1, <1>6
<1>12. QED BY <1>1, <1>3, <1>10, <1>11 DEF WalkFollows

LEMMA MatchBidFollows ==
  ASSUME IInv, Walk, WalkFollows, MatchBid
  PROVE  WalkFollows'
<1> SUFFICES ASSUME pc' = "bidding" PROVE WalkFollows' BY DEF WalkFollows
<1>1. PICK t : t = tree OBVIOUS
<1>2. PICK n : n = sysp OBVIOUS
<1>3. PICK b : b = bidder OBVIOUS
<1>4. PICK p \in BOOLEAN : p = allPassSoFar BY DEF IInv, TypeOK
<1>5. PICK R : R = rules OBVIOUS
<1>6. PICK H : H = hands OBVIOUS
<1>7. PICK tr : tr = trail OBVIOUS
<1>8. PICK path : path = PathOf(t, tr) OBVIOUS
<1>9. PICK old \in BOOLEAN : old <=> Retried OBVIOUS
<1>10. /\ WellFormed(t) /\ n \in Node /\ b \in Seat /\ tr \in Seq(Decision)
       /\ R \in [Seat -> RulePtr] /\ H \in [Seat -> Hand] /\ Root \in Node
  BY <1>1, <1>2, <1>3, <1>5, <1>6, <1>7, TreeOfRun, TreeAssumption DEF IInv, TypeOK, MatchBid
<1> DEFINE h == H[b]
           f == findMatchingChild(t, n, p, h, R[b])
           k == f.match
           r == combineRule(f.acc, t.rule[k])
           Rn == [R EXCEPT ![b] = r]
           d == [seat |-> b, from |-> n, passed |-> p, to |-> k]
           pn == p /\ t.call[k] = bidPass
<1>11. f = Found /\ k # NULL
  BY <1>1, <1>2, <1>3, <1>4, <1>5, <1>6 DEF Found, MatchBid
<1>12. h \in Hand /\ R[b] \in RulePtr BY <1>10
<1>13. /\ path \in Seq(Node) /\ NodeOf(path) = n
       /\ \A s \in Seat : H[s] \in Ext(R[s])
       /\ tr # <<>> => \E i : LastOpening(t, tr, i)
       /\ Tells(walkValidate(t, path), R, b, p, old)
  <2>1. Tells(walkValidate(t, path), R, b, allPassSoFar, Retried)
    BY <1>1, <1>3, <1>5, <1>7, <1>8 DEF WalkFollows, MatchBid
  <2>2. Tells(walkValidate(t, path), R, b, p, old) BY <1>4, <1>9, <2>1 DEF Tells
  <2>3. QED BY <1>1, <1>2, <1>5, <1>6, <1>7, <1>8, <2>2 DEF WalkFollows, MatchBid
<1>14. /\ tr = <<>> => n = Root
       /\ tr # <<>> => n # Root
  BY <1>2, <1>7 DEF Walk, MatchBid
<1>15. k \in Node /\ k # Root BY <1>10, <1>11, <1>12, MatchIsKid
<1>16. d \in Decision BY <1>10, <1>15 DEF Decision
<1>17. /\ tree' = t /\ sysp' = k /\ bidder' = nextBidder(b) /\ rules' = Rn /\ hands' = H
       /\ trail' = Append(tr, d) /\ (allPassSoFar' <=> pn)
  <2>1. tree' = tree /\ hands' = hands BY DEF MatchBid, dealVars, tree
  <2>2. bidder' = nextBidder(bidder)
    BY DEF MatchBid
  <2>3. sysp' = k /\ rules' = Rn /\ trail' = Append(tr, d)
    BY <1>1, <1>2, <1>3, <1>4, <1>5, <1>7, <1>11 DEF MatchBid
  <2>4. allPassSoFar' <=> pn BY <1>1, <1>4, <1>11 DEF MatchBid
  <2>5. QED BY <1>1, <1>3, <1>6, <2>1, <2>2, <2>3, <2>4
<1>18. \A s \in Seat : H[s] \in Ext(Rn[s])
  <2>1. h \in Ext(r) BY <1>10, <1>11, <1>12, <1>13, CallerKnown
  <2> HIDE DEF r
  <2>2. QED BY <1>10, <1>13, <2>1
<1>19. \A m \in Node : m # Root => Kids(t, m) \cap Kids(t, Root) = {}
  BY <1>10 DEF WellFormed
<1>20. ASSUME NEW m \in Node, Matching(t, m, h) # {}, k = t.kids[m][FirstOf(Matching(t, m, h))]
       PROVE  k \in Kids(t, m)
  <2>1. FirstOf(Matching(t, m, h)) \in DOMAIN t.kids[m] BY <1>10, <1>12, <1>20, FirstMatching
  <2>2. QED BY <1>20, <2>1 DEF Kids
<1>21. Retried' <=> old \/ k \notin Kids(t, n)
  <2>1. /\ DOMAIN trail' = DOMAIN tr \cup {Len(tr) + 1} /\ Len(tr) + 1 \notin DOMAIN tr
        /\ \A i \in DOMAIN tr : trail'[i] = tr[i]
        /\ trail'[Len(tr) + 1] = d
    <3>1. /\ DOMAIN Append(tr, d) = 1 .. Len(tr) + 1 /\ DOMAIN tr = 1 .. Len(tr) /\ Len(tr) \in Nat
          /\ \A i \in 1 .. Len(tr) : Append(tr, d)[i] = tr[i]
          /\ Append(tr, d)[Len(tr) + 1] = d
      BY <1>10, <1>16, AppendProperties
    <3> HIDE DEF d
    <3>2. QED BY <1>17, <3>1
  <2>2. d.to = k /\ d.from = n OBVIOUS
  <2>3. Retried' <=> \E i \in DOMAIN trail' : trail'[i].to \notin Kids(t, trail'[i].from)
    BY <1>17 DEF Retried
  <2>4. old <=> \E i \in DOMAIN tr : tr[i].to \notin Kids(t, tr[i].from)
    BY <1>1, <1>7, <1>9 DEF Retried
  <2> HIDE DEF d, k
  <2>5. (\E i \in DOMAIN trail' : trail'[i].to \notin Kids(t, trail'[i].from))
          <=> (\E i \in DOMAIN tr : tr[i].to \notin Kids(t, tr[i].from)) \/ d.to \notin Kids(t, d.from)
    BY <2>1
  <2>6. QED BY <2>2, <2>3, <2>4, <2>5
<1>22. PICK new \in BOOLEAN : new <=> Retried' OBVIOUS
<1>23. ASSUME NEW q, q = PathOf(t, Append(tr, d)), q \in Seq(Node), NodeOf(q) = k,
              \E i : LastOpening(t, Append(tr, d), i),
              Tells(walkValidate(t, q), Rn, nextBidder(b), pn, new)
       PROVE  WalkFollows'
  <2>1. PathOf(tree, trail)' = q
    BY <1>17, <1>23 DEF PathOf
  <2>2. (\E i : LastOpening(tree, trail, i))'
    BY <1>17, <1>23 DEF LastOpening
  <2>3. Tells(walkValidate(tree, PathOf(tree, trail)), rules, bidder, allPassSoFar, Retried)'
    <3>1. Tells(walkValidate(t, q), Rn, nextBidder(b), allPassSoFar', Retried')
      BY <1>17, <1>22, <1>23 DEF Tells
    <3>2. QED BY <1>17, <2>1, <3>1
  <2>4. (\A s \in Seat : hands[s] \in Ext(rules[s]))' BY <1>17, <1>18
  <2>5. (PathOf(tree, trail) \in Seq(Node) /\ NodeOf(PathOf(tree, trail)) = sysp)'
    BY <1>17, <1>23, <2>1
  <2>6. QED BY <2>2, <2>3, <2>4, <2>5 DEF WalkFollows
<1>24. CASE Matching(t, n, h) # {}
  <2>1. k = t.kids[n][FirstOf(Matching(t, n, h))] BY <1>24, WhichMatch
  <2>2. k \in Kids(t, n) BY <1>10, <1>20, <1>24, <2>1
  <2>3. new <=> old BY <1>21, <1>22, <2>2
  <2>4. h \in Ext(R[b]) BY <1>10, <1>13
  <2>5. Tells(AtChild(t, n, k, walkValidate(t, path)), Rn, nextBidder(b), pn, old)
    <3>1. PICK v : v = walkValidate(t, path) OBVIOUS
    <3>2. Tells(v, R, b, p, old) BY <1>13, <3>1
    <3>3. Tells(AtChild(t, n, k, v), Rn, nextBidder(b), pn, old)
      BY <1>10, <1>12, <1>24, <2>4, <3>2, ChildTells
    <3>4. QED BY <3>1, <3>3
  <2>6. Tells(AtChild(t, n, k, walkValidate(t, path)), Rn, nextBidder(b), pn, new)
    BY <2>3, <2>5 DEF Tells
  <2> HIDE DEF k, Rn, pn
  <2>7. PICK q : q = Append(path, k) OBVIOUS
  <2>8. walkValidate(t, q) = AtChild(t, n, k, walkValidate(t, path))
    BY <1>13, <1>15, <2>7, WalkNext
  <2>9. q \in Seq(Node) /\ NodeOf(q) = k BY <1>13, <1>15, <2>7, LastOfPath
  <2>10. (\E i : LastOpening(t, Append(tr, d), i)) /\ q = PathOf(t, Append(tr, d))
    <3>1. d.to = k OBVIOUS
    <3>2. tr = <<>> => d.to \in Kids(t, Root) BY <1>14, <2>2, <3>1
    <3>3. /\ \E i : LastOpening(t, Append(tr, d), i)
          /\ d.to \in Kids(t, Root) => PathOf(t, Append(tr, d)) = <<d.to>>
          /\ d.to \notin Kids(t, Root) => PathOf(t, Append(tr, d)) = Append(PathOf(t, tr), d.to)
      BY <1>10, <1>13, <1>16, <3>2, PathGrows
    <3> HIDE DEF d
    <3>4. CASE n = Root
      <4>1. path = <<>> BY <1>8, <1>14, <3>4 DEF PathOf
      <4>2. Append(path, k) = <<k>> BY <4>1
      <4>3. QED BY <2>2, <2>7, <3>1, <3>3, <3>4, <4>2
    <3>5. CASE n # Root
      <4>1. k \notin Kids(t, Root) BY <1>10, <1>19, <2>2, <3>5
      <4>2. QED BY <1>8, <2>7, <3>1, <3>3, <4>1
    <3>6. QED BY <3>4, <3>5
  <2>11. QED BY <1>23, <2>6, <2>8, <2>9, <2>10
<1>25. CASE Matching(t, n, h) = {}
  <2>1. p /\ n # Root /\ Matching(t, Root, h) # {}
        /\ k = t.kids[Root][FirstOf(Matching(t, Root, h))]
    BY <1>11, <1>25, WhichMatch
  <2>2. k \in Kids(t, Root) BY <1>10, <1>20, <2>1
  <2>3. k \notin Kids(t, n) BY <1>10, <1>19, <2>1, <2>2
  <2>4. new BY <1>21, <1>22, <2>3
  <2>5. Tells(AtChild(t, Root, k, AtRoot), Rn, nextBidder(b), pn, new)
    BY <1>10, <1>12, <1>25, <2>1, <2>4, RetryTells
  <2> HIDE DEF k, Rn, pn
  <2>6. PICK q : q = <<k>> OBVIOUS
  <2>7. q = Append(<<>>, k) /\ <<>> \in Seq(Node) BY <2>6
  <2>8. walkValidate(t, q) = AtChild(t, Root, k, AtRoot)
    <3>1. NodeOf(<<>>) = Root /\ walkValidate(t, <<>>) = AtRoot BY <1>15, <2>7, LastOfPath, WalkNext
    <3>2. QED BY <1>15, <2>7, <3>1, WalkNext
  <2>9. q \in Seq(Node) /\ NodeOf(q) = k BY <1>15, <2>7, LastOfPath
  <2>10. (\E i : LastOpening(t, Append(tr, d), i)) /\ q = PathOf(t, Append(tr, d))
    <3>1. d.to = k OBVIOUS
    <3>2. /\ \E i : LastOpening(t, Append(tr, d), i)
          /\ d.to \in Kids(t, Root) => PathOf(t, Append(tr, d)) = <<d.to>>
      BY <1>10, <1>13, <1>16, <2>2, <3>1, PathGrows
    <3>3. QED BY <2>2, <2>6, <3>1, <3>2
  <2>11. QED BY <1>23, <2>5, <2>8, <2>9, <2>10
<1>26. QED BY <1>24, <1>25

LEMMA StepFollows ==
  ASSUME IInv, Walk, WalkFollows, [Next]_vars
  PROVE  WalkFollows'
<1>1. CASE BidHand BY <1>1, BidHandFollows
<1>2. CASE MatchBid BY <1>2, MatchBidFollows
<1>3. CASE StopAtRules \/ GuessBid \/ GuessAborts
  BY <1>3 DEF StopAtRules, GuessBid, GuessAborts, WalkFollows
<1>4. CASE OutputResults BY <1>4 DEF OutputResults, WalkFollows
<1>5. CASE UNCHANGED vars
  <2>1. /\ tree' = tree /\ trail' = trail /\ rules' = rules /\ bidder' = bidder
        /\ sysp' = sysp /\ hands' = hands /\ pc' = pc /\ allPassSoFar' = allPassSoFar
    BY <1>5 DEF vars, dealVars, tree
  <2>2. PathOf(tree, trail)' = PathOf(tree, trail) BY <2>1 DEF PathOf
  <2>3. (\E i : LastOpening(tree, trail, i))' <=> \E i : LastOpening(tree, trail, i)
    BY <2>1 DEF LastOpening
  <2>4. Retried' <=> Retried BY <2>1 DEF Retried
  <2>5. walkValidate(tree, PathOf(tree, trail))' = walkValidate(tree, PathOf(tree, trail))
    BY <2>1, <2>2
  <2>6. Tells(walkValidate(tree, PathOf(tree, trail)), rules, bidder, allPassSoFar, Retried)
          => Tells(walkValidate(tree, PathOf(tree, trail)), rules, bidder, allPassSoFar, Retried)'
    BY <2>1, <2>4, <2>5 DEF Tells
  <2>7. QED BY <2>1, <2>2, <2>3, <2>6 DEF WalkFollows
<1>6. QED BY <1>1, <1>2, <1>3, <1>4, <1>5 DEF Next

LEMMA PathIs == Path = PathOf(tree, trail)
  BY DEF Path, PathOf, PathFrom, From, Opens

(* What the invariant says of the hand that is to bid. *)
LEMMA BidderTold ==
  ASSUME IInv, WalkFollows, pc = "bidding"
  PROVE  LET v == walkValidate(tree, Path)
         IN  /\ v.walked /\ (v.allPassSoFar <=> allPassSoFar) /\ NodeOf(Path) = sysp
             /\ hands[bidder] \in Ext(rules[bidder])
             /\ Ext(rules[bidder]) \subseteq Ext(childPrecondition(v))
             /\ ~ Retried => Ext(rules[bidder]) = Ext(childPrecondition(v))
<1>1. PICK v : v = walkValidate(tree, Path) OBVIOUS
<1>2. Tells(v, rules, bidder, allPassSoFar, Retried)
  BY <1>1, PathIs DEF WalkFollows
<1>3. bidder \in Seat BY DEF IInv, TypeOK
<1>4. hands[bidder] \in Ext(rules[bidder]) /\ NodeOf(Path) = sysp
  BY <1>3, PathIs DEF WalkFollows
<1>5. v.walked /\ (v.allPassSoFar <=> allPassSoFar) BY <1>2 DEF Tells
<1>6. Ext(rules[bidder]) \subseteq Ext(v.acc[ChildSeat(v.depth)])
  <2>1. PICK o \in BOOLEAN :
          /\ ChildSeat(v.depth) = SeatOf(o, bidder)
          /\ \A s \in Seat : Ext(rules[s]) \subseteq Ext(v.acc[SeatOf(o, s)])
    BY <1>2 DEF Tells
  <2>2. QED BY <1>3, <2>1
<1>7. ~ Retried => Ext(rules[bidder]) = Ext(v.acc[ChildSeat(v.depth)])
  BY <1>2, <1>3 DEF Tells
<1>8. QED BY <1>1, <1>4, <1>5, <1>6, <1>7 DEF childPrecondition

(* The walk of --validate, which never sees a deal, knows at the node that *)
(* an auction reached what the auction knows of the hand that is to bid:   *)
(* exactly that, or less after an opening bid was retried, for every tree. *)
(* So no auction gets to a node that the walk reports as unreachable.      *)
THEOREM WalkIsFaithful == Spec => []WalkKnowsTheHand
<1>1. Init => IInv BY InitIInv
<1>2. Init => Walk BY DEF Init, Walk
<1>3. Init => WalkFollows BY DEF Init, WalkFollows
<1>4. IInv /\ [Next]_vars => IInv' BY StepIInv
<1>5. IInv /\ Walk /\ [Next]_vars => Walk' BY StepWalk
<1>6. IInv /\ Walk /\ WalkFollows /\ [Next]_vars => WalkFollows' BY StepFollows
<1>7. IInv /\ WalkFollows => WalkKnowsTheHand BY BidderTold DEF WalkKnowsTheHand
<1>8. QED BY <1>1, <1>2, <1>3, <1>4, <1>5, <1>6, <1>7, PTL DEF Spec

LEMMA ReportsTold ==
  ASSUME IInv, WalkFollows
  PROVE  ReportsTellTheAuction
<1> SUFFICES ASSUME pc = "bidding", Kids(tree, sysp) # {}
             PROVE  /\ hands[bidder] \in gapHits(tree, Path) <=> Found.match = NULL
                    /\ hands[bidder] \in overlapHits(tree, Path) <=>
                         \E k \in Kids(tree, sysp) \ {Found.match} :
                           /\ Ruled(tree, k) /\ checkHand(hands[bidder], tree.rule[k])
                           /\ Found.match \in Kids(tree, sysp)
  BY DEF ReportsTellTheAuction
<1>1. PICK t : t = tree OBVIOUS
<1>2. PICK n : n = sysp OBVIOUS
<1>3. PICK p \in BOOLEAN : p = allPassSoFar BY DEF IInv, TypeOK
<1>4. PICK h : h = hands[bidder] OBVIOUS
<1>5. PICK s : s = Found.match OBVIOUS
<1>6. PICK acc \in RulePtr : acc = rules[bidder] BY DEF IInv, TypeOK
<1>7. WellFormed(t) /\ n \in Node /\ h \in Hand /\ Root \in Node /\ NULL \notin Node
  BY <1>1, <1>2, <1>4, TreeOfRun, TreeAssumption DEF IInv, TypeOK
<1>8. h \in reachable(t, Path) /\ NodeOf(Path) = n
      /\ (walkValidate(t, Path).allPassSoFar <=> p)
  BY <1>1, <1>2, <1>3, <1>4, BidderTold DEF reachable
<1>9. s = findMatchingChild(t, n, p, h, acc).match
  BY <1>1, <1>2, <1>3, <1>4, <1>5, <1>6 DEF Found
<1>10. \A q : (q <=> p) => findMatchingChild(t, n, q, h, NULL).match = s
  BY <1>9, WhichMatch
<1>11. Matching(t, n, h) # {} =>
         /\ FirstOf(Matching(t, n, h)) \in DOMAIN t.kids[n]
         /\ FirstOf(Matching(t, n, h)) \in Matching(t, n, h)
         /\ s = t.kids[n][FirstOf(Matching(t, n, h))] /\ s \in Kids(t, n) /\ s # NULL
  <2>1. SUFFICES ASSUME Matching(t, n, h) # {}
                 PROVE  /\ FirstOf(Matching(t, n, h)) \in DOMAIN t.kids[n]
                        /\ FirstOf(Matching(t, n, h)) \in Matching(t, n, h)
                        /\ s = t.kids[n][FirstOf(Matching(t, n, h))] /\ s \in Kids(t, n) /\ s # NULL
    OBVIOUS
  <2>2. PICK i : i = FirstOf(Matching(t, n, h)) OBVIOUS
  <2>3. i \in DOMAIN t.kids[n] /\ i \in Matching(t, n, h) BY <1>7, <2>1, <2>2, FirstMatching
  <2>4. s = t.kids[n][i] BY <1>9, <2>1, <2>2, WhichMatch
  <2>5. t.kids[n][i] \in Node BY <1>7, <2>3, TreeType
  <2>6. QED BY <1>7, <2>2, <2>3, <2>4, <2>5 DEF Kids
<1>12. h \in gapHits(t, Path) <=> s = NULL
  <2>1. findMatchingChild(t, NodeOf(Path), walkValidate(t, Path).allPassSoFar, h, NULL).match = s
    BY <1>8, <1>10
  <2>2. QED BY <1>8, <1>11, <2>1 DEF gapHits, reachable
<1>13. h \in overlapHits(t, Path) <=> \E i, j \in Matching(t, n, h) : i # j
  BY <1>8 DEF overlapHits, reachable
<1>14. ASSUME NEW i \in Matching(t, n, h), NEW j \in Matching(t, n, h), i # j
       PROVE  \E k \in Kids(t, n) \ {s} : /\ Ruled(t, k) /\ checkHand(h, t.rule[k])
                                          /\ s \in Kids(t, n)
  <2>1. PICK l \in Matching(t, n, h) : l # FirstOf(Matching(t, n, h)) BY <1>14
  <2>2. l \in DOMAIN t.kids[n] /\ Ruled(t, t.kids[n][l]) /\ checkHand(h, t.rule[t.kids[n][l]])
    BY <2>1 DEF Matching
  <2>3. t.kids[n][l] # s BY <1>7, <1>11, <2>1, <2>2, KidsDiffer
  <2>4. QED BY <1>11, <2>2, <2>3 DEF Kids
<1>15. ASSUME NEW k \in Kids(t, n) \ {s}, Ruled(t, k), checkHand(h, t.rule[k])
       PROVE  \E i, j \in Matching(t, n, h) : i # j
  <2>1. PICK l \in DOMAIN t.kids[n] : k = t.kids[n][l] BY <1>15 DEF Kids
  <2>2. l \in Matching(t, n, h) BY <1>15, <2>1 DEF Matching
  <2>3. l # FirstOf(Matching(t, n, h)) BY <1>11, <1>15, <2>1, <2>2
  <2>4. QED BY <1>11, <2>2, <2>3
<1>16. QED BY <1>1, <1>2, <1>4, <1>5, <1>12, <1>13, <1>14, <1>15

(* At a decision point of any tree the auction runs out of rules with      *)
(* exactly the hands for which --validate reports a GAP, and finds another *)
(* child that would have made its bid with exactly those of an OVERLAP.    *)
THEOREM ReportsAreTrue == Spec => []ReportsTellTheAuction
<1>1. Init => IInv BY InitIInv
<1>2. Init => Walk BY DEF Init, Walk
<1>3. Init => WalkFollows BY DEF Init, WalkFollows
<1>4. IInv /\ [Next]_vars => IInv' BY StepIInv
<1>5. IInv /\ Walk /\ [Next]_vars => Walk' BY StepWalk
<1>6. IInv /\ Walk /\ WalkFollows /\ [Next]_vars => WalkFollows' BY StepFollows
<1>7. IInv /\ WalkFollows => ReportsTellTheAuction BY ReportsTold
<1>8. QED BY <1>1, <1>2, <1>3, <1>4, <1>5, <1>6, <1>7, PTL DEF Spec
=============================================================================
