---------------------------- MODULE LoaderProofs ----------------------------
(***************************************************************************)
(* Every file loads into a tree that the auction can walk, the stored      *)
(* negations are those of the finished tree, and its nodes carry what the  *)
(* file makes their names mean.                                            *)
(***************************************************************************)
EXTENDS SystemLoader, SequenceTheorems, WellFoundedInduction, TLAPS

Definition == [name: Name, body: Rule]

ChainOK == defs \in Seq(Definition) /\ k \in Nat \ {0} /\ file \in Seq(Statement)

(* Nodes hang only below nodes that exist, and the rest are blank. *)
TreeOK ==
  /\ created \subseteq Node /\ Root \in created
  /\ \A n \in Node : Kids(tree, n) \subseteq created \ {Root}
  /\ \A n \in Node \ created : tree.kids[n] = <<>> /\ tree.rule[n] = NULL
  /\ WellFormed(tree)

calls  == Calls[defs[k].name]
Walked == Len(calls) - Len(rest)

(* Half-way through a name, c1 is the node of the last call read and its   *)
(* parent the node of the call before.                                     *)
WalkOK ==
  pc = "walk" =>
    /\ k \in DOMAIN defs /\ c1 \in created
    /\ rest \in Seq(Call) /\ Walked \in Nat
    /\ \A i \in DOMAIN rest : rest[i] = calls[Walked + i]
    /\ Walked = 0 => c1 = Root
    /\ Walked = 1 => c1 \in Kids(tree, Root)
    /\ Walked > 0 => c1 # Root /\ tree.call[c1] = calls[Walked]
    /\ Walked > 1 => \E p \in Node : c1 \in Kids(tree, p) /\ tree.call[p] = calls[Walked - 1]

-----------------------------------------------------------------------------
LEMMA RuleFacts ==
  /\ AnyRule \in Rule /\ NULL \notin Rule /\ Root \in Node /\ bidPass \in Call
  /\ \A l, r \in Rule : Conjunction(l, r) \in Rule /\ Disjunction(l, r) \in Rule
<1>1. AnyRule \in Rule BY DEF AnyRule, Rule
<1>2. NULL \notin Rule /\ Root \in Node BY TreeAssumption
<1>3. bidPass \in Call BY MaxBidAssumption DEF Call, bidPass
<1>4. ASSUME NEW l \in Rule, NEW r \in Rule
      PROVE  Conjunction(l, r) \in Rule /\ Disjunction(l, r) \in Rule
  BY DEF Rule, Conjunction, Disjunction
<1>5. QED BY <1>1, <1>2, <1>3, <1>4

(* A set of numbers that is not empty has a least. *)
LEMMA LeastExists ==
  ASSUME NEW I \in SUBSET Nat, I # {}
  PROVE  \E i \in I : \A j \in I : i <= j
<1>1. \E less : IsWellFoundedOn(less, Nat) /\ \A i, j \in Nat : (<<j, i>> \in less) <=> j < i
  <2>1. \A i, j \in Nat : (<<j, i>> \in OpToRel(<, Nat)) <=> j < i
    BY Zenon DEF OpToRel
  <2>2. QED BY <2>1, NatLessThanWellFounded, Zenon
<1>2. PICK less : /\ IsWellFoundedOn(less, Nat)
                  /\ \A i, j \in Nat : (<<j, i>> \in less) <=> j < i
  BY <1>1
<1>3. PICK i \in I : \A j \in I : ~ (<<j, i>> \in less)
  BY <1>2, WFMin
<1>4. \A j \in I : ~ (j < i)
  BY <1>2, <1>3, Zenon
<1>5. QED BY <1>4

(* defIndex finds the last definition of a name. *)
LEMMA LatestFact ==
  ASSUME NEW ds \in Seq(Definition), NEW nm, Latest(ds, nm) # 0
  PROVE  /\ Latest(ds, nm) \in DOMAIN ds /\ ds[Latest(ds, nm)].name = nm
         /\ \A j \in DOMAIN ds : ds[j].name = nm => j <= Latest(ds, nm)
<1> DEFINE at == {i \in DOMAIN ds : ds[i].name = nm}
           back == {Len(ds) - i : i \in at}
<1>1. at # {} /\ Latest(ds, nm) = CHOOSE i \in at : \A j \in at : j <= i
  BY DEF Latest
<1>2. Len(ds) \in Nat /\ at \subseteq 1 .. Len(ds) BY LenProperties
<1>3. back \in SUBSET Nat /\ back # {} BY <1>1, <1>2
<1>4. PICK m \in back : \A j \in back : m <= j BY <1>3, LeastExists
<1>5. PICK i \in at : m = Len(ds) - i BY <1>4
<1>6. \A j \in at : j <= i
  <2> TAKE j \in at
  <2>1. Len(ds) - j \in back OBVIOUS
  <2>2. m <= Len(ds) - j BY <2>1, <1>4
  <2>3. i \in Nat /\ j \in Nat BY <1>2
  <2>4. QED BY <2>2, <2>3, <1>2, <1>5
<1>7. Latest(ds, nm) \in at /\ \A j \in at : j <= Latest(ds, nm) BY <1>1, <1>6
<1>8. QED BY <1>7

LEMMA BodyFact ==
  ASSUME NEW ds \in Seq(Definition), NEW e \in Expr, Defined(ds, e)
  PROVE  Body(ds, e) \in Rule
<1>1. CASE e \in Name
  <2>1. CASE e = AnyName BY <1>1, <2>1, RuleFacts DEF Body, find_rule
  <2>2. CASE e # AnyName
    <3>1. Latest(ds, e) # 0 BY <1>1, <2>2 DEF Defined, Body, find_rule
    <3>2. ds[Latest(ds, e)] \in Definition BY <3>1, LatestFact
    <3>3. QED BY <1>1, <2>2, <3>1, <3>2 DEF Body, find_rule, Definition
  <2>3. QED BY <2>1, <2>2
<1>2. CASE e \notin Name BY <1>2 DEF Body, Expr
<1>3. QED BY <1>1, <1>2

-----------------------------------------------------------------------------
(* The chain.                                                              *)

(* The statement being parsed, and a body that is defined for it. *)
LEMMA StatementFacts ==
  ASSUME ChainOK, Parsing, line \in Nat \ {0}
  PROVE  stat \in Statement /\ (Defined(defs, stat.expr) => Body(defs, stat.expr) \in Rule)
<1>1. stat \in Statement BY ElementOfSeq DEF ChainOK, Parsing, stat
<1>2. QED BY <1>1, BodyFact DEF ChainOK, Statement

LEMMA StepChain ==
  ASSUME ChainOK, line \in Nat \ {0}, [Next]_vars
  PROVE  ChainOK' /\ line' \in Nat \ {0}
<1>1. CASE Define
  <2>1. stat \in Statement /\ Body(defs, stat.expr) \in Rule BY <1>1, StatementFacts DEF Define
  <2>2. [name |-> stat.name, body |-> Body(defs, stat.expr)] \in Definition
    BY <2>1 DEF Statement, Definition
  <2>3. defs' \in Seq(Definition) BY <1>1, <2>2, AppendProperties DEF Define, ChainOK
  <2>4. QED BY <1>1, <2>3 DEF Define, ChainOK, walkVars
<1>2. CASE Modify
  <2>1. Body(defs, stat.expr) \in Rule BY <1>2, StatementFacts DEF Modify
  <2>2. Latest(defs, stat.name) \in DOMAIN defs BY <1>2, LatestFact DEF Modify, ChainOK
  <2>3. defs[Latest(defs, stat.name)] \in Definition BY <2>2 DEF ChainOK
  <2>4. ASSUME NEW body \in Rule
        PROVE  Modified(defs, stat.name, body) \in Seq(Definition)
    <3>1. [defs[Latest(defs, stat.name)] EXCEPT !.body = body] \in Definition
      BY <2>3 DEF Definition
    <3>2. QED BY <2>2, <3>1, ExceptSeq DEF Modified, ChainOK
  <2>5. defs' \in Seq(Definition)
    BY <1>2, <2>1, <2>3, <2>4, RuleFacts DEF Modify, Definition
  <2>6. QED BY <1>2, <2>5 DEF Modify, ChainOK, walkVars
<1>3. CASE SkipRule BY <1>3 DEF SkipRule, ChainOK, parseVars
<1>4. CASE EndRule BY <1>4 DEF EndRule, ChainOK, parseVars
<1>5. CASE \/ Reject \/ EndOfFile \/ StartRule \/ Descend \/ Create \/ StartNegations
           \/ NegateSibling \/ NegateParent \/ UNCHANGED vars
  BY <1>5 DEF Reject, EndOfFile, StartRule, Descend, Create, StartNegations, NegateSibling,
              NegateParent, vars, ChainOK, parseVars, walkVars
<1>6. QED BY <1>1, <1>2, <1>3, <1>4, <1>5 DEF Next

-----------------------------------------------------------------------------
(* The walk along a name.                                                  *)

LEMMA NameFacts ==
  ASSUME ChainOK, k \in DOMAIN defs
  PROVE  /\ defs[k].name \in Name /\ defs[k].body \in Rule
         /\ calls \in Seq(Call) /\ Len(calls) \in Nat
<1>1. defs[k] \in Definition BY DEF ChainOK
<1>2. QED BY <1>1, FilesAssumption, LenProperties DEF Definition, calls

(* Another call is read. *)
LEMMA CallRead ==
  ASSUME ChainOK, WalkOK, pc = "walk", rest # <<>>
  PROVE  /\ Head(rest) = calls[Walked + 1] /\ Head(rest) \in Call
         /\ Tail(rest) \in Seq(Call)
         /\ Len(calls) - Len(Tail(rest)) = Walked + 1
         /\ \A i \in DOMAIN Tail(rest) : Tail(rest)[i] = calls[Walked + 1 + i]
<1>1. rest \in Seq(Call) /\ Walked \in Nat BY DEF WalkOK
<1>2. Len(rest) \in Nat \ {0} /\ Len(calls) \in Nat
  BY <1>1, NameFacts, EmptySeq, LenProperties DEF WalkOK
<1>3. Head(rest) = rest[1] OBVIOUS
<1>4. rest[1] = calls[Walked + 1] BY <1>1, <1>2, LenProperties DEF WalkOK
<1>5. /\ Head(rest) \in Call /\ Tail(rest) \in Seq(Call) /\ Len(Tail(rest)) = Len(rest) - 1
      /\ \A i \in 1 .. Len(Tail(rest)) : Tail(rest)[i] = rest[i + 1]
  BY <1>1, HeadTailProperties
<1>6. ASSUME NEW i \in DOMAIN Tail(rest)
      PROVE  Tail(rest)[i] = calls[Walked + 1 + i]
  <2>1. i \in 1 .. (Len(rest) - 1) BY <1>5, LenProperties
  <2>2. i + 1 \in DOMAIN rest BY <2>1, <1>1, <1>2, LenProperties
  <2>3. rest[i + 1] = calls[Walked + (i + 1)] BY <2>2 DEF WalkOK
  <2>4. Walked + (i + 1) = Walked + 1 + i BY <1>1, <2>1
  <2>5. QED BY <1>5, <2>1, <2>3, <2>4
<1>7. QED BY <1>1, <1>2, <1>3, <1>4, <1>5, <1>6 DEF Walked

-----------------------------------------------------------------------------
(* The tree.                                                               *)

LEMMA TreeShape ==
  ASSUME TreeOK
  PROVE  /\ tree.kids \in [Node -> Seq(Node)]
         /\ tree.call \in [Node -> Call]
         /\ tree.rule \in [Node -> RulePtr]
         /\ tree = [kids |-> tree.kids, call |-> tree.call, rule |-> tree.rule]
  BY DEF TreeOK, WellFormed, Tree

(* What a new node changes: one more sibling, which is nobody's child yet  *)
(* and has none.                                                           *)
LEMMA CreateFacts ==
  ASSUME TreeOK, Create, c1 \in created
  PROVE  \E new \in Node \ created :
           /\ created' = created \cup {new} /\ c1' = new
           /\ tree'.rule = tree.rule
           /\ tree'.call = [tree.call EXCEPT ![new] = Head(rest)]
           /\ tree'.kids = [tree.kids EXCEPT ![c1] = Append(tree.kids[c1], new)]
           /\ tree' = [kids |-> tree'.kids, call |-> tree'.call, rule |-> tree'.rule]
           /\ Len(tree.kids[c1]) \in Nat
           /\ Append(tree.kids[c1], new) \in Seq(Node)
           /\ DOMAIN tree'.kids[c1] = 1 .. (Len(tree.kids[c1]) + 1)
           /\ DOMAIN tree.kids[c1] = 1 .. Len(tree.kids[c1])
           /\ \A i \in DOMAIN tree.kids[c1] : tree'.kids[c1][i] = tree.kids[c1][i]
           /\ tree'.kids[c1][Len(tree.kids[c1]) + 1] = new
           /\ \A n \in Node \ {c1} : tree'.kids[n] = tree.kids[n]
           /\ Kids(tree', c1) = Kids(tree, c1) \cup {new}
           /\ \A n \in Node \ {c1} : Kids(tree', n) = Kids(tree, n)
<1> DEFINE new == CHOOSE n \in Node : n \notin created
           old == tree.kids[c1]
<1>1. new \in Node \ created BY DEF Create
<1>2. c1 \in Node BY DEF TreeOK
<1>3. /\ created' = created \cup {new} /\ c1' = new
      /\ tree' = [tree EXCEPT !.kids[c1] = Append(@, new), !.call[new] = Head(rest)]
  BY DEF Create
<1> HIDE DEF new
<1>4. /\ tree'.rule = tree.rule
      /\ tree'.call = [tree.call EXCEPT ![new] = Head(rest)]
      /\ tree'.kids = [tree.kids EXCEPT ![c1] = Append(old, new)]
      /\ tree' = [kids |-> tree'.kids, call |-> tree'.call, rule |-> tree'.rule]
  BY <1>3, TreeShape
<1>5. old \in Seq(Node) BY <1>2, TreeShape
<1>6. /\ Append(old, new) \in Seq(Node) /\ Len(old) \in Nat
      /\ Len(Append(old, new)) = Len(old) + 1
      /\ \A i \in 1 .. Len(old) : Append(old, new)[i] = old[i]
      /\ Append(old, new)[Len(old) + 1] = new
      /\ DOMAIN old = 1 .. Len(old)
  BY <1>1, <1>5, AppendProperties, LenProperties
<1>7. /\ tree'.kids[c1] = Append(old, new)
      /\ \A n \in Node \ {c1} : tree'.kids[n] = tree.kids[n]
  BY <1>2, <1>4, TreeShape
<1>8. DOMAIN tree'.kids[c1] = 1 .. (Len(old) + 1) BY <1>6, <1>7, LenProperties
<1>9. Kids(tree', c1) = Kids(tree, c1) \cup {new}
  <2>1. Kids(tree', c1) = {Append(old, new)[i] : i \in 1 .. (Len(old) + 1)}
    BY <1>7, <1>8 DEF Kids
  <2>2. 1 .. (Len(old) + 1) = (1 .. Len(old)) \cup {Len(old) + 1} BY <1>6
  <2>3. Kids(tree, c1) = {old[i] : i \in 1 .. Len(old)} BY <1>6 DEF Kids
  <2>4. QED BY <2>1, <2>2, <2>3, <1>6
<1>10. \A n \in Node \ {c1} : Kids(tree', n) = Kids(tree, n) BY <1>7 DEF Kids
<1>11. QED BY <1>1, <1>3, <1>4, <1>6, <1>7, <1>8, <1>9, <1>10

LEMMA CreateTree ==
  ASSUME TreeOK, Create, c1 \in created, Head(rest) \in Call
  PROVE  TreeOK'
<1>0. PICK new \in Node \ created :
           /\ created' = created \cup {new} /\ c1' = new
           /\ tree'.rule = tree.rule
           /\ tree'.call = [tree.call EXCEPT ![new] = Head(rest)]
           /\ tree'.kids = [tree.kids EXCEPT ![c1] = Append(tree.kids[c1], new)]
           /\ tree' = [kids |-> tree'.kids, call |-> tree'.call, rule |-> tree'.rule]
           /\ Len(tree.kids[c1]) \in Nat
           /\ Append(tree.kids[c1], new) \in Seq(Node)
           /\ DOMAIN tree'.kids[c1] = 1 .. (Len(tree.kids[c1]) + 1)
           /\ DOMAIN tree.kids[c1] = 1 .. Len(tree.kids[c1])
           /\ \A i \in DOMAIN tree.kids[c1] : tree'.kids[c1][i] = tree.kids[c1][i]
           /\ tree'.kids[c1][Len(tree.kids[c1]) + 1] = new
           /\ \A n \in Node \ {c1} : tree'.kids[n] = tree.kids[n]
           /\ Kids(tree', c1) = Kids(tree, c1) \cup {new}
           /\ \A n \in Node \ {c1} : Kids(tree', n) = Kids(tree, n)
  BY CreateFacts
<1>1. c1 \in Node /\ c1 # new /\ new # Root BY <1>0 DEF TreeOK
<1>2. /\ \A n \in Node : Kids(tree, n) \subseteq created \ {Root}
      /\ \A n \in Node : new \notin Kids(tree, n)
      /\ Kids(tree, new) = {} /\ tree.rule[new] = NULL
  BY <1>0 DEF TreeOK, Kids
<1>3. tree' \in Tree
  <2>1. tree'.kids \in [Node -> Seq(Node)] BY <1>0, TreeShape
  <2>2. tree'.call \in [Node -> Call] BY <1>0, TreeShape
  <2>3. tree'.rule \in [Node -> RulePtr] BY <1>0, TreeShape
  <2>4. [kids |-> tree'.kids, call |-> tree'.call, rule |-> tree'.rule] \in Tree
    BY <2>1, <2>2, <2>3 DEF Tree
  <2>5. QED BY <2>4, <1>0
<1>4. \A n \in Node : Kids(tree', n) \subseteq created' \ {Root}
  BY <1>0, <1>1, <1>2
<1>5. \A n \in Node \ created' : tree'.kids[n] = <<>> /\ tree'.rule[n] = NULL
  BY <1>0, <1>1 DEF TreeOK
<1>6. \A n \in Node \ {new} : tree'.call[n] = tree.call[n] BY <1>0, TreeShape
<1>7. tree'.call[new] = Head(rest) BY <1>0, TreeShape
<1>8. \A c \in Kids(tree, c1) : tree.call[c] # Head(rest) BY DEF Create, ChildrenFor
<1>9. ASSUME NEW n \in Node, NEW i \in DOMAIN tree'.kids[n], NEW j \in DOMAIN tree'.kids[n],
             tree'.call[tree'.kids[n][i]] = tree'.call[tree'.kids[n][j]]
      PROVE  i = j
  <2>1. \A m \in DOMAIN tree.kids[n] : tree.kids[n][m] \in Node \ {new}
    BY <1>2, TreeShape DEF Kids, TreeOK
  <2>2. CASE n # c1
    <3>1. tree'.kids[n] = tree.kids[n] BY <2>2, <1>0
    <3>2. tree.call[tree.kids[n][i]] = tree.call[tree.kids[n][j]]
      BY <3>1, <1>9, <2>1, <1>6
    <3>3. QED BY <3>1, <3>2 DEF TreeOK, WellFormed
  <2>3. CASE n = c1
    <3>1. \A m \in DOMAIN tree.kids[c1] :
            /\ tree'.call[tree'.kids[c1][m]] = tree.call[tree.kids[c1][m]]
            /\ tree.call[tree.kids[c1][m]] # Head(rest)
      BY <2>1, <2>3, <1>0, <1>6, <1>8 DEF Kids
    <3>2. \A m \in DOMAIN tree'.kids[c1] :
            m \in DOMAIN tree.kids[c1] \/ m = Len(tree.kids[c1]) + 1
      BY <1>0
    <3>3. CASE i \in DOMAIN tree.kids[c1] /\ j \in DOMAIN tree.kids[c1]
      BY <3>1, <3>3, <2>3, <1>9 DEF TreeOK, WellFormed
    <3>4. CASE i \notin DOMAIN tree.kids[c1] /\ j \in DOMAIN tree.kids[c1]
      BY <3>1, <3>2, <3>4, <2>3, <1>0, <1>7, <1>9
    <3>5. CASE i \in DOMAIN tree.kids[c1] /\ j \notin DOMAIN tree.kids[c1]
      BY <3>1, <3>2, <3>5, <2>3, <1>0, <1>7, <1>9
    <3>6. CASE i \notin DOMAIN tree.kids[c1] /\ j \notin DOMAIN tree.kids[c1]
      BY <3>2, <3>6, <2>3
    <3>7. QED BY <3>3, <3>4, <3>5, <3>6
  <2>4. QED BY <2>2, <2>3
<1>10. \A n, m \in Node : n # m => Kids(tree', n) \cap Kids(tree', m) = {}
  BY <1>0, <1>1, <1>2 DEF TreeOK, WellFormed
<1>11. ASSUME NEW n \in Node \ {Root}, NEW c \in Kids(tree', n), Ruled(tree', c)
       PROVE  tree'.call[c] = bidPass \/ tree'.call[c] > tree'.call[n]
  <2>1. c # new BY <1>0, <1>2, <1>11 DEF Ruled
  <2>2. c \in Kids(tree, n) BY <2>1, <1>0
  <2>3. n # new /\ c \in Node BY <2>2, <1>2 DEF TreeOK
  <2>4. Ruled(tree, c) BY <1>0, <1>11 DEF Ruled
  <2>5. QED BY <2>1, <2>2, <2>3, <2>4, <1>6 DEF TreeOK, WellFormed
<1>12. WellFormed(tree)'
  BY <1>3, <1>4, <1>9, <1>10, <1>11 DEF WellFormed
<1>13. QED BY <1>0, <1>4, <1>5, <1>12 DEF TreeOK

(* A rule set at the node a legal sequence leads to. *)
LEMMA EndRuleTree ==
  ASSUME ChainOK, TreeOK, WalkOK, EndRule
  PROVE  TreeOK'
<1>1. /\ pc = "walk" /\ rest = <<>> /\ k \in DOMAIN defs /\ c1 \in created /\ c1 \in Node
      /\ created' = created
  BY DEF EndRule, WalkOK, TreeOK
<1>2. CASE defs[k].name \notin BidSequences
  BY <1>1, <1>2 DEF EndRule, TreeOK
<1>3. CASE defs[k].name \in BidSequences
  <2> DEFINE body == defs[k].body
  <2>1. /\ body \in Rule /\ body \in RulePtr
        /\ calls \in Seq(Call) /\ Len(calls) \in Nat /\ Walked = Len(calls) /\ Walked # 0
        /\ DOMAIN calls = 1 .. Len(calls)
        /\ \A i, j \in DOMAIN calls : i < j => calls[j] = bidPass \/ calls[j] > calls[i]
    <3>1. body \in Rule /\ calls \in Seq(Call) /\ Len(calls) \in Nat /\ DOMAIN calls = 1 .. Len(calls)
      BY <1>1, NameFacts, LenProperties
    <3>2. Len(rest) = 0 BY <1>1
    <3>3. Walked = Len(calls) BY <3>1, <3>2 DEF Walked
    <3>4. calls # <<>> /\ Legal(calls) BY <1>3, FilesAssumption DEF calls
    <3>5. Len(calls) # 0 BY <3>1, <3>4, EmptySeq
    <3>6. QED BY <3>1, <3>3, <3>4, <3>5 DEF RulePtr, Legal
  <2>2. /\ tree'.kids = tree.kids /\ tree'.call = tree.call
        /\ tree'.rule = [tree.rule EXCEPT ![c1] = body]
        /\ tree' = [kids |-> tree'.kids, call |-> tree'.call, rule |-> tree'.rule]
    BY <1>3, TreeShape DEF EndRule
  <2>3. tree' \in Tree
    <3>1. tree'.rule \in [Node -> RulePtr] BY <2>1, <2>2, TreeShape
    <3>2. [kids |-> tree'.kids, call |-> tree'.call, rule |-> tree'.rule] \in Tree
      BY <2>2, <3>1, TreeShape DEF Tree
    <3>3. QED BY <2>2, <3>2
  <2>4. \A n : Kids(tree', n) = Kids(tree, n) BY <2>2 DEF Kids
  <2>5. \A n \in Node \ {c1} : tree'.rule[n] = tree.rule[n] BY <2>2, TreeShape
  <2>6. ASSUME NEW n \in Node \ {Root}, c1 \in Kids(tree, n)
        PROVE  tree.call[c1] = bidPass \/ tree.call[c1] > tree.call[n]
    <3>1. \A p \in Node : c1 \in Kids(tree, p) => p = n
      BY <2>6 DEF TreeOK, WellFormed
    <3>2. Walked > 1 BY <1>1, <2>1, <3>1, TreeAssumption DEF WalkOK
    <3>3. tree.call[c1] = calls[Walked] /\ tree.call[n] = calls[Walked - 1]
      BY <1>1, <2>1, <3>1, <3>2 DEF WalkOK
    <3>4. Walked - 1 \in DOMAIN calls /\ Walked \in DOMAIN calls BY <2>1, <3>2
    <3>5. QED BY <2>1, <3>3, <3>4
  <2>7. ASSUME NEW n \in Node \ {Root}, NEW c \in Kids(tree', n), Ruled(tree', c)
        PROVE  tree'.call[c] = bidPass \/ tree'.call[c] > tree'.call[n]
    <3>1. c \in Kids(tree, n) /\ c \in Node BY <2>4, <2>7 DEF TreeOK
    <3>2. CASE c = c1 BY <3>1, <3>2, <2>2, <2>6
    <3>3. CASE c # c1
      <4>1. Ruled(tree, c) BY <3>1, <3>3, <2>5, <2>7 DEF Ruled
      <4>2. QED BY <3>1, <4>1, <2>2 DEF TreeOK, WellFormed
    <3>4. QED BY <3>2, <3>3
  <2>8. WellFormed(tree)'
    <3>1. \A n \in Node : \A i, j \in DOMAIN tree'.kids[n] :
            tree'.call[tree'.kids[n][i]] = tree'.call[tree'.kids[n][j]] => i = j
      BY <2>2 DEF TreeOK, WellFormed
    <3>2. \A n, m \in Node : n # m => Kids(tree', n) \cap Kids(tree', m) = {}
      BY <2>4 DEF TreeOK, WellFormed
    <3>3. \A n \in Node : Root \notin Kids(tree', n) BY <2>4 DEF TreeOK, WellFormed
    <3>4. QED BY <2>3, <2>7, <3>1, <3>2, <3>3 DEF WellFormed
  <2>9. QED BY <1>1, <2>2, <2>4, <2>5, <2>8 DEF TreeOK
<1>4. QED BY <1>2, <1>3

LEMMA StepTree ==
  ASSUME ChainOK, TreeOK, WalkOK, [Next]_vars
  PROVE  TreeOK'
<1>1. CASE Create
  <2>1. pc = "walk" /\ rest # <<>> BY <1>1 DEF Create
  <2>2. QED BY <1>1, <2>1, CreateTree, CallRead DEF WalkOK
<1>2. CASE EndRule BY <1>2, EndRuleTree
<1>3. CASE \/ Define \/ Modify \/ Reject \/ EndOfFile \/ SkipRule \/ StartRule \/ Descend
           \/ StartNegations \/ NegateSibling \/ NegateParent \/ UNCHANGED vars
  BY <1>3 DEF Define, Modify, Reject, EndOfFile, SkipRule, StartRule, Descend, StartNegations,
              NegateSibling, NegateParent, vars, treeVars, TreeOK
<1>4. QED BY <1>1, <1>2, <1>3 DEF Next

-----------------------------------------------------------------------------
(* The walk goes on along the name. *)

LEMMA StepWalk ==
  ASSUME ChainOK, TreeOK, WalkOK, [Next]_vars
  PROVE  WalkOK'
<1>1. CASE StartRule
  <2>1. k \in DOMAIN defs
    <3>1. k \in 1 .. Len(defs) BY <1>1, LenProperties DEF StartRule, ChainOK
    <3>2. QED BY <3>1, LenProperties DEF ChainOK
  <2>2. /\ k' = k /\ c1' = Root /\ rest' = calls /\ calls' = calls /\ created' = created
        /\ defs' = defs
    BY <1>1 DEF StartRule, calls, parseVars, treeVars
  <2>3. calls \in Seq(Call) /\ Len(calls) \in Nat /\ Walked' = 0
    BY <2>1, <2>2, NameFacts DEF Walked
  <2>4. \A i \in DOMAIN calls : calls[i] = calls[0 + i] BY <2>3, LenProperties
  <2>5. QED BY <2>1, <2>2, <2>3, <2>4 DEF WalkOK, TreeOK
<1>2. CASE Descend
  <2>1. /\ pc = "walk" /\ rest # <<>> /\ k' = k /\ defs' = defs /\ calls' = calls
        /\ tree' = tree /\ created' = created /\ rest' = Tail(rest)
    BY <1>2 DEF Descend, calls, parseVars, treeVars
  <2>2. c1' \in Kids(tree, c1) /\ tree.call[c1'] = Head(rest)
    BY <1>2 DEF Descend, ChildrenFor
  <2>3. /\ Head(rest) = calls[Walked + 1] /\ rest' \in Seq(Call)
        /\ Walked' = Walked + 1
        /\ \A i \in DOMAIN rest' : rest'[i] = calls[Walked + 1 + i]
    BY <2>1, CallRead DEF Walked
  <2>4. /\ k \in DOMAIN defs /\ c1 \in Node /\ c1 \in created /\ Walked \in Nat
        /\ Walked = 0 => c1 = Root
        /\ Walked > 0 => tree.call[c1] = calls[Walked]
    BY <2>1 DEF WalkOK, TreeOK
  <2>5. c1' \in created /\ c1' # Root BY <2>2, <2>4 DEF TreeOK
  <2>6. (Walked + 1) - 1 = Walked BY <2>4
  <2>7. Walked + 1 > 1 => \E p \in Node : c1' \in Kids(tree, p) /\ tree.call[p] = calls[Walked]
    BY <2>2, <2>4
  <2>8. QED BY <2>1, <2>2, <2>3, <2>4, <2>5, <2>6, <2>7 DEF WalkOK
<1>3. CASE Create
  <2>1. /\ pc = "walk" /\ rest # <<>> /\ k' = k /\ defs' = defs /\ calls' = calls
        /\ rest' = Tail(rest)
    BY <1>3 DEF Create, calls, parseVars
  <2>2. /\ k \in DOMAIN defs /\ c1 \in Node /\ c1 \in created /\ Walked \in Nat
        /\ Walked = 0 => c1 = Root
        /\ Walked > 0 => tree.call[c1] = calls[Walked]
    BY <2>1 DEF WalkOK, TreeOK
  <2>3. PICK new \in Node \ created :
          /\ created' = created \cup {new} /\ c1' = new
          /\ tree'.call = [tree.call EXCEPT ![new] = Head(rest)]
          /\ Kids(tree', c1) = Kids(tree, c1) \cup {new}
    BY <1>3, <2>2, CreateFacts
  <2>4. tree'.call[new] = Head(rest) /\ tree'.call[c1] = tree.call[c1]
    BY <2>2, <2>3, TreeShape
  <2>5. /\ Head(rest) = calls[Walked + 1] /\ rest' \in Seq(Call)
        /\ Walked' = Walked + 1
        /\ \A i \in DOMAIN rest' : rest'[i] = calls[Walked + 1 + i]
    BY <2>1, CallRead DEF Walked
  <2>6. c1' \in created' /\ c1' # Root /\ c1' \in Kids(tree', c1) BY <2>3 DEF TreeOK
  <2>7. (Walked + 1) - 1 = Walked BY <2>2
  <2>8. Walked + 1 > 1 => \E p \in Node : c1' \in Kids(tree', p) /\ tree'.call[p] = calls[Walked]
    BY <2>2, <2>4, <2>6
  <2>9. tree'.call[c1'] = calls[Walked + 1] BY <2>3, <2>4, <2>5
  <2>10. Walked + 1 = 1 => c1' \in Kids(tree', Root) BY <2>2, <2>6
  <2>11. k' \in DOMAIN defs' /\ Walked' \in Nat /\ Walked' # 0 BY <2>1, <2>2, <2>5
  <2>12. Walked' > 1 => \E p \in Node : c1' \in Kids(tree', p)
                                         /\ tree'.call[p] = calls[Walked' - 1]
    BY <2>2, <2>5, <2>7, <2>8
  <2>13. QED BY <2>1, <2>5, <2>6, <2>9, <2>10, <2>11, <2>12 DEF WalkOK
<1>4. CASE UNCHANGED vars
  BY <1>4 DEF vars, parseVars, walkVars, treeVars, WalkOK, Walked, calls
<1>5. CASE \/ Define \/ Modify \/ Reject \/ EndOfFile \/ SkipRule \/ EndRule
           \/ StartNegations \/ NegateSibling \/ NegateParent
  <2>1. pc' # "walk"
    BY <1>5 DEF Define, Modify, Reject, EndOfFile, SkipRule, EndRule, StartNegations,
                NegateSibling, NegateParent, Parsing
  <2>2. QED BY <2>1 DEF WalkOK
<1>6. QED BY <1>1, <1>2, <1>3, <1>4, <1>5 DEF Next

-----------------------------------------------------------------------------
LEMMA InitOK == Init => ChainOK /\ line \in Nat \ {0} /\ TreeOK /\ WalkOK
<1> SUFFICES ASSUME Init PROVE ChainOK /\ line \in Nat \ {0} /\ TreeOK /\ WalkOK
  OBVIOUS
<1>1. ChainOK /\ line \in Nat \ {0} /\ WalkOK
  BY FilesAssumption DEF Init, ChainOK, WalkOK
<1>2. /\ tree.kids = [n \in Node |-> <<>>] /\ tree.call = [n \in Node |-> bidPass]
      /\ tree.rule = [n \in Node |-> NULL] /\ created = {Root}
      /\ tree = [kids |-> tree.kids, call |-> tree.call, rule |-> tree.rule]
  BY DEF Init
<1>3. tree \in Tree
  <2>1. <<>> \in Seq(Node) /\ bidPass \in Call /\ NULL \in RulePtr BY RuleFacts DEF RulePtr
  <2>2. [kids |-> tree.kids, call |-> tree.call, rule |-> tree.rule] \in Tree
    BY <1>2, <2>1 DEF Tree
  <2>3. QED BY <1>2, <2>2
<1>4. \A n \in Node : Kids(tree, n) = {} /\ DOMAIN tree.kids[n] = {} BY <1>2 DEF Kids
<1>5. WellFormed(tree) BY <1>3, <1>4 DEF WellFormed
<1>6. QED BY <1>1, <1>2, <1>4, <1>5, RuleFacts DEF TreeOK

(* Every rules file that loads, and every file half-way through loading,   *)
(* has a tree of the kind the auction's theorems assume.                   *)
THEOREM LoadsWellFormed == Spec => []TreeIsWellFormed
<1> DEFINE Inv == ChainOK /\ line \in Nat \ {0} /\ TreeOK /\ WalkOK
<1>1. Init => Inv BY InitOK
<1>2. Inv /\ [Next]_vars => Inv' BY StepChain, StepTree, StepWalk
<1>3. Inv => TreeIsWellFormed BY DEF TreeOK, TreeIsWellFormed
<1>4. QED BY <1>1, <1>2, <1>3, PTL DEF Spec

-----------------------------------------------------------------------------
(* The negations.                                                          *)

(* The nodes at and below n: those in every set that holds n and, with a   *)
(* node, its children.                                                     *)
Closed(t, S) == \A m \in S : Kids(t, m) \subseteq S
Below(t, n)  == {m \in Node : \A S \in SUBSET Node : n \in S /\ Closed(t, S) => m \in S}

(* What is stored for the children of n is what the tree says, and so for  *)
(* every node below it.                                                    *)
Done(n) ==
  /\ all[n] = negatedAllChildren(tree, n)
  /\ \A i \in DOMAIN tree.kids[n] : earlier[tree.kids[n][i]] = negatedEarlierSiblings(tree, n, i)

AllDone(n) == \A m \in Below(tree, n) : Done(m)

(* A frame of precomputeSiblingNegations(): the children before pos were   *)
(* scanned and their trees finished, but for the one it is called on.      *)
Scanned(f) ==
  /\ f.node \in Node /\ f.pos \in 1 .. (Len(tree.kids[f.node]) + 1)
  /\ f.acc = negatedEarlierSiblings(tree, f.node, f.pos)
  /\ \A j \in 1 .. (f.pos - 1) :
       earlier[tree.kids[f.node][j]] = negatedEarlierSiblings(tree, f.node, j)

Finished(f, p) == \A j \in 1 .. (p - 1) : AllDone(tree.kids[f.node][j])

Calling(f, g) == f.pos > 1 /\ g.node = tree.kids[f.node][f.pos - 1]

FrameType == [node: Node, pos: Nat \ {0}, acc: RulePtr]

StackOK ==
  /\ stack \in Seq(FrameType) /\ stack # <<>> /\ stack[1].node = Root
  /\ \A i \in 1 .. Len(stack) : Scanned(stack[i])
  /\ \A i \in 1 .. (Len(stack) - 1) :
       Finished(stack[i], stack[i].pos - 1) /\ Calling(stack[i], stack[i + 1])
  /\ Finished(top, top.pos)

NegationsOK ==
  /\ earlier \in [Node -> RulePtr] /\ all \in [Node -> RulePtr]
  /\ pc = "negate" => StackOK
  /\ pc = "ready" => AllDone(Root)

Rooted == created \subseteq Below(tree, Root)

-----------------------------------------------------------------------------
(* Below.                                                                  *)

LEMMA BelowFacts ==
  ASSUME NEW t, NEW n \in Node, \A m \in Node : Kids(t, m) \subseteq Node
  PROVE  /\ n \in Below(t, n)
         /\ \A m \in Below(t, n) : m \in Node /\ Kids(t, m) \subseteq Below(t, n)
<1>1. n \in Below(t, n) BY DEF Below
<1>2. ASSUME NEW m \in Below(t, n), NEW c \in Kids(t, m) PROVE c \in Below(t, n)
  BY <1>2 DEF Below, Closed
<1>3. QED BY <1>1, <1>2 DEF Below

(* What is below a node is the node or below one of its children. *)
LEMMA BelowSplits ==
  ASSUME NEW t, NEW n \in Node, NEW m \in Below(t, n), m # n,
         \A x \in Node : Kids(t, x) \subseteq Node
  PROVE  \E c \in Kids(t, n) : m \in Below(t, c)
<1> DEFINE S == {n} \cup UNION {Below(t, c) : c \in Kids(t, n)}
<1>1. S \in SUBSET Node BY DEF Below
<1>2. \A c \in Kids(t, n) : c \in Below(t, c) BY BelowFacts
<1>3. ASSUME NEW x \in S PROVE Kids(t, x) \subseteq S
  <2>1. CASE x = n BY <1>2, <2>1
  <2>2. CASE x # n
    <3>1. PICK c \in Kids(t, n) : x \in Below(t, c) BY <2>2
    <3>2. c \in Node OBVIOUS
    <3>3. Kids(t, x) \subseteq Below(t, c) BY <3>1, <3>2, BelowFacts
    <3>4. QED BY <3>3
  <2>3. QED BY <2>1, <2>2
<1>4. m \in S
  <2>1. n \in S /\ Closed(t, S) BY <1>3 DEF Closed
  <2> HIDE DEF S
  <2>2. QED BY <1>1, <2>1 DEF Below
<1>5. QED BY <1>4

(* A tree that has more children has more below a node. *)
LEMMA BelowGrows ==
  ASSUME NEW t, NEW u, \A m \in Node : Kids(t, m) \subseteq Kids(u, m), NEW n
  PROVE  Below(t, n) \subseteq Below(u, n)
<1>1. \A S \in SUBSET Node : Closed(u, S) => Closed(t, S) BY DEF Closed
<1>2. QED BY <1>1 DEF Below

LEMMA KidsAreNodes ==
  ASSUME TreeOK
  PROVE  \A n \in Node : Kids(tree, n) \subseteq Node
  BY DEF TreeOK

LEMMA StepRooted ==
  ASSUME TreeOK, WalkOK, Rooted, [Next]_vars
  PROVE  Rooted'
<1>1. CASE Create
  <2>1. c1 \in created BY <1>1 DEF WalkOK, Create
  <2>2. PICK new \in Node \ created :
          /\ created' = created \cup {new}
          /\ Kids(tree', c1) = Kids(tree, c1) \cup {new}
          /\ \A n \in Node \ {c1} : Kids(tree', n) = Kids(tree, n)
    BY <1>1, <2>1, CreateFacts
  <2>3. \A n \in Node : Kids(tree, n) \subseteq Kids(tree', n) BY <2>2
  <2>4. \A n \in Node : Kids(tree', n) \subseteq Node BY <2>2, KidsAreNodes
  <2>5. Root \in Node BY TreeAssumption
  <2>6. Below(tree, Root) \subseteq Below(tree', Root) BY <2>3, BelowGrows
  <2>7. c1 \in Below(tree', Root) BY <2>1, <2>6 DEF Rooted
  <2>8. Kids(tree', c1) \subseteq Below(tree', Root) BY <2>4, <2>5, <2>7, BelowFacts
  <2>9. QED BY <2>2, <2>6, <2>8 DEF Rooted
<1>2. CASE EndRule
  <2>1. created' = created /\ tree'.kids = tree.kids
    BY <1>2, TreeShape DEF EndRule
  <2>2. \A n : Kids(tree', n) = Kids(tree, n) BY <2>1 DEF Kids
  <2>3. Below(tree, Root) \subseteq Below(tree', Root) BY <2>2, BelowGrows
  <2>4. QED BY <2>1, <2>3 DEF Rooted
<1>3. CASE \/ Define \/ Modify \/ Reject \/ EndOfFile \/ SkipRule \/ StartRule \/ Descend
           \/ StartNegations \/ NegateSibling \/ NegateParent \/ UNCHANGED vars
  BY <1>3 DEF Define, Modify, Reject, EndOfFile, SkipRule, StartRule, Descend, StartNegations,
              NegateSibling, NegateParent, vars, treeVars, Rooted
<1>4. QED BY <1>1, <1>2, <1>3 DEF Next

-----------------------------------------------------------------------------
(* The accumulated negation.                                               *)

LEMMA NegatedType ==
  ASSUME TreeOK, NEW n \in Node, NEW I
  PROVE  NegatedKids(tree, n, I) \in RulePtr
<1> DEFINE ruled == {i \in I : Ruled(tree, tree.kids[n][i])}
           neg   == [ext |-> {h \in Hand : \A i \in ruled : h \notin tree.rule[tree.kids[n][i]].ext},
                     top |-> FALSE]
<1>1. neg \in Rule BY DEF Rule
<1>2. NegatedKids(tree, n, I) = NULL \/ NegatedKids(tree, n, I) = neg BY DEF NegatedKids
<1>3. QED BY <1>1, <1>2 DEF RulePtr

(* Scanning one more sibling adds its negation. *)
LEMMA OneMore ==
  ASSUME TreeOK, NEW n \in Node, NEW p \in DOMAIN tree.kids[n]
  PROVE  /\ WithNegated(negatedEarlierSiblings(tree, n, p), tree.rule[tree.kids[n][p]])
              = negatedEarlierSiblings(tree, n, p + 1)
         /\ negatedEarlierSiblings(tree, n, 1) = NULL
         /\ negatedEarlierSiblings(tree, n, Len(tree.kids[n]) + 1) = negatedAllChildren(tree, n)
<1> DEFINE c == tree.kids[n][p]
           ruled(q) == {i \in 1 .. (q - 1) : Ruled(tree, tree.kids[n][i])}
           ext(q) == {h \in Hand : \A i \in ruled(q) : h \notin tree.rule[tree.kids[n][i]].ext}
           neg(q) == [ext |-> ext(q), top |-> FALSE]
           N(q) == negatedEarlierSiblings(tree, n, q)
<1>1. /\ p \in Nat \ {0} /\ Len(tree.kids[n]) \in Nat
      /\ DOMAIN tree.kids[n] = 1 .. Len(tree.kids[n]) /\ tree.rule[c] \in RulePtr
  BY TreeShape, LenProperties
<1>2. \A q : N(q) = IF ruled(q) = {} THEN NULL ELSE neg(q)
  BY DEF negatedEarlierSiblings, NegatedKids
<1>3. N(1) = NULL
  <2>1. ruled(1) = {} OBVIOUS
  <2>2. QED BY <1>2, <2>1
<1>4. N(Len(tree.kids[n]) + 1) = negatedAllChildren(tree, n)
  <2>1. 1 .. ((Len(tree.kids[n]) + 1) - 1) = DOMAIN tree.kids[n] BY <1>1
  <2>2. QED BY <2>1 DEF negatedEarlierSiblings, negatedAllChildren
<1>5. 1 .. ((p + 1) - 1) = (1 .. (p - 1)) \cup {p} BY <1>1
<1>6. CASE tree.rule[c] = NULL
  <2>1. ruled(p + 1) = ruled(p) BY <1>5, <1>6 DEF Ruled
  <2>2. N(p + 1) = N(p) BY <1>2, <2>1
  <2>3. QED BY <1>3, <1>4, <1>6, <2>2 DEF WithNegated
<1>7. CASE tree.rule[c] # NULL
  <2> DEFINE r == tree.rule[c]
             nr == [ext |-> Hand \ r.ext, top |-> FALSE]
  <2>1. ruled(p + 1) = ruled(p) \cup {p} BY <1>5, <1>7 DEF Ruled
  <2>2. N(p + 1) = neg(p + 1) BY <1>2, <2>1
  <2>3. ext(p + 1) = ext(p) \cap (Hand \ r.ext) BY <2>1
  <2>4. negateRule(r) = nr BY <1>7 DEF negateRule, Ext
  <2>5. nr # NULL
    <3>1. nr \in Rule BY DEF Rule
    <3>2. QED BY <3>1, TreeAssumption
  <2>6. WithNegated(N(p), r) = combineRule(N(p), nr) BY <1>7, <2>4 DEF WithNegated
  <2>7. combineRule(N(p), nr) = neg(p + 1)
    <3>1. CASE ruled(p) = {}
      <4>1. N(p) = NULL /\ ext(p) = Hand BY <1>2, <3>1
      <4>2. combineRule(N(p), nr) = nr BY <4>1 DEF combineRule
      <4>3. ext(p + 1) = Hand \ r.ext BY <2>3, <4>1
      <4>4. QED BY <4>2, <4>3
    <3>2. CASE ruled(p) # {}
      <4>1. N(p) = neg(p) BY <1>2, <3>2
      <4>2. neg(p) # NULL
        <5>1. neg(p) \in Rule BY DEF Rule
        <5>2. QED BY <5>1, TreeAssumption
      <4>3. combineRule(neg(p), nr) = [ext |-> ext(p) \cap (Hand \ r.ext), top |-> FALSE]
        <5> HIDE DEF ext, r
        <5>1. QED BY <2>5, <4>2 DEF combineRule
      <4>4. QED BY <2>3, <4>1, <4>3
    <3>3. QED BY <3>1, <3>2
  <2>8. QED BY <1>3, <1>4, <2>2, <2>6, <2>7
<1>8. QED BY <1>6, <1>7

-----------------------------------------------------------------------------
(* The frames.                                                             *)

LEMMA Popped ==
  ASSUME NEW S, NEW s \in Seq(S), s # <<>>
  PROVE  LET c == SubSeq(s, 1, Len(s) - 1)
         IN  c \in Seq(S) /\ Len(c) = Len(s) - 1 /\ \A i \in 1 .. (Len(s) - 1) : c[i] = s[i]
<1>1. Len(s) \in Nat \ {0} BY EmptySeq, LenProperties
<1>2. \A i \in 1 .. (Len(s) - 1) : s[i] \in S BY <1>1, ElementOfSeq
<1>3. 1 \in Int /\ Len(s) - 1 \in Int /\ (Len(s) - 1) - 1 + 1 = Len(s) - 1 BY <1>1
<1> DEFINE m == Len(s) - 1
<1>4. m \in Nat /\ \A i \in 1 .. m : s[i] \in S BY <1>1, <1>2
<1> HIDE DEF m
<1>5. /\ SubSeq(s, 1, m) \in Seq(S)
      /\ Len(SubSeq(s, 1, m)) = IF 1 <= m THEN m - 1 + 1 ELSE 0
      /\ \A i \in 1 .. m - 1 + 1 : SubSeq(s, 1, m)[i] = s[1 + i - 1]
  BY <1>4, SubSeqProperties
<1>6. Len(SubSeq(s, 1, m)) = m /\ \A i \in 1 .. m : SubSeq(s, 1, m)[i] = s[i]
  BY <1>4, <1>5
<1>7. QED BY <1>5, <1>6 DEF m

With(s, a, b) == SubSeq(s, 1, Len(s) - 1) \o <<a, b>>

IsWith(u, s, a, b) ==
  /\ Len(u) = Len(s) + 1 /\ \A i \in 1 .. (Len(s) - 1) : u[i] = s[i]
  /\ u[Len(s)] = a /\ u[Len(s) + 1] = b

LEMMA Pushed ==
  ASSUME NEW S, NEW s \in Seq(S), s # <<>>, NEW a \in S, NEW b \in S
  PROVE  With(s, a, b) \in Seq(S) /\ IsWith(With(s, a, b), s, a, b)
<1> DEFINE c == SubSeq(s, 1, Len(s) - 1)
           d == <<a, b>>
<1>1. Len(s) \in Nat \ {0} BY EmptySeq, LenProperties
<1>2. c \in Seq(S) /\ Len(c) = Len(s) - 1 /\ \A i \in 1 .. (Len(s) - 1) : c[i] = s[i]
  BY Popped
<1>3. d \in Seq(S) /\ Len(d) = 2 /\ d[1] = a /\ d[2] = b OBVIOUS
<1> HIDE DEF c, d
<1>4. /\ c \o d \in Seq(S) /\ Len(c \o d) = Len(c) + Len(d)
      /\ \A i \in 1 .. Len(c) + Len(d) : (c \o d)[i] = IF i <= Len(c) THEN c[i] ELSE d[i - Len(c)]
  BY <1>2, <1>3, ConcatProperties
<1>5. Len(c \o d) = Len(s) + 1 BY <1>1, <1>2, <1>3, <1>4
<1>6. \A i \in 1 .. (Len(s) - 1) : (c \o d)[i] = s[i] BY <1>1, <1>2, <1>3, <1>4
<1>7. (c \o d)[Len(s)] = a /\ (c \o d)[Len(s) + 1] = b
  <2>1. Len(s) \in 1 .. Len(c) + Len(d) /\ ~ (Len(s) <= Len(c)) /\ Len(s) - Len(c) = 1
    BY <1>1, <1>2, <1>3
  <2>2. Len(s) + 1 \in 1 .. Len(c) + Len(d) /\ ~ (Len(s) + 1 <= Len(c))
        /\ Len(s) + 1 - Len(c) = 2
    BY <1>1, <1>2, <1>3
  <2>3. (c \o d)[Len(s)] = d[1] BY <1>4, <2>1
  <2>4. (c \o d)[Len(s) + 1] = d[2] BY <1>4, <2>2
  <2>5. QED BY <1>3, <2>3, <2>4
<1>8. QED BY <1>4, <1>5, <1>6, <1>7 DEF c, d, With, IsWith

(* The frame in use. *)
LEMMA TopFacts ==
  ASSUME TreeOK, StackOK
  PROVE  /\ Len(stack) \in Nat \ {0} /\ top = stack[Len(stack)] /\ top \in FrameType
         /\ Scanned(top) /\ Finished(top, top.pos)
         /\ Len(tree.kids[top.node]) \in Nat
         /\ DOMAIN tree.kids[top.node] = 1 .. Len(tree.kids[top.node])
<1>1. Len(stack) \in Nat \ {0} BY EmptySeq, LenProperties DEF StackOK
<1>2. top \in FrameType BY <1>1, ElementOfSeq DEF StackOK, top
<1>3. Scanned(top) BY <1>1 DEF StackOK, top
<1>4. tree.kids[top.node] \in Seq(Node) BY <1>3, TreeShape DEF Scanned
<1>5. QED BY <1>1, <1>2, <1>3, <1>4, LenProperties DEF StackOK, top

Framed(n, p, q)   == [node |-> n, pos |-> p, acc |-> q]
MovedTo(g, p, q)  == [g EXCEPT !.pos = p, !.acc = q]

LEMMA FrameMoves ==
  \A n, p0, q0, p, q : MovedTo(Framed(n, p0, q0), p, q) = Framed(n, p, q)
<1> TAKE n, p0, q0, p, q
<1> DEFINE r0 == [node |-> n, pos |-> p0, acc |-> q0]
           r1 == [node |-> n, pos |-> p, acc |-> q0]
<1>1. [r0 EXCEPT !.pos = p] = r1 BY SMT
<1>2. [r1 EXCEPT !.acc = q] = [node |-> n, pos |-> p, acc |-> q] BY SMT
<1> HIDE DEF r0, r1
<1>3. [r0 EXCEPT !.pos = p, !.acc = q] = [[r0 EXCEPT !.pos = p] EXCEPT !.acc = q] OBVIOUS
<1>4. [r0 EXCEPT !.pos = p, !.acc = q] = [node |-> n, pos |-> p, acc |-> q]
  BY <1>1, <1>2, <1>3
<1>5. QED BY <1>4 DEF r0, Framed, MovedTo

LEMMA StepSibling ==
  ASSUME TreeOK, NegationsOK, NegateSibling
  PROVE  NegationsOK'
<1>1. /\ pc = "negate" /\ pc' = "negate" /\ StackOK /\ top.pos <= Len(tree.kids[top.node])
      /\ UNCHANGED <<tree, all>>
      /\ earlier \in [Node -> RulePtr] /\ all \in [Node -> RulePtr]
  BY DEF NegateSibling, NegationsOK, treeVars
<1>2. PICK s, L, f : s = stack /\ L = Len(stack) /\ f = top OBVIOUS
<1>3. /\ L \in Nat \ {0} /\ f = s[L] /\ f \in FrameType
      /\ Scanned(f) /\ Finished(f, f.pos)
      /\ Len(tree.kids[f.node]) \in Nat
      /\ DOMAIN tree.kids[f.node] = 1 .. Len(tree.kids[f.node])
  BY <1>1, <1>2, TopFacts
<1>4. /\ f.node \in Node /\ f.pos \in DOMAIN tree.kids[f.node] /\ f.pos \in Nat \ {0}
      /\ f.acc = negatedEarlierSiblings(tree, f.node, f.pos) /\ f.acc \in RulePtr
  <2>1. f.pos \in Nat \ {0} /\ f.acc \in RulePtr /\ f.node \in Node BY <1>3 DEF FrameType
  <2>2. f.pos <= Len(tree.kids[f.node]) BY <1>1, <1>2
  <2>3. QED BY <1>3, <2>1, <2>2 DEF Scanned
<1>5. PICK c : c = tree.kids[f.node][f.pos] OBVIOUS
<1>6. c \in Node /\ c \in Kids(tree, f.node)
  <2>1. tree.kids[f.node] \in Seq(Node) BY <1>4, TreeShape
  <2>2. QED BY <1>4, <1>5, <2>1 DEF Kids
<1>7. PICK acc : acc = WithNegated(f.acc, tree.rule[c]) OBVIOUS
<1>8. acc = negatedEarlierSiblings(tree, f.node, f.pos + 1) /\ acc \in RulePtr
  <2>1. acc = negatedEarlierSiblings(tree, f.node, f.pos + 1)
    BY <1>4, <1>5, <1>7, OneMore
  <2>2. QED BY <1>4, <2>1, NegatedType DEF negatedEarlierSiblings
<1>9. PICK a, b : /\ a = [node |-> f.node, pos |-> f.pos + 1, acc |-> acc]
                  /\ b = [node |-> c, pos |-> 1, acc |-> NULL]
  OBVIOUS
<1>10. /\ a \in FrameType /\ a.node = f.node /\ a.pos = f.pos + 1
       /\ a.acc = negatedEarlierSiblings(tree, f.node, f.pos + 1)
       /\ b \in FrameType /\ b.node = c /\ b.pos = 1 /\ b.acc = NULL
  <2>1. f.pos + 1 \in Nat \ {0} BY <1>4
  <2>2. NULL \in RulePtr BY DEF RulePtr
  <2>3. QED BY <1>4, <1>6, <1>8, <1>9, <2>1, <2>2 DEF FrameType
<1>11. /\ earlier' = [earlier EXCEPT ![c] = f.acc]
       /\ stack' = Callers \o <<a, b>>
  <2>1. f = [node |-> f.node, pos |-> f.pos, acc |-> f.acc] BY <1>3 DEF FrameType
  <2>2. [f EXCEPT !.pos = @ + 1, !.acc = WithNegated(@, tree.rule[c])] = a
    <3>1. [f EXCEPT !.pos = @ + 1, !.acc = WithNegated(@, tree.rule[c])]
            = [f EXCEPT !.pos = f.pos + 1, !.acc = acc]
      BY <1>7
    <3>2. f = Framed(f.node, f.pos, f.acc) BY <2>1 DEF Framed
    <3>3. MovedTo(f, f.pos + 1, acc) = Framed(f.node, f.pos + 1, acc)
      BY <3>2, FrameMoves
    <3>4. QED BY <1>9, <3>1, <3>3 DEF Framed, MovedTo
  <2>3. Frame(c) = b BY <1>9 DEF Frame
  <2>4. QED BY <1>2, <1>5, <2>2, <2>3 DEF NegateSibling
<1>12. negatedEarlierSiblings(tree, c, 1) = NULL
  <2>1. 1 .. (1 - 1) = {} OBVIOUS
  <2>2. QED BY <2>1 DEF negatedEarlierSiblings, NegatedKids
<1>13. /\ s \in Seq(FrameType) /\ s # <<>> /\ s[1].node = Root
       /\ \A i \in 1 .. L : Scanned(s[i]) /\ s[i] \in FrameType
       /\ \A i \in 1 .. (L - 1) : Finished(s[i], s[i].pos - 1) /\ Calling(s[i], s[i + 1])
  BY <1>1, <1>2, ElementOfSeq DEF StackOK
<1>14. /\ stack' \in Seq(FrameType) /\ Len(stack') = L + 1
       /\ \A i \in 1 .. (L - 1) : stack'[i] = s[i]
       /\ stack'[L] = a /\ stack'[L + 1] = b
  <2>1. stack' = SubSeq(s, 1, Len(s) - 1) \o <<a, b>> /\ L = Len(s)
    BY <1>2, <1>11 DEF Callers
  <2>2. /\ stack' \in Seq(FrameType) /\ Len(stack') = Len(s) + 1
        /\ \A i \in 1 .. (Len(s) - 1) : stack'[i] = s[i]
        /\ stack'[Len(s)] = a /\ stack'[Len(s) + 1] = b
    <3>1. s \in Seq(FrameType) /\ s # <<>> /\ a \in FrameType /\ b \in FrameType
      BY <1>10, <1>13
    <3>2. stack' = With(s, a, b) BY <2>1 DEF With
    <3>3. stack' \in Seq(FrameType) /\ IsWith(stack', s, a, b) BY <3>1, <3>2, Pushed
    <3>4. QED BY <3>3 DEF IsWith
  <2>3. QED BY <1>10, <2>1, <2>2
(* Nothing that was right is overwritten. *)
<1>15. ASSUME NEW n \in Node, NEW i \in DOMAIN tree.kids[n],
              earlier[tree.kids[n][i]] = negatedEarlierSiblings(tree, n, i)
       PROVE  earlier'[tree.kids[n][i]] = negatedEarlierSiblings(tree, n, i)
  <2>1. CASE tree.kids[n][i] = c
    <3>1. c \in Kids(tree, n) BY <2>1 DEF Kids
    <3>2. n = f.node BY <1>4, <1>6, <3>1 DEF TreeOK, WellFormed
    <3>3. i = f.pos BY <1>4, <1>5, <2>1, <3>2 DEF TreeOK, WellFormed
    <3>4. earlier'[c] = f.acc BY <1>1, <1>6, <1>11
    <3>5. QED BY <1>4, <2>1, <3>2, <3>3, <3>4
  <2>2. CASE tree.kids[n][i] # c
    <3>1. earlier'[tree.kids[n][i]] = earlier[tree.kids[n][i]]
      <4>1. tree.kids[n] \in Seq(Node) BY TreeShape
      <4>2. tree.kids[n][i] \in Node BY <4>1
      <4>3. QED BY <1>1, <1>11, <2>2, <4>2
    <3>2. QED BY <1>15, <3>1
  <2>3. QED BY <2>1, <2>2
<1>16. \A n \in Node : Done(n) => Done(n)' BY <1>1, <1>15 DEF Done
<1>17. \A n \in Node : AllDone(n) => AllDone(n)' BY <1>1, <1>16 DEF AllDone, Below
<1>18. ASSUME NEW g, Scanned(g) PROVE Scanned(g)'
  <2>1. g.node \in Node /\ g.pos \in 1 .. (Len(tree.kids[g.node]) + 1) BY <1>18 DEF Scanned
  <2>2. tree.kids[g.node] \in Seq(Node) BY <2>1, TreeShape
  <2>3. \A j \in 1 .. (g.pos - 1) : j \in DOMAIN tree.kids[g.node]
    BY <2>1, <2>2, LenProperties
  <2>4. \A j \in 1 .. (g.pos - 1) :
          earlier'[tree.kids[g.node][j]] = negatedEarlierSiblings(tree, g.node, j)
    BY <1>15, <1>18, <2>1, <2>3 DEF Scanned
  <2>5. QED BY <1>1, <1>18, <2>4 DEF Scanned
<1>19. ASSUME NEW g \in FrameType, NEW p \in Nat, p <= Len(tree.kids[g.node]) + 1, Finished(g, p)
       PROVE  Finished(g, p)'
  <2>1. tree.kids[g.node] \in Seq(Node)
    <3>1. g.node \in Node BY DEF FrameType
    <3>2. QED BY <3>1, TreeShape
  <2>2. \A j \in 1 .. (p - 1) : tree.kids[g.node][j] \in Node
    <3>1. \A j \in 1 .. (p - 1) : j \in 1 .. Len(tree.kids[g.node])
      BY <1>19, <2>1, LenProperties
    <3>2. QED BY <2>1, <3>1, ElementOfSeq
  <2>3. QED BY <1>1, <1>17, <1>19, <2>2 DEF Finished
<1>20. Scanned(a)'
  <2>1. a.node \in Node /\ a.pos \in 1 .. (Len(tree.kids[a.node]) + 1) BY <1>3, <1>4, <1>10
  <2>2. ASSUME NEW j \in 1 .. (a.pos - 1)
        PROVE  earlier'[tree.kids[a.node][j]] = negatedEarlierSiblings(tree, a.node, j)
    <3>1. CASE j = f.pos
      <4>1. earlier'[c] = f.acc BY <1>1, <1>6, <1>11
      <4>2. QED BY <1>4, <1>5, <1>10, <3>1, <4>1
    <3>2. CASE j # f.pos
      <4>1. j \in 1 .. (f.pos - 1) /\ j \in DOMAIN tree.kids[f.node] BY <1>3, <1>4, <1>10, <3>2
      <4>2. earlier[tree.kids[f.node][j]] = negatedEarlierSiblings(tree, f.node, j)
        BY <1>3, <4>1 DEF Scanned
      <4>3. QED BY <1>4, <1>10, <1>15, <4>1, <4>2
    <3>3. QED BY <3>1, <3>2
  <2>3. QED BY <1>1, <1>10, <2>1, <2>2 DEF Scanned
<1>21. Scanned(b)'
  <2>1. Len(tree.kids[c]) \in Nat BY <1>6, TreeShape, LenProperties
  <2>2. 1 .. (b.pos - 1) = {} /\ b.pos \in 1 .. (Len(tree.kids[c]) + 1) BY <1>10, <2>1
  <2>3. QED BY <1>1, <1>6, <1>10, <1>12, <2>2 DEF Scanned
<1>22. stack' # <<>> /\ stack'[1].node = Root
  <2>1. stack' # <<>> BY <1>3, <1>14, EmptySeq
  <2>2. CASE L = 1
    <3>1. stack'[1] = a /\ a.node = s[1].node BY <1>3, <1>10, <1>14, <2>2
    <3>2. QED BY <1>13, <2>1, <3>1
  <2>3. CASE L # 1
    <3>1. 1 \in 1 .. (L - 1) BY <1>3, <2>3
    <3>2. stack'[1] = s[1] BY <1>14, <3>1
    <3>3. QED BY <1>13, <2>1, <3>2
  <2>4. QED BY <2>1, <2>2, <2>3
<1>23. \A i \in 1 .. (L + 1) : Scanned(stack[i])'
  <2>1. TAKE i \in 1 .. (L + 1)
  <2>2. PICK g : g = stack'[i] OBVIOUS
  <2>3. Scanned(g)'
    <3>1. CASE i \in 1 .. (L - 1)
      <4>1. g = s[i] /\ i \in 1 .. L BY <1>3, <1>14, <2>2, <3>1
      <4>2. QED BY <1>13, <1>18, <4>1
    <3>2. CASE i = L BY <1>14, <1>20, <2>2, <3>2
    <3>3. CASE i = L + 1 BY <1>14, <1>21, <2>2, <3>3
    <3>4. QED BY <1>3, <3>1, <3>2, <3>3
  <2>4. QED BY <2>2, <2>3 DEF Scanned
<1>24. ASSUME NEW i \in 1 .. L
       PROVE  Finished(stack[i], stack[i].pos - 1)' /\ Calling(stack[i], stack[i + 1])'
  <2>1. PICK g, h : g = stack'[i] /\ h = stack'[i + 1] OBVIOUS
  <2>2. CASE i = L
    <3>1. g = a /\ h = b BY <1>14, <2>1, <2>2
    <3>2. a.pos - 1 = f.pos /\ f.pos <= Len(tree.kids[f.node]) + 1 BY <1>3, <1>4, <1>10
    <3>3. Finished(f, f.pos)' BY <1>3, <1>4, <1>19, <3>2
    <3>4. Finished(a, a.pos - 1)' BY <1>10, <3>2, <3>3 DEF Finished
    <3>5. Calling(a, b)' BY <1>1, <1>4, <1>5, <1>10, <3>2 DEF Calling
    <3>6. QED BY <2>1, <3>1, <3>4, <3>5 DEF Finished, Calling
  <2>3. CASE i \in 1 .. (L - 1)
    <3>1. g = s[i] /\ i \in 1 .. L BY <1>14, <2>1, <2>3
    <3>2. Finished(g, g.pos - 1) /\ Calling(g, s[i + 1]) /\ Scanned(g) /\ g \in FrameType
      BY <1>13, <2>3, <3>1
    <3>3. g.pos - 1 \in Nat /\ g.pos - 1 <= Len(tree.kids[g.node]) + 1
      <4>1. g.node \in Node /\ g.pos \in 1 .. (Len(tree.kids[g.node]) + 1)
        BY <3>2 DEF Scanned
      <4>2. Len(tree.kids[g.node]) \in Nat BY <4>1, TreeShape, LenProperties
      <4>3. QED BY <4>1, <4>2
    <3>4. Finished(g, g.pos - 1)' BY <1>19, <3>2, <3>3
    <3>5. h.node = s[i + 1].node
      <4>1. CASE i + 1 = L BY <1>3, <1>10, <1>14, <2>1, <4>1
      <4>2. CASE i + 1 # L
        <5>1. i + 1 \in 1 .. (L - 1) BY <1>3, <2>3, <4>2
        <5>2. QED BY <1>14, <2>1, <5>1
      <4>3. QED BY <4>1, <4>2
    <3>6. Calling(g, h)' BY <1>1, <3>2, <3>5 DEF Calling
    <3>7. QED BY <2>1, <3>4, <3>6 DEF Finished, Calling
  <2>4. QED BY <1>3, <2>2, <2>3
<1>25. Finished(top, top.pos)'
  <2>1. top' = b BY <1>14 DEF top
  <2>2. 1 .. (b.pos - 1) = {} BY <1>10
  <2>3. QED BY <2>1, <2>2 DEF Finished
<1>26. StackOK'
  <2>1. (L + 1) - 1 = L BY <1>3
  <2>2. QED BY <1>14, <1>22, <1>23, <1>24, <1>25, <2>1 DEF StackOK
<1>27. earlier' \in [Node -> RulePtr] BY <1>1, <1>4, <1>11
<1>28. QED BY <1>1, <1>26, <1>27 DEF NegationsOK

LEMMA StepParent ==
  ASSUME TreeOK, NegationsOK, NegateParent
  PROVE  NegationsOK'
<1>1. /\ pc = "negate" /\ StackOK /\ top.pos > Len(tree.kids[top.node])
      /\ UNCHANGED <<tree, earlier>>
      /\ all' = [all EXCEPT ![top.node] = top.acc]
      /\ stack' = Callers /\ pc' = IF Len(stack) = 1 THEN "ready" ELSE pc
      /\ earlier \in [Node -> RulePtr] /\ all \in [Node -> RulePtr]
  BY DEF NegateParent, NegationsOK, treeVars
<1>2. PICK s, L, f, n : s = stack /\ L = Len(stack) /\ f = top /\ n = top.node OBVIOUS
<1>3. /\ L \in Nat \ {0} /\ f = s[L] /\ f \in FrameType /\ f.node = n
      /\ Scanned(f) /\ Finished(f, f.pos)
      /\ Len(tree.kids[n]) \in Nat /\ DOMAIN tree.kids[n] = 1 .. Len(tree.kids[n])
  BY <1>1, <1>2, TopFacts
<1>4. /\ n \in Node /\ f.pos = Len(tree.kids[n]) + 1 /\ f.acc \in RulePtr
      /\ f.acc = negatedEarlierSiblings(tree, n, Len(tree.kids[n]) + 1)
  <2>1. f.acc \in RulePtr /\ n \in Node BY <1>3 DEF FrameType
  <2>2. f.pos > Len(tree.kids[n]) /\ f.pos \in 1 .. (Len(tree.kids[n]) + 1)
    BY <1>1, <1>2, <1>3 DEF Scanned
  <2>3. f.pos = Len(tree.kids[n]) + 1 BY <1>3, <2>2
  <2>4. QED BY <1>3, <2>1, <2>3 DEF Scanned
<1>5. f.acc = negatedAllChildren(tree, n)
  <2>1. 1 .. ((Len(tree.kids[n]) + 1) - 1) = DOMAIN tree.kids[n] BY <1>3
  <2>2. QED BY <1>4, <2>1 DEF negatedEarlierSiblings, negatedAllChildren
<1>6. /\ s \in Seq(FrameType) /\ s # <<>> /\ s[1].node = Root
      /\ \A i \in 1 .. L : Scanned(s[i]) /\ s[i] \in FrameType
      /\ \A i \in 1 .. (L - 1) : Finished(s[i], s[i].pos - 1) /\ Calling(s[i], s[i + 1])
  BY <1>1, <1>2, ElementOfSeq DEF StackOK
<1>7. /\ all' = [all EXCEPT ![n] = f.acc] /\ all' \in [Node -> RulePtr]
      /\ all'[n] = negatedAllChildren(tree, n)
      /\ \A m \in Node \ {n} : all'[m] = all[m]
  BY <1>1, <1>2, <1>4, <1>5
<1>8. \A m \in Node : Done(m) => Done(m)' BY <1>1, <1>7 DEF Done
<1>9. \A m \in Node : AllDone(m) => AllDone(m)' BY <1>1, <1>8 DEF AllDone, Below
<1>10. Done(n)'
  <2>1. \A i \in DOMAIN tree.kids[n] : i \in 1 .. (f.pos - 1) BY <1>3, <1>4
  <2>2. \A i \in DOMAIN tree.kids[n] :
          earlier[tree.kids[n][i]] = negatedEarlierSiblings(tree, n, i)
    BY <1>3, <2>1 DEF Scanned
  <2>3. QED BY <1>1, <1>7, <2>2 DEF Done
<1>11. AllDone(n)'
  <2>1. ASSUME NEW m \in Below(tree, n) PROVE Done(m)'
    <3>1. CASE m = n BY <1>10, <3>1
    <3>2. CASE m # n
      <4>1. PICK c \in Kids(tree, n) : m \in Below(tree, c)
        BY <1>4, <3>2, BelowSplits, KidsAreNodes
      <4>2. PICK j \in DOMAIN tree.kids[n] : c = tree.kids[n][j] BY <4>1 DEF Kids
      <4>3. j \in 1 .. (f.pos - 1) BY <1>3, <1>4, <4>2
      <4>4. AllDone(c) BY <1>3, <4>2, <4>3 DEF Finished
      <4>5. Done(m) /\ m \in Node BY <4>1, <4>4 DEF AllDone, Below
      <4>6. QED BY <1>8, <4>5
    <3>3. QED BY <3>1, <3>2
  <2>2. QED BY <1>1, <2>1 DEF AllDone, Below
<1>12. CASE L = 1
  <2>1. pc' = "ready" /\ n = Root BY <1>1, <1>2, <1>3, <1>6, <1>12
  <2>2. QED BY <1>1, <1>7, <1>11, <2>1 DEF NegationsOK
<1>13. CASE L # 1
  <2>1. /\ stack' \in Seq(FrameType) /\ Len(stack') = L - 1
        /\ \A i \in 1 .. (L - 1) : stack'[i] = s[i]
    <3>1. stack' = SubSeq(s, 1, Len(s) - 1) /\ L = Len(s) BY <1>1, <1>2 DEF Callers
    <3>2. QED BY <1>6, <3>1, Popped
  <2>2. L - 1 \in Nat \ {0} /\ L - 1 \in 1 .. L /\ 1 \in 1 .. (L - 1) BY <1>3, <1>13
  <2>3. stack' # <<>> /\ stack'[1].node = Root
    <3>1. stack' # <<>> BY <2>1, <2>2, EmptySeq
    <3>2. stack'[1] = s[1] BY <2>1, <2>2
    <3>3. QED BY <1>6, <3>1, <3>2
  <2>4. \A i \in 1 .. (L - 1) : Scanned(stack[i])'
    <3>1. TAKE i \in 1 .. (L - 1)
    <3>2. PICK g : g = stack'[i] OBVIOUS
    <3>3. g = s[i] /\ i \in 1 .. L BY <1>3, <2>1, <3>2
    <3>4. Scanned(g)' BY <1>1, <1>6, <3>3 DEF Scanned
    <3>5. QED BY <3>2, <3>4 DEF Scanned
  <2>5. ASSUME NEW g \in FrameType, NEW p \in Nat, p <= Len(tree.kids[g.node]) + 1, Finished(g, p)
        PROVE  Finished(g, p)'
    <3>1. tree.kids[g.node] \in Seq(Node)
      <4>1. g.node \in Node BY DEF FrameType
      <4>2. QED BY <4>1, TreeShape
    <3>2. \A j \in 1 .. (p - 1) : tree.kids[g.node][j] \in Node
      <4>1. \A j \in 1 .. (p - 1) : j \in 1 .. Len(tree.kids[g.node])
        BY <2>5, <3>1, LenProperties
      <4>2. QED BY <3>1, <4>1, ElementOfSeq
    <3>3. QED BY <1>1, <1>9, <2>5, <3>2 DEF Finished
  <2>6. ASSUME NEW i \in 1 .. (L - 1)
        PROVE  Finished(s[i], s[i].pos - 1)' /\ s[i].pos \in 1 .. (Len(tree.kids[s[i].node]) + 1)
    <3>1. i \in 1 .. L BY <1>3
    <3>2. Finished(s[i], s[i].pos - 1) /\ Scanned(s[i]) /\ s[i] \in FrameType BY <1>6, <3>1
    <3>3. s[i].node \in Node /\ s[i].pos \in 1 .. (Len(tree.kids[s[i].node]) + 1)
      BY <3>2 DEF Scanned
    <3>4. Len(tree.kids[s[i].node]) \in Nat BY <3>3, TreeShape, LenProperties
    <3>5. s[i].pos - 1 \in Nat /\ s[i].pos - 1 <= Len(tree.kids[s[i].node]) + 1
      BY <3>3, <3>4
    <3>6. QED BY <2>5, <3>2, <3>3, <3>5
  <2>7. ASSUME NEW i \in 1 .. ((L - 1) - 1)
        PROVE  Finished(stack[i], stack[i].pos - 1)' /\ Calling(stack[i], stack[i + 1])'
    <3>1. PICK g, h : g = stack'[i] /\ h = stack'[i + 1] OBVIOUS
    <3>2. i \in 1 .. (L - 1) /\ i + 1 \in 1 .. (L - 1) BY <1>3
    <3>3. g = s[i] /\ h = s[i + 1] BY <2>1, <3>1, <3>2
    <3>4. Finished(g, g.pos - 1)' BY <2>6, <3>2, <3>3
    <3>5. Calling(g, h)' BY <1>1, <1>6, <3>2, <3>3 DEF Calling
    <3>6. QED BY <3>1, <3>4, <3>5 DEF Finished, Calling
  <2>8. Finished(top, top.pos)'
    <3>1. PICK g : g = s[L - 1] OBVIOUS
    <3>2. top' = g BY <2>1, <2>2, <3>1 DEF top
    <3>3. /\ Finished(g, g.pos - 1)' /\ g.pos \in 1 .. (Len(tree.kids[g.node]) + 1)
          /\ Calling(g, f)
      <4>1. L - 1 \in 1 .. (L - 1) /\ (L - 1) + 1 = L BY <1>3, <2>2
      <4>2. QED BY <1>3, <1>6, <2>6, <3>1, <4>1
    <3>4. tree.kids[g.node][g.pos - 1] = n BY <1>3, <3>3 DEF Calling
    <3>5. \A j \in 1 .. (g.pos - 1) : j \in 1 .. ((g.pos - 1) - 1) \/ j = g.pos - 1
      BY <3>3
    <3>6. ASSUME NEW j \in 1 .. (g.pos - 1) PROVE AllDone(tree.kids[g.node][j])'
      <4>1. CASE j = g.pos - 1 BY <1>1, <1>11, <3>4, <4>1 DEF AllDone, Below
      <4>2. CASE j \in 1 .. ((g.pos - 1) - 1) BY <3>3, <4>2 DEF Finished
      <4>3. QED BY <3>5, <4>1, <4>2
    <3>7. Finished(g, g.pos)' BY <3>6 DEF Finished
    <3>8. QED BY <3>2, <3>7 DEF Finished
  <2>9. StackOK' BY <2>1, <2>3, <2>4, <2>7, <2>8 DEF StackOK
  <2>10. pc' = "negate" BY <1>1, <1>2, <1>13
  <2>11. QED BY <1>1, <1>7, <2>9, <2>10 DEF NegationsOK
<1>14. QED BY <1>12, <1>13

LEMMA StepStart ==
  ASSUME TreeOK, NegationsOK, StartNegations
  PROVE  NegationsOK'
<1>1. /\ pc' = "negate" /\ stack' = <<Frame(Root)>>
      /\ UNCHANGED <<tree, earlier, all>>
      /\ earlier \in [Node -> RulePtr] /\ all \in [Node -> RulePtr]
  BY DEF StartNegations, NegationsOK, treeVars
<1>2. PICK f : f = Frame(Root) OBVIOUS
<1>3. f \in FrameType /\ f.node = Root /\ f.pos = 1 /\ f.acc = NULL
  BY <1>2, TreeAssumption DEF Frame, FrameType, RulePtr
<1>4. stack' \in Seq(FrameType) /\ Len(stack') = 1 /\ stack'[1] = f /\ stack' # <<>>
  BY <1>1, <1>2, <1>3
<1>5. Len(tree.kids[Root]) \in Nat BY TreeShape, TreeAssumption, LenProperties
<1>6. 1 .. (1 - 1) = {} OBVIOUS
<1>7. negatedEarlierSiblings(tree, Root, 1) = NULL
  BY <1>6 DEF negatedEarlierSiblings, NegatedKids
<1>8. Scanned(f)' BY <1>1, <1>3, <1>5, <1>6, <1>7, TreeAssumption DEF Scanned
<1>9. Finished(f, f.pos)' BY <1>3, <1>6 DEF Finished
<1>10. StackOK'
  <2>1. \A i \in 1 .. 1 : Scanned(stack[i])' BY <1>4, <1>8 DEF Scanned
  <2>2. Finished(top, top.pos)' BY <1>4, <1>9 DEF Finished, top
  <2>3. QED BY <1>3, <1>4, <1>6, <2>1, <2>2 DEF StackOK
<1>11. QED BY <1>1, <1>10 DEF NegationsOK

LEMMA StepNegations ==
  ASSUME TreeOK, NegationsOK, [Next]_vars
  PROVE  NegationsOK'
<1>1. CASE NegateSibling BY <1>1, StepSibling
<1>2. CASE NegateParent BY <1>2, StepParent
<1>3. CASE StartNegations BY <1>3, StepStart
<1>4. CASE \/ Define \/ Modify \/ Reject \/ EndOfFile \/ SkipRule \/ StartRule \/ Descend
           \/ Create \/ EndRule
  <2>1. pc' \notin {"negate", "ready"}
    BY <1>4 DEF Define, Modify, Reject, EndOfFile, SkipRule, StartRule, Descend, Create, EndRule,
                Parsing
  <2>2. earlier' = earlier /\ all' = all
    BY <1>4 DEF Define, Modify, Reject, EndOfFile, SkipRule, StartRule, Descend, Create, EndRule,
                negVars
  <2>3. QED BY <2>1, <2>2 DEF NegationsOK
<1>5. CASE UNCHANGED vars
  <2>1. UNCHANGED <<tree, stack, earlier, all, pc>> BY <1>5 DEF vars, treeVars, negVars
  <2>2. QED BY <2>1 DEF NegationsOK, StackOK, Scanned, Finished, Calling, AllDone, Done, Below,
                        top
<1>6. QED BY <1>1, <1>2, <1>3, <1>4, <1>5 DEF Next

LEMMA InitNegations == Init => Rooted /\ NegationsOK
<1> SUFFICES ASSUME Init PROVE Rooted /\ NegationsOK OBVIOUS
<1>1. Root \in Below(tree, Root) BY TreeAssumption DEF Below
<1>2. NULL \in RulePtr BY DEF RulePtr
<1>3. QED BY <1>1, <1>2 DEF Init, Rooted, NegationsOK

(* The negations that the auction reads are those of the finished tree:    *)
(* the recursion of precomputeSiblingNegations() reaches every node, with  *)
(* what its earlier siblings' final rules add up to.                       *)
THEOREM NegationsStored == Spec => []NegationsAreFinal
<1> DEFINE Inv == /\ ChainOK /\ line \in Nat \ {0} /\ TreeOK /\ WalkOK
                  /\ Rooted /\ NegationsOK
<1>1. Init => Inv BY InitOK, InitNegations
<1>2. Inv /\ [Next]_vars => Inv'
  <2> SUFFICES ASSUME Inv, [Next]_vars PROVE Inv' OBVIOUS
  <2>1. ChainOK' /\ line' \in Nat \ {0} BY StepChain
  <2>2. TreeOK' /\ WalkOK' BY StepTree, StepWalk
  <2>3. Rooted' BY StepRooted
  <2>4. NegationsOK' BY StepNegations
  <2>5. QED BY <2>1, <2>2, <2>3, <2>4
<1>3. Inv => NegationsAreFinal
  <2> SUFFICES ASSUME Inv, pc = "ready", NEW n \in created
               PROVE  /\ all[n] = negatedAllChildren(tree, n)
                      /\ \A i \in DOMAIN tree.kids[n] :
                           earlier[tree.kids[n][i]] = negatedEarlierSiblings(tree, n, i)
    BY DEF NegationsAreFinal
  <2>1. Done(n) BY DEF Rooted, NegationsOK, AllDone
  <2>2. QED BY <2>1 DEF Done
<1>4. QED BY <1>1, <1>2, <1>3, PTL DEF Spec
-----------------------------------------------------------------------------
(* The positions: the parser's in the file, processRule()'s in the chain,  *)
(* which is complete before it starts, and the stack, which is empty       *)
(* outside precomputeSiblingNegations().                                   *)
PositionsOK ==
  /\ line \in 1 .. (Len(file) + 1) /\ pc \in Phases
  /\ k \in 1 .. (Len(defs) + 1) /\ (pc = "parse" => k = 1)
  /\ c1 \in created /\ rest \in Seq(Call)
  /\ pc # "negate" => stack = <<>>

LEMMA StepPositions ==
  ASSUME ChainOK, TreeOK, WalkOK, NegationsOK, PositionsOK, [Next]_vars
  PROVE  PositionsOK'
<1>1. Len(file) \in Nat /\ Len(defs) \in Nat BY LenProperties DEF ChainOK
<1>2. line \in Nat \ {0} /\ ChainOK' /\ TreeOK'
  BY <1>1, StepChain, StepTree DEF PositionsOK
<1>3. CASE Define
  <2>1. /\ pc = "parse" /\ line <= Len(file) /\ line' = line + 1
        /\ UNCHANGED <<file, pc, walkVars, treeVars, negVars>>
    BY <1>3 DEF Define, Parsing
  <2>2. Len(defs') \in Nat BY <1>2, LenProperties DEF ChainOK
  <2>3. k' \in 1 .. (Len(defs') + 1) BY <2>1, <2>2 DEF PositionsOK, walkVars
  <2>4. line' \in 1 .. (Len(file') + 1) BY <1>1, <2>1 DEF PositionsOK
  <2>5. QED BY <2>1, <2>3, <2>4 DEF PositionsOK, walkVars, treeVars, negVars
<1>4. CASE Modify
  <2>1. /\ pc = "parse" /\ line <= Len(file) /\ line' = line + 1
        /\ UNCHANGED <<file, pc, walkVars, treeVars, negVars>>
    BY <1>4 DEF Modify, Parsing
  <2>2. Len(defs') \in Nat BY <1>2, LenProperties DEF ChainOK
  <2>3. k' \in 1 .. (Len(defs') + 1) BY <2>1, <2>2 DEF PositionsOK, walkVars
  <2>4. line' \in 1 .. (Len(file') + 1) BY <1>1, <2>1 DEF PositionsOK
  <2>5. QED BY <2>1, <2>3, <2>4 DEF PositionsOK, walkVars, treeVars, negVars
<1>5. CASE Reject \/ EndOfFile
  <2>1. /\ pc = "parse" /\ pc' \in {"failed", "process"}
        /\ UNCHANGED <<parseVars, walkVars, treeVars, negVars>>
    BY <1>5 DEF Reject, EndOfFile, Parsing
  <2>2. QED BY <2>1 DEF PositionsOK, Phases, parseVars, walkVars, treeVars, negVars
<1>6. CASE SkipRule
  <2>1. /\ pc = "process" /\ k <= Len(defs) /\ k' = k + 1
        /\ UNCHANGED <<parseVars, pc, c1, rest, treeVars, negVars>>
    BY <1>6 DEF SkipRule
  <2>2. k' \in 1 .. (Len(defs) + 1) BY <1>1, <2>1 DEF PositionsOK
  <2>3. QED BY <2>1, <2>2 DEF PositionsOK, parseVars, treeVars, negVars
<1>7. CASE StartRule
  <2>1. /\ pc = "process" /\ k <= Len(defs) /\ pc' = "walk" /\ c1' = Root /\ rest' = calls
        /\ UNCHANGED <<parseVars, k, treeVars, negVars>>
    BY <1>7 DEF StartRule, calls
  <2>2. k \in DOMAIN defs
    <3>1. k \in 1 .. Len(defs) BY <1>1, <2>1 DEF PositionsOK
    <3>2. QED BY <3>1, LenProperties DEF ChainOK
  <2>3. calls \in Seq(Call) BY <2>2, NameFacts
  <2>4. QED BY <2>1, <2>3 DEF PositionsOK, Phases, TreeOK, parseVars, treeVars, negVars
<1>8. CASE Descend
  <2>1. /\ pc = "walk" /\ rest # <<>> /\ rest' = Tail(rest) /\ c1' \in Kids(tree, c1)
        /\ UNCHANGED <<parseVars, pc, k, treeVars, negVars>>
    BY <1>8 DEF Descend, ChildrenFor
  <2>2. rest' \in Seq(Call) BY <2>1, CallRead
  <2>3. c1' \in created BY <2>1 DEF PositionsOK, TreeOK
  <2>4. QED BY <2>1, <2>2, <2>3 DEF PositionsOK, parseVars, treeVars, negVars
<1>9. CASE Create
  <2>1. /\ pc = "walk" /\ rest # <<>> /\ rest' = Tail(rest)
        /\ UNCHANGED <<parseVars, pc, k, negVars>>
    BY <1>9 DEF Create
  <2>2. rest' \in Seq(Call) BY <2>1, CallRead
  <2>3. c1' \in created' BY <1>9, CreateFacts DEF PositionsOK
  <2>4. QED BY <2>1, <2>2, <2>3 DEF PositionsOK, parseVars, negVars
<1>10. CASE EndRule
  <2>1. /\ pc = "walk" /\ pc' = "process" /\ k' = k + 1
        /\ UNCHANGED <<parseVars, c1, rest, created, negVars>>
    BY <1>10 DEF EndRule
  <2>2. k \in 1 .. Len(defs)
    <3>1. k \in DOMAIN defs BY <2>1 DEF WalkOK
    <3>2. QED BY <3>1, LenProperties DEF ChainOK
  <2>3. k' \in 1 .. (Len(defs) + 1) BY <1>1, <2>1, <2>2
  <2>4. QED BY <2>1, <2>3 DEF PositionsOK, Phases, parseVars, negVars
<1>11. CASE StartNegations \/ NegateSibling
  <2>1. /\ pc \in {"process", "negate"} /\ pc' = "negate"
        /\ UNCHANGED <<parseVars, walkVars, treeVars>>
    BY <1>11 DEF StartNegations, NegateSibling
  <2>2. QED BY <2>1 DEF PositionsOK, Phases, parseVars, walkVars, treeVars
<1>12. CASE NegateParent
  <2>1. /\ pc = "negate" /\ stack' = Callers
        /\ pc' = (IF Len(stack) = 1 THEN "ready" ELSE "negate")
        /\ UNCHANGED <<parseVars, walkVars, treeVars>>
    BY <1>12 DEF NegateParent
  <2>2. Len(stack) = 1 => Callers = <<>>
    <3>1. stack \in Seq(FrameType) /\ stack # <<>> BY <2>1 DEF NegationsOK, StackOK
    <3>2. Callers \in Seq(FrameType) /\ Len(Callers) = Len(stack) - 1
      BY <3>1, Popped DEF Callers
    <3>3. QED BY <3>2, EmptySeq
  <2>3. QED BY <2>1, <2>2 DEF PositionsOK, Phases, parseVars, walkVars, treeVars
<1>13. CASE UNCHANGED vars
  BY <1>13 DEF PositionsOK, vars, parseVars, walkVars, treeVars, negVars
<1>14. QED
  BY <1>3, <1>4, <1>5, <1>6, <1>7, <1>8, <1>9, <1>10, <1>11, <1>12, <1>13 DEF Next

(* Every variable of the loader keeps values of its kind, whatever the     *)
(* file: in particular the parser stays within the file, processRule()     *)
(* within the chain and at a node of the tree.                             *)
THEOREM LoaderTypeCorrect == Spec => []TypeOK
<1> DEFINE Inv == ChainOK /\ TreeOK /\ WalkOK /\ NegationsOK /\ PositionsOK
<1>1. Init => Inv
  <2> SUFFICES ASSUME Init PROVE Inv OBVIOUS
  <2>1. ChainOK /\ TreeOK /\ WalkOK BY InitOK
  <2>2. NegationsOK BY InitNegations
  <2>3. Len(file) \in Nat BY <2>1, LenProperties DEF ChainOK
  <2>4. PositionsOK BY <2>3 DEF Init, PositionsOK, Phases
  <2>5. QED BY <2>1, <2>2, <2>4
<1>2. Inv /\ [Next]_vars => Inv'
  <2> SUFFICES ASSUME Inv, [Next]_vars PROVE Inv' OBVIOUS
  <2>1. line \in Nat \ {0}
    <3>1. Len(file) \in Nat BY LenProperties DEF ChainOK
    <3>2. QED BY <3>1 DEF PositionsOK
  <2>2. ChainOK' BY <2>1, StepChain
  <2>3. TreeOK' /\ WalkOK' BY StepTree, StepWalk
  <2>4. NegationsOK' BY StepNegations
  <2>5. PositionsOK' BY StepPositions
  <2>6. QED BY <2>2, <2>3, <2>4, <2>5
<1>3. Inv => TypeOK
  <2> SUFFICES ASSUME Inv PROVE TypeOK OBVIOUS
  <2>1. tree \in Tree BY DEF TreeOK, WellFormed
  <2>2. stack \in Seq(FrameType)
    <3>1. CASE pc = "negate" BY <3>1 DEF NegationsOK, StackOK
    <3>2. CASE pc # "negate"
      <4>1. stack = <<>> BY <3>2 DEF PositionsOK
      <4>2. QED BY <4>1
    <3>3. QED BY <3>1, <3>2
  <2>3. QED
    BY <2>1, <2>2 DEF TypeOK, ChainOK, TreeOK, NegationsOK, PositionsOK, Definition, FrameType
<1>4. QED BY <1>1, <1>2, <1>3, PTL DEF Spec
-----------------------------------------------------------------------------
(* Paths from the root.                                                    *)

(* Siblings differ in their calls: one call sequence leads to one node. *)
OneNode == \A s \in Seq(Call), n, m \in Node : LeadsTo(s, n) /\ LeadsTo(s, m) => n = m

LEMMA PathsAgree == TreeOK => OneNode
<1> SUFFICES ASSUME TreeOK, NEW s \in Seq(Call), NEW n \in Node, NEW m \in Node,
                    LeadsTo(s, n), LeadsTo(s, m)
             PROVE  n = m
  BY DEF OneNode
<1>1. Len(s) \in Nat /\ DOMAIN s = 1 .. Len(s) BY LenProperties
<1>2. PICK p \in [0 .. Len(s) -> created] :
        /\ p[0] = Root /\ p[Len(s)] = n
        /\ \A i \in DOMAIN s : p[i] \in Kids(tree, p[i - 1]) /\ tree.call[p[i]] = s[i]
  BY DEF LeadsTo
<1>3. PICK q \in [0 .. Len(s) -> created] :
        /\ q[0] = Root /\ q[Len(s)] = m
        /\ \A i \in DOMAIN s : q[i] \in Kids(tree, q[i - 1]) /\ tree.call[q[i]] = s[i]
  BY DEF LeadsTo
<1> DEFINE apart == {i \in 0 .. Len(s) : p[i] # q[i]}
<1>4. SUFFICES ASSUME apart # {} PROVE FALSE BY <1>1, <1>2, <1>3
<1>5. PICK i \in apart : \A j \in apart : i <= j
  <2>1. apart \in SUBSET Nat BY <1>1
  <2>2. QED BY <1>4, <2>1, LeastExists
<1>6. i \in DOMAIN s /\ i - 1 \in 0 .. Len(s) BY <1>1, <1>2, <1>3, <1>5
<1>7. p[i - 1] = q[i - 1]
  <2>1. ~ (i <= i - 1) BY <1>6, <1>1
  <2>2. i - 1 \notin apart BY <1>5, <2>1
  <2>3. QED BY <1>6, <2>2
<1>8. p[i - 1] \in Node BY <1>6 DEF TreeOK
<1>9. p[i] \in Kids(tree, p[i - 1]) /\ q[i] \in Kids(tree, p[i - 1])
      /\ tree.call[p[i]] = tree.call[q[i]]
  BY <1>2, <1>3, <1>6, <1>7
<1>10. p[i] = q[i] BY <1>8, <1>9 DEF TreeOK, WellFormed, Kids
<1>11. QED BY <1>5, <1>10

(* No node has two parents, and the root none: to one node leads one call  *)
(* sequence, for two would agree backwards from the node to the root.      *)
LEMMA OneSequence ==
  ASSUME TreeOK, NEW s \in Seq(Call), NEW u \in Seq(Call), NEW n, LeadsTo(s, n), LeadsTo(u, n)
  PROVE  s = u
<1>1. PICK a \in Nat, b \in Nat : a = Len(s) /\ b = Len(u) BY LenProperties
<1>2. DOMAIN s = 1 .. a /\ DOMAIN u = 1 .. b BY <1>1, LenProperties
<1>3. PICK p \in [0 .. a -> created] :
        /\ p[0] = Root /\ p[a] = n
        /\ \A i \in 1 .. a : p[i] \in Kids(tree, p[i - 1]) /\ tree.call[p[i]] = s[i]
  BY <1>1, <1>2 DEF LeadsTo
<1>4. PICK q \in [0 .. b -> created] :
        /\ q[0] = Root /\ q[b] = n
        /\ \A i \in 1 .. b : q[i] \in Kids(tree, q[i - 1]) /\ tree.call[q[i]] = u[i]
  BY <1>1, <1>2 DEF LeadsTo
<1>5. /\ \A x, y \in Node : \A z : z \in Kids(tree, x) /\ z \in Kids(tree, y) => x = y
      /\ \A x \in Node : Root \notin Kids(tree, x)
      /\ created \subseteq Node
  BY DEF TreeOK, WellFormed
<1> DEFINE apart == {i \in Nat : i <= a /\ i <= b /\ p[a - i] # q[b - i]}
<1>6. apart = {}
  <2>1. SUFFICES ASSUME apart # {} PROVE FALSE OBVIOUS
  <2>2. PICK i \in apart : \A j \in apart : i <= j
    <3>1. apart \in SUBSET Nat OBVIOUS
    <3>2. QED BY <2>1, <3>1, LeastExists
  <2>3. i \in Nat /\ i <= a /\ i <= b /\ p[a - i] # q[b - i] BY <2>2
  <2>4. i # 0
    <3>1. i = 0 => a - i = a /\ b - i = b BY <2>3
    <3>2. QED BY <1>3, <1>4, <2>3, <3>1
  <2>5. PICK m \in Nat : m = i - 1 BY <2>3, <2>4
  <2>6. m \notin apart /\ m <= a /\ m <= b
    <3>1. ~ (i <= m) /\ m <= a /\ m <= b BY <2>3, <2>5
    <3>2. QED BY <2>2, <3>1
  <2>7. PICK v \in Nat, w \in Nat : v = a - m /\ w = b - m BY <2>6
  <2>8. /\ v \in 1 .. a /\ w \in 1 .. b /\ v - 1 \in 0 .. a /\ w - 1 \in 0 .. b
        /\ v - 1 = a - i /\ w - 1 = b - i
    BY <2>3, <2>5, <2>7
  <2>9. p[v] = q[w] BY <2>6, <2>7
  <2>10. p[v] \in Kids(tree, p[v - 1]) /\ q[w] \in Kids(tree, q[w - 1]) BY <1>3, <1>4, <2>8
  <2>11. p[v - 1] \in Node /\ q[w - 1] \in Node BY <1>5, <2>8
  <2>12. QED BY <1>5, <2>3, <2>8, <2>9, <2>10, <2>11
<1>7. \A i \in Nat : i <= a /\ i <= b => p[a - i] = q[b - i] BY <1>6
<1> HIDE DEF apart
<1>8. ~ (a < b)
  <2>1. SUFFICES ASSUME a < b PROVE FALSE OBVIOUS
  <2>2. PICK v \in Nat : v = b - a BY <2>1
  <2>3. v \in 1 .. b /\ v - 1 \in 0 .. b /\ a - a = 0 /\ a <= a /\ a <= b BY <2>1, <2>2
  <2>4. q[v] = Root BY <1>3, <1>7, <2>2, <2>3
  <2>5. q[v - 1] \in Node BY <1>5, <2>3
  <2>6. QED BY <1>4, <1>5, <2>3, <2>4, <2>5
<1>9. ~ (b < a)
  <2>1. SUFFICES ASSUME b < a PROVE FALSE OBVIOUS
  <2>2. PICK v \in Nat : v = a - b BY <2>1
  <2>3. v \in 1 .. a /\ v - 1 \in 0 .. a /\ b - b = 0 /\ b <= b /\ b <= a BY <2>1, <2>2
  <2>4. p[v] = Root BY <1>4, <1>7, <2>2, <2>3
  <2>5. p[v - 1] \in Node BY <1>5, <2>3
  <2>6. QED BY <1>3, <1>5, <2>3, <2>4, <2>5
<1>10. a = b BY <1>8, <1>9
<1>11. ASSUME NEW i \in 1 .. a PROVE s[i] = u[i]
  <2>1. PICK m \in Nat : m = a - i BY <1>11
  <2>2. m <= a /\ a - m = i BY <2>1
  <2>3. p[i] = q[i] BY <1>7, <1>10, <2>2
  <2>4. QED BY <1>3, <1>4, <1>10, <2>3
<1>12. QED BY <1>1, <1>2, <1>10, <1>11, SeqEqual

(* A child prolongs the path. *)
KidsProlong ==
  \A s \in Seq(Call), n \in created, b \in Call : \A c \in Kids(tree, n) :
    LeadsTo(s, n) /\ tree.call[c] = b => LeadsTo(Append(s, b), c)

LEMMA LeadsOn == TreeOK => KidsProlong
<1> SUFFICES ASSUME TreeOK, NEW s \in Seq(Call), NEW n \in created, LeadsTo(s, n),
                    NEW b \in Call, NEW c \in Kids(tree, n), tree.call[c] = b
             PROVE  LeadsTo(Append(s, b), c)
  BY DEF KidsProlong
<1>1. Len(s) \in Nat /\ DOMAIN s = 1 .. Len(s) BY LenProperties
<1>2. PICK p \in [0 .. Len(s) -> created] :
        /\ p[0] = Root /\ p[Len(s)] = n
        /\ \A i \in DOMAIN s : p[i] \in Kids(tree, p[i - 1]) /\ tree.call[p[i]] = s[i]
  BY DEF LeadsTo
<1>3. PICK u : u = Append(s, b) OBVIOUS
<1>4. /\ u \in Seq(Call) /\ Len(u) = Len(s) + 1 /\ u[Len(s) + 1] = b
      /\ \A i \in 1 .. Len(s) : u[i] = s[i]
  BY <1>3, AppendProperties
<1>5. DOMAIN u = 1 .. (Len(s) + 1) BY <1>4, LenProperties
<1>6. c \in created BY DEF TreeOK
<1>7. PICK q : q = [i \in 0 .. (Len(s) + 1) |-> IF i = Len(s) + 1 THEN c ELSE p[i]] OBVIOUS
<1>8. q \in [0 .. Len(u) -> created] BY <1>1, <1>2, <1>4, <1>6, <1>7
<1>9. /\ q[0] = Root /\ q[Len(u)] = c /\ q[Len(s)] = n
      /\ \A i \in 0 .. Len(s) : q[i] = p[i]
  <2>1. 0 \in 0 .. (Len(s) + 1) /\ Len(s) \in 0 .. (Len(s) + 1)
        /\ Len(s) + 1 \in 0 .. (Len(s) + 1) /\ 0 # Len(s) + 1 /\ Len(s) # Len(s) + 1
    <3>1. PICK m \in Nat : m = Len(s) BY <1>1
    <3>2. /\ 0 \in 0 .. (m + 1) /\ m \in 0 .. (m + 1) /\ m + 1 \in 0 .. (m + 1)
          /\ 0 # m + 1 /\ m # m + 1
      BY <3>1
    <3>3. QED BY <3>1, <3>2
  <2>2. q[0] = p[0] /\ q[Len(s)] = p[Len(s)] /\ q[Len(s) + 1] = c BY <1>7, <2>1
  <2>3. \A i \in 0 .. Len(s) : i \in 0 .. (Len(s) + 1) /\ i # Len(s) + 1 BY <1>1
  <2>4. QED BY <1>2, <1>4, <1>7, <2>2, <2>3
<1>10. ASSUME NEW i \in DOMAIN u
       PROVE  q[i] \in Kids(tree, q[i - 1]) /\ tree.call[q[i]] = u[i]
  <2>1. CASE i = Len(s) + 1
    <3>1. i - 1 = Len(s) BY <1>1, <2>1
    <3>2. QED BY <1>4, <1>9, <2>1, <3>1
  <2>2. CASE i # Len(s) + 1
    <3>1. i \in DOMAIN s /\ i \in 0 .. Len(s) /\ i - 1 \in 0 .. Len(s)
      BY <1>1, <1>5, <2>2
    <3>2. QED BY <1>1, <1>2, <1>4, <1>9, <3>1
  <2>3. QED BY <2>1, <2>2
<1>11. LeadsTo(u, c) BY <1>8, <1>9, <1>10 DEF LeadsTo
<1>12. QED BY <1>3, <1>11

(* A new node is a leaf: the paths to the others stay. *)
LEMMA PathsStay ==
  ASSUME TreeOK, Create, c1 \in created, NEW s \in Seq(Call), NEW n \in created
  PROVE  LeadsTo(s, n)' <=> LeadsTo(s, n)
<1>1. Len(s) \in Nat /\ DOMAIN s = 1 .. Len(s) BY LenProperties
<1>2. PICK new \in Node \ created :
        /\ created' = created \cup {new}
        /\ tree'.call = [tree.call EXCEPT ![new] = Head(rest)]
        /\ Kids(tree', c1) = Kids(tree, c1) \cup {new}
        /\ \A x \in Node \ {c1} : Kids(tree', x) = Kids(tree, x)
  BY CreateFacts
<1>3. \A x \in created : x \in Node /\ Kids(tree, x) \subseteq created BY DEF TreeOK
<1>4. \A x \in created : tree'.call[x] = tree.call[x] BY <1>2, <1>3, TreeShape
<1>5. \A x \in created : Kids(tree, x) \subseteq Kids(tree', x)
                         /\ Kids(tree', x) \subseteq Kids(tree, x) \cup {new}
  BY <1>2, <1>3
<1>6. Kids(tree', new) = {}
  <2>1. Kids(tree, new) = {} BY DEF TreeOK, Kids
  <2>2. QED BY <1>2, <2>1
<1>7. ASSUME LeadsTo(s, n) PROVE LeadsTo(s, n)'
  <2>1. PICK p \in [0 .. Len(s) -> created] :
          /\ p[0] = Root /\ p[Len(s)] = n
          /\ \A i \in DOMAIN s : p[i] \in Kids(tree, p[i - 1]) /\ tree.call[p[i]] = s[i]
    BY <1>7 DEF LeadsTo
  <2>2. p \in [0 .. Len(s) -> created'] BY <1>2
  <2>3. ASSUME NEW i \in DOMAIN s
        PROVE  p[i] \in Kids(tree', p[i - 1]) /\ tree'.call[p[i]] = s[i]
    <3>1. i \in 0 .. Len(s) /\ i - 1 \in 0 .. Len(s) BY <1>1
    <3>2. p[i] \in created /\ p[i - 1] \in created BY <3>1
    <3>3. QED BY <1>4, <1>5, <2>1, <3>2
  <2>4. QED BY <2>1, <2>2, <2>3 DEF LeadsTo
<1>8. ASSUME LeadsTo(s, n)' PROVE LeadsTo(s, n)
  <2>1. PICK p \in [0 .. Len(s) -> created'] :
          /\ p[0] = Root /\ p[Len(s)] = n
          /\ \A i \in DOMAIN s : p[i] \in Kids(tree', p[i - 1]) /\ tree'.call[p[i]] = s[i]
    BY <1>8 DEF LeadsTo
  <2>2. ASSUME NEW i \in 0 .. Len(s) PROVE p[i] \in created
    <3>1. CASE i = Len(s) BY <2>1, <3>1
    <3>2. CASE i # Len(s)
      <4>1. i + 1 \in 1 .. Len(s) /\ (i + 1) - 1 = i
        <5>1. PICK m \in Nat : m = Len(s) BY <1>1
        <5>2. i \in 0 .. m /\ i # m BY <5>1, <3>2
        <5>3. i + 1 \in 1 .. m /\ (i + 1) - 1 = i BY <5>2
        <5>4. QED BY <5>1, <5>3
      <4>2. p[i + 1] \in Kids(tree', p[(i + 1) - 1]) BY <1>1, <2>1, <4>1
      <4>3. p[i] # new BY <1>6, <4>1, <4>2
      <4>4. QED BY <1>2, <4>3
    <3>3. QED BY <3>1, <3>2
  <2>3. p \in [0 .. Len(s) -> created] BY <2>2
  <2>4. ASSUME NEW i \in DOMAIN s
        PROVE  p[i] \in Kids(tree, p[i - 1]) /\ tree.call[p[i]] = s[i]
    <3>1. i \in 0 .. Len(s) /\ i - 1 \in 0 .. Len(s) BY <1>1
    <3>2. p[i] \in created /\ p[i - 1] \in created /\ p[i] # new BY <2>2, <3>1
    <3>3. QED BY <1>4, <1>5, <2>1, <3>2
  <2>5. QED BY <2>1, <2>3, <2>4 DEF LeadsTo
<1>9. QED BY <1>7, <1>8

-----------------------------------------------------------------------------
(* The rules of the nodes.                                                 *)

(* What was read of the name leads to c1. *)
LedOK ==
  pc = "walk" =>
    \E s \in Seq(Call) :
      LeadsTo(s, c1) /\ Len(s) = Walked /\ \A i \in 1 .. Walked : s[i] = calls[i]

(* n is the node of the bid sequence that definition p is for. *)
Arrives(p, n) == defs[p].name \in BidSequences /\ LeadsTo(Calls[defs[p].name], n)

(* The definitions that were processed have their nodes, and a node has    *)
(* the rule of the last of its own.                                        *)
NodesOK ==
  /\ \A p \in 1 .. (k - 1) :
       defs[p].name \in BidSequences => \E n \in created : Arrives(p, n)
  /\ \A n \in created :
       (\A p \in 1 .. (k - 1) : ~ Arrives(p, n)) => tree.rule[n] = NULL
  /\ \A n \in created, p \in 1 .. (k - 1) :
       Arrives(p, n) /\ (\A q \in (p + 1) .. (k - 1) : ~ Arrives(q, n))
         => tree.rule[n] = defs[p].body

(* Where the walk is when it has reached a child of c1. *)
LEMMA OneCallOn ==
  ASSUME ChainOK, WalkOK, pc = "walk", rest # <<>>,
         NEW s \in Seq(Call), Len(s) = Walked, \A i \in 1 .. Walked : s[i] = calls[i]
  PROVE  LET u == Append(s, Head(rest))
         IN  /\ u \in Seq(Call) /\ Len(u) = Len(calls) - Len(Tail(rest))
             /\ \A i \in 1 .. (Len(calls) - Len(Tail(rest))) : u[i] = calls[i]
<1>1. PICK w \in Nat : w = Walked BY DEF WalkOK
<1>2. PICK b \in Call : b = Head(rest) BY CallRead
<1>3. b = calls[w + 1] /\ Len(calls) - Len(Tail(rest)) = w + 1 BY <1>1, <1>2, CallRead
<1>4. PICK u : u = Append(s, b) OBVIOUS
<1>5. /\ u \in Seq(Call) /\ Len(u) = w + 1 /\ u[w + 1] = b
      /\ \A i \in 1 .. w : u[i] = s[i]
  BY <1>1, <1>4, AppendProperties
<1>6. \A i \in 1 .. (w + 1) : i \in 1 .. w \/ i = w + 1 BY <1>1
<1>7. \A i \in 1 .. (w + 1) : u[i] = calls[i] BY <1>1, <1>3, <1>5, <1>6
<1>8. QED BY <1>2, <1>3, <1>4, <1>5, <1>7

LEMMA StepLed ==
  ASSUME ChainOK, TreeOK, WalkOK, LedOK, [Next]_vars
  PROVE  LedOK'
<1>1. CASE StartRule
  <2>1. k \in DOMAIN defs
    <3>1. k \in 1 .. Len(defs) BY <1>1, LenProperties DEF StartRule, ChainOK
    <3>2. QED BY <3>1, LenProperties DEF ChainOK
  <2>2. /\ k' = k /\ c1' = Root /\ rest' = calls /\ calls' = calls /\ tree' = tree
        /\ created' = created
    BY <1>1 DEF StartRule, calls, parseVars, treeVars
  <2>3. Walked' = 0 BY <2>1, <2>2, NameFacts DEF Walked
  <2>4. PICK s : s = <<>> OBVIOUS
  <2>5. s \in Seq(Call) /\ Len(s) = 0 /\ DOMAIN s = {} BY <2>4
  <2>6. LeadsTo(s, Root)'
    <3>1. PICK p : p = [i \in 0 .. 0 |-> Root] OBVIOUS
    <3>2. p \in [0 .. Len(s) -> created'] /\ p[0] = Root BY <2>2, <2>5, <3>1 DEF TreeOK
    <3>3. QED BY <2>5, <3>2 DEF LeadsTo
  <2>7. LeadsTo(s, c1)' BY <2>2, <2>6 DEF LeadsTo
  <2>8. \A i \in 1 .. Walked' : s[i] = calls'[i] BY <2>3
  <2>9. QED BY <2>3, <2>5, <2>7, <2>8 DEF LedOK
<1>2. CASE Descend
  <2>1. /\ pc = "walk" /\ rest # <<>> /\ k' = k /\ defs' = defs /\ calls' = calls
        /\ tree' = tree /\ created' = created /\ rest' = Tail(rest)
    BY <1>2 DEF Descend, calls, parseVars, treeVars
  <2>2. PICK c \in Kids(tree, c1) : c1' = c /\ tree.call[c] = Head(rest)
    BY <1>2 DEF Descend, ChildrenFor
  <2>3. PICK s \in Seq(Call) :
          LeadsTo(s, c1) /\ Len(s) = Walked /\ \A i \in 1 .. Walked : s[i] = calls[i]
    BY <2>1 DEF LedOK
  <2>4. PICK u : u = Append(s, Head(rest)) OBVIOUS
  <2>5. /\ u \in Seq(Call) /\ Len(u) = Walked'
        /\ \A i \in 1 .. Walked' : u[i] = calls'[i]
    BY <2>1, <2>3, <2>4, OneCallOn DEF Walked
  <2>6. c1 \in created /\ Head(rest) \in Call BY <2>1, CallRead DEF WalkOK
  <2>7. LeadsTo(u, c) BY <2>2, <2>3, <2>4, <2>6, LeadsOn DEF KidsProlong
  <2>8. LeadsTo(u, c1)' BY <2>1, <2>2, <2>7 DEF LeadsTo
  <2>9. QED BY <2>5, <2>8 DEF LedOK
<1>3. CASE Create
  <2>1. /\ pc = "walk" /\ rest # <<>> /\ k' = k /\ defs' = defs /\ calls' = calls
        /\ rest' = Tail(rest)
    BY <1>3 DEF Create, calls, parseVars
  <2>2. c1 \in created /\ Head(rest) \in Call BY <2>1, CallRead DEF WalkOK
  <2>3. PICK new \in Node \ created :
          /\ created' = created \cup {new} /\ c1' = new
          /\ tree'.call = [tree.call EXCEPT ![new] = Head(rest)]
          /\ Kids(tree', c1) = Kids(tree, c1) \cup {new}
    BY <1>3, <2>2, CreateFacts
  <2>4. tree'.call[new] = Head(rest) BY <2>3, TreeShape
  <2>5. PICK s \in Seq(Call) :
          LeadsTo(s, c1) /\ Len(s) = Walked /\ \A i \in 1 .. Walked : s[i] = calls[i]
    BY <2>1 DEF LedOK
  <2>6. PICK u : u = Append(s, Head(rest)) OBVIOUS
  <2>7. /\ u \in Seq(Call) /\ Len(u) = Walked'
        /\ \A i \in 1 .. Walked' : u[i] = calls'[i]
    BY <2>1, <2>5, <2>6, OneCallOn DEF Walked
  <2>8. PICK n \in created : n = c1 BY <2>2
  <2>9. LeadsTo(s, n)' BY <1>3, <2>2, <2>5, <2>8, PathsStay
  <2>10. TreeOK' BY <1>3, <2>2, CreateTree
  <2>11. PICK c : c = new OBVIOUS
  <2>12. PICK b \in Call : b = Head(rest) BY <2>2
  <2>13. n \in created' /\ c \in Kids(tree', n) /\ tree'.call[c] = b
    BY <2>3, <2>4, <2>8, <2>11, <2>12
  <2>14. (TreeOK => KidsProlong)' BY LeadsOn, PTL
  <2>15. LeadsTo(Append(s, b), c)' BY <2>9, <2>10, <2>13, <2>14 DEF KidsProlong
  <2>16. LeadsTo(u, c)' BY <2>6, <2>12, <2>15
  <2>17. LeadsTo(u, c1)' BY <2>3, <2>11, <2>16 DEF LeadsTo
  <2>18. QED BY <2>7, <2>17 DEF LedOK
<1>4. CASE UNCHANGED vars
  BY <1>4 DEF vars, parseVars, walkVars, treeVars, LedOK, LeadsTo, Walked, calls
<1>5. CASE \/ Define \/ Modify \/ Reject \/ EndOfFile \/ SkipRule \/ EndRule
           \/ StartNegations \/ NegateSibling \/ NegateParent
  <2>1. pc' # "walk"
    BY <1>5 DEF Define, Modify, Reject, EndOfFile, SkipRule, EndRule, StartNegations,
                NegateSibling, NegateParent, Parsing
  <2>2. QED BY <2>1 DEF LedOK
<1>6. QED BY <1>1, <1>2, <1>3, <1>4, <1>5 DEF Next

LEMMA StepNodes ==
  ASSUME ChainOK, TreeOK, WalkOK, NegationsOK, PositionsOK, LedOK, NodesOK, [Next]_vars
  PROVE  NodesOK'
<1>1. Len(defs) \in Nat /\ k \in Nat \ {0} /\ DOMAIN defs = 1 .. Len(defs)
  BY LenProperties DEF ChainOK
<1>2. ASSUME NEW p \in 1 .. (k - 1)
      PROVE  p \in DOMAIN defs /\ defs[p].name \in Name /\ Calls[defs[p].name] \in Seq(Call)
  <2>1. p \in 1 .. Len(defs) BY <1>1 DEF PositionsOK
  <2>2. defs[p] \in Definition BY <1>1, <2>1 DEF ChainOK
  <2>3. QED BY <1>1, <2>1, <2>2, FilesAssumption DEF Definition
<1>3. created \subseteq Node /\ TreeOK' BY StepTree DEF TreeOK
<1>4. CASE Define \/ Modify
  <2>1. pc = "parse" /\ UNCHANGED <<walkVars, treeVars>>
    BY <1>4 DEF Define, Modify, Parsing
  <2>2. k = 1 /\ k' = 1 /\ tree' = tree /\ created' = created
    BY <2>1 DEF PositionsOK, walkVars, treeVars
  <2>3. \A p \in 1 .. (1 - 1) : FALSE OBVIOUS
  <2>4. \A n \in created : tree.rule[n] = NULL BY <2>2, <2>3 DEF NodesOK
  <2>5. QED BY <2>2, <2>3, <2>4 DEF NodesOK
<1>5. CASE \/ Reject \/ EndOfFile \/ StartRule \/ Descend \/ StartNegations \/ NegateSibling
           \/ NegateParent \/ UNCHANGED vars
  <2>1. UNCHANGED <<defs, k, tree, created>>
    BY <1>5 DEF Reject, EndOfFile, StartRule, Descend, StartNegations, NegateSibling,
                NegateParent, vars, parseVars, walkVars, treeVars
  <2>2. \A p, n : Arrives(p, n)' <=> Arrives(p, n) BY <2>1 DEF Arrives, LeadsTo
  <2>3. QED BY <2>1, <2>2 DEF NodesOK
<1>6. CASE SkipRule
  <2>1. /\ UNCHANGED <<defs, tree, created>> /\ k' = k + 1
        /\ k <= Len(defs) /\ Calls[defs[k].name] = <<>>
    BY <1>6 DEF SkipRule, parseVars, treeVars
  <2>2. defs[k].name \notin BidSequences BY <2>1, FilesAssumption
  <2>3. \A n : ~ Arrives(k, n) BY <2>2 DEF Arrives
  <2>4. \A p \in 1 .. (k' - 1) : p \in 1 .. (k - 1) \/ p = k BY <1>1, <2>1
  <2>5. \A p \in 1 .. (k - 1) : p \in 1 .. (k' - 1) BY <1>1, <2>1
  <2>6. \A p \in 1 .. (k - 1) : \A q \in (p + 1) .. (k - 1) : q \in (p + 1) .. (k' - 1)
    BY <1>1, <2>1
  <2>7. \A p, n : Arrives(p, n)' <=> Arrives(p, n) BY <2>1 DEF Arrives, LeadsTo
  <2>8. ASSUME NEW p \in 1 .. (k' - 1), defs[p].name \in BidSequences
        PROVE  \E n \in created : Arrives(p, n)
    BY <2>2, <2>4, <2>8 DEF NodesOK
  <2>9. ASSUME NEW n \in created, \A p \in 1 .. (k' - 1) : ~ Arrives(p, n)
        PROVE  tree.rule[n] = NULL
    BY <2>5, <2>9 DEF NodesOK
  <2>10. ASSUME NEW n \in created, NEW p \in 1 .. (k' - 1), Arrives(p, n),
                \A q \in (p + 1) .. (k' - 1) : ~ Arrives(q, n)
         PROVE  tree.rule[n] = defs[p].body
    <3>1. p \in 1 .. (k - 1) BY <2>3, <2>4, <2>10
    <3>2. QED BY <2>6, <2>10, <3>1 DEF NodesOK
  <2>11. QED BY <2>1, <2>7, <2>8, <2>9, <2>10 DEF NodesOK
<1>7. CASE Create
  <2>1. /\ UNCHANGED <<defs, k>> /\ pc = "walk" BY <1>7 DEF Create, parseVars
  <2>2. c1 \in created BY <2>1 DEF WalkOK
  <2>3. PICK new \in Node \ created : created' = created \cup {new} /\ tree'.rule = tree.rule
    BY <1>7, <2>2, CreateFacts
  <2>4. ASSUME NEW p \in 1 .. (k - 1), NEW n \in created
        PROVE  Arrives(p, n)' <=> Arrives(p, n)
    <3>1. PICK s \in Seq(Call) : s = Calls[defs[p].name] BY <1>2
    <3>2. LeadsTo(s, n)' <=> LeadsTo(s, n) BY <1>7, <2>2, PathsStay
    <3>3. Arrives(p, n) <=> (defs[p].name \in BidSequences /\ LeadsTo(s, n))
      BY <3>1 DEF Arrives
    <3>4. Arrives(p, n)' <=> (defs[p].name \in BidSequences /\ LeadsTo(s, n)')
      BY <2>1, <3>1 DEF Arrives, LeadsTo
    <3>5. QED BY <3>2, <3>3, <3>4
  <2>5. ASSUME NEW p \in 1 .. (k - 1), Arrives(p, new)' PROVE FALSE
    <3>1. PICK s \in Seq(Call) : s = Calls[defs[p].name] BY <1>2
    <3>2. defs[p].name \in BidSequences /\ LeadsTo(s, new)'
      BY <2>1, <2>5, <3>1 DEF Arrives, LeadsTo
    <3>3. PICK n \in created : Arrives(p, n) BY <3>2 DEF NodesOK
    <3>4. Arrives(p, n)' BY <2>4, <3>3
    <3>5. LeadsTo(s, n)' BY <2>1, <3>1, <3>4 DEF Arrives, LeadsTo
    <3>6. (TreeOK => OneNode)' BY PathsAgree, PTL
    <3>7. n = new BY <1>3, <3>2, <3>5, <3>6 DEF OneNode
    <3>8. QED BY <2>3, <3>3, <3>7
  <2>6. tree.rule[new] = NULL BY <2>3 DEF TreeOK
  <2>7. ASSUME NEW p \in 1 .. (k - 1), defs[p].name \in BidSequences
        PROVE  \E n \in created' : Arrives(p, n)'
    BY <2>3, <2>4, <2>7 DEF NodesOK
  <2>8. ASSUME NEW n \in created', \A p \in 1 .. (k - 1) : ~ Arrives(p, n)'
        PROVE  tree'.rule[n] = NULL
    BY <2>3, <2>4, <2>6, <2>8 DEF NodesOK
  <2>9. ASSUME NEW n \in created', NEW p \in 1 .. (k - 1), Arrives(p, n)',
               \A q \in (p + 1) .. (k - 1) : ~ Arrives(q, n)'
        PROVE  tree'.rule[n] = defs[p].body
    <3>1. n \in created BY <2>3, <2>5, <2>9
    <3>2. \A q \in (p + 1) .. (k - 1) : q \in 1 .. (k - 1) BY <1>1
    <3>3. Arrives(p, n) /\ \A q \in (p + 1) .. (k - 1) : ~ Arrives(q, n)
      BY <2>4, <2>9, <3>1, <3>2
    <3>4. QED BY <2>3, <3>1, <3>3 DEF NodesOK
  <2>10. QED BY <2>1, <2>7, <2>8, <2>9 DEF NodesOK
<1>8. CASE EndRule
  <2>1. /\ UNCHANGED <<defs, created>> /\ pc = "walk" /\ rest = <<>> /\ k' = k + 1
        /\ tree' = IF defs[k].name \in BidSequences
                   THEN [tree EXCEPT !.rule[c1] = defs[k].body] ELSE tree
    BY <1>8 DEF EndRule, parseVars
  <2>2. c1 \in created /\ c1 \in Node /\ k \in DOMAIN defs BY <1>3, <2>1 DEF WalkOK
  <2>3. tree'.kids = tree.kids /\ tree'.call = tree.call BY <2>1, TreeShape
  <2>4. \A n \in Node \ {c1} : tree'.rule[n] = tree.rule[n] BY <2>1, TreeShape
  <2>5. /\ defs[k].name \in BidSequences => tree'.rule[c1] = defs[k].body
        /\ defs[k].name \notin BidSequences => tree'.rule[c1] = tree.rule[c1]
    BY <2>1, <2>2, TreeShape
  <2>6. \A p, n : Arrives(p, n)' <=> Arrives(p, n) BY <2>1, <2>3 DEF Arrives, LeadsTo, Kids
  <2>7. calls \in Seq(Call) /\ LeadsTo(calls, c1)
    <3>1. calls \in Seq(Call) /\ Len(calls) \in Nat BY <2>2, NameFacts
    <3>2. PICK s \in Seq(Call) :
            LeadsTo(s, c1) /\ Len(s) = Walked /\ \A i \in 1 .. Walked : s[i] = calls[i]
      BY <2>1 DEF LedOK
    <3>3. Len(rest) = 0 BY <2>1
    <3>4. Walked = Len(calls) BY <3>1, <3>3 DEF Walked
    <3>5. s = calls BY <3>1, <3>2, <3>4, SeqEqual
    <3>6. QED BY <3>1, <3>2, <3>5
  <2>8. defs[k].name \in BidSequences => Arrives(k, c1) BY <2>7 DEF Arrives, calls
  <2>9. ASSUME NEW n \in created, n # c1 PROVE ~ Arrives(k, n)
    BY <1>3, <2>2, <2>7, <2>9, PathsAgree DEF OneNode, Arrives, calls
  <2>10. \A p \in 1 .. (k' - 1) : p \in 1 .. (k - 1) \/ p = k BY <1>1, <2>1
  <2>11. /\ \A p \in 1 .. (k - 1) : p \in 1 .. (k' - 1) /\ k \in (p + 1) .. (k' - 1)
         /\ k \in 1 .. (k' - 1)
    BY <1>1, <2>1
  <2>12. \A p \in 1 .. (k - 1) : \A q \in (p + 1) .. (k - 1) : q \in (p + 1) .. (k' - 1)
    BY <1>1, <2>1
  <2>13. ASSUME NEW p \in 1 .. (k' - 1), defs[p].name \in BidSequences
         PROVE  \E n \in created : Arrives(p, n)
    BY <2>2, <2>8, <2>10, <2>13 DEF NodesOK
  <2>14. ASSUME NEW n \in created, \A p \in 1 .. (k' - 1) : ~ Arrives(p, n)
         PROVE  tree'.rule[n] = NULL
    <3>1. tree.rule[n] = NULL BY <2>11, <2>14 DEF NodesOK
    <3>2. CASE n = c1
      <4>1. ~ Arrives(k, c1) BY <2>11, <2>14, <3>2
      <4>2. QED BY <2>5, <2>8, <3>1, <3>2, <4>1
    <3>3. CASE n # c1 BY <1>3, <2>4, <3>1, <3>3
    <3>4. QED BY <3>2, <3>3
  <2>15. ASSUME NEW n \in created, NEW p \in 1 .. (k' - 1), Arrives(p, n),
                \A q \in (p + 1) .. (k' - 1) : ~ Arrives(q, n)
         PROVE  tree'.rule[n] = defs[p].body
    <3>1. CASE p = k
      <4>1. n = c1 BY <2>9, <2>15, <3>1
      <4>2. defs[k].name \in BidSequences BY <2>15, <3>1 DEF Arrives
      <4>3. QED BY <2>5, <3>1, <4>1, <4>2
    <3>2. CASE p # k
      <4>1. p \in 1 .. (k - 1) BY <2>10, <3>2
      <4>2. ~ Arrives(k, n) BY <2>11, <2>15, <4>1
      <4>3. tree.rule[n] = defs[p].body BY <2>12, <2>15, <4>1 DEF NodesOK
      <4>4. n = c1 => defs[k].name \notin BidSequences BY <2>8, <4>2
      <4>5. QED BY <1>3, <2>4, <2>5, <4>3, <4>4
    <3>3. QED BY <3>1, <3>2
  <2>16. QED BY <2>1, <2>6, <2>13, <2>14, <2>15 DEF NodesOK
<1>9. QED BY <1>4, <1>5, <1>6, <1>7, <1>8 DEF Next

-----------------------------------------------------------------------------
(* The meaning of the names.                                               *)

(* What each statement does to the meanings is done from the first on. *)
LEMMA MeaningSteps ==
  ASSUME Len(file) \in Nat
  PROVE  MeaningAfter = [i \in 0 .. Len(file) |-> IF i = 0 THEN [nm \in Name |-> NULL]
                                                  ELSE Stated(MeaningAfter[i - 1], file[i])]
<1> DEFINE none == [nm \in Name |-> NULL]
           F(f, n) == [i \in 0 .. n |-> IF i = 0 THEN none ELSE Stated(f[i - 1], file[i])]
           bad == {n \in 0 .. Len(file) : ~ \E f : f = F(f, n)}
<1>1. bad = {}
  <2> SUFFICES ASSUME bad # {} PROVE FALSE OBVIOUS
  <2>1. PICK n \in bad : \A j \in bad : n <= j
    <3>1. bad \in SUBSET Nat OBVIOUS
    <3>2. QED BY <3>1, LeastExists
  <2>2. n \in Nat /\ n \in 0 .. Len(file) BY <2>1
  <2>3. CASE n = 0
    <3>1. PICK f : f = [i \in 0 .. n |-> none] OBVIOUS
    <3>2. f = F(f, n) BY <2>3, <3>1
    <3>3. QED BY <2>1, <3>2
  <2>4. CASE n # 0
    <3>1. n - 1 \in 0 .. Len(file) /\ ~ (n <= n - 1) BY <2>2, <2>4
    <3>2. n - 1 \notin bad BY <2>1, <3>1
    <3>3. PICK f : f = F(f, n - 1) BY <3>1, <3>2
    <3>4. PICK g : g = [i \in 0 .. n |-> IF i = n THEN Stated(f[n - 1], file[n]) ELSE f[i]]
      OBVIOUS
    <3>5. \A i \in 0 .. n : i # n => i \in 0 .. (n - 1) /\ g[i] = f[i] BY <2>2, <3>4
    <3>6. g[n] = Stated(f[n - 1], file[n]) /\ g[n - 1] = f[n - 1]
      BY <2>2, <2>4, <3>1, <3>4
    <3>7. ASSUME NEW i \in 0 .. n
          PROVE  g[i] = IF i = 0 THEN none ELSE Stated(g[i - 1], file[i])
      <4>1. CASE i = n BY <2>4, <3>6, <4>1
      <4>2. CASE i # n
        <5>1. i \in 0 .. (n - 1) /\ g[i] = f[i] BY <3>5, <4>2
        <5>2. f[i] = IF i = 0 THEN none ELSE Stated(f[i - 1], file[i])
          <6> HIDE DEF none
          <6>1. QED BY <3>3, <5>1
        <5>3. CASE i = 0 BY <5>1, <5>2, <5>3
        <5>4. CASE i # 0
          <6>1. i - 1 \in 0 .. n /\ i - 1 # n BY <2>2, <5>1, <5>4
          <6>2. g[i - 1] = f[i - 1] BY <3>5, <6>1
          <6>3. QED BY <5>1, <5>2, <5>4, <6>2
        <5>5. QED BY <5>3, <5>4
      <4>3. QED BY <4>1, <4>2
    <3>8. g = F(g, n)
      <4> HIDE DEF none
      <4>1. QED BY <3>4, <3>7
    <3>9. QED BY <2>1, <3>8
  <2>5. QED BY <2>3, <2>4
<1>2. Len(file) \notin bad BY <1>1
<1>3. \E f : f = F(f, Len(file)) BY <1>2
<1>4. QED BY <1>3 DEF MeaningAfter

(* What the names of a chain stand for. *)
Means(ds) == [nm \in Name |-> IF Latest(ds, nm) = 0 THEN NULL ELSE ds[Latest(ds, nm)].body]

LEMMA LatestIs ==
  ASSUME NEW ds \in Seq(Definition), NEW nm, NEW p \in DOMAIN ds, ds[p].name = nm,
         \A q \in DOMAIN ds : ds[q].name = nm => q <= p
  PROVE  Latest(ds, nm) = p
<1>1. p \in {i \in DOMAIN ds : ds[i].name = nm} OBVIOUS
<1>2. DOMAIN ds \subseteq Nat /\ 0 \notin DOMAIN ds
  <2>1. DOMAIN ds = 1 .. Len(ds) /\ Len(ds) \in Nat BY LenProperties
  <2>2. QED BY <2>1
<1>3. PICK l : l = Latest(ds, nm) OBVIOUS
<1>4. \E i \in DOMAIN ds : ds[i].name = nm /\ \A j \in DOMAIN ds : ds[j].name = nm => j <= i
  OBVIOUS
<1>5. l \in DOMAIN ds /\ ds[l].name = nm /\ \A j \in DOMAIN ds : ds[j].name = nm => j <= l
  BY <1>1, <1>3, <1>4 DEF Latest
<1>6. l <= p /\ p <= l /\ l \in Nat /\ p \in Nat BY <1>2, <1>5
<1>7. QED BY <1>3, <1>6

LEMMA LatestNone ==
  ASSUME NEW ds \in Seq(Definition), NEW nm
  PROVE  Latest(ds, nm) = 0 <=> \A q \in DOMAIN ds : ds[q].name # nm
<1>1. 0 \notin DOMAIN ds
  <2>1. DOMAIN ds = 1 .. Len(ds) /\ Len(ds) \in Nat BY LenProperties
  <2>2. QED BY <2>1
<1>2. ASSUME Latest(ds, nm) = 0, NEW q \in DOMAIN ds, ds[q].name = nm PROVE FALSE
  <2> DEFINE at == {i \in DOMAIN ds : ds[i].name = nm}
             back == {Len(ds) - i : i \in at}
  <2>1. Len(ds) \in Nat /\ at \subseteq 1 .. Len(ds) /\ at # {} BY <1>2, LenProperties
  <2>2. back \in SUBSET Nat /\ back # {} BY <2>1
  <2>3. PICK m \in back : \A j \in back : m <= j BY <2>2, LeastExists
  <2>4. PICK i \in at : m = Len(ds) - i BY <2>3
  <2>5. \A j \in at : j <= i
    <3> TAKE j \in at
    <3>1. Len(ds) - j \in back OBVIOUS
    <3>2. m <= Len(ds) - j BY <2>3, <3>1
    <3>3. i \in Nat /\ j \in Nat BY <2>1
    <3>4. QED BY <2>1, <2>4, <3>2, <3>3
  <2>6. Latest(ds, nm) = i BY <2>5, LatestIs
  <2>7. QED BY <1>1, <1>2, <2>6
<1>3. ASSUME \A q \in DOMAIN ds : ds[q].name # nm PROVE Latest(ds, nm) = 0
  BY <1>3 DEF Latest
<1>4. QED BY <1>2, <1>3

(* A definition added gives its name its body. *)
LEMMA MeansAdded ==
  ASSUME NEW ds \in Seq(Definition), NEW d \in Definition
  PROVE  Means(Append(ds, d)) = [Means(ds) EXCEPT ![d.name] = d.body]
<1>1. PICK u : u = Append(ds, d) OBVIOUS
<1>2. PICK n \in Nat : n = Len(ds) BY LenProperties
<1>3. /\ u \in Seq(Definition) /\ Len(u) = n + 1 /\ u[n + 1] = d
      /\ \A i \in 1 .. n : u[i] = ds[i]
  BY <1>1, <1>2, AppendProperties
<1>4. DOMAIN ds = 1 .. n /\ DOMAIN u = 1 .. (n + 1) BY <1>2, <1>3, LenProperties
<1>5. /\ n + 1 \in DOMAIN u
      /\ \A i \in DOMAIN u : i <= n + 1 /\ (i \in DOMAIN ds \/ i = n + 1)
      /\ \A i \in DOMAIN ds : i \in DOMAIN u /\ u[i] = ds[i]
  BY <1>2, <1>3, <1>4
<1>6. Latest(u, d.name) = n + 1 BY <1>3, <1>5, LatestIs
<1>7. ASSUME NEW nm \in Name, nm # d.name
      PROVE  /\ Latest(u, nm) = Latest(ds, nm)
             /\ Latest(ds, nm) # 0 => u[Latest(ds, nm)] = ds[Latest(ds, nm)]
  <2>1. CASE Latest(ds, nm) = 0
    <3>1. \A q \in DOMAIN ds : ds[q].name # nm BY <2>1, LatestNone
    <3>2. \A q \in DOMAIN u : u[q].name # nm BY <1>3, <1>5, <1>7, <3>1
    <3>3. Latest(u, nm) = 0 BY <1>3, <3>2, LatestNone
    <3>4. QED BY <2>1, <3>3
  <2>2. CASE Latest(ds, nm) # 0
    <3>1. PICK l : l = Latest(ds, nm) OBVIOUS
    <3>2. l \in DOMAIN ds /\ ds[l].name = nm
          /\ \A j \in DOMAIN ds : ds[j].name = nm => j <= l
      BY <2>2, <3>1, LatestFact
    <3>3. \A q \in DOMAIN u : u[q].name = nm => q <= l BY <1>3, <1>5, <1>7, <3>2
    <3>4. Latest(u, nm) = l BY <1>3, <1>5, <3>2, <3>3, LatestIs
    <3>5. QED BY <1>5, <3>1, <3>2, <3>4
  <2>3. QED BY <2>1, <2>2
<1>8. n + 1 # 0 BY <1>2
<1>9. d.name \in Name BY DEF Definition
<1>10. ASSUME NEW nm \in Name
       PROVE  Means(u)[nm] = [Means(ds) EXCEPT ![d.name] = d.body][nm]
  <2>1. CASE nm = d.name BY <1>3, <1>6, <1>8, <2>1 DEF Means
  <2>2. CASE nm # d.name BY <1>7, <2>2 DEF Means
  <2>3. QED BY <2>1, <2>2
<1>11. QED BY <1>1, <1>10 DEF Means

(* A definition modified in its place gives its name the new body. *)
LEMMA MeansModified ==
  ASSUME NEW ds \in Seq(Definition), NEW name \in Name, Latest(ds, name) # 0, NEW body \in Rule
  PROVE  Means(Modified(ds, name, body)) = [Means(ds) EXCEPT ![name] = body]
<1>1. PICK l : l = Latest(ds, name) OBVIOUS
<1>2. l \in DOMAIN ds /\ ds[l].name = name BY <1>1, LatestFact
<1>3. ds[l] \in Definition BY <1>2
<1>4. PICK d \in Definition : d = [ds[l] EXCEPT !.body = body] /\ d.name = name /\ d.body = body
  <2>1. PICK e : e = [ds[l] EXCEPT !.body = body] OBVIOUS
  <2>2. e \in Definition /\ e.name = name /\ e.body = body BY <1>2, <1>3, <2>1 DEF Definition
  <2>3. QED BY <2>1, <2>2
<1>5. PICK u : u = Modified(ds, name, body) OBVIOUS
<1>6. u = [ds EXCEPT ![l] = d] BY <1>1, <1>4, <1>5 DEF Modified
<1>7. u \in Seq(Definition) /\ DOMAIN u = DOMAIN ds /\ u[l] = d
      /\ \A i \in DOMAIN ds : i # l => u[i] = ds[i]
  BY <1>2, <1>6, ExceptSeq
<1>8. \A i \in DOMAIN ds : u[i].name = ds[i].name BY <1>2, <1>4, <1>7
<1>9. ASSUME NEW nm \in Name PROVE Latest(u, nm) = Latest(ds, nm)
  <2>1. CASE Latest(ds, nm) = 0
    <3>1. \A q \in DOMAIN ds : ds[q].name # nm BY <2>1, LatestNone
    <3>2. \A q \in DOMAIN u : u[q].name # nm BY <1>7, <1>8, <3>1
    <3>3. Latest(u, nm) = 0 BY <1>7, <3>2, LatestNone
    <3>4. QED BY <2>1, <3>3
  <2>2. CASE Latest(ds, nm) # 0
    <3>1. PICK m : m = Latest(ds, nm) OBVIOUS
    <3>2. m \in DOMAIN ds /\ ds[m].name = nm
          /\ \A j \in DOMAIN ds : ds[j].name = nm => j <= m
      BY <2>2, <3>1, LatestFact
    <3>3. Latest(u, nm) = m BY <1>7, <1>8, <3>2, LatestIs
    <3>4. QED BY <3>1, <3>3
  <2>3. QED BY <2>1, <2>2
<1>10. ASSUME NEW nm \in Name
       PROVE  Means(u)[nm] = [Means(ds) EXCEPT ![name] = body][nm]
  <2>1. CASE nm = name BY <1>1, <1>4, <1>7, <1>9, <2>1 DEF Means
  <2>2. CASE nm # name
    <3>1. CASE Latest(ds, nm) = 0 BY <1>9, <2>2, <3>1 DEF Means
    <3>2. CASE Latest(ds, nm) # 0
      <4>1. Latest(ds, nm) \in DOMAIN ds /\ ds[Latest(ds, nm)].name = nm BY <3>2, LatestFact
      <4>2. Latest(ds, nm) # l BY <1>2, <2>2, <4>1
      <4>3. u[Latest(ds, nm)] = ds[Latest(ds, nm)] BY <1>7, <4>1, <4>2
      <4>4. QED BY <1>9, <2>2, <3>2, <4>3 DEF Means
    <3>3. QED BY <3>1, <3>2
  <2>3. QED BY <2>1, <2>2
<1>11. QED BY <1>5, <1>10 DEF Means

LEMMA MeantIsBody ==
  ASSUME NEW ds, NEW e
  PROVE  Meant(Means(ds), e) = Body(ds, e)
<1>1. CASE e = AnyName BY <1>1, FilesAssumption DEF Meant, Body, find_rule
<1>2. CASE e \in Name /\ e # AnyName
  <2>1. Meant(Means(ds), e) = Means(ds)[e] BY <1>2 DEF Meant
  <2>2. Body(ds, e) = IF Latest(ds, e) = 0 THEN NULL ELSE ds[Latest(ds, e)].body
    BY <1>2 DEF Body, find_rule, NoBody
  <2>3. QED BY <1>2, <2>1, <2>2 DEF Means
<1>3. CASE e \notin Name BY <1>3, FilesAssumption DEF Meant, Body
<1>4. QED BY <1>1, <1>2, <1>3

LEMMA StatedFacts ==
  ASSUME NEW m, NEW s
  PROVE  /\ s.op = ":=" => Stated(m, s) = [m EXCEPT ![s.name] = Meant(m, s.expr)]
         /\ s.op = ":&" => Stated(m, s) = [m EXCEPT ![s.name] = Conjunction(@, Meant(m, s.expr))]
         /\ s.op = ":|" => Stated(m, s) = [m EXCEPT ![s.name] = Disjunction(@, Meant(m, s.expr))]
  BY DEF Stated

(* The chain has the names that the statements read so far define. *)
ChainNames ==
  \A nm \in Name :
    (\E p \in DOMAIN defs : defs[p].name = nm)
      <=> \E i \in 1 .. (line - 1) : Defines(file[i], nm)

(* The chain says what the statements read so far mean. *)
ParsedOK ==
  /\ MeaningAfter[line - 1] = Means(defs)
  /\ ChainNames
  /\ pc \notin {"parse", "failed"} => line = Len(file) + 1
  /\ pc \in {"negate", "ready"} => k = Len(defs) + 1

LEMMA DefineNames ==
  ASSUME ChainOK, PositionsOK, ChainNames, Define
  PROVE  ChainNames'
<1>1. PICK n \in Nat : n = Len(defs) BY LenProperties DEF ChainOK
<1>2. PICK l \in Nat \ {0} : l = line
  <2>1. Len(file) \in Nat BY LenProperties DEF ChainOK
  <2>2. QED BY <2>1 DEF PositionsOK
<1>3. PICK d \in Definition : d = [name |-> stat.name, body |-> Body(defs, stat.expr)]
  <2>1. stat \in Statement /\ Body(defs, stat.expr) \in Rule
    BY <1>2, StatementFacts DEF Define
  <2>2. QED BY <2>1 DEF Statement, Definition
<1>4. /\ defs' = Append(defs, d) /\ file' = file /\ line' = l + 1
      /\ stat.op = ":=" /\ d.name = stat.name /\ stat = file[l]
  BY <1>2, <1>3 DEF Define, stat
<1>5. PICK u : u = defs' OBVIOUS
<1>6. /\ n + 1 \in DOMAIN u /\ u[n + 1] = d
      /\ \A i \in DOMAIN u : i \in DOMAIN defs \/ i = n + 1
      /\ \A i \in DOMAIN defs : i \in DOMAIN u /\ u[i] = defs[i]
  <2>1. u \in Seq(Definition) /\ Len(u) = n + 1 /\ u[n + 1] = d /\ \A i \in 1 .. n : u[i] = defs[i]
    BY <1>1, <1>4, <1>5, AppendProperties DEF ChainOK
  <2>2. DOMAIN defs = 1 .. n /\ DOMAIN u = 1 .. (n + 1)
    BY <1>1, <2>1, LenProperties DEF ChainOK
  <2>3. QED BY <1>1, <2>1, <2>2
<1>7. /\ \A i \in 1 .. (line' - 1) : i \in 1 .. (line - 1) \/ i = l
      /\ \A i \in 1 .. (line - 1) : i \in 1 .. (line' - 1)
      /\ l \in 1 .. (line' - 1)
  BY <1>2, <1>4
<1>8. \A nm : Defines(file[l], nm) <=> d.name = nm BY <1>4 DEF Defines
<1>9. SUFFICES ASSUME NEW nm \in Name
               PROVE  (\E p \in DOMAIN u : u[p].name = nm)
                        <=> \E i \in 1 .. (line' - 1) : Defines(file[i], nm)
  BY <1>4, <1>5 DEF ChainNames
<1>10. (\E p \in DOMAIN u : u[p].name = nm)
         <=> (\E p \in DOMAIN defs : defs[p].name = nm) \/ d.name = nm
  BY <1>6
<1>11. QED BY <1>7, <1>8, <1>10 DEF ChainNames

LEMMA ModifyNames ==
  ASSUME ChainOK, PositionsOK, ChainNames, Modify
  PROVE  ChainNames'
<1>1. PICK l \in Nat \ {0} : l = line
  <2>1. Len(file) \in Nat BY LenProperties DEF ChainOK
  <2>2. QED BY <2>1 DEF PositionsOK
<1>2. file' = file /\ line' = l + 1 /\ stat.op # ":=" /\ stat = file[l]
  BY <1>1 DEF Modify, stat
<1>3. DOMAIN defs' = DOMAIN defs /\ \A p \in DOMAIN defs : defs'[p].name = defs[p].name
  <2>1. Latest(defs, stat.name) \in DOMAIN defs BY LatestFact DEF Modify, ChainOK
  <2>2. PICK body : defs' = Modified(defs, stat.name, body) BY DEF Modify
  <2>3. PICK x : x = Latest(defs, stat.name) OBVIOUS
  <2>4. defs' = [defs EXCEPT ![x] = [defs[x] EXCEPT !.body = body]] BY <2>2, <2>3 DEF Modified
  <2>5. defs[x] \in Definition BY <2>1, <2>3 DEF ChainOK
  <2>6. [defs[x] EXCEPT !.body = body].name = defs[x].name BY <2>5 DEF Definition
  <2>7. QED BY <2>1, <2>3, <2>4, <2>6
<1>4. /\ \A i \in 1 .. (line' - 1) : i \in 1 .. (line - 1) \/ i = l
      /\ \A i \in 1 .. (line - 1) : i \in 1 .. (line' - 1)
  BY <1>1, <1>2
<1>5. \A nm : ~ Defines(file[l], nm) BY <1>2 DEF Defines
<1>6. SUFFICES ASSUME NEW nm \in Name
               PROVE  (\E p \in DOMAIN defs : defs[p].name = nm)
                        <=> \E i \in 1 .. (line' - 1) : Defines(file[i], nm)
  BY <1>2, <1>3 DEF ChainNames
<1>7. QED BY <1>4, <1>5 DEF ChainNames

LEMMA StepParsed ==
  ASSUME ChainOK, WalkOK, PositionsOK, ParsedOK, [Next]_vars
  PROVE  ParsedOK'
<1>1. Len(file) \in Nat /\ Len(defs) \in Nat BY LenProperties DEF ChainOK
<1>2. line \in Nat \ {0} BY <1>1 DEF PositionsOK
<1>3. file' = file => MeaningAfter' = MeaningAfter BY DEF MeaningAfter
<1>4. ASSUME Parsing
      PROVE  MeaningAfter[(line + 1) - 1] = Stated(Means(defs), stat)
  <2>1. line \in 0 .. Len(file) /\ line # 0 /\ (line + 1) - 1 = line BY <1>1, <1>2, <1>4 DEF Parsing
  <2>2. MeaningAfter[line] = Stated(MeaningAfter[line - 1], file[line])
    BY <1>1, <2>1, MeaningSteps
  <2>3. QED BY <2>1, <2>2 DEF ParsedOK, stat
<1>5. CASE Define
  <2>1. /\ Parsing /\ stat.op = ":=" /\ file' = file /\ line' = line + 1 /\ pc' = pc
        /\ pc = "parse"
        /\ defs' = Append(defs, [name |-> stat.name, body |-> Body(defs, stat.expr)])
    BY <1>5 DEF Define, Parsing
  <2>2. stat \in Statement /\ Body(defs, stat.expr) \in Rule
    BY <1>2, <1>5, StatementFacts DEF Define
  <2>3. PICK d \in Definition : d = [name |-> stat.name, body |-> Body(defs, stat.expr)]
    BY <2>2 DEF Statement, Definition
  <2>4. d.name = stat.name /\ d.body = Body(defs, stat.expr) BY <2>3
  <2>5. Means(defs') = [Means(defs) EXCEPT ![stat.name] = Body(defs, stat.expr)]
    BY <2>1, <2>3, <2>4, MeansAdded DEF ChainOK
  <2>6. MeaningAfter'[line' - 1] = Means(defs')
    BY <1>3, <1>4, <2>1, <2>5, StatedFacts, MeantIsBody
  <2>7. Means(defs)' = Means(defs') BY DEF Means
  <2>8. ChainNames' BY <1>5, DefineNames DEF ParsedOK
  <2>9. QED BY <2>1, <2>6, <2>7, <2>8 DEF ParsedOK
<1>6. CASE Modify
  <2>1. /\ Parsing /\ stat.op \in {":&", ":|"} /\ file' = file /\ line' = line + 1 /\ pc' = pc
        /\ pc = "parse" /\ Latest(defs, stat.name) # 0
    BY <1>6 DEF Modify, Parsing
  <2>2. stat \in Statement /\ Body(defs, stat.expr) \in Rule
    BY <1>2, <1>6, StatementFacts DEF Modify
  <2>3. stat.name \in Name BY <2>2 DEF Statement
  <2>4. PICK old : old = defs[Latest(defs, stat.name)].body OBVIOUS
  <2>5. old \in Rule
    <3>1. defs[Latest(defs, stat.name)] \in Definition BY <2>1, LatestFact DEF ChainOK
    <3>2. QED BY <2>4, <3>1 DEF Definition
  <2>6. Means(defs)[stat.name] = old BY <2>1, <2>3, <2>4 DEF Means
  <2>7. PICK new : new = Body(defs, stat.expr) OBVIOUS
  <2>8. PICK body \in Rule :
          /\ body = IF stat.op = ":&" THEN Conjunction(old, new) ELSE Disjunction(old, new)
          /\ defs' = Modified(defs, stat.name, body)
    <3>1. Conjunction(old, new) \in Rule /\ Disjunction(old, new) \in Rule
      BY <2>2, <2>5, <2>7, RuleFacts
    <3>2. QED BY <1>6, <2>4, <2>7, <3>1 DEF Modify
  <2>9. Means(defs') = [Means(defs) EXCEPT ![stat.name] = body]
    BY <2>1, <2>3, <2>8, MeansModified DEF ChainOK
  <2>10. Stated(Means(defs), stat) = [Means(defs) EXCEPT ![stat.name] = body]
    <3>1. Meant(Means(defs), stat.expr) = new BY <2>7, MeantIsBody
    <3>2. CASE stat.op = ":&"
      <4>1. body = Conjunction(Means(defs)[stat.name], new) BY <2>6, <2>8, <3>2
      <4>2. QED BY <3>1, <3>2, <4>1, StatedFacts
    <3>3. CASE stat.op = ":|"
      <4>1. body = Disjunction(Means(defs)[stat.name], new) BY <2>6, <2>8, <3>3
      <4>2. QED BY <3>1, <3>3, <4>1, StatedFacts
    <3>4. QED BY <2>1, <3>2, <3>3
  <2>11. MeaningAfter'[line' - 1] = Means(defs') BY <1>3, <1>4, <2>1, <2>9, <2>10
  <2>12. Means(defs)' = Means(defs') BY DEF Means
  <2>13. ChainNames' BY <1>6, ModifyNames DEF ParsedOK
  <2>14. QED BY <2>1, <2>11, <2>12, <2>13 DEF ParsedOK
<1>7. ASSUME UNCHANGED parseVars
      PROVE  MeaningAfter'[line' - 1] = Means(defs)' /\ ChainNames'
  <2>1. file' = file /\ line' = line /\ defs' = defs BY <1>7 DEF parseVars
  <2>2. Means(defs)' = Means(defs) BY <2>1 DEF Means
  <2>3. ChainNames' BY <2>1 DEF ParsedOK, ChainNames
  <2>4. QED BY <1>3, <2>1, <2>2, <2>3 DEF ParsedOK
<1>8. CASE Reject
  BY <1>7, <1>8 DEF Reject, ParsedOK
<1>9. CASE EndOfFile
  <2>1. line = Len(file) + 1 BY <1>1, <1>9 DEF EndOfFile, PositionsOK
  <2>2. QED BY <1>7, <1>9, <2>1 DEF EndOfFile, ParsedOK, parseVars
<1>10. CASE StartNegations
  <2>1. k = Len(defs) + 1 BY <1>1, <1>10 DEF StartNegations, PositionsOK
  <2>2. QED BY <1>7, <1>10, <2>1 DEF StartNegations, ParsedOK, parseVars, walkVars
<1>11. CASE SkipRule \/ StartRule \/ Descend \/ Create \/ EndRule
  <2>1. UNCHANGED parseVars /\ pc \in {"process", "walk"} /\ pc' \in {"process", "walk"}
    BY <1>11 DEF SkipRule, StartRule, Descend, Create, EndRule
  <2>2. QED BY <1>7, <2>1 DEF ParsedOK, parseVars
<1>12. CASE NegateSibling \/ NegateParent
  <2>1. UNCHANGED <<parseVars, walkVars>> /\ pc = "negate" /\ pc' \in {"negate", "ready"}
    BY <1>12 DEF NegateSibling, NegateParent
  <2>2. QED BY <1>7, <2>1 DEF ParsedOK, parseVars, walkVars
<1>13. CASE UNCHANGED vars
  BY <1>7, <1>13 DEF ParsedOK, vars, parseVars, walkVars
<1>14. QED BY <1>5, <1>6, <1>8, <1>9, <1>10, <1>11, <1>12, <1>13 DEF Next

LEMMA InitMeanings == Init => LedOK /\ NodesOK /\ ParsedOK
<1> SUFFICES ASSUME Init PROVE LedOK /\ NodesOK /\ ParsedOK OBVIOUS
<1>1. /\ line = 1 /\ pc = "parse" /\ defs = <<>> /\ k = 1
      /\ tree.rule = [n \in Node |-> NULL] /\ created = {Root} /\ Root \in Node
  BY TreeAssumption DEF Init
<1>2. 1 .. (1 - 1) = {} OBVIOUS
<1>3. NodesOK BY <1>1, <1>2 DEF NodesOK
<1>4. Len(file) \in Nat BY InitOK, LenProperties DEF ChainOK
<1>5. MeaningAfter[0] = [nm \in Name |-> NULL]
  <2>1. 0 \in 0 .. Len(file) BY <1>4
  <2>2. QED BY <1>4, <2>1, MeaningSteps
<1>6. defs \in Seq(Definition) /\ DOMAIN defs = {} BY <1>1
<1>7. \A nm \in Name : Latest(defs, nm) = 0 BY <1>6, LatestNone
<1>8. Means(defs) = [nm \in Name |-> NULL] BY <1>7 DEF Means
<1>9. ChainNames BY <1>1, <1>2, <1>6 DEF ChainNames
<1>10. 1 - 1 = 0 OBVIOUS
<1>11. QED BY <1>1, <1>3, <1>5, <1>8, <1>9, <1>10 DEF LedOK, ParsedOK

(* However often a file defines and modifies its names, the node of a bid  *)
(* sequence ends up with the meaning that its name has at the end of the   *)
(* file: the walk of processRule() reaches one node per name, which no     *)
(* other name leads to, in the order of the chain, and the chain's last    *)
(* definition of a name is the one ":&" and ":|" kept up to date.          *)
THEOREM NodesAreNamed == Spec => []NodesMeanTheirNames
<1> DEFINE Inv == /\ ChainOK /\ TreeOK /\ WalkOK /\ NegationsOK /\ PositionsOK
                  /\ LedOK /\ NodesOK /\ ParsedOK
<1>1. Init => Inv
  <2> SUFFICES ASSUME Init PROVE Inv OBVIOUS
  <2>1. ChainOK /\ TreeOK /\ WalkOK BY InitOK
  <2>2. Len(file) \in Nat BY <2>1, LenProperties DEF ChainOK
  <2>3. PositionsOK BY <2>1, <2>2 DEF Init, PositionsOK, Phases
  <2>4. QED BY <2>1, <2>3, InitNegations, InitMeanings
<1>2. Inv /\ [Next]_vars => Inv'
  <2> SUFFICES ASSUME Inv, [Next]_vars PROVE Inv' OBVIOUS
  <2>1. line \in Nat \ {0}
    <3>1. Len(file) \in Nat BY LenProperties DEF ChainOK
    <3>2. QED BY <3>1 DEF PositionsOK
  <2>2. ChainOK' BY <2>1, StepChain
  <2>3. TreeOK' /\ WalkOK' BY StepTree, StepWalk
  <2>4. NegationsOK' BY StepNegations
  <2>5. PositionsOK' BY StepPositions
  <2>6. LedOK' /\ NodesOK' BY StepLed, StepNodes
  <2>7. ParsedOK' BY StepParsed
  <2>8. QED BY <2>2, <2>3, <2>4, <2>5, <2>6, <2>7
<1>3. Inv => NodesMeanTheirNames
  <2> SUFFICES ASSUME Inv, pc = "ready"
               PROVE  /\ \A nm \in GivenNames :
                           \E n \in created : LeadsTo(Calls[nm], n) /\ tree.rule[n] = Meaning[nm]
                      /\ \A n \in created :
                           (\A nm \in GivenNames : ~ LeadsTo(Calls[nm], n)) => tree.rule[n] = NULL
    BY DEF NodesMeanTheirNames
  <2>1. /\ Len(file) \in Nat /\ DOMAIN file = 1 .. Len(file)
        /\ Len(defs) \in Nat /\ DOMAIN defs = 1 .. Len(defs)
    BY LenProperties DEF ChainOK
  <2>2. line = Len(file) + 1 /\ k = Len(defs) + 1 BY DEF ParsedOK
  <2>3. 1 .. (line - 1) = DOMAIN file /\ 1 .. (k - 1) = DOMAIN defs /\ line - 1 = Len(file)
    BY <2>1, <2>2
  <2>4. Meaning = Means(defs) BY <2>3 DEF Meaning, ParsedOK
  <2>5. \A nm \in BidSequences :
          nm \in GivenNames <=> \E p \in DOMAIN defs : defs[p].name = nm
    BY <2>3, FilesAssumption DEF ParsedOK, ChainNames, GivenNames
  <2>6. ASSUME NEW nm \in GivenNames
        PROVE  \E n \in created : LeadsTo(Calls[nm], n) /\ tree.rule[n] = Meaning[nm]
    <3>1. nm \in BidSequences /\ nm \in Name BY FilesAssumption DEF GivenNames
    <3>2. PICK l : l = Latest(defs, nm) OBVIOUS
    <3>3. l # 0 BY <2>5, <3>1, <3>2, LatestNone DEF ChainOK
    <3>4. /\ l \in DOMAIN defs /\ defs[l].name = nm
          /\ \A q \in DOMAIN defs : defs[q].name = nm => q <= l
      BY <3>2, <3>3, LatestFact DEF ChainOK
    <3>5. PICK n \in created : Arrives(l, n) BY <2>3, <3>1, <3>4 DEF NodesOK
    <3>6. LeadsTo(Calls[nm], n) BY <3>4, <3>5 DEF Arrives
    <3>7. ASSUME NEW q \in (l + 1) .. (k - 1) PROVE ~ Arrives(q, n)
      <4>1. q \in DOMAIN defs /\ ~ (q <= l) BY <2>1, <2>2, <2>3, <3>4
      <4>2. SUFFICES ASSUME Arrives(q, n) PROVE FALSE OBVIOUS
      <4>3. PICK other \in BidSequences : other = defs[q].name /\ LeadsTo(Calls[other], n)
        BY <4>2 DEF Arrives
      <4>4. Calls[nm] \in Seq(Call) /\ Calls[other] \in Seq(Call)
        BY <3>1, FilesAssumption
      <4>5. Calls[nm] = Calls[other] BY <3>6, <4>3, <4>4, OneSequence
      <4>6. nm = other BY <3>1, <4>5, FilesAssumption
      <4>7. QED BY <3>4, <4>1, <4>3, <4>6
    <3>8. tree.rule[n] = defs[l].body BY <2>3, <3>4, <3>5, <3>7 DEF NodesOK
    <3>9. Means(defs)[nm] = defs[l].body BY <3>1, <3>2, <3>3 DEF Means
    <3>10. QED BY <2>4, <3>6, <3>8, <3>9
  <2>7. ASSUME NEW n \in created, \A nm \in GivenNames : ~ LeadsTo(Calls[nm], n)
        PROVE  tree.rule[n] = NULL
    <3>1. ASSUME NEW p \in 1 .. (k - 1) PROVE ~ Arrives(p, n)
      <4>1. p \in DOMAIN defs BY <2>3
      <4>2. QED BY <2>5, <2>7, <4>1 DEF Arrives
    <3>2. QED BY <3>1 DEF NodesOK
  <2>8. QED BY <2>6, <2>7
<1>4. QED BY <1>1, <1>2, <1>3, PTL DEF Spec
====
