---------------------------- MODULE ArenaProofs ----------------------------
(***************************************************************************)
(* No node in use is handed out again, for blocks of any size, boards that *)
(* need any number of nodes and any number of runs and boards, but that of *)
(* $ANY if a board made it; and boards share their blocks.                 *)
(***************************************************************************)
EXTENDS Arena, SequenceTheorems, TLAPS

(* A node of the current board: its slot is one of those handed out. *)
InUse(p) ==
  \/ p.block = 0
  \/ /\ p.block \in DOMAIN blocks
     /\ p.slot \in 1 .. blocks[p.block]
     /\ <<p.block, p.slot>> \in DOMAIN memory
     /\ memory[<<p.block, p.slot>>] = p.made

BlocksOK ==
  /\ blocks \in Seq(Nat) /\ current \in 0 .. Len(blocks) /\ calls \in Nat
  /\ phase \in {"load", "boards", "deal", "bid"}
  /\ phase = "load" => current = 0
  /\ phase \in {"deal", "bid"} => current # 0

(* What outlives a board was made before the first one, except for $ANY's  *)
(* node, which is in use as long as the board that made it is bid.         *)
Lasts(p) == InUse(p) \/ MadeByEarlierBoard(p)

LastingOK ==
  /\ inBoard \in Nat
  /\ \A p \in permanent : p.block = 0
  /\ builtinAny # NULL =>
       Lasts(builtinAny) /\ builtinAny.made \in Nat /\ builtinAny.made <= calls

(* What a board builds is dropped with it. *)
BoardOK ==
  /\ DOMAIN rules = Seat
  /\ \A p \in fresh : InUse(p)
  /\ \A s \in Seat : \A p \in rules[s] : Lasts(p)
  /\ phase # "bid" => fresh = {} /\ \A s \in Seat : rules[s] = {}

IInv == BlocksOK /\ LastingOK /\ BoardOK

-----------------------------------------------------------------------------
(* make_leaf() hands out a slot that no node has, and touches no other. *)
LEMMA MakeLeaf ==
  ASSUME BlocksOK, make_leaf
  PROVE  /\ blocks' \in Seq(Nat) /\ current' \in 0 .. Len(blocks') /\ calls' \in Nat
         /\ current' = 0 <=> current = 0
         /\ current = 0 => NewNode.block = 0
         /\ \A p : p = NewNode \/ InUse(p) => InUse(p)'
<1> DEFINE n == NewNode
<1>1. CASE current = 0
  <2>1. Filled = 0 /\ ~ Active BY <1>1 DEF Filled, Active
  <2>2. blocks' = blocks /\ current' = 0 /\ memory' = memory /\ calls' = calls + 1
    BY <2>1 DEF make_leaf
  <2>3. NewNode.block = 0 BY <2>1 DEF NewNode
  <2>4. QED BY <1>1, <2>2, <2>3 DEF BlocksOK, InUse
<1>2. CASE current # 0
  <2> DEFINE f == Filled
             g == IF f > Len(blocks) THEN Append(blocks, 0) ELSE blocks
  <2>1. /\ f \in 1 .. (Len(blocks) + 1) /\ Len(blocks) \in Nat
        /\ g \in Seq(Nat) /\ f \in DOMAIN g /\ Len(g) \in Nat
        /\ DOMAIN blocks \subseteq DOMAIN g /\ \A b \in DOMAIN blocks : g[b] = blocks[b]
        /\ g[f] \in Nat
    BY <1>2 DEF BlocksOK, Filled, Active
  <2>2. UsedAfter = [g EXCEPT ![f] = @ + 1] BY DEF UsedAfter
  <2>3. blocks' = UsedAfter /\ current' = f /\ calls' = calls + 1
    BY <1>2 DEF make_leaf, Active
  <2>4. memory' = [a \in DOMAIN memory \cup {<<n.block, n.slot>>} |->
                     IF a = <<n.block, n.slot>> THEN n.made ELSE memory[a]]
    BY <1>2 DEF make_leaf, Active
  <2>5. n.block = f /\ n.slot = UsedAfter[f] /\ n.made = calls + 1
    BY <1>2 DEF NewNode, Active
  <2> HIDE DEF n, f, g
  <2>6. /\ blocks' \in Seq(Nat) /\ Len(blocks') = Len(g) /\ DOMAIN blocks' = DOMAIN g
        /\ blocks'[f] = g[f] + 1 /\ \A b \in DOMAIN g : b # f => blocks'[b] = g[b]
    BY <2>1, <2>2, <2>3
  <2>7. n.slot = g[f] + 1 BY <2>2, <2>3, <2>5, <2>6
  <2>8. ASSUME NEW p, p = n PROVE InUse(p)'
    <3>1. p.slot \in 1 .. blocks'[f] BY <2>1, <2>6, <2>7, <2>8
    <3>2. <<p.block, p.slot>> \in DOMAIN memory' /\ memory'[<<p.block, p.slot>>] = p.made
      BY <2>4, <2>8
    <3>3. p.block = f /\ f \in DOMAIN blocks' BY <2>1, <2>5, <2>6, <2>8
    <3>4. QED BY <3>1, <3>2, <3>3 DEF InUse
  <2>9. ASSUME NEW p, InUse(p) PROVE InUse(p)'
    <3>1. CASE p.block = 0 BY <3>1 DEF InUse
    <3>2. CASE p.block # 0
      <4>1. /\ p.block \in DOMAIN blocks /\ p.slot \in 1 .. blocks[p.block]
            /\ <<p.block, p.slot>> \in DOMAIN memory
            /\ memory[<<p.block, p.slot>>] = p.made
        BY <2>9, <3>2 DEF InUse
      <4>2. p.block \in DOMAIN blocks' /\ g[p.block] = blocks[p.block] /\ blocks[p.block] \in Nat
        BY <4>1, <2>1, <2>6 DEF BlocksOK
      <4>3. p.slot \in 1 .. blocks'[p.block]
        <5>1. blocks'[p.block] \in {g[p.block], g[p.block] + 1}
          BY <4>1, <2>1, <2>6
        <5>2. QED BY <4>1, <4>2, <5>1
      <4>4. <<p.block, p.slot>> # <<n.block, n.slot>>
        BY <4>1, <4>2, <2>1, <2>5, <2>7
      <4>5. <<p.block, p.slot>> \in DOMAIN memory' /\ memory'[<<p.block, p.slot>>] = p.made
        BY <4>1, <4>4, <2>4
      <4>6. QED BY <4>2, <4>3, <4>5 DEF InUse
    <3>3. QED BY <3>1, <3>2
  <2>10. current' \in 0 .. Len(blocks') /\ current' # 0 /\ calls' \in Nat
    BY <2>1, <2>3, <2>6 DEF BlocksOK
  <2>11. QED BY <1>2, <2>6, <2>8, <2>9, <2>10 DEF n
<1>3. QED BY <1>1, <1>2

-----------------------------------------------------------------------------
(* A new node takes nothing from $ANY's, made in this board or before.     *)
LEMMA MadeLater ==
  ASSUME BlocksOK, LastingOK, make_leaf, inBoard' \in {inBoard, inBoard + 1},
         builtinAny' = builtinAny
  PROVE  /\ NewNode.made \in Nat /\ NewNode.made <= calls' /\ inBoard' \in Nat
         /\ \A p : Lasts(p) /\ p.made \in Nat => Lasts(p)'
         /\ \A p : p = builtinAny /\ builtinAny # NULL => p.made \in Nat /\ p.made <= calls'
<1>1. calls' = calls + 1 /\ calls \in Nat /\ inBoard \in Nat BY DEF make_leaf, BlocksOK, LastingOK
<1>2. NewNode.made = calls + 1 BY DEF NewNode
<1>3. \A p : InUse(p) => InUse(p)' BY MakeLeaf
<1>4. ASSUME NEW p, MadeByEarlierBoard(p), p.made \in Nat PROVE MadeByEarlierBoard(p)'
  BY <1>1, <1>4 DEF MadeByEarlierBoard
<1>5. QED BY <1>1, <1>2, <1>3, <1>4 DEF Lasts, LastingOK

(* The steps that end or begin a board find no node of it in use. *)
LEMMA InvHolds == Spec => []IInv
<1>1. Init => IInv
  BY DEF Init, IInv, BlocksOK, LastingOK, BoardOK
<1>2. IInv /\ [Next]_vars => IInv'
  <2> SUFFICES ASSUME IInv, [Next]_vars PROVE IInv'
    OBVIOUS
  <2> USE DEF IInv
  <2>1. CASE BuildPermanent
    <3>1. make_leaf /\ phase = "load" /\ permanent' = permanent \cup {NewNode}
          /\ UNCHANGED <<builtinAny, rules, fresh, phase, inBoard>>
      BY <2>1 DEF BuildPermanent, BeforeBoards, loopVars
    <3>2. BlocksOK' BY <3>1, MakeLeaf DEF BlocksOK
    <3>3. NewNode.block = 0 BY <3>1, MakeLeaf DEF BlocksOK
    <3>4. LastingOK' BY <3>1, <3>3, MadeLater DEF LastingOK
    <3>5. BoardOK' BY <3>1 DEF BoardOK
    <3>6. QED BY <3>2, <3>4, <3>5
  <2>2. CASE NameAny
    <3>1. make_leaf /\ phase = "load" /\ builtinAny' = NewNode
          /\ UNCHANGED <<permanent, rules, fresh, phase, inBoard>>
      BY <2>2 DEF NameAny, LookUpAny, loopVars
    <3>2. BlocksOK' BY <3>1, MakeLeaf DEF BlocksOK
    <3>3. InUse(builtinAny)'
      <4>1. PICK n : n = NewNode OBVIOUS
      <4>2. \A p : p = n => InUse(p)' BY <3>1, <4>1, MakeLeaf
      <4>3. builtinAny' = n BY <3>1, <4>1
      <4>4. QED BY <4>2, <4>3 DEF InUse
    <3>4. NewNode.made = calls + 1 /\ calls' = calls + 1 /\ calls \in Nat
      BY <3>1 DEF NewNode, make_leaf, BlocksOK
    <3>5. LastingOK' BY <3>1, <3>3, <3>4 DEF LastingOK, Lasts
    <3>6. BoardOK' BY <3>1 DEF BoardOK
    <3>7. QED BY <3>2, <3>5, <3>6
  <2>3. CASE StartBoards
    BY <2>3 DEF StartBoards, arenaVars, heldVars, BlocksOK, LastingOK, BoardOK, InUse, Lasts,
                MadeByEarlierBoard
  <2>4. CASE NextBoard
    <3>1. /\ phase = "boards" /\ phase' = "deal" /\ tnodeArenaBegin /\ inBoard' = 0
          /\ UNCHANGED <<builtinAny, permanent, rules, fresh>>
      BY <2>4 DEF NextBoard, heldVars
    <3> DEFINE kept == IF blocks = <<>> THEN <<0>> ELSE blocks
    <3>2. kept \in Seq(Nat) /\ Len(kept) >= 1 /\ Len(kept) \in Nat
      BY DEF BlocksOK
    <3>3. blocks' = [b \in DOMAIN kept |-> 0] /\ current' = 1 /\ calls' = calls
      BY <3>1 DEF tnodeArenaBegin, Emptied, FirstBlock
    <3> HIDE DEF kept
    <3>4. blocks' \in Seq(Nat) /\ Len(blocks') = Len(kept)
      BY <3>2, <3>3
    <3>5. BlocksOK' BY <3>1, <3>2, <3>3, <3>4 DEF BlocksOK
    <3>6. LastingOK'
      <4>1. ASSUME builtinAny # NULL PROVE Lasts(builtinAny)'
        <5>1. CASE builtinAny.block = 0 BY <3>1, <5>1 DEF Lasts, InUse
        <5>2. CASE builtinAny.block # 0
          <6>1. builtinAny.made <= calls' - inBoard'
            BY <3>1, <3>3, <4>1 DEF LastingOK, BlocksOK
          <6>2. QED BY <3>1, <5>2, <6>1 DEF Lasts, MadeByEarlierBoard
        <5>3. QED BY <5>1, <5>2
      <4>2. QED BY <3>1, <3>3, <4>1 DEF LastingOK
    <3>7. BoardOK' BY <3>1 DEF BoardOK
    <3>8. QED BY <3>5, <3>6, <3>7
  <2>5. CASE NoDeal
    BY <2>5 DEF NoDeal, arenaVars, heldVars, BlocksOK, LastingOK, BoardOK, InUse, Lasts,
                MadeByEarlierBoard
  <2>6. CASE BidHand
    <3>1. /\ phase \in {"deal", "bid"} /\ phase' = "bid" /\ fresh' = {} /\ permanent' = permanent
          /\ rules' = [s \in Seat |-> {builtinAny'}]
      BY <2>6 DEF BidHand
    <3>2. current # 0 BY <3>1 DEF BlocksOK
    <3>3. BlocksOK' /\ inBoard' \in Nat
          /\ Lasts(builtinAny)' /\ (builtinAny.made \in Nat /\ builtinAny.made <= calls)'
      <4>1. CASE builtinAny = NULL
        <5>1. make_leaf /\ builtinAny' = NewNode /\ inBoard' = inBoard + 1
          BY <2>6, <4>1 DEF BidHand, LookUpAny
        <5>2. BlocksOK' BY <3>1, <3>2, <5>1, MakeLeaf DEF BlocksOK
        <5>3. InUse(builtinAny)'
          <6>1. PICK n : n = NewNode OBVIOUS
          <6>2. \A p : p = n => InUse(p)' BY <5>1, <6>1, MakeLeaf
          <6>3. builtinAny' = n BY <5>1, <6>1
          <6>4. QED BY <6>2, <6>3 DEF InUse
        <5>4. NewNode.made = calls + 1 /\ calls' = calls + 1 /\ calls \in Nat
          BY <5>1 DEF NewNode, make_leaf, BlocksOK
        <5>5. QED BY <5>1, <5>2, <5>3, <5>4 DEF Lasts, LastingOK
      <4>2. CASE builtinAny # NULL
        <5>1. UNCHANGED <<blocks, current, memory, calls, builtinAny, inBoard>>
          BY <2>6, <4>2 DEF BidHand, LookUpAny, arenaVars
        <5>2. BlocksOK' BY <3>1, <3>2, <5>1 DEF BlocksOK
        <5>3. Lasts(builtinAny)' BY <4>2, <5>1 DEF LastingOK, Lasts, InUse, MadeByEarlierBoard
        <5>4. QED BY <4>2, <5>1, <5>2, <5>3 DEF LastingOK
      <4>3. QED BY <4>1, <4>2
    <3>4. LastingOK' BY <3>1, <3>3 DEF LastingOK
    <3>5. BoardOK' BY <3>1, <3>3 DEF BoardOK
    <3>6. QED BY <3>3, <3>4, <3>5
  <2>7. CASE BuildNode
    <3>1. make_leaf /\ phase = "bid" /\ fresh' = fresh \cup {NewNode} /\ inBoard' = inBoard + 1
          /\ UNCHANGED <<builtinAny, permanent, rules, phase>>
      BY <2>7 DEF BuildNode, loopVars
    <3>2. BlocksOK' BY <3>1, MakeLeaf DEF BlocksOK
    <3>3. \A p : p = NewNode \/ InUse(p) => InUse(p)' BY <3>1, MakeLeaf
    <3>4. calls' = calls + 1 /\ calls \in Nat /\ inBoard \in Nat
      BY <3>1 DEF make_leaf, BlocksOK, LastingOK
    <3>5. \A p : Lasts(p) => Lasts(p)'
      <4>1. calls' - inBoard' = calls - inBoard BY <3>1, <3>4
      <4>2. \A p : MadeByEarlierBoard(p) => MadeByEarlierBoard(p)'
        BY <3>1, <4>1 DEF MadeByEarlierBoard
      <4>3. QED BY <3>3, <4>2 DEF Lasts
    <3>6. LastingOK' BY <3>1, <3>4, <3>5 DEF LastingOK
    <3>7. BoardOK' BY <3>1, <3>3, <3>5 DEF BoardOK
    <3>8. QED BY <3>2, <3>6, <3>7
  <2>8. ASSUME NEW s \in Seat, CombineRule(s) PROVE IInv'
    <3>1. /\ phase = "bid" /\ fresh' = {}
          /\ UNCHANGED <<blocks, current, memory, calls, builtinAny, permanent, phase, inBoard>>
      BY <2>8 DEF CombineRule, arenaVars, loopVars
    <3>2. PICK kept \in SUBSET (rules[s] \cup permanent) :
            rules' = [rules EXCEPT ![s] = kept \cup fresh]
      BY <2>8 DEF CombineRule
    <3>3. \A p \in kept \cup fresh : Lasts(p)
      BY <3>2 DEF BoardOK, LastingOK, InUse, Lasts
    <3>4. \A p : Lasts(p) => Lasts(p)' BY <3>1 DEF InUse, Lasts, MadeByEarlierBoard
    <3>5. BlocksOK' /\ LastingOK' BY <3>1, <3>4 DEF BlocksOK, LastingOK
    <3>6. BoardOK' BY <3>1, <3>2, <3>3, <3>4 DEF BoardOK
    <3>7. QED BY <3>5, <3>6
  <2>9. CASE EndBoard
    <3>1. /\ phase' = "boards" /\ current' = 0 /\ phase # "load"
          /\ UNCHANGED <<blocks, memory, calls, builtinAny, permanent, inBoard>>
          /\ rules' = [s \in Seat |-> {}] /\ fresh' = {}
      BY <2>9 DEF EndBoard, tnodeArenaEnd
    <3>2. BlocksOK' BY <3>1 DEF BlocksOK
    <3>3. LastingOK' BY <3>1 DEF LastingOK, Lasts, InUse, MadeByEarlierBoard
    <3>4. BoardOK' BY <3>1 DEF BoardOK
    <3>5. QED BY <3>2, <3>3, <3>4
  <2>10. CASE UNCHANGED vars
    BY <2>10 DEF vars, arenaVars, heldVars, loopVars, BlocksOK, LastingOK, BoardOK, InUse, Lasts,
                 MadeByEarlierBoard
  <2>11. QED
    BY <2>1, <2>2, <2>3, <2>4, <2>5, <2>6, <2>7, <2>8, <2>9, <2>10 DEF Next
<1>3. QED BY <1>1, <1>2, PTL DEF Spec

(* No node that a rule, a seat or the simplifier holds is ever handed out  *)
(* again, whether or not $ANY is named before the boards; except for the   *)
(* node of $ANY itself, which is lost after the board that made it and     *)
(* never before.                                                           *)
THEOREM NodesStay == Spec => []HeldNodesIntact
<1>1. IInv => HeldNodesIntact
  <2> SUFFICES ASSUME IInv, NEW p \in Held PROVE Intact(p) \/ MadeByEarlierBoard(p)
    BY DEF HeldNodesIntact
  <2>1. Lasts(p)
    <3>1. \A q \in permanent : Lasts(q) BY DEF IInv, LastingOK, Lasts, InUse
    <3>2. \A q \in fresh : Lasts(q) BY DEF IInv, BoardOK, Lasts
    <3>3. \A s \in Seat : \A q \in rules[s] : Lasts(q) BY DEF IInv, BoardOK
    <3>4. builtinAny # NULL => Lasts(builtinAny) BY DEF IInv, LastingOK
    <3>5. \/ p \in permanent \/ p \in fresh \/ \E s \in Seat : p \in rules[s]
          \/ builtinAny # NULL /\ p = builtinAny
      BY DEF Held
    <3> HIDE DEF Lasts
    <3>6. CASE builtinAny # NULL /\ p = builtinAny BY <3>4, <3>6
    <3>7. QED BY <3>1, <3>2, <3>3, <3>5, <3>6, Zenon
  <2>2. InUse(p) => Intact(p) BY DEF InUse, Intact
  <2>3. QED BY <2>1, <2>2 DEF Lasts
<1>2. QED BY <1>1, InvHolds, PTL

-----------------------------------------------------------------------------
(* How many blocks there are.                                              *)

Most == 1 + (IF MaxNodes = 0 THEN 0 ELSE (MaxNodes - 1) \div Capacity)

(* The blocks before the one being filled are full, those behind it empty. *)
FilledInOrder ==
  /\ inBoard \in 0 .. MaxNodes
  /\ blocks[current] \in 0 .. Capacity
  /\ inBoard = (current - 1) * Capacity + blocks[current]
  /\ \A b \in DOMAIN blocks : b > current => blocks[b] = 0

Reuse ==
  /\ BlocksOK /\ Len(blocks) <= Most
  /\ phase \in {"deal", "bid"} => FilledInOrder

(* Blocks that are full before one more node is needed number fewer than   *)
(* the most.                                                               *)
LEMMA Fits ==
  ASSUME NEW c \in Nat, c * Capacity < MaxNodes
  PROVE  c <= (MaxNodes - 1) \div Capacity
<1> DEFINE q == (MaxNodes - 1) \div Capacity
<1>1. Capacity \in Nat \ {0} /\ MaxNodes \in Nat /\ c * Capacity \in Nat BY ArenaAssumption
<1>2. q \in Int /\ MaxNodes - 1 < (q + 1) * Capacity BY <1>1
<1> HIDE DEF q
<1>3. CASE c >= q + 1
  <2>1. c * Capacity >= (q + 1) * Capacity BY <1>1, <1>2, <1>3
  <2>2. (q + 1) * Capacity \in Int BY <1>1, <1>2
  <2>3. QED BY <1>1, <1>2, <2>1, <2>2
<1>4. QED BY <1>1, <1>2, <1>3 DEF q

LEMMA MostType == Most \in Nat /\ Most >= 1
<1>1. CASE MaxNodes = 0 BY <1>1 DEF Most
<1>2. CASE MaxNodes # 0
  <2>1. 0 <= (MaxNodes - 1) \div Capacity
    BY <1>2, ArenaAssumption, Fits, 0 * Capacity = 0
  <2>2. (MaxNodes - 1) \div Capacity \in Int BY ArenaAssumption
  <2>3. QED BY <1>2, <2>1, <2>2 DEF Most
<1>3. QED BY <1>1, <1>2

(* A node of the board fills the next slot. *)
LEMMA NextSlot ==
  ASSUME Reuse, phase \in {"deal", "bid"}, inBoard < MaxNodes, make_leaf
  PROVE  /\ blocks' \in Seq(Nat) /\ Len(blocks') <= Most
         /\ current' \in 1 .. Len(blocks') /\ calls' \in Nat
         /\ inBoard + 1 \in 0 .. MaxNodes
         /\ blocks'[current'] \in 0 .. Capacity
         /\ inBoard + 1 = (current' - 1) * Capacity + blocks'[current']
         /\ \A b \in DOMAIN blocks' : b > current' => blocks'[b] = 0
<1>1. /\ Capacity \in Nat \ {0} /\ MaxNodes \in Nat /\ Most \in Nat
      /\ blocks \in Seq(Nat) /\ current \in 1 .. Len(blocks) /\ Len(blocks) \in Nat
      /\ DOMAIN blocks = 1 .. Len(blocks) /\ Len(blocks) <= Most /\ calls \in Nat
      /\ FilledInOrder
  BY ArenaAssumption, MostType DEF Reuse, BlocksOK
<1>2. PICK f, g : /\ f = Filled
                  /\ g = IF f > Len(blocks) THEN Append(blocks, 0) ELSE blocks
                  /\ UsedAfter = [g EXCEPT ![f] = @ + 1]
  BY DEF UsedAfter
<1>3. blocks' = [g EXCEPT ![f] = @ + 1] /\ current' = f /\ calls' = calls + 1
  BY <1>1, <1>2 DEF make_leaf, Active
<1>4. inBoard + 1 \in 0 .. MaxNodes BY <1>1 DEF FilledInOrder
<1>5. CASE blocks[current] = Capacity
  <2>1. f = current + 1 BY <1>1, <1>2, <1>5 DEF Filled, Active
  <2>2. inBoard = current * Capacity BY <1>1, <1>5 DEF FilledInOrder
  <2>3. current <= (MaxNodes - 1) \div Capacity /\ MaxNodes # 0 BY <1>1, <2>2, Fits
  <2>4. current + 1 <= Most BY <1>1, <2>3 DEF Most
  <2>5. /\ g \in Seq(Nat) /\ f \in 1 .. Len(g) /\ Len(g) <= Most /\ Len(g) \in Nat
        /\ DOMAIN g = 1 .. Len(g) /\ \A b \in DOMAIN g : b > current => g[b] = 0
    <3>1. CASE current = Len(blocks)
      <4>1. f > Len(blocks) BY <1>1, <2>1, <3>1
      <4>2. g = Append(blocks, 0) BY <1>2, <4>1
      <4>3. /\ g \in Seq(Nat) /\ Len(g) = Len(blocks) + 1 /\ DOMAIN g = 1 .. (Len(blocks) + 1)
            /\ g[Len(blocks) + 1] = 0
        BY <1>1, <4>2
      <4>4. QED BY <1>1, <2>1, <2>4, <3>1, <4>3
    <3>2. CASE current # Len(blocks)
      <4>1. current < Len(blocks)
        <5>1. PICK L \in Nat : L = Len(blocks) BY <1>1
        <5>2. current \in 1 .. L /\ current # L BY <1>1, <3>2, <5>1
        <5>3. QED BY <5>1, <5>2
      <4>2. f \in 1 .. Len(blocks) BY <1>1, <2>1, <4>1
      <4>3. g = blocks
        <5>1. PICK L \in Nat : L = Len(blocks) BY <1>1
        <5>2. f \in 1 .. L BY <4>2, <5>1
        <5>3. ~ f > Len(blocks) BY <5>1, <5>2
        <5>4. QED BY <1>2, <5>3
      <4>4. QED BY <1>1, <2>1, <4>2, <4>3 DEF FilledInOrder
    <3>3. QED BY <3>1, <3>2
  <2>6. /\ blocks' \in Seq(Nat) /\ Len(blocks') = Len(g) /\ DOMAIN blocks' = DOMAIN g
        /\ blocks'[f] = 1 /\ \A b \in DOMAIN g : b # f => blocks'[b] = g[b]
    <3>1. f \in DOMAIN g /\ f > current BY <1>1, <2>1, <2>5
    <3>2. g[f] = 0 BY <2>5, <3>1
    <3>3. QED BY <1>3, <2>5, <3>2
  <2>7. inBoard + 1 = (f - 1) * Capacity + 1
    <3>1. f - 1 = current BY <1>1, <2>1
    <3>2. QED BY <2>2, <3>1
  <2>8. \A b \in DOMAIN blocks' : b > f => blocks'[b] = 0
    <3> TAKE b \in DOMAIN blocks'
    <3> HAVE b > f
    <3>1. b \in DOMAIN g /\ b # f /\ b > current BY <1>1, <2>1, <2>5, <2>6
    <3>2. QED BY <2>5, <2>6, <3>1
  <2>9. QED BY <1>1, <1>3, <1>4, <2>5, <2>6, <2>7, <2>8
<1>6. CASE blocks[current] # Capacity
  <2>1. f = current BY <1>2, <1>6 DEF Filled
  <2>2. ~ f > Len(blocks) BY <1>1, <2>1
  <2>3. g = blocks BY <1>2, <2>2
  <2>4. /\ blocks' \in Seq(Nat) /\ Len(blocks') = Len(blocks) /\ DOMAIN blocks' = DOMAIN blocks
        /\ blocks'[current] = blocks[current] + 1
        /\ \A b \in DOMAIN blocks : b # current => blocks'[b] = blocks[b]
    BY <1>1, <1>3, <2>1, <2>3
  <2>5. blocks[current] + 1 \in 0 .. Capacity BY <1>1, <1>6 DEF FilledInOrder
  <2>6. inBoard + 1 = (current - 1) * Capacity + (blocks[current] + 1)
    <3>1. (current - 1) * Capacity \in Nat BY <1>1
    <3>2. QED BY <1>1, <3>1 DEF FilledInOrder
  <2>7. \A b \in DOMAIN blocks' : b > current => blocks'[b] = 0
    BY <1>1, <2>4 DEF FilledInOrder
  <2>8. QED BY <1>1, <1>3, <1>4, <2>1, <2>4, <2>5, <2>6, <2>7
<1>7. QED BY <1>5, <1>6

(* Boards reuse the blocks, whether or not $ANY is named: a board adds a   *)
(* block only when it has filled all there are.                            *)
THEOREM BlocksStayFew == Spec => []BlocksReused
<1>1. Init => Reuse
  <2> SUFFICES ASSUME Init PROVE Reuse OBVIOUS
  <2>1. Len(blocks) = 0 /\ BlocksOK BY DEF Init, BlocksOK
  <2>2. phase = "load" BY DEF Init
  <2>3. QED BY <2>1, <2>2, MostType DEF Reuse
<1>2. Reuse /\ [Next]_vars => Reuse'
  <2> SUFFICES ASSUME Reuse, [Next]_vars PROVE Reuse' OBVIOUS
  <2>1. CASE BuildPermanent \/ NameAny
    <3>1. make_leaf /\ phase = "load" /\ phase' = phase
      BY <2>1 DEF BuildPermanent, BeforeBoards, NameAny, LookUpAny, loopVars
    <3>2. current = 0 BY <3>1 DEF Reuse, BlocksOK
    <3>3. blocks' = blocks BY <3>1, <3>2 DEF make_leaf, Active
    <3>4. BlocksOK' BY <3>1, MakeLeaf DEF Reuse, BlocksOK
    <3>5. QED BY <3>1, <3>3, <3>4 DEF Reuse, Most
  <2>2. CASE StartBoards \/ NoDeal \/ UNCHANGED vars
    BY <2>2 DEF StartBoards, NoDeal, vars, arenaVars, heldVars, loopVars, Reuse, BlocksOK,
                FilledInOrder, Most
  <2>3. CASE NextBoard
    <3>1. tnodeArenaBegin /\ phase' = "deal" /\ inBoard' = 0 BY <2>3 DEF NextBoard
    <3> DEFINE kept == IF blocks = <<>> THEN <<0>> ELSE blocks
    <3>2. kept \in Seq(Nat) /\ Len(kept) >= 1 /\ Len(kept) \in Nat /\ Len(kept) <= Most
          /\ DOMAIN kept = 1 .. Len(kept)
      <4>1. blocks \in Seq(Nat) /\ Len(blocks) <= Most BY DEF Reuse, BlocksOK
      <4>2. CASE blocks = <<>>
        <5>1. kept = <<0>> BY <4>2
        <5>2. /\ <<0>> \in Seq(Nat) /\ Len(<<0>>) = 1 /\ DOMAIN <<0>> = 1 .. 1 BY SMT
        <5>3. QED BY <5>1, <5>2, MostType
      <4>3. CASE blocks # <<>>
        <5>1. kept = blocks BY <4>3
        <5>2. QED BY <4>1, <4>3, <5>1, EmptySeq, LenProperties
      <4>4. QED BY <4>2, <4>3
    <3>3. blocks' = [b \in DOMAIN kept |-> 0] /\ current' = 1 /\ calls' = calls
      BY <3>1 DEF tnodeArenaBegin, Emptied, FirstBlock
    <3> HIDE DEF kept
    <3>4. /\ blocks' \in Seq(Nat) /\ Len(blocks') = Len(kept) /\ DOMAIN blocks' = DOMAIN kept
          /\ \A b \in DOMAIN kept : blocks'[b] = 0
      BY <3>2, <3>3
    <3>5. BlocksOK' BY <3>1, <3>2, <3>3, <3>4 DEF Reuse, BlocksOK
    <3>6. FilledInOrder'
      <4>1. 0 = (1 - 1) * Capacity + 0 BY ArenaAssumption
      <4>2. QED BY <3>1, <3>2, <3>3, <3>4, <4>1, ArenaAssumption DEF FilledInOrder
    <3>7. QED BY <3>2, <3>4, <3>5, <3>6 DEF Reuse, Most
  <2>4. CASE BidHand
    <3>1. phase \in {"deal", "bid"} /\ phase' = "bid" BY <2>4 DEF BidHand
    <3>2. CASE builtinAny = NULL
      <4>1. make_leaf /\ inBoard < MaxNodes /\ inBoard' = inBoard + 1
        BY <2>4, <3>2 DEF BidHand, LookUpAny
      <4>2. BlocksOK' /\ FilledInOrder' /\ Len(blocks') <= Most
        BY <3>1, <4>1, NextSlot DEF BlocksOK, FilledInOrder
      <4>3. QED BY <4>2 DEF Reuse, Most
    <3>3. CASE builtinAny # NULL
      BY <2>4, <3>1, <3>3 DEF BidHand, LookUpAny, arenaVars, Reuse, BlocksOK, FilledInOrder, Most
    <3>4. QED BY <3>2, <3>3
  <2>5. CASE BuildNode
    <3>1. phase = "bid" /\ phase' = "bid" /\ make_leaf /\ inBoard < MaxNodes
          /\ inBoard' = inBoard + 1
      BY <2>5 DEF BuildNode, loopVars
    <3>2. BlocksOK' /\ FilledInOrder' /\ Len(blocks') <= Most
      BY <3>1, NextSlot DEF BlocksOK, FilledInOrder
    <3>3. QED BY <3>2 DEF Reuse, Most
  <2>6. ASSUME NEW s \in Seat, CombineRule(s) PROVE Reuse'
    BY <2>6 DEF CombineRule, arenaVars, loopVars, Reuse, BlocksOK, FilledInOrder, Most
  <2>7. CASE EndBoard
    <3>1. phase' = "boards" /\ current' = 0 /\ blocks' = blocks /\ calls' = calls
      BY <2>7 DEF EndBoard, tnodeArenaEnd
    <3>2. QED BY <3>1 DEF Reuse, BlocksOK, Most
  <2>8. QED BY <2>1, <2>2, <2>3, <2>4, <2>5, <2>6, <2>7 DEF Next
<1>3. Reuse => BlocksReused BY DEF Reuse, Most, BlocksReused
<1>4. QED BY <1>1, <1>2, <1>3, PTL DEF Spec
=============================================================================
