------------------------------- MODULE Arena -------------------------------
(***************************************************************************)
(* Where the nodes of rules live: nodes made while a board is bid come     *)
(* from an arena that the next board fills again, all others from malloc() *)
(* and stay (tnode.cpp; the board loops of bidlab.cpp's main()). A node is *)
(* abstracted to the call of make_leaf() that wrote it last.               *)
(***************************************************************************)
EXTENDS Integers, Sequences

CONSTANTS
  Seat,           (* the two hands that bid                                 *)
  Capacity,       (* ARENA_BLOCK_NODES                                      *)
  MaxPermanent,   (* bound: nodes made before the first board               *)
  MaxNodes,       (* bound: nodes made during one board                     *)
  MaxRuns,        (* numRuns                                                *)
  MaxBoards,      (* bound: boards                                          *)
  NULL

ASSUME ArenaAssumption ==
  /\ Capacity \in Nat \ {0}
  /\ MaxPermanent \in Nat /\ MaxNodes \in Nat /\ MaxRuns \in Nat /\ MaxBoards \in Nat

VARIABLES
  blocks,      (* how many nodes of each block are handed out               *)
  current,     (* the block being filled, 0 if the arena is not active      *)
  memory,      (* for the slots of the arena written so far, by which call  *)
  calls,       (* calls of make_leaf()                                      *)
  builtinAny,  (* the node of $ANY, NULL before it is first looked up       *)
  permanent,   (* nodes of the rules and of the precomputed negations       *)
  rules,       (* the nodes of each seat's accumulated rule                 *)
  fresh,       (* nodes of the rule being built                             *)
  phase,       (* "load", "boards", "deal" or "bid"                         *)
  board, runs, inBoard   (* boards, runs of the board, nodes of the board   *)

arenaVars == <<blocks, current, memory, calls>>
heldVars  == <<builtinAny, permanent, rules, fresh>>
loopVars  == <<phase, board, runs>>
vars == <<arenaVars, heldVars, loopVars, inBoard>>

-----------------------------------------------------------------------------
(* make_leaf().                                                            *)

Active == current # 0

(* The block the next node comes from, a new one behind a full last one. *)
Filled == IF Active /\ blocks[current] = Capacity THEN current + 1 ELSE current

UsedAfter ==
  LET grown == IF Filled > Len(blocks) THEN Append(blocks, 0) ELSE blocks
  IN  [grown EXCEPT ![Filled] = @ + 1]

NewNode ==
  [block |-> Filled, slot |-> IF Active THEN UsedAfter[Filled] ELSE 0, made |-> calls + 1]

make_leaf ==
  /\ calls' = calls + 1
  /\ current' = Filled
  /\ IF Active
     THEN /\ blocks' = UsedAfter
          /\ memory' = [a \in DOMAIN memory \cup {<<NewNode.block, NewNode.slot>>} |->
                          IF a = <<NewNode.block, NewNode.slot>> THEN NewNode.made
                                                                 ELSE memory[a]]
     ELSE UNCHANGED <<blocks, memory>>

Init ==
  /\ blocks = <<>> /\ current = 0 /\ memory = [a \in {} |-> 0] /\ calls = 0
  /\ builtinAny = NULL /\ permanent = {} /\ rules = [s \in Seat |-> {}] /\ fresh = {}
  /\ phase = "load" /\ board = 0 /\ runs = 0 /\ inBoard = 0

-----------------------------------------------------------------------------
(* Before the first board.                                                 *)

(* Mutant: negations are built when an auction first needs them. *)
WhenNeeded == phase \in {"load", "bid"}

BeforeBoards == phase = "load"

(* A rule is parsed, or what rejecting siblings teaches is precomputed. *)
BuildPermanent ==
  /\ BeforeBoards
  /\ calls < MaxPermanent
  /\ make_leaf
  /\ permanent' = permanent \cup {NewNode}
  /\ UNCHANGED <<builtinAny, rules, fresh, loopVars, inBoard>>

(* A lookup of $ANY, which makes its node the first time. *)
LookUpAny ==
  IF builtinAny = NULL
  THEN make_leaf /\ builtinAny' = NewNode
  ELSE UNCHANGED <<arenaVars, builtinAny>>

(* A file or a positional rule names $ANY, if any does. *)
NameAny ==
  /\ phase = "load" /\ builtinAny = NULL
  /\ LookUpAny
  /\ UNCHANGED <<permanent, rules, fresh, loopVars, inBoard>>

StartBoards ==
  /\ phase = "load"
  /\ phase' = "boards"
  /\ UNCHANGED <<arenaVars, heldVars, board, runs, inBoard>>

-----------------------------------------------------------------------------
(* The boards.                                                             *)

Emptied(used) == [b \in DOMAIN used |-> 0]

(* Mutant: filling goes on in the block that was added last. *)
LastBlock(used) == Len(used)

FirstBlock(used) == 1

tnodeArenaBegin ==
  LET kept == IF blocks = <<>> THEN <<0>> ELSE blocks
  IN  /\ blocks' = Emptied(kept)
      /\ current' = FirstBlock(kept)
      /\ UNCHANGED <<memory, calls>>

tnodeArenaEnd == current' = 0 /\ UNCHANGED <<blocks, memory, calls>>

NextBoard ==
  /\ phase = "boards" /\ board < MaxBoards
  /\ tnodeArenaBegin
  /\ phase' = "deal" /\ board' = board + 1 /\ runs' = 0 /\ inBoard' = 0
  /\ UNCHANGED heldVars

(* A PBN line without a deal: the arena is left active. *)
NoDeal ==
  /\ phase = "deal"
  /\ phase' = "boards"
  /\ UNCHANGED <<arenaVars, heldVars, board, runs, inBoard>>

(* A run of the board: both seats start with no information. *)
BidHand ==
  /\ phase \in {"deal", "bid"} /\ runs < MaxRuns
  /\ builtinAny = NULL => inBoard < MaxNodes
  /\ LookUpAny
  /\ rules' = [s \in Seat |-> {builtinAny'}]
  /\ inBoard' = IF builtinAny = NULL THEN inBoard + 1 ELSE inBoard
  /\ fresh' = {} /\ runs' = runs + 1 /\ phase' = "bid"
  /\ UNCHANGED <<permanent, board>>

(* combineRule() and the simplifier build a rule node by node ... *)
BuildNode ==
  /\ phase = "bid" /\ inBoard < MaxNodes
  /\ make_leaf
  /\ fresh' = fresh \cup {NewNode}
  /\ inBoard' = inBoard + 1
  /\ UNCHANGED <<builtinAny, permanent, rules, loopVars>>

(* ... from nodes the seat's rule has, those of the system and new ones. *)
CombineRule(s) ==
  /\ phase = "bid"
  /\ \E kept \in SUBSET (rules[s] \cup permanent) :
       rules' = [rules EXCEPT ![s] = kept \cup fresh]
  /\ fresh' = {}
  /\ UNCHANGED <<arenaVars, builtinAny, permanent, loopVars, inBoard>>

(* The board is bid by every run; its auction is gone. *)
EndBoard ==
  /\ phase = "bid" /\ runs = MaxRuns
  /\ tnodeArenaEnd
  /\ rules' = [s \in Seat |-> {}] /\ fresh' = {}
  /\ phase' = "boards"
  /\ UNCHANGED <<builtinAny, permanent, board, runs, inBoard>>

Next == \/ BuildPermanent \/ NameAny \/ StartBoards
        \/ NextBoard \/ NoDeal \/ BidHand \/ BuildNode
        \/ \E s \in Seat : CombineRule(s)
        \/ EndBoard

Spec == Init /\ [][Next]_vars

-----------------------------------------------------------------------------
(* Properties.                                                             *)

(* The node still holds what its holder had written to it. *)
Intact(p) == p.block = 0 \/ memory[<<p.block, p.slot>>] = p.made

Held == ({builtinAny} \ {NULL}) \cup permanent \cup fresh \cup UNION {rules[s] : s \in Seat}

(* The node of $ANY, if nothing named $ANY before the boards: its first    *)
(* lookup then made it in the arena, for a board that is over.             *)
MadeByEarlierBoard(p) == p = builtinAny /\ p.block # 0 /\ p.made <= calls - inBoard

(* However boards fill the blocks, break off without deactivating the      *)
(* arena or share nodes between rules, no node that a rule, a seat or the  *)
(* simplifier still holds is handed out again. The one exception is the    *)
(* node of $ANY, which builtinAnyNode() says is never changed: made while  *)
(* a board is bid, it lasts no longer than that board.                     *)
HeldNodesIntact == \A p \in Held : Intact(p) \/ MadeByEarlierBoard(p)

(* Boards reuse the blocks: there are never more than the largest board    *)
(* needs, and one.                                                         *)
BlocksReused == Len(blocks) <= 1 + (IF MaxNodes = 0 THEN 0 ELSE (MaxNodes - 1) \div Capacity)
=============================================================================
