--------------------------- MODULE ConventionTree ---------------------------
(***************************************************************************)
(* The convention tree a bidding system is compiled into, and the rule     *)
(* algebra that walks it (bidlab.cpp: convention, findMatchingChild;       *)
(* tnode.cpp: combineRule, negateRule).                                    *)
(*                                                                         *)
(* A rule is abstracted to what the auction tells apart: the set of hands  *)
(* it accepts, and whether simplifyRule() folds it to its constant "true"  *)
(* leaf, because combineRule() turns exactly that leaf into NULL.          *)
(***************************************************************************)
EXTENDS BidEncoding, Sequences

CONSTANTS
  Hand,    (* the hands a seat can hold                                  *)
  Node,    (* the nodes of the trees, the root included                  *)
  Root,    (* the node a biddingSystem object itself is                  *)
  NULL     (* the null rule pointer, and the null match                  *)

Rule == {r \in [ext: SUBSET Hand, top: BOOLEAN] : r.top => r.ext = Hand}

ASSUME TreeAssumption ==
  /\ Root \in Node
  /\ NULL \notin Node
  /\ NULL \notin Rule

RulePtr == Rule \cup {NULL}

(* The leaf every lookup of $ANY returns. *)
AnyRule == [ext |-> Hand, top |-> TRUE]

(* A null rule is no constraint. *)
Ext(r)          == IF r = NULL THEN Hand ELSE r.ext
checkHand(h, r) == h \in Ext(r)

combineRule(l, r) ==
  CASE l = NULL -> r
    [] r = NULL -> l
    [] OTHER    -> IF l.top /\ r.top
                   THEN NULL
                   ELSE [ext |-> l.ext \cap r.ext, top |-> FALSE]

(* NOT of a literal is left alone by simplifyRule(), so it is never "true". *)
(* Bound: no rule of the file itself negates the literal true (NOT $ANY);  *)
(* a second negation would bring "true" back.                              *)
negateRule(r) == [ext |-> Hand \ Ext(r), top |-> FALSE]

(***************************************************************************)
(* A tree: the children of each node in the order they were created, the   *)
(* call each node stands for, and its rule (NULL for a waypoint).          *)
(***************************************************************************)
Tree == [kids: [Node -> Seq(Node)], call: [Node -> Call], rule: [Node -> RulePtr]]

Ruled(t, n) == t.rule[n] # NULL

Kids(t, n) == {t.kids[n][i] : i \in DOMAIN t.kids[n]}

(* What processRule() builds from names whose rank was checked before: a   *)
(* tree whose siblings differ in their calls, where a bid that has a rule  *)
(* outranks the call it answers (SystemLoader shows how).                  *)
WellFormed(t) ==
  /\ t \in Tree
  /\ \A n \in Node : \A i, j \in DOMAIN t.kids[n] :
       t.call[t.kids[n][i]] = t.call[t.kids[n][j]] => i = j
  /\ \A n, m \in Node : n # m => Kids(t, n) \cap Kids(t, m) = {}
  /\ \A n \in Node : Root \notin Kids(t, n)
  /\ \A n \in Node \ {Root} : \A k \in Kids(t, n) :
       Ruled(t, k) => t.call[k] = bidPass \/ t.call[k] > t.call[n]

(* What scanning and rejecting the kids of n in the positions I teaches:   *)
(* the conjunction of their negated rules, waypoints skipped.              *)
NegatedKids(t, n, I) ==
  LET ruled == {i \in I : Ruled(t, t.kids[n][i])}
  IN  IF ruled = {}
      THEN NULL
      ELSE [ext |-> {h \in Hand : \A i \in ruled : h \notin t.rule[t.kids[n][i]].ext},
            top |-> FALSE]

negatedEarlierSiblings(t, n, i) == NegatedKids(t, n, 1 .. (i - 1))

(* Mutant: nothing is inferred from a node none of whose kids matched. *)
NothingFromMiss(t, n) == NULL

negatedAllChildren(t, n) == NegatedKids(t, n, DOMAIN t.kids[n])

(* The positions of n's kids whose rule accepts h, and the first of them. *)
Matching(t, n, h) ==
  {i \in DOMAIN t.kids[n] : /\ Ruled(t, t.kids[n][i])
                            /\ checkHand(h, t.rule[t.kids[n][i]])}

FirstOf(I) == CHOOSE i \in I : \A j \in I : i <= j

(* A match at n: the child chosen, and acc with the rejected siblings. *)
MatchAt(t, n, h, acc) ==
  LET i == FirstOf(Matching(t, n, h))
  IN  [match |-> t.kids[n][i],
       acc   |-> combineRule(acc, negatedEarlierSiblings(t, n, i))]

findMatchingChild(t, n, allPassSoFar, h, acc) ==
  LET missed == combineRule(acc, negatedAllChildren(t, n))
      retry  == allPassSoFar /\ n # Root
  IN  CASE Matching(t, n, h) # {} -> MatchAt(t, n, h, acc)
        [] Matching(t, n, h) = {} /\ retry /\ Matching(t, Root, h) # {} ->
             MatchAt(t, Root, h, missed)
        [] OTHER ->
             [match |-> NULL,
              acc   |-> IF retry THEN combineRule(missed, negatedAllChildren(t, Root))
                                 ELSE missed]
=============================================================================
