---------------------------- MODULE ValidateWalk ----------------------------
(***************************************************************************)
(* --validate: a walk of a system's convention tree without any deal,      *)
(* which rebuilds what nextBid() would know at every node and tries hands  *)
(* that fit it on the node's children (bidlab.cpp: validateSystem,         *)
(* walkValidate, checkDecisionPoint).                                      *)
(*                                                                         *)
(* The sampling is taken to find every kind of hand there is: a kind it    *)
(* misses within its tries is a finding that is not made.                  *)
(***************************************************************************)
EXTENDS ConventionTree

(* The opener is called North. An odd depth is its own bid, and an even    *)
(* one decides about it.                                                   *)
OwnSeat(depth) == IF depth % 2 = 1 THEN posNorth ELSE posSouth

ChildSeat(depth) == IF depth % 2 = 0 THEN posNorth ELSE posSouth

(* The rule a hand that is to choose among the children fits. *)
childPrecondition(v) == v.acc[ChildSeat(v.depth)]

(* Mutant: the siblings before a child say nothing. *)
NoSiblings(t, p, n) == NULL

siblingsBefore(t, p, n) ==
  negatedEarlierSiblings(t, p, CHOOSE i \in DOMAIN t.kids[p] : t.kids[p][i] = n)

(* A path is the nodes below the root that a walk passes, in order.        *)
PathNode(path, i) == IF i = 0 THEN Root ELSE path[i]
NodeOf(path)      == PathNode(path, Len(path))

(* What walkValidate() is called with at n, one of p's children, when it   *)
(* was called with v at p, and once n's own rule is in: n's seat has       *)
(* learnt the siblings before n and the rule. Nothing is walked below a    *)
(* decision point no hand reaches.                                         *)
AtChild(t, p, n, v) ==
  LET d   == v.depth + 1
      acc == [v.acc EXCEPT ![ChildSeat(v.depth)] = combineRule(@, siblingsBefore(t, p, n))]
  IN  [walked       |-> v.walked /\ Ext(childPrecondition(v)) # {},
       depth        |-> d,
       acc          |-> [acc EXCEPT ![OwnSeat(d)] = combineRule(@, t.rule[n])],
       allPassSoFar |-> v.allPassSoFar /\ t.call[n] = bidPass]

AtRoot == [walked |-> TRUE, depth |-> 0, acc |-> [s \in Seat |-> AnyRule], allPassSoFar |-> TRUE]

walkValidate(t, path) ==
  LET visit[i \in 0 .. Len(path)] ==
        IF i = 0 THEN AtRoot
                 ELSE AtChild(t, PathNode(path, i - 1), path[i], visit[i - 1])
  IN  visit[Len(path)]

(* The hands that reach the decision point at the end of a path. *)
reachable(t, path) == Ext(childPrecondition(walkValidate(t, path)))

(* OVERLAP: those of which several children would make their bid. *)
overlapHits(t, path) ==
  {h \in reachable(t, path) : \E i, j \in Matching(t, NodeOf(path), h) : i # j}

(* Mutant: the retry at the root is forgotten. *)
WithoutRetry(t, path) == {h \in reachable(t, path) : Matching(t, NodeOf(path), h) = {}}

(* GAP: those of which none would, nor any opening bid that is tried next. *)
gapHits(t, path) ==
  {h \in reachable(t, path) :
     /\ Matching(t, NodeOf(path), h) = {}
     /\ findMatchingChild(t, NodeOf(path), walkValidate(t, path).allPassSoFar, h, NULL).match
          = NULL}
=============================================================================
