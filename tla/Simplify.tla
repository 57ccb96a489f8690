------------------------------ MODULE Simplify ------------------------------
(***************************************************************************)
(* Rules as trees, and the rewriting of every rule the auction combines    *)
(* (simplify.cpp, called by combineRule() of tnode.cpp): bounds on one     *)
(* quantity are merged, what an enclosing AND establishes is used inside,  *)
(* NOT is pushed down to the comparisons.                                  *)
(***************************************************************************)
EXTENDS Integers, Sequences, FiniteSets

CONSTANTS
  Atom,          (* the quantities a rule compares, one per AtomId          *)
  Hand,          (* the hands, by the values of the atoms                   *)
  LLONG_MIN,     (* stand for no bound; bound: no literal is near them      *)
  LLONG_MAX,
  Rules,         (* the rules of the system, as trees                       *)
  MaxHeight,     (* bound: how many operators stand above each other        *)
  MaxRules       (* bound: how many rules are combined                      *)

ASSUME SimplifyAssumption ==
  /\ IsFiniteSet(Atom)
  /\ MaxHeight \in Nat /\ MaxRules \in Nat
  /\ LLONG_MIN \in Int /\ LLONG_MAX \in Int /\ LLONG_MIN < -1 /\ LLONG_MAX > 2
  /\ Hand \subseteq [Atom -> (LLONG_MIN + 1) .. (LLONG_MAX - 1)]

VARIABLES
  neg,      (* the negations of the siblings rejected at this node          *)
  acc,      (* the rule accumulated for the seat                            *)
  count,
  order     (* the order the hash table of atoms is iterated in             *)

vars == <<neg, acc, count, order>>

-----------------------------------------------------------------------------
(* Trees.                                                                  *)

Comparisons == {"TGT", "TGEQ", "TLT", "TLEQ", "TEQU", "TNEQ"}
Binary == Comparisons \cup {"TAND", "TOR"}

Lit(v)       == [t |-> "TINT", val |-> v]
Qty(a)       == [t |-> "TKWORD", val |-> a]
Cmp(t, l, r) == [t |-> t, left |-> l, right |-> r]
And(l, r)    == [t |-> "TAND", left |-> l, right |-> r]
Or(l, r)     == [t |-> "TOR", left |-> l, right |-> r]
Not(r)       == [t |-> "TNOT", right |-> r]

NULL == [t |-> "NULL"]

trueLeaf  == Lit(1)
falseLeaf == Lit(0)
isTrueLeaf(n)  == n.t = "TINT" /\ n.val # 0
isFalseLeaf(n) == n.t = "TINT" /\ n.val = 0

Truth(b) == IF b THEN 1 ELSE 0

Compare(t, x, y) ==
  CASE t = "TGT"  -> x > y  [] t = "TLT"  -> x < y  [] t = "TEQU" -> x = y
    [] t = "TGEQ" -> x >= y [] t = "TLEQ" -> x <= y [] t = "TNEQ" -> x # y

(* The trees of a height, with literals out of a set. *)
Trees(literals, height) ==
  LET upTo[k \in 0 .. height] ==
        LET lower == IF k = 0 THEN {} ELSE upTo[k - 1]
        IN  [t : {"TINT"}, val : literals] \cup [t : {"TKWORD"}, val : Atom] \cup
            [t : Binary, left : lower, right : lower] \cup
            [t : {"TNOT"}, right : lower]
  IN  upTo[height]

Tree == Trees(Int, MaxHeight)

(* traverse_lrt() with eval_node() and test_and_or(): the right operand is *)
(* not looked at when the left one decides, whose value is then the node's.*)
Eval(r, h) ==
  LET value[n \in Tree] ==
        CASE n.t = "TINT"   -> n.val
          [] n.t = "TKWORD" -> h[n.val]
          [] n.t \in Comparisons -> Truth(Compare(n.t, value[n.left], value[n.right]))
          [] n.t = "TNOT"   -> Truth(value[n.right] = 0)
          [] n.t = "TAND"   -> IF value[n.left] = 0 THEN 0 ELSE Truth(value[n.right] # 0)
          [] OTHER -> IF value[n.left] # 0 THEN value[n.left]
                                           ELSE Truth(value[n.right] # 0)
  IN  value[r]

checkHand(h, r) == r = NULL \/ Eval(r, h) # 0

(* One more operand of an AND or of an OR: literals are folded. *)
Conjoin(l, r) ==
  CASE isFalseLeaf(l) \/ isFalseLeaf(r) -> falseLeaf
    [] isTrueLeaf(r) /\ ~ isFalseLeaf(l) -> l
    [] isTrueLeaf(l) /\ r.t # "TINT"     -> r
    [] OTHER -> And(l, r)

(* Mutant: a branch that cannot hold is kept, unless it is the first. *)
KeepDead(l, r) ==
  CASE isTrueLeaf(l) \/ isTrueLeaf(r) -> trueLeaf
    [] isFalseLeaf(l) /\ ~ isTrueLeaf(r) -> r
    [] OTHER -> Or(l, r)

Disjoin(l, r) ==
  CASE isTrueLeaf(l) \/ isTrueLeaf(r) -> trueLeaf
    [] isFalseLeaf(r) /\ ~ isTrueLeaf(l) -> l
    [] isFalseLeaf(l) /\ r.t # "TINT"    -> r
    [] OTHER -> Or(l, r)

andOfAll(items) ==
  LET upTo[i \in 0 .. Len(items)] ==
        IF i = 0 THEN trueLeaf ELSE Conjoin(upTo[i - 1], items[i])
  IN  upTo[Len(items)]

orOfAll(items) ==
  LET upTo[i \in 0 .. Len(items)] ==
        IF i = 0 THEN falseLeaf ELSE Disjoin(upTo[i - 1], items[i])
  IN  upTo[Len(items)]

Flattened(r, op) ==
  LET operands[n \in Tree] ==
        IF n.t = op THEN operands[n.left] \o operands[n.right] ELSE <<n>>
  IN  operands[r]

-----------------------------------------------------------------------------
(* Intervals.                                                              *)

Unbounded == [lo |-> LLONG_MIN, hi |-> LLONG_MAX]
empty(iv) == iv.lo > iv.hi

Higher(x, y) == IF x > y THEN x ELSE y
Lower(x, y)  == IF x < y THEN x ELSE y
intersect(a, b) == [lo |-> Higher(a.lo, b.lo), hi |-> Lower(a.hi, b.hi)]

(* A comparison that can be folded: an atom against a literal, either way  *)
(* round, and not "!=".                                                    *)
Foldable(n) ==
  /\ n.t \in Comparisons \ {"TNEQ"}
  /\ {n.left.t, n.right.t} = {"TKWORD", "TINT"}

AtomOf(n) == IF n.left.t = "TKWORD" THEN n.left.val ELSE n.right.val

(* Mutant: a literal on the left is read as if it stood on the right. *)
AsWritten(t) == t

Mirrored(t) ==
  CASE t = "TGT" -> "TLT" [] t = "TGEQ" -> "TLEQ" [] t = "TLT" -> "TGT"
    [] t = "TLEQ" -> "TGEQ" [] OTHER -> t

(* The interval a foldable comparison stands for. *)
IntervalOf(n) ==
  LET atomOnLeft == n.left.t = "TKWORD"
      op  == IF atomOnLeft THEN n.t ELSE Mirrored(n.t)
      val == IF atomOnLeft THEN n.right.val ELSE n.left.val
  IN  CASE op = "TGEQ" -> [Unbounded EXCEPT !.lo = val]
        [] op = "TLEQ" -> [Unbounded EXCEPT !.hi = val]
        [] op = "TGT"  -> [Unbounded EXCEPT !.lo = val + 1]
        [] op = "TLT"  -> [Unbounded EXCEPT !.hi = val - 1]
        [] op = "TEQU" -> [lo |-> val, hi |-> val]

(* What of an interval the context does not say already. *)
nonRedundantPart(iv, ctx) ==
  [lo |-> IF iv.lo <= ctx.lo THEN LLONG_MIN ELSE iv.lo,
   hi |-> IF iv.hi >= ctx.hi THEN LLONG_MAX ELSE iv.hi]

(* Mutant: the case of a lower bound alone is forgotten. *)
BothBounds(a, iv) ==
  CASE empty(iv)      -> falseLeaf
    [] iv = Unbounded -> trueLeaf
    [] OTHER -> And(Cmp("TGEQ", Qty(a), Lit(iv.lo)), Cmp("TLEQ", Qty(a), Lit(iv.hi)))

buildIntervalNode(a, iv) ==
  CASE empty(iv)      -> falseLeaf
    [] iv = Unbounded -> trueLeaf
    [] iv.lo = iv.hi  -> Cmp("TEQU", Qty(a), Lit(iv.lo))
    [] LLONG_MIN < iv.lo /\ iv.lo < iv.hi /\ iv.hi = LLONG_MAX -> Cmp("TGEQ", Qty(a), Lit(iv.lo))
    [] LLONG_MIN = iv.lo /\ iv.lo < iv.hi /\ iv.hi < LLONG_MAX -> Cmp("TLEQ", Qty(a), Lit(iv.hi))
    [] OTHER -> And(Cmp("TGEQ", Qty(a), Lit(iv.lo)), Cmp("TLEQ", Qty(a), Lit(iv.hi)))

-----------------------------------------------------------------------------
(* The simplifier. A context gives the interval established for each atom. *)

Context == [Atom -> [lo : Int, hi : Int]]

emptyContext == [a \in Atom |-> Unbounded]

negateComparison(n) ==
  LET Complement == [TGEQ |-> "TLT", TLEQ |-> "TGT", TGT |-> "TLEQ",
                     TLT |-> "TGEQ", TEQU |-> "TNEQ", TNEQ |-> "TEQU"]
  IN  Cmp(Complement[n.t], n.left, n.right)

(* NOT pushed down one level. *)
Pushed(inner) ==
  CASE inner.t \in Comparisons -> negateComparison(inner)
    [] inner.t = "TAND" -> Or(Not(inner.left), Not(inner.right))
    [] inner.t = "TOR"  -> And(Not(inner.left), Not(inner.right))
    [] inner.t = "TNOT" -> inner.right

(* The interval a sequence of comparisons allows an atom. *)
Folded(conjuncts, a) ==
  LET upTo[i \in 0 .. Len(conjuncts)] ==
        IF i = 0 THEN Unbounded
        ELSE IF Foldable(conjuncts[i]) /\ AtomOf(conjuncts[i]) = a
        THEN intersect(upTo[i - 1], IntervalOf(conjuncts[i]))
        ELSE upTo[i - 1]
  IN  upTo[Len(conjuncts)]

(* What an AND establishes, in a context. *)
Established(conjuncts, context) ==
  [a \in Atom |-> intersect(context[a], Folded(conjuncts, a))]

(* Comparisons are folded per atom; of all else the simplified parts are   *)
(* given.                                                                  *)
simplifyAnd(conjuncts, context, parts) ==
  LET bounds == [i \in DOMAIN order |->
                   buildIntervalNode(order[i], nonRedundantPart(Folded(conjuncts, order[i]),
                                                                context[order[i]]))]
  IN  IF \E i \in DOMAIN conjuncts :
           Foldable(conjuncts[i]) /\ empty(Established(conjuncts, context)[AtomOf(conjuncts[i])])
      THEN falseLeaf
      ELSE andOfAll(bounds \o parts)

simplifyComparison(n, context) ==
  LET a  == AtomOf(n)
      iv == IntervalOf(n)
  IN  IF empty(intersect(iv, context[a]))
      THEN falseLeaf
      ELSE buildIntervalNode(a, nonRedundantPart(iv, context[a]))

simplifyNode[n \in Tree] ==
  [context \in Context |->
     CASE n.t = "TAND" ->
            LET conjuncts == Flattened(n, "TAND")
                merged    == Established(conjuncts, context)
            IN  simplifyAnd(conjuncts, context,
                  [i \in DOMAIN conjuncts |->
                     IF Foldable(conjuncts[i]) THEN trueLeaf
                                               ELSE simplifyNode[conjuncts[i]][merged]])
       [] n.t = "TOR"  ->
            LET branches == Flattened(n, "TOR")
            IN  orOfAll([i \in DOMAIN branches |-> simplifyNode[branches[i]][context]])
       [] n.t = "TNOT" ->
            IF n.right.t \in {"TINT", "TKWORD"} THEN n
                                                ELSE simplifyNode[Pushed(n.right)][context]
       [] Foldable(n)  -> simplifyComparison(n, context)
       [] OTHER        -> n]

simplifyRule(r) ==
  LET result == simplifyNode[r][emptyContext]
  IN  IF isTrueLeaf(result) THEN NULL ELSE result

combineRule(l, r) ==
  CASE l = NULL -> r
    [] r = NULL -> l
    [] OTHER    -> simplifyRule(And(l, r))

negateRule(r) == IF r = NULL THEN falseLeaf ELSE Not(r)

(* Whether a rule (said), or its negation (not said), is folded to the     *)
(* literal true: NOT of a literal is not.                                  *)
FoldsToTrue(r, said) ==
  LET folds[n \in Tree] ==
        [b \in BOOLEAN |->
           \/ n.t = "TINT" /\ b /\ n.val # 0
           \/ n.t = "TNOT" /\ folds[n.right][~ b]
           \/ n.t \in {"TAND", "TOR"} /\ folds[n.left][b] /\ folds[n.right][b]
           \/ n.t \in {"TAND", "TOR"} /\ (b <=> n.t = "TOR")
                                     /\ (folds[n.left][b] \/ folds[n.right][b])]
  IN  folds[r][said]

(* Bounds: literals keep clear of what stands for no bound, and no rule   *)
(* negates the literal true, whose second negation would bring it back.    *)
ASSUME RulesAssumption ==
  /\ Rules \subseteq Trees((LLONG_MIN + 2) .. (LLONG_MAX - 2), MaxHeight)
  /\ \A r \in Rules : ~ FoldsToTrue(r, FALSE)

-----------------------------------------------------------------------------
(* What findMatchingChild() and its callers combine for a seat.            *)

Init ==
  /\ neg = NULL /\ acc = NULL /\ count = 0
  /\ order \in {s \in [1 .. Cardinality(Atom) -> Atom] : {s[i] : i \in DOMAIN s} = Atom}

Operands(n) ==
  IF n.t \in Binary THEN {n.left, n.right} ELSE IF n.t = "TNOT" THEN {n.right} ELSE {}

(* Bound: no tree is higher than MaxHeight, whatever its nodes are. *)
High(n) ==
  LET level[k \in 0 .. MaxHeight + 1] ==
        IF k = 0 THEN {n} ELSE UNION {Operands(m) : m \in level[k - 1]}
  IN  level[MaxHeight + 1] # {}

Conjoinable(l, r) == l # NULL /\ r # NULL => ~ High(And(l, r))

(* A sibling is scanned and rejected. *)
Reject ==
  /\ count < MaxRules
  /\ \E r \in Rules : /\ Conjoinable(neg, negateRule(r))
                      /\ neg' = combineRule(neg, negateRule(r))
  /\ ~ High(neg')
  /\ count' = count + 1
  /\ UNCHANGED <<acc, order>>

(* What the rejected siblings teach is accumulated. *)
Infer ==
  /\ Conjoinable(acc, neg)
  /\ acc' = combineRule(acc, neg)
  /\ ~ High(acc')
  /\ neg' = NULL
  /\ UNCHANGED <<count, order>>

(* A rule matched. *)
Match ==
  /\ count < MaxRules
  /\ \E r \in Rules : /\ Conjoinable(acc, r)
                      /\ acc' = combineRule(acc, r)
  /\ ~ High(acc')
  /\ count' = count + 1
  /\ UNCHANGED <<neg, order>>

Next == Reject \/ Infer \/ Match

Spec == Init /\ [][Next]_vars
-----------------------------------------------------------------------------
(* Properties.                                                             *)

(* Type invariant: what is accumulated is no rule or a complete tree, with *)
(* an operand wherever one belongs and no missing bound written out as a   *)
(* literal.                                                                *)
TypeOK ==
  /\ acc \in Trees((LLONG_MIN + 1) .. (LLONG_MAX - 1), MaxHeight) \cup {NULL}
  /\ neg \in Trees((LLONG_MIN + 1) .. (LLONG_MAX - 1), MaxHeight) \cup {NULL}
  /\ count \in 0 .. MaxRules

LiteralOperand(r) ==
  LET inside[n \in Tree] ==
        /\ n.t \in {"TAND", "TOR"}
        /\ \E o \in {n.left, n.right} : o.t = "TINT" \/ inside[o]
  IN  inside[r]

(* What simplifyRule() returns holds no "true" or "false" inside: whatever *)
(* the context decides is folded into the AND or OR around it, however     *)
(* deep, because an unfolded literal would hide that a branch is dead.     *)
NoLiteralInside ==
  [][/\ neg # NULL /\ neg' \notin {NULL, neg} => ~ LiteralOperand(neg')
     /\ acc # NULL /\ acc' \notin {NULL, acc} => ~ LiteralOperand(acc')]_vars

(* A tree, as the rule algebra of the convention tree sees it: the hands   *)
(* it accepts, and whether it is made of "true" leaves.                    *)
Abs(r) ==
  IF r = NULL THEN NULL
  ELSE [ext |-> {h \in Hand : checkHand(h, r)}, top |-> FoldsToTrue(r, TRUE)]

AbsRules == {Abs(r) : r \in Rules}
AbsNeg == Abs(neg)
AbsAcc == Abs(acc)

Knowledge == INSTANCE RuleKnowledge WITH
  Rules <- AbsRules, neg <- AbsNeg, acc <- AbsAcc,
  Node <- {0}, Root <- 0, bidMaxBid <- 7

(* However rules are nested, whatever an enclosing AND lets the simplifier *)
(* drop and in whatever order bounds are emitted, a simplified rule accepts*)
(* exactly the hands that all combined rules accept, and it is NULL, which *)
(* reads "no constraint", exactly when they all are the literal true: the  *)
(* algebra of ConventionTree, on which the auction's properties rest.      *)
ImplementsAlgebra == Knowledge!Spec

=============================================================================
