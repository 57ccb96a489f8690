--------------------------- MODULE RuleKnowledge ---------------------------
(***************************************************************************)
(* What an auction knows of one seat, in the rule algebra ConventionTree   *)
(* defines: the rules it rejected at a node, and the rules it accumulated. *)
(* Simplify, which rewrites rules node by node, implements this.           *)
(***************************************************************************)
EXTENDS ConventionTree

CONSTANT Rules   (* the rules of the system *)

VARIABLES
  neg,   (* the negations of the siblings rejected at this node *)
  acc    (* the rule accumulated for the seat                   *)

Init == neg = NULL /\ acc = NULL

Reject == \E r \in Rules : /\ neg' = combineRule(neg, negateRule(r))
                           /\ UNCHANGED acc

Infer  == /\ acc' = combineRule(acc, neg)
          /\ neg' = NULL

Match  == \E r \in Rules : /\ acc' = combineRule(acc, r)
                           /\ UNCHANGED neg

Next == Reject \/ Infer \/ Match

Spec == Init /\ [][Next]_<<neg, acc>>
=============================================================================
