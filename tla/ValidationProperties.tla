------------------------ MODULE ValidationProperties ------------------------
(***************************************************************************)
(* What --validate says of a system holds of the auctions bid with it.     *)
(***************************************************************************)
EXTENDS AuctionProperties, ValidateWalk

(* The opening bids were tried a second time after a pass. *)
Retried == \E i \in DOMAIN trail : trail[i].to \notin Kids(tree, trail[i].from)

(* The path from the root to where the auction is: from the opening bid    *)
(* that was chosen last.                                                   *)
Opens(i) == trail[i].to \in Kids(tree, Root)

PathFrom(i) == [j \in 1 .. (Len(trail) + 1 - i) |-> trail[i + j - 1].to]

Path ==
  IF trail = <<>> THEN <<>>
  ELSE PathFrom(CHOOSE i \in DOMAIN trail :
                  Opens(i) /\ \A j \in DOMAIN trail : Opens(j) => j <= i)

(* The walk rebuilds what the live auction knows of the hand that is to    *)
(* bid: exactly that, and after a retry, when the opener's partner is not  *)
(* the seat that the walk takes for it, nothing that could exclude the     *)
(* real hand. So no auction ever gets to a node the walk reports as        *)
(* unreachable, or below one.                                              *)
WalkKnowsTheHand ==
  pc = "bidding" =>
    LET v == walkValidate(tree, Path)
    IN  /\ v.walked /\ NodeOf(Path) = sysp
        /\ Ext(rules[bidder]) \subseteq Ext(childPrecondition(v))
        /\ ~ Retried => Ext(rules[bidder]) = Ext(childPrecondition(v))

(* At a decision point the auction runs out of rules with exactly the      *)
(* hands of a GAP, and the order of the file decides for it with exactly   *)
(* those of an OVERLAP.                                                    *)
ReportsTellTheAuction ==
  pc = "bidding" /\ Kids(tree, sysp) # {} =>
    /\ hands[bidder] \in gapHits(tree, Path) <=> Found.match = NULL
    /\ hands[bidder] \in overlapHits(tree, Path) <=>
         \E k \in Kids(tree, sysp) \ {Found.match} :
           /\ Ruled(tree, k) /\ checkHand(hands[bidder], tree.rule[k])
           /\ Found.match \in Kids(tree, sysp)
=============================================================================
