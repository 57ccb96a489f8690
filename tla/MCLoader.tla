------------------------------ MODULE MCLoader ------------------------------
(***************************************************************************)
(* Instances of SystemLoader for TLC: files of three statements over a     *)
(* few names, two hands.                                                   *)
(***************************************************************************)
EXTENDS SystemLoader

CONSTANTS h1, h2,
  Weak, Any, n1C, n1D, nP1C, n1C1D, Broken

MCHand == {h1, h2}
MCRoot == 0
MCNode == 0 .. 5

(* $Weak, $Any, $.1C., $.1D., $.P.1C., $.1C.1D. and a $.1D.1C.X           *)
MCName == {Weak, Any, n1C, n1D, nP1C, n1C1D, Broken}
MCCalls ==
  [nm \in MCName |-> CASE nm = n1C    -> <<5>>
                       [] nm = n1D    -> <<6>>
                       [] nm = nP1C   -> <<4, 5>>
                       [] nm = n1C1D  -> <<5, 6>>
                       [] nm = Broken -> <<6, 5>>
                       [] OTHER        -> <<>>]
MCBidSequences == {n1C, n1D, nP1C, n1C1D}

Accepting(H) == [ext |-> H, top |-> FALSE]

Definitions ==
  [op: {":="}, name: MCName, expr: {Accepting({h1}), Accepting({h2}), Weak, Any, n1C}]
Modifications ==
  [op: {":&", ":|"}, name: {Weak, Any, n1C, n1C1D}, expr: {Accepting({h2}), n1C, Any}]

MCFiles ==
  {<<s>> : s \in Modifications} \cup
  {<<s, t, u>> : s \in {d \in Definitions : d.expr # n1C},
                 t \in Definitions, u \in Definitions \cup Modifications}
=============================================================================
