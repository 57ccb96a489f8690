----------------------------- MODULE MCAuction -----------------------------
(***************************************************************************)
(* Instances of Auction for TLC: three hands, the calls Pass to 2D, trees  *)
(* of depth three over one skeleton that has a raise, and two runs per     *)
(* deal.                                                                   *)
(***************************************************************************)
EXTENDS ValidationProperties

CONSTANTS h1, h2, h3

MCHand == {h1, h2, h3}
MCRoot == <<>>

(* A node is the path of calls that leads to it; P, 1C and 1D are 4 to 6,  *)
(* 2C and 2D are 10 and 11.                                                *)
Skeleton ==
  [n \in {<<>>, <<4>>, <<5>>, <<6>>, <<4, 6>>, <<5, 4>>, <<5, 10>>, <<5, 10, 11>>} |->
     CASE n = <<>>      -> << <<5>>, <<6>>, <<4>> >>
       [] n = <<4>>     -> << <<4, 6>> >>
       [] n = <<5>>     -> << <<5, 10>>, <<5, 4>> >>
       [] n = <<5, 10>> -> << <<5, 10, 11>> >>
       [] OTHER         -> <<>>]

MCNode == DOMAIN Skeleton

Accepting(H) == [ext |-> H, top |-> FALSE]

(* The rules the nodes carry: a waypoint has none, AnyRule is a bare $ANY. *)
RuleMaps ==
  {[n \in MCNode |-> CASE n = <<>>          -> NULL
                      [] n = <<4>>         -> p
                      [] n = <<5>>         -> c
                      [] n = <<6>>         -> d
                      [] n = <<4, 6>>      -> pd
                      [] n = <<5, 4>>      -> Accepting({h1, h2})
                      [] n = <<5, 10>>     -> cd
                      [] n = <<5, 10, 11>> -> Accepting({h1})] :
     p  \in {Accepting({h3}), Accepting({h1, h3})},
     c  \in {Accepting({h1}), Accepting({h1, h2}), AnyRule},
     d  \in {Accepting({h2, h3}), NULL},
     pd \in {Accepting({h1}), NULL},
     cd \in {Accepting({h2}), Accepting({h2, h3}), NULL}}

System(f) ==
  [kids |-> Skeleton,
   call |-> [n \in MCNode |-> IF n = <<>> THEN bidPass ELSE n[Len(n)]],
   rule |-> f]

Base == CHOOSE f \in RuleMaps : \A n \in MCNode \ {<<>>} : f[n] # NULL

RunOf(f, k) == [tree |-> System(f), nrules |-> k]

(* One system under two --nrules limits. *)
MCSameSystem ==
  UNION {{<<RunOf(f, j), RunOf(f, k)>> : k \in {-1, 0, 1, 2} \ {j}} :
           f \in RuleMaps, j \in {-1, 0, 1, 2}}

(* Two systems, no limit. *)
MCTwoSystems == {<<RunOf(f, -1), RunOf(Base, -1)>> : f \in RuleMaps}

MCRunLists == MCSameSystem \cup MCTwoSystems

(* Simulations that favour one bid by one seat, none, 1NT (9) by anybody,  *)
(* or every bid alike.                                                     *)
Favouring(s, b) ==
  [w \in Seat |-> [c \in Call |-> CASE c = bidPass      -> 0
                                    [] w = s /\ c = b   -> 1
                                    [] OTHER            -> -1]]
MCScoreTables ==
  {Favouring(posNorth, 6), Favouring(posSouth, 11), Favouring(posNorth, bidPass),
   [w \in Seat |-> Favouring(w, 9)[w]]}
    \cup {[w \in Seat |-> [c \in Call |-> CASE c = bidPass -> 0 [] c = 5 -> 1 [] OTHER -> 2]]}
=============================================================================
