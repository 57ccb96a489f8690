--------------------------- MODULE MCDealerScores ---------------------------
(***************************************************************************)
(* Three deals in batches of two. The kinds of deals: a part score, a      *)
(* game in either major, a game near a slam in notrump, a grand slam that  *)
(* fails in the next strain, nothing for North-South.                      *)
(***************************************************************************)
EXTENDS ScoringLaws

CONSTANTS part, majors, notrump, slam, nothing

MCSolution ==
  LET table == [part    |-> << 7, 8, 8, 9, 7 >>,
                majors  |-> << 10, 10, 8, 8, 9 >>,
                notrump |-> << 9, 11, 11, 10, 11 >>,
                slam    |-> << 13, 12, 7, 9, 11 >>,
                nothing |-> << 4, 3, 5, 6, 2 >>]
      kind(d) == CASE d = part -> "part" [] d = majors -> "majors" [] d = notrump -> "notrump"
                   [] d = slam -> "slam" [] d = nothing -> "nothing"
  IN  [d \in Deal |-> [s \in Denom |-> table[kind(d)][s + 1]]]

(* A reading of zeros, and one that is no number of tricks. *)
MCGarbage == {[s \in Denom |-> 0], [s \in Denom |-> 99], [s \in Denom |-> 13]}
=============================================================================
