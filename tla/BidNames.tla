------------------------------ MODULE BidNames ------------------------------
(***************************************************************************)
(* The names of bid sequences in a rules file, "$.1N.2C.2Maj.", and the    *)
(* macros that stand for suits in them (majMinExpand.cpp).                 *)
(***************************************************************************)
EXTENDS Integers, Sequences

Suit  == {"S", "H", "D", "C"}
Major == {"Maj", "OMaj"}
Minor == {"Min", "OMin"}
Macro == Major \cup Minor
Both  == {"BMaj", "BMin"}

(* A call of a name; '@' marks the one that sets Trump. *)
Token == [level: {0}, strain: {"P"}, trump: BOOLEAN]
         \cup [level: 1 .. 7, strain: Suit \cup {"N"} \cup Macro \cup Both, trump: BOOLEAN]

isPass(t) == t.strain = "P"

complementSuit(s) == CASE s = "S" -> "H" [] s = "H" -> "S" [] s = "D" -> "C" [] OTHER -> "D"

(* What a macro stands for once a major and a minor are chosen. *)
Chosen(w, major, minor) ==
  CASE w = "Maj"  -> major
    [] w = "OMaj" -> complementSuit(major)
    [] w = "Min"  -> minor
    [] w = "OMin" -> complementSuit(minor)
    [] OTHER      -> w

substituteNameTokens(tokens, major, minor) ==
  [i \in DOMAIN tokens |-> [tokens[i] EXCEPT !.strain = Chosen(@, major, minor)]]

Has(tokens, words) == \E i \in DOMAIN tokens : tokens[i].strain \in words

(* The suits a pair is tried with; "-" when it does not occur. *)
MajorChoices(occurs) == IF occurs THEN {"S", "H"} ELSE {"-"}
MinorChoices(occurs) == IF occurs THEN {"D", "C"} ELSE {"-"}

(* Every concrete name a name with macros forks into. *)
Variants(tokens) ==
  {substituteNameTokens(tokens, j, n) :
     j \in MajorChoices(Has(tokens, Major)), n \in MinorChoices(Has(tokens, Minor))}

(* The other suit of a pair means nothing before the first. *)
Anchored(words) ==
  \A i \in DOMAIN words :
    /\ words[i] = "OMaj" => \E k \in 1 .. (i - 1) : words[k] = "Maj"
    /\ words[i] = "OMin" => \E k \in 1 .. (i - 1) : words[k] = "Min"

StrainsOf(tokens) == [i \in DOMAIN tokens |-> tokens[i].strain]

-----------------------------------------------------------------------------
(* makeBid(); anything that is not a suit counts as notrump. *)
Rank(t) == 5 * t.level + (CASE t.strain = "C" -> 0 [] t.strain = "D" -> 1 [] t.strain = "H" -> 2
                            [] t.strain = "S" -> 3 [] OTHER -> 4)

(* Every call ranks higher than every earlier call; Pass is exempt. *)
isLegalBidSequence(tokens) ==
  \A i, j \in DOMAIN tokens :
    i < j /\ ~ isPass(tokens[i]) /\ ~ isPass(tokens[j]) => Rank(tokens[i]) < Rank(tokens[j])

isWellFormedConcreteBidSequence(tokens) ==
  ~ Has(tokens, Macro \cup Both) /\ isLegalBidSequence(tokens)

(* Trump: the suit of the last call that is marked; "" if none is. *)
Marked(tokens) == {i \in DOMAIN tokens : tokens[i].trump}

anchor(tokens) ==
  IF Marked(tokens) = {} THEN ""
  ELSE tokens[CHOOSE i \in Marked(tokens) : \A k \in Marked(tokens) : k <= i].strain

WithoutMarks(tokens) == [i \in DOMAIN tokens |-> [tokens[i] EXCEPT !.trump = FALSE]]
=============================================================================
