------------------------- MODULE AuctionProperties -------------------------
(***************************************************************************)
(* What one deal's auctions promise.                                       *)
(***************************************************************************)
EXTENDS Auction

Decision == [seat: Seat, from: Node, passed: BOOLEAN, to: Node]

(* Type invariant: every variable of the auction object, the run tables    *)
(* and the histories hold values of their kind.                            *)
TypeOK ==
  /\ runs \in RunLists
  /\ rulesOnlyMode \in BOOLEAN
  /\ hands \in [Seat -> Hand]
  /\ run \in DOMAIN runs
  /\ pc \in Phases
  /\ rules \in [Seat -> RulePtr]
  /\ bidder \in Seat \cup {-1}
  /\ (pc = "bidding" => bidder \in Seat)
  /\ sysp \in Node
  /\ allPassSoFar \in BOOLEAN
  /\ roundNum \in Nat
  /\ maxBid \in BestBid
  /\ declarer \in [Strain -> Seat \cup {-1}]
  /\ bidStr \in Seq(Token)
  /\ nextBidp \in Nat
  /\ guessPoint \in Seq(Token)
  /\ guessWasCalled \in BOOLEAN
  /\ matched \in [DOMAIN runs -> Seq(Nat)]
  /\ guessed \in [DOMAIN runs -> Seq(Nat)]
  /\ trail \in Seq(Decision)

-----------------------------------------------------------------------------
(* Inference.                                                              *)

(* Would a seat holding h have decided d as the auction did? *)
SameDecision(d, h) ==
  findMatchingChild(tree, d.from, d.passed, h, NULL).match = d.to

(* The hands with which s would have made every call s made. *)
Consistent(s) ==
  {h \in Hand : \A i \in DOMAIN trail :
     trail[i].seat = s => SameDecision(trail[i], h)}

(* The rule accumulated for a seat accepts exactly the hands with which    *)
(* that seat would have called as it did, no matter how the tree mixes     *)
(* waypoints, overlapping rules and the retry at the root: the simulation  *)
(* of the partner neither loses the real hand nor admits one that an       *)
(* earlier choice excludes (combineRule and the sibling negations).        *)
RulesExact ==
  pc \in {"bidding", "closed", "aborted"} =>
    \A s \in Seat : Ext(rules[s]) = Consistent(s)

-----------------------------------------------------------------------------
(* Bidding.                                                                *)

RuleCalls(t, tr) == [i \in DOMAIN tr |-> t.call[tr[i].to]]
GuessCall(g)     == IF g = NULL THEN <<>> ELSE <<g.bid>>

(* The decisions that bid b's strain, each higher than every call before. *)
Naming(b) ==
  {i \in DOMAIN trail : /\ tree.call[trail[i].to] > bidPass
                        /\ bidStrain(tree.call[trail[i].to]) = bidStrain(b)
                        /\ \A j \in 1 .. (i - 1) :
                             tree.call[trail[j].to] < tree.call[trail[i].to]}

(* Who would declare b by this run's calls alone: the first seat to bid    *)
(* the strain, else the guesser. A Pass names no strain.                   *)
FirstNamer(b) ==
  IF Naming(b) = {} THEN guess.seat ELSE trail[FirstOf(Naming(b))].seat

(* Pass is encoded with the strain of notrump, and an opening Pass is the  *)
(* best call so far: nextBid() has setDeclarer() write North down for      *)
(* notrump, and a notrump contract that South names later is North's.      *)
PassNamesNotrump(b) ==
  /\ bidStrain(b) = bidStrain(bidPass)
  /\ trail # <<>> /\ tree.call[trail[1].to] = bidPass

Contracted == pc = "closed" /\ ~ rulesOnlyMode

(* A finished auction's contract is written with a seat that can declare:  *)
(* getDeclarer() never falls back on the bidder that nextBid() has already *)
(* set to -1, which would index the score table out of its bounds.         *)
ContractHasDeclarer == Contracted => getDeclarer(maxBid) \in Seat

(* In the first run of a deal a contract is declared by the seat that      *)
(* first bid its strain. (Excepted is notrump after an opening Pass, which *)
(* the code gives to North whoever bid it: see PassNamesNotrump.)          *)
FirstRunDeclarer ==
  Contracted /\ run = 1 /\ maxBid > bidPass /\ ~ PassNamesNotrump(maxBid) =>
    getDeclarer(maxBid) = FirstNamer(maxBid)

(* The run that the trail was made by, the calls made in it, and where the *)
(* auction stands.                                                         *)
TrailTree == IF pc = "start" /\ run > 1 THEN runs[run - 1].tree ELSE tree

SeatedCalls(t, tr) ==
  [i \in DOMAIN tr |-> [seat |-> tr[i].seat, call |-> t.call[tr[i].to]]]

CallsMade ==
  SeatedCalls(TrailTree, trail) \o
    (IF guess = NULL THEN <<>> ELSE <<[seat |-> guess.seat, call |-> guess.bid]>>)

AuctionPhase ==
  CASE pc = "bidding"               -> "open"
    [] pc \in {"closed", "aborted"} -> "over"
    [] OTHER                        -> IF out = <<>> THEN "idle" ELSE "over"

(* The auction refines the abstract one: an --nrules limit, the retry at   *)
(* the root and the guess never produce an insufficient bid, a call out of *)
(* turn or a contract other than the highest call.                         *)
Abstract ==
  INSTANCE AscendingAuction WITH
    phase    <- AuctionPhase,
    calls    <- CallsMade,
    contract <- maxBid

RefinesAscendingAuction == Abstract!ASpec

(* A lower --nrules limit cuts a system's auction short and changes none   *)
(* of its calls before that: two runs of one system over one deal agree    *)
(* on every rule call up to the smaller limit, whatever runs come first.   *)
CutoffIsPrefix ==
  \A r, q \in DOMAIN out :
    LET long  == out[q].trail
        short == out[r].trail
    IN  runs[r].tree = runs[q].tree /\ runs[r].nrules >= 0
        /\ (runs[q].nrules < 0 \/ runs[r].nrules <= runs[q].nrules)
          => short = SubSeq(long, 1, IF runs[r].nrules < Len(long)
                                     THEN runs[r].nrules ELSE Len(long))

(* When North guesses, no available bid and not the standing contract was  *)
(* expected to score more than the contract the guess leaves.              *)
Expected(g, b) == IF b > bidPass THEN g.scores[g.declarers[b]][b] ELSE 0
NorthGuessIsBest ==
  Contracted /\ guess # NULL /\ guess.seat = posNorth =>
    \A b \in {guess.over} \cup ((guess.over + 1) .. bidMaxBid) :
      Expected(guess, b) <= Expected(guess, maxBid)

-----------------------------------------------------------------------------
(* What is written.                                                        *)

(* The tokens of a call sequence: a dash between two calls. *)
Dashed(calls) ==
  [i \in 1 .. (2 * Len(calls) - 1) |->
     IF i % 2 = 1 THEN calls[(i + 1) \div 2] ELSE Dash]
Text(calls) == IF calls = <<>> THEN <<>> ELSE Dashed(calls)

(* The auction column shows the calls made by rule, and the bidding column *)
(* the guessed contract and "AP" after them, although both are cut out of  *)
(* one buffer that earlier runs wrote longer text to. (A run that guesses  *)
(* its opening call is excepted: it leaves an earlier run's auction there.)*)
ColumnsTellTheAuction ==
  \A r \in DOMAIN out :
    LET o     == out[r]
        calls == RuleCalls(runs[r].tree, o.trail)
    IN  /\ calls # <<>> => o.columns.auction = Text(calls)
        /\ ~ rulesOnlyMode =>
             o.columns.bidding = IF o.guess = NULL
                                 THEN Text(calls)
                                 ELSE Text(calls \o GuessCall(o.guess)) \o <<Dash, AP>>

(* The counters of run r after the decisions tr, with a guess or without. *)
Counts(r, tr) ==
  /\ Len(matched[r]) = Len(guessed[r])
  /\ Len(matched[r]) \in {Len(tr), Len(tr) + 1}
  /\ \A k \in DOMAIN matched[r] :
       IF k <= Len(tr) THEN matched[r][k] = 1 /\ guessed[r][k] = 0
                       ELSE matched[r][k] = 0 /\ guessed[r][k] = 1

(* Per round and run, --stats counts each decision once, as matched or as  *)
(* guessed, and only the last decision of an auction can be a guess.       *)
CoverageCounts == \A r \in DOMAIN out : Counts(r, out[r].trail)

-----------------------------------------------------------------------------
(* Every run of the deal is bid to its end and written, or the process     *)
(* stops on the simulation's assertion: the retry at the root cannot keep  *)
(* two passing seats bidding for ever.                                     *)
DealFinishes == <>(pc \in {"done", "aborted"})

-----------------------------------------------------------------------------
(* Statements of the documents that the code does not meet.                *)

(* Systems are independent: a run's contract is declared by the seat that  *)
(* first bid its strain in that run. (The exception of FirstRunDeclarer,   *)
(* which one run alone shows, is left out here too.)                       *)
OwnDeclarer ==
  Contracted /\ maxBid > bidPass /\ ~ PassNamesNotrump(maxBid) =>
    getDeclarer(maxBid) = FirstNamer(maxBid)

(* Every hand the guess's simulation deals has a rule. *)
PartnerHasRule == pc # "aborted"

=============================================================================
