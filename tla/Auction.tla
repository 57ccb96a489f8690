------------------------------ MODULE Auction ------------------------------
(***************************************************************************)
(* One deal of bidlab: the auction object bids it once per run (a system   *)
(* and an --nrules limit), each run walking that system's convention tree  *)
(* until a rule closes the auction or no rule matches and a contract is    *)
(* guessed (bidlab.cpp: auction, bidHand, nextBid, suggestContract,        *)
(* outputResults).                                                         *)
(***************************************************************************)
EXTENDS ConventionTree

CONSTANTS
  RunLists,     (* the run lists main() may have built                    *)
  ScoreTables   (* outcomes of the guess's simulation: score sums indexed *)
                (* by seat of the simulated deal, then by call            *)

(* An --nrules value of -1 is no limit. *)
Run == [tree: Tree, nrules: Nat \cup {-1}]

ASSUME RunsAssumption ==
  \A rs \in RunLists : /\ rs \in Seq(Run) /\ Len(rs) > 0
                       /\ \A r \in DOMAIN rs : WellFormed(rs[r].tree)

(* addResults() adds nothing for a Pass. *)
ASSUME ScoresAssumption ==
  \A st \in ScoreTables : /\ st \in [Seat -> [Call -> Int]]
                           /\ \A s \in Seat : st[s][bidPass] = 0

(* What is kept of a guess: who, over which best call, by which scores. *)
Guess == [seat: Seat, over: BestBid, scores: ScoreTables, bid: Call,
          declarers: [Call -> Seat]]

ASSUME GuessAssumption == NULL \notin Guess

VARIABLES
  runs,           (* the run list, fixed for the process                  *)
  rulesOnlyMode,  (* --rules-only, fixed for the process                  *)
  hands,          (* the cards dealt to North and South                   *)
  run,            (* index of the current run (snum)                      *)
  pc,             (* where the deal is: see Phases                        *)
  rules,          (* accumulated inference about each seat's hand         *)
  bidder,         (* whose turn it is, -1 once the auction is over        *)
  sysp,           (* node of the tree the auction has reached             *)
  allPassSoFar,
  roundNum,
  maxBid,
  declarer,       (* per strain: who first named it, or -1                *)
  bidStr,         (* the auction text, as tokens up to its terminator     *)
  nextBidp,       (* write position in bidStr, as a number of tokens      *)
  guessPoint,     (* guessPointBidStr                                     *)
  guessWasCalled,
  matched,        (* matchedByRound of each run                           *)
  guessed,        (* guessedByRound of each run                           *)
  out,            (* the columns written so far, one record per run       *)
  trail,          (* history: the rule decisions of the current run       *)
  guess           (* history: the simulation behind the guess, or NULL    *)

dealVars   == <<runs, rulesOnlyMode, hands>>
textVars   == <<bidStr, nextBidp>>
bestVars   == <<maxBid, declarer>>
vars == <<dealVars, run, pc, rules, bidder, sysp, allPassSoFar, roundNum, bestVars,
          textVars, guessPoint, guessWasCalled, matched, guessed, out, trail, guess>>

(* "start": between runs; "bidding": nextBid() is to be called; "closed":  *)
(* it returned false; "done": every run written; "aborted": an assertion   *)
(* stopped the process.                                                    *)
Phases == {"start", "bidding", "closed", "done", "aborted"}

(* Tokens of the auction text that are not calls. *)
Dash  == 0
AP    == 1
Token == Call \cup {Dash, AP}

tree   == runs[run].tree
nrules == runs[run].nrules

-----------------------------------------------------------------------------
(* Helpers of the auction object.                                          *)

getDeclarer(b) == IF declarer[bidStrain(b)] < 0 THEN bidder ELSE declarer[bidStrain(b)]

(* Mutants: setDeclarer() after the bidder is gone; the last to name it. *)
LateDeclarer(b) == declarer
LastNamer(b)    == [declarer EXCEPT ![bidStrain(b)] = bidder]

(* setDeclarer(b) *)
DeclarerWith(b) ==
  IF declarer[bidStrain(b)] < 0
  THEN [declarer EXCEPT ![bidStrain(b)] = bidder]
  ELSE declarer

(* Mutant: a call equal to the best so far keeps the auction open. *)
NotWorse(b) == b >= maxBid

NewBestBid(b) == b > maxBid

(* Mutant: the text is appended to what the buffer holds. *)
AfterAll(tokens) == bidStr \o tokens

(* sprintf at the write position: what followed it is gone. *)
Written(tokens) == SubSeq(bidStr, 1, nextBidp) \o tokens

WithoutDash(s) ==
  IF Len(s) > 0 /\ s[Len(s)] = Dash THEN SubSeq(s, 1, Len(s) - 1) ELSE s

(* Mutant: the counters grow a round too late. *)
GrownLate(tally, k) ==
  [i \in 1 .. (IF Len(tally) < k - 1 THEN k - 1 ELSE Len(tally)) |->
     IF i <= Len(tally) THEN tally[i] ELSE 0]

(* A per-round counter grown to reach round k. *)
Grown(tally, k) ==
  [i \in 1 .. (IF Len(tally) < k THEN k ELSE Len(tally)) |->
     IF i <= Len(tally) THEN tally[i] ELSE 0]
Bumped(tally, k) == [Grown(tally, k) EXCEPT ![k] = @ + 1]

(* Mutant: one rule call too many. *)
LimitPassed == nrules >= 0 /\ roundNum > nrules

(* The --nrules cutoff, for the round that is about to be counted. *)
LimitReached == nrules >= 0 /\ roundNum + 1 > nrules

Found == findMatchingChild(tree, sysp, allPassSoFar, hands[bidder], rules[bidder])

(* Mutant: the cutoff suppresses the rules but does not force the guess. *)
OnlyUnmatched == Found.match = NULL

MustGuess == LimitReached \/ Found.match = NULL

(* The contract the simulation st suggests: the lowest of the available    *)
(* bids that score most for getDeclarer(), if they beat standing still.    *)
bestExp(st) == IF maxBid > bidPass THEN st[getDeclarer(maxBid)][maxBid] ELSE 0

(* Mutant: the first improvement found is taken. *)
FirstImprovement(st) ==
  LET y(b)  == st[getDeclarer(b)][b]
      avail == (maxBid + 1) .. bidMaxBid
  IN  {b \in avail : /\ y(b) > bestExp(st)
                     /\ \A c \in avail : c < b => y(c) <= bestExp(st)}

Suggestions(st) ==
  LET y(b)  == st[getDeclarer(b)][b]
      avail == (maxBid + 1) .. bidMaxBid
  IN  {b \in avail : /\ y(b) > bestExp(st)
                     /\ \A c \in avail : y(c) <= y(b)
                     /\ \A c \in avail : c < b => y(c) < y(b)}

SuggestedBid(st) ==
  IF Suggestions(st) = {} THEN bidPass ELSE CHOOSE b \in Suggestions(st) : TRUE

-----------------------------------------------------------------------------
Init ==
  /\ runs \in RunLists
  /\ rulesOnlyMode \in BOOLEAN
  /\ hands \in [Seat -> Hand]
  /\ run = 1
  /\ pc = "start"
  /\ rules = [s \in Seat |-> AnyRule]
  /\ bidder = posNorth
  /\ sysp = Root
  /\ allPassSoFar = TRUE
  /\ roundNum = 0
  /\ maxBid = bidNotFound
  /\ declarer = [s \in Strain |-> -1]
  /\ bidStr = <<>>
  /\ nextBidp = 0
  /\ guessPoint = <<>>
  /\ guessWasCalled = FALSE
  /\ matched = [r \in DOMAIN runs |-> <<>>]
  /\ guessed = [r \in DOMAIN runs |-> <<>>]
  /\ out = <<>>
  /\ trail = <<>>
  /\ guess = NULL

(* bidHand() up to its loop: initializeBidding() leaves the text and the   *)
(* declarers of the run before in place.                                   *)
BidHand ==
  /\ pc = "start"
  /\ pc' = "bidding"
  /\ rules' = [s \in Seat |-> AnyRule]
  /\ bidder' = posNorth
  /\ sysp' = Root
  /\ allPassSoFar' = TRUE
  /\ roundNum' = 0
  /\ maxBid' = bidNotFound
  /\ nextBidp' = 0
  /\ guessPoint' = <<>>
  /\ guessWasCalled' = FALSE
  /\ trail' = <<>>
  /\ guess' = NULL
  /\ UNCHANGED <<dealVars, run, declarer, bidStr, matched, guessed, out>>

(* nextBid() with a matching rule: infer, descend, call; the auction goes  *)
(* on only if the call is a new best bid.                                  *)
MatchBid ==
  /\ pc = "bidding"
  /\ ~ LimitReached
  /\ Found.match # NULL
  /\ LET s == Found.match
         b == tree.call[s]
     IN  /\ rules' = [rules EXCEPT ![bidder] = combineRule(Found.acc, tree.rule[s])]
         /\ sysp' = s
         /\ allPassSoFar' = (allPassSoFar /\ b = bidPass)
         /\ nextBidp' = nextBidp + 2
         /\ trail' = Append(trail, [seat |-> bidder, from |-> sysp,
                                    passed |-> allPassSoFar, to |-> s])
         /\ \/ /\ NewBestBid(b)
               /\ maxBid' = b
               /\ declarer' = DeclarerWith(b)
               /\ bidder' = nextBidder(bidder)
               /\ bidStr' = Written(<<b, Dash>>)
               /\ UNCHANGED pc
            \/ /\ ~ NewBestBid(b)
               /\ bidder' = -1
               /\ bidStr' = Written(<<b, Dash, AP>>)
               /\ pc' = "closed"
               /\ UNCHANGED bestVars
  /\ roundNum' = roundNum + 1
  /\ matched' = [matched EXCEPT ![run] = Bumped(@, roundNum + 1)]
  /\ guessed' = [guessed EXCEPT ![run] = Grown(@, roundNum + 1)]
  /\ UNCHANGED <<dealVars, run, guessPoint, guessWasCalled, out, guess>>

(* nextBid() without one, up to the point where it needs a contract. *)
NoRule ==
  /\ pc = "bidding"
  /\ MustGuess
  /\ roundNum' = roundNum + 1
  /\ matched' = [matched EXCEPT ![run] = Grown(@, roundNum + 1)]
  /\ guessed' = [guessed EXCEPT ![run] = Bumped(@, roundNum + 1)]
  /\ guessWasCalled' = TRUE
  /\ guessPoint' = WithoutDash(bidStr)
  /\ UNCHANGED <<dealVars, run, rules, sysp, allPassSoFar, out, trail>>

(* --rules-only ends the auction there. *)
StopAtRules ==
  /\ rulesOnlyMode
  /\ NoRule
  /\ bidder' = -1
  /\ pc' = "closed"
  /\ UNCHANGED <<bestVars, textVars, guess>>

(* Otherwise suggestContract() simulates the unseen hands, the partner's   *)
(* subject to what the auction inferred, and its choice ends the auction.  *)
(* Bound: the deal has hands, so enterNorth() finds the guesser's in the   *)
(* full pack; on a board that createDeal() gave up suggestContract()       *)
(* returns bidInvalid, and nextBid() reads bidNames[-1] (undefined).       *)
GuessBid ==
  /\ ~ rulesOnlyMode
  /\ NoRule
  /\ rules[nextBidder(bidder)] # NULL
  /\ \E st \in ScoreTables :
       LET b == SuggestedBid(st)
       IN  /\ \/ /\ NewBestBid(b)
                 /\ maxBid' = b
                 /\ declarer' = DeclarerWith(b)
              \/ /\ ~ NewBestBid(b)
                 /\ UNCHANGED bestVars
           /\ bidStr' = Written(<<b, Dash, AP>>)
           /\ nextBidp' = nextBidp + 4
           /\ guess' = [seat |-> bidder, over |-> maxBid, scores |-> st, bid |-> b,
                        declarers |-> [c \in Call |-> getDeclarer(c)]]
  /\ bidder' = -1
  /\ pc' = "closed"

(* The simulation asserts that every hand it deals has a rule. *)
GuessAborts ==
  /\ ~ rulesOnlyMode
  /\ NoRule
  /\ rules[nextBidder(bidder)] = NULL
  /\ pc' = "aborted"
  /\ UNCHANGED <<bidder, bestVars, textVars, guess>>

(* The last token before the write position goes, and with it the rest. *)
Stripped == IF nextBidp > 0 THEN SubSeq(bidStr, 1, nextBidp - 1) ELSE bidStr

Columns ==
  LET auction == IF guessWasCalled THEN guessPoint ELSE Stripped
  IN  IF rulesOnlyMode
      THEN [auction |-> auction]
      ELSE [auction |-> auction, bidding |-> Stripped, contract |-> maxBid,
            declarer |-> getDeclarer(maxBid)]

(* outputResults(), and on to the next run. *)
OutputResults ==
  /\ pc = "closed"
  /\ bidStr' = Stripped
  /\ nextBidp' = IF nextBidp > 0 THEN nextBidp - 1 ELSE nextBidp
  /\ out' = Append(out, [columns |-> Columns, trail |-> trail, guess |-> guess])
  /\ \/ /\ run < Len(runs)
        /\ run' = run + 1
        /\ pc' = "start"
     \/ /\ run = Len(runs)
        /\ pc' = "done"
        /\ UNCHANGED run
  /\ UNCHANGED <<dealVars, rules, bidder, sysp, allPassSoFar, roundNum, bestVars,
                 guessPoint, guessWasCalled, matched, guessed, trail, guess>>

Next == BidHand \/ MatchBid \/ StopAtRules \/ GuessBid \/ GuessAborts \/ OutputResults

(* A single thread runs nextBid() in a loop and never waits. *)
Spec == Init /\ [][Next]_vars /\ WF_vars(Next)
=============================================================================
