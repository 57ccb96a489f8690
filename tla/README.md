# BridgeLab, specified

BridgeLab is two programs about bridge. **bidlab** deals hands, lets a bidding
system (a rules file) bid them for North and South, guesses a contract by
simulation where the system has no rule, and scores the result. **deallab**
deals hands that obey rules and analyses contracts on them. Both parse the same
rule language and share the pack, the hands and the rule evaluator.

Both programs are single-threaded and keep nothing across runs of the process.
What makes them hard is not interleaving. It is state that outlives one use
(one auction object bids the same deal several times, one pack serves boards and
simulations, one tree is built from definitions that are later changed), and
long sequences of legal steps (redefinitions, the retry at the root, batches,
tries that break off half-way).

## 1. Inventory

| component | state | operations | used by |
|---|---|---|---|
| Bid encoding (`shared/bid.hpp`) | none | `makeBid`, `bidLevel`, `bidStrain`, `bidValid` | everything in bidlab |
| Text expansions (`majMinExpand.cpp`, `trumpAskExpand.cpp`) | line map, templates | expand Maj/Min, graft ask templates, resolve trumps, check ranks | `read_rules()` |
| Parser (`bridge.y`, `bridge.l`, `parse_rules.cpp`) | `defroot`, `lastDef`, `defIndex` | `:=`, `:&`, `:\|`, references | both programs |
| Rule nodes (`tnode.cpp`) | definition index, transient arena | `combineRule`, `negateRule`, `find_rule`, arena begin/end | parser, auction |
| Simplifier (`simplify.cpp`) | none | `simplifyRule` | `combineRule` |
| Rule evaluation (`fns_common.cpp`) | the node's own results | `checkHand` | dealing, auction |
| Convention tree (`bidlab.cpp` 191-480) | nodes, rules, negations | `processRule`, `precomputeSiblingNegations`, `findMatchingChild` | auction, `--validate` |
| Pack (`pack.cpp`) | `cards`, `undealt` | reshuffle, deal, remove, save, restore | all dealing |
| Dealing and sampling (`bidderDeal.cpp`, `createDeal`, `runSimulation`) | hands, rules by position, batch | deal with rules, enter PBN, sample, solve, score | auction |
| Auction (`bidlab.cpp` 559-830) | inference, bidder, declarers, text, counters | `bidHand`, `nextBid`, `suggestContract`, `outputResults` | `main()` |
| Scoring (`rawScore.cpp`, `handScores`, `calcScores.cpp`) | sums per contract | raw score, IMPs, par | auction, deallab |
| Validation (`bidlab.cpp` 1150-1500) | what is known at each node of a walk | unreachable nodes, overlaps, gaps, duplicates | `--validate` |
| Driver (`main()` of bidlab) | run list, board loop, summary sums | options, boards, tables | - |
| deallab's dealing (`dealerDeal.cpp`, `deallab.cpp`) | pack without the given hands, rules, the deals counted, count of hands dealt | read a request, deal until rules hold, save a pair, deal its opponents | deallab's `main()` |
| deallab's analysis (`master.cpp`, `calcScores.cpp`) | tricks by deal and contract | solve in batches, pars, averages | deallab's `main()` |
| Formats (`translations.c`, `csvparser.cpp`, `dealerIO.c`, `hands.cpp`, `log.c`) | none | conversions, output | both programs |
| Double-dummy solver | external | solves up to 32 deals a call | `runSimulation`, deallab |

How they interact. A rules file goes through three text passes (Maj/Min, templates,
trumps) and the parser into a chain of definitions; `processRule()` hangs those whose name is a bid
sequence into the convention tree; one pass computes the sibling negations.
`main()` makes, for every board, an auction object that creates the deal (pack,
`bidderDeal`, one simulation for the par) and bids it once per run, a run being
a system and an `--nrules` limit. Bidding walks the tree with the bidder's hand
and narrows what the table knows of that hand; when no rule matches, the guess
simulates the other hands, the partner's subject to what is known.

What makes each component correct: 

- *encoding*: order of calls, strain of a call, seat after a seat;
- *loading*: the tree is one that can be walked, and every node means what the
  file's language says its name means;
- *tree and rules*: what is inferred from a call, or from the calls not made, is
  exactly what the choice tells;
- *auction*: every auction is a legal one, its contract has the right declarer,
  a limit only shortens it, the guess is the best available, what is written and
  counted is what was bid, every deal ends;
- *pack*: no card is doubled or lost;
- *sampling*: what is solved is a whole deal around the known hands that obeys
  the rules of every seat, and what is counted is what is scored;
- *simplifier*: a rewritten rule is worth what the rules it was made of are;
- *arena*: no node that a rule in use is made of is written again, and memory does not grow;
- *scoring*: the laws of scoring and one IMP scale in both programs;
- *deallab's averages*: tricks belong to their deal, par is best;
- *deallab's dealing*: what is counted is a whole deal that has the given cards and obeys
  the rules, and only the last row of an analysis may stand for fewer deals than asked;
- *validation*: what the walk takes the next hand to be is what the auction will know
  of it, and a gap or an overlap it reports is one of some auction, and conversely;
- *expansions*: the parser reads lawful bid sequences only, they mean what the file
  says, and a mistake in the file stops the program.

The hazards, each at its line, and the properties for them are listed in
`PROJECT.json`.

## 2. Modules

    BidEncoding                     calls, strains, seats
      ConventionTree                rule algebra, tree, findMatchingChild()
        Auction                     one deal, all runs
          AuctionProperties  ---->  AscendingAuction (abstract)
            AuctionProofs
            ValidationProperties    --validate against the auction
              MCAuction
        ValidateWalk                --validate's walk
        SystemLoader                rules file -> tree
          LoaderProofs, MCLoader
        RuleKnowledge (abstract)  <----  Simplify      rules as trees
                                           SimplifyProofs, MCSimplify
      Sampling                      boards, simulations, batches
        SamplingProofs, MCSampling
    Pack  ------------------------> PackOfCards (abstract)
      SamplingProofs, MCPack
    Arena                           where rule nodes live
      ArenaProofs, MCArena
    BidNames                        names with macros and marks
      RulesText                     the passes over a rules file
        RulesMeaning                what the file means
          MCRulesText
        RulesTextProofs
    DealerDeal                      deallab's requests and dealing
      DealerDealProofs, MCDealerDeal
    RawScore                        scores, IMPs
      ScoringLaws                   the laws they follow
      DealerScores                  deallab's batches, pars, averages
        DealerScoresProofs, MCDealerScores

Modules meet where the code's components do. `Auction` takes any
well-formed trees; `SystemLoader` shows that loading yields only such trees, so
the theorem `LoadsWellFormed` discharges `Auction`'s assumption. `ConventionTree`
takes the sibling negations in closed form; `NegationsAreFinal` shows that the
loader stores exactly those. `Sampling` takes the pack as a set of cards;
`PackIsASet` shows that the array implements one. `Auction` takes any score
table as the outcome of a simulation; `Sampling` says what the simulation samples.
`ConventionTree` takes `combineRule()` and `negateRule()` as operations on sets
of hands; `Simplify` works on the trees the code builds and implements that
algebra. `Arena` shows that those trees stay what they were built as. `SystemLoader`
assumes that the bid sequences of a file are legal; `OutputIsAlwaysLegal` shows that
the passes before the parser let no other through. `ValidationProperties` sets the
walk of `ValidateWalk` beside the auctions of `Auction`, on one tree.

### BidEncoding, ConventionTree

Calls are integers with Pass as 4 and 1C as 5, as in `bid.hpp`. `bidMaxBid` is a
parameter. A rule is abstracted to `ext`, the set of hands it accepts, and
`top`, whether `simplifyRule()` reduces it to the literal true: `combineRule()`
answers NULL for exactly that leaf, and the difference between NULL and a true
rule is visible to the dealing. The tree keeps, per node, its children in order,
its call and its rule (NULL for a waypoint). `findMatchingChild()` is one operator: the match
at the node, the retry at the root while only passes were made, and the
accumulated negations on every path.

### Auction, AuctionProperties, AscendingAuction

One variable per field of the auction object that outlives a call, and the
tables `matchedByRound`, `guessedByRound`. The actions are `BidHand`
(`initializeBidding()`), the three ways of `nextBid()` (`MatchBid`,
`StopAtRules`, `GuessBid`), the stop on the assertion in `deal_and_check()`
(`GuessAborts`) and `OutputResults`. The auction's text is kept as tokens with
the write position as the code keeps it, since two runs share one buffer.
`declarer[]` and the text are *not* reset between runs, as in the code.
`trail` and `guess` are history variables. A simulation's outcome is any table
of `ScoreTables`.

`AscendingAuction` says what an auction is to a bridge player: seats in turn, higher calls
until one that is not, the contract the highest call.

### ValidateWalk, ValidationProperties

`walkValidate()` is a recursion with accumulators passed down: a function of the path
from the root, in which `AtChild` makes what a child is visited with (depth, the two
accumulated rules, whether only passes were made, whether the node is walked at all)
of what its parent was. The path of an auction (`Path`) starts at the opening bid it chose last. `checkDecisionPoint()` samples hands of the
precondition; the model takes the sampling to be exhaustive, so `overlapHits` and
`gapHits` are the sets it samples from. Duplicate rules are compared as texts, which
trees of extensions do not have, and the report's counts are output: both are left out.

### BidNames, RulesText, RulesMeaning

A name is a sequence of tokens, a level with a strain (a suit, N, P or a macro) and whether `@`
marks it as the trump; a body is a sequence of atoms: a macro, a suit, `Trump`, or a reference
by name. The passes are taken one statement at a time, in the code's order, over one
text: `Split` (or `Fatal`), the Maj/Min pass (`GenerateForks`, then one `WriteFork` for each),
collecting templates, grafting with a stack of frames for the recursion
(`GraftEntry`, `GraftReturns`), and trumps (`ResolveStatement`). Every fatal message of
the three files is the phase `"fatal"`. `RulesMeaning` says, without passes, what a
file means: the set of concrete definitions, obtained by quantifying over the choices
of suits and over the ways templates hang on each other. A file ends in one of three phases:
`"fatal"`, a message of the passes; `"syntax error"`, when the parser is given what it has no
token for (`Unreadable`: a `:?` that stayed in a body with a free pair, or the `@` of a reference);
`"parsed"`. Quoting, comments and layout are left out, and so is the letter case in which a file
writes a call: `graftAt()` compares names as strings and does not normalise a template's tokens,
so a `5c` of a template and a typed `5C` do not collide there (one bound of `Name`).

### Pack, PackOfCards

`cards`, `undealt` and a caller's saved copy. The random index is any slot in
use. `PackOfCards` is a set with removal at random or by name.

### Sampling

The pack, the hands and rules of the `bidderDeal` in use, the snapshot, the
batch and the counters, over the board loop of `main()` in both its forms.
A try of `dealAndCheck()` is one action: it deals hands in the order of the code
and stops at the first that breaks its rule, with the cards dealt so far out of
the pack. `Guess` turns the rules so that the bidder sits North. Abstractions:
a rule is the set of hands it accepts; a line of the PBN file that is refused
leaves any non-empty part of the pack; the auctions are any number of guesses, at
most one per run, with any inference about the partner; the rules of the
guesser's own seat are carried along and not read, as in the code. The
`--rules-only` mode does not sample and is left out here (`Auction` has it).

### DealerDeal

A request is four wishes (nothing, a rule, or cards) and a vulnerability; the command
line and the lines of a hands file give them. `Construct` is the constructor of `dealerDeal`
with its fatal errors (`ConstructFails`), `Try` one round of `dealAndCheck()` with the
deals of the three drivers: the loop that deals all hands, the pair that `saveNS()`
fixes, and the opponents dealt around it. `nToDeal` of the class, the count that is never
reset, is kept as the code keeps it. As in `Sampling`, a rule is the set of hands it accepts,
and a hand is any of those with enough cards of the pack.

### SystemLoader

Statements are parsed one at a time (`Define`, `Modify`, `Reject`,
`EndOfFile`), the chain is processed call by call (`StartRule`, `Descend`,
`Create`, `EndRule`, `SkipRule`), and the recursion of
`precomputeSiblingNegations()` is a stack of frames (`NegateSibling`,
`NegateParent`). A name is a model value; `Calls` gives what `parseBid()` reads
from it, also for a name that stops being a bid sequence half-way, and
`BidSequences` those it reads to their end, whose ranks were checked before
parsing (`isLegalBidSequence()`). `makeDef()` writes every name in upper case before it is looked
up, so a name is its upper-case form, and a bid sequence has one name (`FilesAssumption`). An
expression is a rule or a reference; a reference to a name not yet defined is fatal (`Reject`). That
the names which break off are *not* rank-checked is why `WellFormed` asks
for ascending calls only where there is a rule.

### RuleKnowledge, Simplify

`RuleKnowledge` is what an auction does with rules, in ConventionTree's algebra:
reject siblings, infer from that, match. `Simplify` has the same three actions on
trees: `combineRule()` conjoins and calls the simplifier, whose functions are
translated one by one. A tree is a record with its operands in it; the set of trees is built
height by height, so that evaluation and the simplifier are recursive functions on it.
A context is a function from quantities to intervals. The order in which the hash table of
quantities is iterated is a variable chosen at the start, since nothing fixes it.
The refinement maps a tree to the hands it accepts and to whether it is made of
true leaves. Bounds: no tree is higher than `MaxHeight` operators, a step that would make a
higher one is not taken (`High` counts levels whatever the nodes are, so it does not hide
a malformed tree); no rule of the file itself negates the literal true
(rejecting `NOT $ANY` gives a true rule that the simplifier recognises and
the algebra does not), no literal is near the ends of `long long`, and shapes
and arithmetic, which the code passes through untouched, are represented by
the comparison of two quantities and by a quantity used as a truth value.

### Arena

Blocks, their fill counts and the block in use, over the board loop of `main()`
in both forms; a PBN line without a deal leaves the arena active (`NoDeal`). A
node is a slot and the number of the `make_leaf()` call that wrote it, so that a
holder's pointer is stale exactly when the slot has been written since. Whether something names
`$ANY` before the boards (`NameAny`) or the first lookup makes its node inside a board is open.
`CombineRule` makes a seat's rule of any of its nodes, any of the system's and the new ones.

### RawScore, ScoringLaws, DealerScores

Scores and both IMP tables as functions; `ScoringLaws` states law 77
independently, penalties undertrick by undertrick, once per vulnerability before any deal. `DealerScores` deals until
tries run out, solves in batches with the two counters of `ddsMain()`, and
summarises by `setPars()`. The solver is a table of tricks by deal. An entry of
`maxTricksList` that was never written reads as any of `Garbage`. Averages are
kept as sums: all are divided by the same number.

## 3. Runs

| run | instance | question | states |
|---|---|---|---|
| `auction` | 3 hands, calls P-2D, trees of depth 3 (8 nodes, a raise, every mix of waypoints, overlapping rules and bare `$ANY`), two runs: one system under two different limits of none, 0, 1, 2, or two systems | what is inferred, who declares, what is written and counted, is it an auction, does every deal end; is what `--validate` says so | 481k |
| `stale_declarer`, `null_partner_rule` | as above | findings below | - |
| `pack` | 4 cards | no doubles; is it a set | 12k |
| `sampling` | 4 cards, one per hand, 2 boards, 2 runs, 5 tries, 3 samples, batch of 2 | what is solved, what is counted | 484k |
| `loader` | all files of 3 statements over 7 names (a hand property, `$ANY`, two openings, a response, a passed-hand opening, a name that breaks off), 2 hands | the tree and what it says | 416k |
| `rules_text` | all files of up to 3 of 26 statements, and of two rules with two template entries; 2 templates | what the parser is given, what it means, are mistakes found | 467k |
| `simplify` | 2 quantities of 4 values, 15 rules (plain bounds in both orders, `!=`, two quantities, OR under AND with redundant and impossible branches, NOT over both, literals), 3 combined, both orders of emission | what the rewriting keeps | 56k |
| `arena` | 2 permanent nodes, `$ANY` named before the boards or not, 3 boards of up to 4 nodes, blocks of 2, 2 runs | are rules in use intact; does memory grow | 1.09M |
| `dealer_scores` | up to 3 deals of 5 kinds, batches of 2, four vulnerabilities; all contracts, doublings and tricks; all differences of two scores | whose tricks, which par; the laws | 22k |
| `dealer_deals` | 4 cards, one per hand, 4 tries, 2 deals, 2 deals of the opponents; a command line and files of one or two lines that mix rules and cards | is a deal whole, as asked, are rows complete, does the analysis end | 45k |
| `dealer_known_ew` | as above | finding below | - |

Why the bounds are enough. *Auction*: depth 3 has a retry from below a pass, a
waypoint with and without ruled children, a sibling rejected before the match,
a strain named by both seats, notrump bid by South with and without an opening Pass before it, a call not higher than the last (the auction closes by rule), and both seats guessing; two runs are what it
takes for one to leave something to the other; every limit below, at and
above the number of matches occurs. *Sampling*: three samples in batches of two give a
full and a short batch, five tries for three samples give runs that end with tries
left and runs that exhaust them in every phase of a batch; two boards give stale
state; the rule maps make tries break off at each position. With one card to a
hand, a hand's cards are not told apart, which no property here needs: hands are
only compared and intersected. *Pack*: four slots hold a card in its own slot, one moved there and back,
and a hole before, at and after the last. *Simplify*: three rules are two
that meet in one AND and one that meets the result; four values have a lower and an
upper bound with a value between, at and beyond them; `MaxHeight` 12 is never reached. *Arena*: four nodes fill two
blocks and the third board meets what the first two left. *DealerScores*: three
deals in batches of two are a full and a short batch, and every smaller number.
*Loader*: three statements are a definition, a
waypoint or redefinition and a modification or reference in every order.
*RulesText*: the statements use each macro, mark, operator and attachment and make each mistake;
three of them are an ask, a template and an entry of it that attaches another, or a
property, a reference to it and a second definition; two rules with two entries make
a graft under a graft and the same name twice. *DealerDeal*: two requests make a second one begin with the first's
count, four tries for two deals end in each phase, and each position is once given
as cards, once two of them with one card.

Every passing property has a mutant: an operator beside the one it replaces, with
the comment `Mutant`, that changes the code's behaviour the way a plausible slip would,
and violates the property on the same instance. Deadlock is not checked
(`CHECK_DEADLOCK FALSE`) in auction, sampling, loader, rules_text, arena, dealer_scores
and dealer_deals: the program ends when its boards or deals are done, its file is loaded,
a mistake is fatal or its assertion fails. The types of Pack, RulesText, Arena, DealerScores and DealerDeal are part of the invariants
of their proofs and are not run.

**Fairness.** `Auction` and `DealerDeal` state fairness, `WF_vars(Next)`: one thread
calls `nextBid()`, or `dealAndCheck()`, in a loop and never waits, so some step is taken as
long as one is possible. It is enough for `DealFinishes` and `AnalysisEnds`: the retry at the root
cannot go on for ever, and every loop of tries is counted. No other module states fairness.

### Findings

| run | what the code does | what is said of it |
|---|---|---|
| `stale_declarer` | `declarer[]` is cleared once per deal, so a later run's contract is declared by a seat of an earlier run | `design.md:60-61` |
| `null_partner_rule` | a partner whose calls were all by bare `$ANY` has a null rule, and the guess stops on an assertion | `bidderDeal.cpp:16` |
| `dealer_known_ew` | an analysis that fixes North and South deals their opponents from everything else: an East given as cards keeps them, and West may be dealt them too | `deallab.cpp:321` |

`FirstRunDeclarer` and `DealsAreWhole` are what holds in place of the statements that do
not; `RulesExact` allows for the null rule. `OwnDeclarer` leaves out notrump after an opening Pass,
which one run alone shows (below), so that its counterexample is about two runs.

`MistakesAreFatal` says when a file is parsed: when it makes no mistake (`FileIsLawful`) and has
none of the three forms below that the documentation has or nothing forbids, and that the passes do not
bring to the parser: a bare `:?`, which the first pass refuses with a message (`BareAsk`), and the
two that end in a syntax error (`CannotBeRead`).

Met while modelling, visible in the definitions named, without a run of their own:

- South's guess is scored for the wrong seat of the simulated deal, which was turned to
  make the guesser North (`bidlab.cpp:1072`, `design.md:133`; `SuggestedBid` of Auction, so
  `NorthGuessIsBest` is about North);
- the shared `$ANY` node is made at its first use; if neither a file nor a
  defaulted position names `$ANY`, that is inside a board's arena, and the next board
  overwrites it (`tnode.cpp:236` against its comment at 228; `MadeByEarlierBoard` of Arena
  excepts it);
- a Pass is encoded with the strain of notrump and `setDeclarer()` is called for an opening
  Pass, so after North's a notrump contract that South names first is North's
  (`bid.hpp:22`, `bidlab.cpp:725-729`; `PassNamesNotrump` excepts it);
- deallab's IMPs, and the par chosen by them, are taken not vulnerable whatever `-V` or
  the board says (`calcScores.cpp:209`, `deallab/README.md:54`; `curVulCode`);
- a run that guesses its opening call copies the text of the run before into its
  auction column (`bidlab.cpp:641, 699`; `ColumnsTellTheAuction` excepts it);
- the samples of an open batch are not scored when the tries run out
  (`bidlab.cpp:1013`; `OutOfTries` of Sampling);
- siblings are ordered by the first mention of their call, not by their rules
  (`bidlab.cpp:473`, `hand-spec.md:452-453`; `Create` of SystemLoader);
- a comparison that `NOT` turned into one is not merged with others of its quantity
  in the same pass (`simplify.cpp:305`, `hand-spec.md:517-520`; `Folded` of Simplify);
- a difference of exactly 4000 points reads an entry of deallab's IMP table that is
  never filled (`calcScores.cpp:28, 39`; `TablesAgree` excepts it);
- deallab's averages include deals that were never found (`calcScores.cpp:235`;
  `tricks` of DealerScores), and of 4S and 4H with one score 4H is par
  (`calcScores.cpp:187`, `ddsinfo.hpp:60`; `LastOfBest`);
- a line of a hands file that names no vulnerability keeps that of the line before
  (`deallab.cpp:322`; `vul` of DealerDeal);
- `--validate` says of its walk that it rebuilds the live precondition exactly
  (`bidlab.cpp:1178`); after a retry at the root it is only weaker (`WalkKnowsTheHand`);
- a definition that attaches a template without a body of its own is fatal where the
  statements are split, though the documentation of templates has it (`majMinExpand.cpp:232-235`,
  `hand-spec.md:932`, `trumpAskExpand.cpp:113-130`; `BareAsk`);
- a definition that has `:?` behind a body with a free pair is documented (`hand-spec.md:714-726`
  for the pair, `930-935` for the combination), but the body is duplicated with the `:?` in it, the
  template pass no longer finds it, and the parser ends with a syntax error
  (`majMinExpand.cpp:697-701`, `trumpAskExpand.cpp:187-210`; `CannotBeRead`);
- a reference to a name with `@` keeps the mark, which is no part of a name to the lexer: a
  syntax error (`trumpAskExpand.cpp:367-376`, `bridge.l:86`; `CannotBeRead`);
- names that differ only in a trump mark do not count as the same when a template is
  grafted, so a bid may get two definitions, which the documentation makes fatal
  (`trumpAskExpand.cpp:263`, `hand-spec.md:939-942`; `DifferInMarks` excepts it), and neither do a
  template's call and a typed one in letters of different case (outside the model);
- a template entry `P` that attaches its own template is grafted under itself for
  ever; the instances attach templates only to entries that raise the rank;
- a reference to a name with macros keeps the forks whose ranks made them be dropped
  (`majMinExpand.cpp:565-575`; `Generated`), and a template that only an entry of an
  unattached template attaches is reported as unused (`UnusedAreUnattached`).

## 4. Theorems

| theorem | says | argument |
|---|---|---|
| `MatchExact` | one rule call narrows a hand to exactly those that make that call | cases of `findMatchingChild()`: match, match at the root, none; `CombineExt` and `NegatedKidsExt` give the extension of every rule built |
| `TypeCorrect` | `[]TypeOK` of Auction | `TypeOK` alone is not inductive: the write position must fit the text (`TextFits`), which depends on the phase |
| `InferenceExact` | `[]RulesExact` | induction over the calls; a call adds one decision to the trail and `MatchExact` one conjunct to the rule |
| `DeclarerKnown` | `[]ContractHasDeclarer` | strengthened to `NamedStrain`: the strain of the best bid has a recorded declarer from the moment it is best |
| `AuctionsAscend` | `Spec => AscendingAuction!ASpec` | `Walk`: while bidding, the parity of the decisions gives the seat, the node reached has the best call, and only passes leave none above Pass; a match is a child that has a rule (`MatchIsKid`), so its call is a Pass or outranks its parent's |
| `FirstDeclarerStands` | `[]FirstRunDeclarer` | `Recorded`: in the first run `declarer[]` holds, per strain, the seat of the first decision that named it (`NamedNext`, `NamedStays`), from which the guess can only add its own; decisions that name are bids (`NamersAreBids`), but for the opening Pass, which stands for notrump |
| `LimitsCutShort` | `[]CutoffIsPrefix` | `Retold`: every decision of a run follows from those before it, the tree and the hands, without the rules inferred so far (`MatchIgnoresRules`), and the last is the last; then the first decision on which two runs differ cannot exist (`LimitCutsShort`) |
| `GuessIsBest` | `[]NorthGuessIsBest` | of finitely many scores in a row one is the first of the highest (`HighestExists`), so an empty choice means that nothing beats standing still (`SuggestedIsBest`) |
| `CoverageIsCounted` | `[]CoverageCounts` | `CountsInv`: the counters of the run being bid are as long as its trail, those of later runs empty |
| `ColumnsAreTheAuction` | `[]ColumnsTellTheAuction` | `TextInv`: up to the write position the buffer spells this run's calls, whatever an earlier run left behind it (`SpelledNext`), so each column cut out of it is a part of this auction (`TextIsCut`) |
| `WalkIsFaithful`, `ReportsAreTrue` | the two of ValidationProperties | see below |
| `SamplesWhole`, `SamplesObey` | `[]SamplesAreWhole`, `[]SamplesObeyRules` of Sampling | see below |
| `BatchesAccount` | `[]BatchAccounting` of Sampling | `Batches`: while a simulation runs, what is counted is scored or in a batch with room, and fewer than the limit are counted |
| `BoardsObey` | `[]BoardObeysRules` of Sampling | an accepted attempt is four hands that obey their rules (`BoardDealt`); a board is without hands only while none is created for it (`Fresh`) |
| `SamplingTypeCorrect` | `[]TypeOK` of Sampling | boards scored are counted against the board being played (`Boards`), which depends on where the loop is |
| `LoadsWellFormed` | `[]TreeIsWellFormed` of SystemLoader | see below |
| `NegationsStored` | `[]NegationsAreFinal` of SystemLoader | see below |
| `LoaderTypeCorrect` | `[]TypeOK` of SystemLoader | `PositionsOK`: the positions in the file, the chain and the name being walked stay in them, depending on the phase |
| `NodesAreNamed` | `[]NodesMeanTheirNames` of SystemLoader | see below |
| `NeverTwice` | `[]NoDuplicates` of Pack | with `TypeOK`: filling a hole from the last slot keeps the slots in use injective |
| `PackIsASet` | `Spec => AsSet!PSpec` | under `NoDuplicates`, each operation on the array is one on the set of cards in use |
| `NodesStay` | `[]HeldNodesIntact` of Arena, without a condition on `$ANY` | a board writes every slot at most once, in order, so what it has handed out lies at or before the fill point (`BoardOK`), and what outlives it is not in the arena (`LastingOK`), or is the node of `$ANY` that an earlier board made (`Lasts`), which is as old for ever (`MadeLater`) |
| `BatchesKeepOrder` | `[]TricksAreOfTheDeal` of DealerScores | the deals are fixed before the first batch and the two counters advance together (`Counters`); a batch is never larger than what is left, and empty only at the end (`RoundSize`) |
| `ParSearchIsExact` | `[]ParOfDealIsBest` of DealerScores | scores rise with the level while a contract is made and fall with the tricks it lacks, so per strain the highest makeable contract is the best of all (`HighestMakeableIsEnough`) |
| `BlocksStayFew` | `[]BlocksReused` of Arena | blocks before the one being filled are full and those behind it empty (`FilledInOrder`), so a block is added only when a board needs a node beyond all of them (`Fits`) |
| `CountedDealsAreWhole` | `[]DealsAreWhole` of DealerDeal | the pack of a try is what the given hands leave, and what was dealt so far is disjoint from it and from them; a fixed pair leaves the pack of its opponents |
| `CountedDealsAreAsAsked` | `[]DealsAsAsked` of DealerDeal | the rules and cards in use are those of the request being dealt, and a deal is only counted behind every check (the partner rule last) |
| `OnlyTheLastRowIsShort` | `[]ShortRowIsLast` of DealerDeal | the count of hands dealt never falls, so a loop that it ends ends every later one |
| `OutputIsAlwaysLegal` | `[]OutputIsLegal` of RulesText | see below |
| `SimplifierTypeCorrect` | `[]TypeOK` of Simplify | see below |
| `LiteralsAreFolded` | `NoLiteralInside` of Simplify | see below |
| `SimplifierIsTheAlgebra` | `Spec => ImplementsAlgebra` of Simplify | see below |
| `TextMeansWhatTheFileDoes`, `MistakesEndTheProgram`, `UnusedTemplatesAreUnattached` | `[]TextMeansSource`, `[]MistakesAreFatal`, `[]UnusedAreUnattached` of RulesMeaning | see below |

`LoadsWellFormed` needs an invariant about the whole loading, in three parts.
`ChainOK`: the chain holds names and rules only. `TreeOK`: nodes not created
have no children and are no one's child, siblings differ in their calls, no node has two parents. `WalkOK`: while a
name is walked, the calls made so far and those to come are the name's, and the
node reached has the last call made; so that when a bid sequence ends, its legality
gives the rank of the node that gets the rule over its parent's.

`NegationsStored` adds two parts to that invariant. `Rooted`: every node created is at or
below the root. `NegationsOK`: while the recursion runs, each frame has accumulated what the
siblings before its position add up to and stored it for them (`Scanned`), their trees are
finished (`Finished`), but for the last, whose frame is the next on the stack (`Calling`);
when the stack is empty the root's tree is finished. A step writes what the tree says
(a node has one parent), so it undoes nothing that was finished; and what is below a node is the node
itself or below one of its children (`BelowSplits`), so a frame that has scanned all its
children finishes its tree.

`NodesAreNamed` relates the tree to the file in two steps. While names are parsed, the last
definition of a name in the chain carries what the statements so far make it mean
(`ParsedOK`, by `MeaningSteps`; a name in the chain is one a statement gave a rule, `ChainNames`).
While the chain is processed, the node reached is the end of a path that spells the calls read
(`LedOK`), such paths are unique (`PathsAgree`), and each name processed leads to a node, which has the rule of the last definition that
leads to it (`NodesOK`); later names only prolong paths (`PathsStay`). Since a bid sequence has one
name, no other name leads to that node (`OneSequence`), and what the chain ends with for the name is
what all its statements add up to.

`WalkIsFaithful` and `ReportsAreTrue` rest on `WalkFollows`: the path of the auction ends at the node it
has reached, each hand obeys the rule known of it, and the visit at the end of the path tells
those rules (`Tells`), exactly while no opening bid was retried, and from then on as weaker
ones, the seats exchanged if the retry was South's. A call by a child of the node makes the same
rule of both sides (`ChildTold`, `CallTells`), an opening bid that is retried starts the path anew at a root
that knows nothing (`PathGrows`, `RetryTells`). The recursive function of the walk is shown to exist,
and to agree on a path and what prolongs it, by least counterexample (`WalkVisits`, `WalkNext`).

`OutputIsAlwaysLegal` follows the text from pass to pass. Its invariant (`Passes`) says what each pass has
already made of the statements behind it: after the Maj/Min pass every name is concrete and,
unless it is an entry, lawful; after grafting there are no entries, and each grafted
name was checked against the rank of what it hangs under; the resolution of trumps takes
marks off and changes no strain. It rests on `TypeOK`, proved in the same induction, which
gives every name a place in the order of calls.

The other three theorems of RulesTextProofs compare the text with `RulesMeaning`, where nothing is
rewritten. The link is the set `All(file)` of definitions a file makes: level 0 are the statements typed,
one for each choice of suits that leaves a lawful name, and each level hangs the entries of the attached
templates under the one before (`AllInduction` is induction over it, `TypedIs` says that the forks of the
Maj/Min pass are level 0, each made once). `MeaningInv` then has a part for each pass, which
says what of `All` has been written. The part for grafting
(`GraftState`) is the one to think about: the definitions written (`P`) are closed towards the root, the stack of frames
is a path (`D`) of them, and everything under a written definition is written as well, except
what its frame has not come to (`Pending`). So nothing is missing when the stack is empty and the last
statement was taken (`GraftedText`), and no name is written twice unless the program ends
with a message. A template that leads to itself makes definitions of every depth
(`TemplatesNest`, which counts the templates on a path: hence the assumption that `Template` is finite);
a text that was grafted to its end is no deeper than it is long, so it is no deeper than there are
templates, and `All` is what the properties call `Defined` (`AllDefined`). That a written definition
reads as it means (`MeansTheSame`) is the last step: the choices written out for a body are those its name leaves open
(`ChoicesMeet`), a word under a choice is the suits it is about (`WordMeans`),
the variants of a reference are the instances of its name (`VariantsAreInstances`), and the anchor that `Trump` becomes
is the last mark of the very name (`TrumpMentioned`, `ReadResolved`).

A mistake is judged on what the file defines (`Mistaken`): it stands from the step that finds it
(`MistakeStands`), and a text that came through every pass has none (`LawfulText`). What the parser
cannot read is found in the resolved text exactly when a definition of the file has it: forks,
grafting and choices neither add a mark to a reference nor take one off (`MarkedVariants`, `MarkedChoice`,
`MarkedResolved`, `UnreadableIs`). `Defined` counts
levels up to the number of templates and the length of the text written, because a file whose templates lead
to themselves is refused for a copy deeper than there are templates.

`SamplesWhole` and `SamplesObey` rest on what holds between the tries of a simulation:
the pack and its snapshot are what the known hands leave, the deal in use keeps those hands
however far the last try came (`KnownLeave`), and its rules are those of the real table,
turned to the guesser (`RulesTurned`). An attempt then deals hands of that pack that share
no card to the positions not known (`AttemptType`, `PlacedAt`), and four disjoint hands of
a quarter of the cards each are the pack (`FourHandsCover`).

The theorems of SimplifyProofs hold for any quantities, hands and rules within the bounds of the module
(values and literals clear of the ends of `long long`, no rule that negates the literal true, a height). They need an induction over trees:
`RankInduction` is one by least counterexample, on the height of a tree and whether a NOT stands on top,
since pushing a NOT down makes no tree lower but puts it below its operator. The recursive functions of the model are first shown
to exist and to agree with what they say of each kind of node (`TreesAre`, `EvalIs`,
`SimplifyNodeIs`), for trees of any height. What the simplifier promises of a tree in a context is `Good`: a tree with no
literal inside, which agrees with the first on every hand that the context admits, and which, if the context
says nothing, is the literal true only if the first folds to true. A conjunct is simplified in a
context that its siblings have tightened, so it may lose what they say; the AND still says
it, because the bounds are emitted beside it (`EstablishedFits`, `BoundsAre`, `GoodAnd`).
The invariant is that the rules accumulated are made of `SafeTree`: not only are literals clear of
`LLONG_MIN` and `LLONG_MAX`, they stay clear after a comparison is negated or read from the other side,
when one of its bounds moves by one (`Clear`). `TypeOK` without it is not inductive: a
bound next to the end would move onto what means "none".

Assumptions, all named in the module that declares the constant and evaluated by
TLC in every run: `MaxBidAssumption`, `TreeAssumption` (NULL is no node and no rule),
`RunsAssumption` (a run has a well-formed tree), `ScoresAssumption` (Pass scores
nothing: `addResults()` adds to bids only), `GuessAssumption` (NULL is no guess),
`SizesAssumption` (four hands make the pack, the limits are not zero),
`FilesAssumption` (bid sequences are legal, which the text expansion enforces),
`RulesAssumption`, `SizeAssumption`, `NullAssumption`, `ArenaAssumption`, `SimplifyAssumption`,
`DealerScoresAssumption`, `DealerAssumption`, `RequestsAssumption`, `SourcesAssumption`.

`DealingTypeCorrect` (DealerDealProofs) gives the types of DealerDeal, which no run checks.

Only model-checked: the properties of ScoringLaws, which have no constants, so that TLC checks them
for all there is, and liveness (`DealFinishes`, `AnalysisEnds`), which is beyond TLAPS, as are ENABLED
and recursive operators. Induction over data is done by hand where it is needed, by least counterexample.

## 5. Not modelled

- *Expression grammar and lexer*: generated parsing without state of its own;
  SystemLoader has the definition statements, RulesText the texts they come from.
- *Option parsing, table layout, text formats, logging*: output, no state
  that anything else reads.
- *`setSDAPar()`, the score columns and summary sums of bidlab*: sums of values that the
  models take as any; `Auction` has the counters beside them.
- *Arithmetic and shapes in rule evaluation*, and what a hand is worth
  (`fns_common.cpp`): functions of one hand without state; rules are abstracted to the
  hands they accept, and Simplify takes quantities as parameters.
- *Duplicates and counts in `--validate`*; *entered contracts and the ranking of
  deallab*: comparisons of texts, and input and output.
- *Boards that `createDeal()` gave up*: bidlab bids them all the same (`bidlab.cpp:1918` does not look
  at the answer), `suggestContract()` returns `bidInvalid` (`1055-1058`), and `nextBid()` looks up
  its name (`711-714`). Auction has hands for every deal; Sampling has such boards, without their auctions.
- *Exits of deallab* for an unknown rule name or malformed PBN (`dealerDeal.cpp:28-32`), and which
  cards of a try that broke off are where in the pack: it is rebuilt before it is read again.
- *The solver*: external; the models take any outcome of it.

What would come next: the run list and summaries of `main()` as a composition of Auction
and Sampling.
