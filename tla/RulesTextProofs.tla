-------------------------- MODULE RulesTextProofs --------------------------
(***************************************************************************)
(* For rules files of any length, with any names, bodies and templates:    *)
(* the text the parser reads holds lawful auctions only, it defines what   *)
(* the file means, a file is parsed exactly when it makes no mistake and   *)
(* has nothing the passes cannot read, and the templates reported as       *)
(* unused are those nothing attaches.                                      *)
(***************************************************************************)
EXTENDS RulesMeaning, FiniteSetTheorems, TLAPS

(* The least of a set of numbers. *)
LEMMA LeastNumber ==
  ASSUME NEW I \in SUBSET Nat, I # {}
  PROVE  \E i \in I : \A j \in I : i <= j
<1>1. \E less : IsWellFoundedOn(less, Nat) /\ \A i, j \in Nat : (<<j, i>> \in less) <=> j < i
  <2>1. \A i, j \in Nat : (<<j, i>> \in OpToRel(<, Nat)) <=> j < i
    BY Zenon DEF OpToRel
  <2>2. QED BY <2>1, NatLessThanWellFounded, Zenon
<1>2. PICK less : /\ IsWellFoundedOn(less, Nat)
                  /\ \A i, j \in Nat : (<<j, i>> \in less) <=> j < i
  BY <1>1
<1>3. PICK i \in I : \A j \in I : ~ (<<j, i>> \in less) BY <1>2, WFMin
<1>4. \A j \in I : ~ (j < i) BY <1>2, <1>3, Zenon
<1>5. QED BY <1>4

USE DEF Suit, Major, Minor, Macro, Both

-----------------------------------------------------------------------------
(* Names.                                                                  *)

LEMMA SequenceOfTokens ==
  ASSUME NEW n \in Nat, NEW f, f = [i \in 1 .. n |-> f[i]], \A i \in 1 .. n : f[i] \in Token
  PROVE  f \in Seq(Token)
<1> DEFINE T == Token
<1>1. \A i \in 1 .. n : f[i] \in T OBVIOUS
<1> HIDE DEF T
<1>2. f \in Seq(T) BY <1>1
<1>3. QED BY <1>2 DEF T

(* Choices for the pairs that occur leave no macro in a name. *)
LEMMA ChosenSuit ==
  ASSUME NEW w, NEW major, NEW minor,
         w \in Major => major \in {"S", "H"},
         w \in Minor => minor \in {"D", "C"}
  PROVE  /\ w \in Macro => Chosen(w, major, minor) \in Suit
         /\ w \notin Macro => Chosen(w, major, minor) = w
BY DEF Chosen, complementSuit

LEMMA SubstitutedTokens ==
  ASSUME NEW tokens \in Seq(Token), NEW major, NEW minor,
         Has(tokens, Major) => major \in {"S", "H"},
         Has(tokens, Minor) => minor \in {"D", "C"}
  PROVE  /\ substituteNameTokens(tokens, major, minor) \in Seq(Token)
         /\ ~ Has(substituteNameTokens(tokens, major, minor), Macro)
         /\ ~ Has(tokens, Both) => ~ Has(substituteNameTokens(tokens, major, minor), Both)
<1> DEFINE new == substituteNameTokens(tokens, major, minor)
<1>1. DOMAIN new = DOMAIN tokens /\ DOMAIN tokens = 1 .. Len(tokens) /\ Len(tokens) \in Nat
  BY DEF substituteNameTokens
<1>2. ASSUME NEW i \in DOMAIN tokens
      PROVE  /\ new[i] \in Token /\ new[i].strain \notin Macro
             /\ new[i].strain \in Both => tokens[i].strain \in Both
  <2>1. tokens[i] \in Token BY <1>1, <1>2
  <2>2. new[i] = [tokens[i] EXCEPT !.strain = Chosen(tokens[i].strain, major, minor)]
    BY <1>2 DEF substituteNameTokens
  <2>3. /\ tokens[i].strain \in Macro => Chosen(tokens[i].strain, major, minor) \in Suit
        /\ tokens[i].strain \notin Macro => Chosen(tokens[i].strain, major, minor) = tokens[i].strain
    BY <1>2, ChosenSuit DEF Has
  <2>4. CASE tokens[i].strain \in Macro BY <2>1, <2>2, <2>3, <2>4 DEF Token
  <2>5. CASE tokens[i].strain \notin Macro BY <2>1, <2>2, <2>3, <2>5 DEF Token
  <2>6. QED BY <2>4, <2>5
<1>3. new \in Seq(Token)
  <2>1. new = [i \in 1 .. Len(tokens) |-> new[i]] BY <1>1 DEF substituteNameTokens
  <2>2. \A i \in 1 .. Len(tokens) : new[i] \in Token BY <1>1, <1>2
  <2> HIDE DEF new
  <2>3. QED BY <1>1, <2>1, <2>2, SequenceOfTokens
<1>4. QED BY <1>1, <1>2, <1>3 DEF Has

LEMMA NamesHoldTokens ==
  ASSUME NEW name \in Name
  PROVE  /\ name.tokens \in Seq(Token)
         /\ name.kind \in {"bid", "entry", "rule"}
         /\ name.kind = "rule" => name.tokens = <<>>
         /\ \A tokens \in Seq(Token) : name.kind # "rule" => [name EXCEPT !.tokens = tokens] \in Name
<1> DEFINE T == Seq(Token)
<1>1. <<>> \in T OBVIOUS
<1> HIDE DEF T
<1>2. Name = [kind: {"bid"}, of: {NoTemplate}, tokens: T]
             \cup [kind: {"entry"}, of: Template, tokens: T]
             \cup [kind: {"rule"}, of: {NoTemplate}, tokens: {<<>>}]
  BY DEF Name, T
<1>3. /\ name.tokens \in T
      /\ name.kind \in {"bid", "entry", "rule"}
      /\ name.kind = "rule" => name.tokens = <<>>
  <2>1. CASE name \in [kind: {"bid"}, of: {NoTemplate}, tokens: T] BY <2>1
  <2>2. CASE name \in [kind: {"entry"}, of: Template, tokens: T] BY <2>2
  <2>3. CASE name \in [kind: {"rule"}, of: {NoTemplate}, tokens: {<<>>}] BY <1>1, <2>3
  <2>4. QED BY <1>2, <2>1, <2>2, <2>3
<1>4. ASSUME NEW tokens \in T, name.kind # "rule"
      PROVE  [name EXCEPT !.tokens = tokens] \in Name
  BY <1>2, <1>4
<1>5. QED BY <1>3, <1>4 DEF T

LEMMA VariantsAreNames ==
  ASSUME NEW tokens \in Seq(Token) PROVE Variants(tokens) \subseteq Seq(Token)
BY SubstitutedTokens DEF Variants, MajorChoices, MinorChoices

(* A call sequence without marks is as lawful as with them. *)
LEMMA MarksAreNoCalls ==
  ASSUME NEW tokens \in Seq(Token)
  PROVE  /\ WithoutMarks(tokens) \in Seq(Token) /\ Marked(WithoutMarks(tokens)) = {}
         /\ isWellFormedConcreteBidSequence(tokens)
              => isWellFormedConcreteBidSequence(WithoutMarks(tokens))
<1> DEFINE new == WithoutMarks(tokens)
<1>1. DOMAIN new = DOMAIN tokens /\ DOMAIN tokens = 1 .. Len(tokens) /\ Len(tokens) \in Nat
  BY DEF WithoutMarks
<1>2. ASSUME NEW i \in DOMAIN tokens
      PROVE  /\ new[i] \in Token /\ new[i].trump = FALSE
             /\ new[i].strain = tokens[i].strain /\ new[i].level = tokens[i].level
  <2>1. tokens[i] \in Token BY <1>1, <1>2
  <2>2. new[i] = [tokens[i] EXCEPT !.trump = FALSE] BY <1>2 DEF WithoutMarks
  <2>3. QED BY <2>1, <2>2 DEF Token
<1>3. new \in Seq(Token)
  <2>1. new = [i \in 1 .. Len(tokens) |-> new[i]] BY <1>1 DEF WithoutMarks
  <2>2. \A i \in 1 .. Len(tokens) : new[i] \in Token BY <1>1, <1>2
  <2> HIDE DEF new
  <2>3. QED BY <1>1, <2>1, <2>2, SequenceOfTokens
<1>4. Marked(new) = {} BY <1>1, <1>2 DEF Marked
<1>5. \A i \in DOMAIN tokens : Rank(new[i]) = Rank(tokens[i]) /\ (isPass(new[i]) <=> isPass(tokens[i]))
  BY <1>2 DEF Rank, isPass
<1>6. isLegalBidSequence(tokens) => isLegalBidSequence(new)
  BY <1>1, <1>5 DEF isLegalBidSequence
<1>7. ~ Has(tokens, Macro \cup Both) => ~ Has(new, Macro \cup Both) BY <1>1, <1>2 DEF Has
<1>8. QED BY <1>3, <1>4, <1>6, <1>7 DEF isWellFormedConcreteBidSequence

LEMMA LastMark ==
  ASSUME NEW tokens \in Seq(Token), Marked(tokens) # {}
  PROVE  \E i \in Marked(tokens) : \A k \in Marked(tokens) : k <= i
<1> DEFINE marks == Marked(tokens)
           back  == {Len(tokens) - i : i \in marks}
<1>1. Len(tokens) \in Nat /\ marks \subseteq 1 .. Len(tokens) BY DEF Marked
<1>2. back \in SUBSET Nat /\ back # {} BY <1>1
<1>3. PICK m \in back : \A j \in back : m <= j BY <1>2, LeastNumber
<1>4. PICK i \in marks : m = Len(tokens) - i BY <1>3
<1>5. \A k \in marks : k <= i
  <2> TAKE k \in marks
  <2>1. m <= Len(tokens) - k BY <1>3
  <2>2. i \in Nat /\ k \in Nat BY <1>1
  <2>3. QED BY <1>1, <1>4, <2>1, <2>2
<1>6. QED BY <1>5

-----------------------------------------------------------------------------
(* Statements.                                                             *)

LEMMA BodyTypes ==
  ASSUME NEW s \in Source, NEW major, NEW minor,
         BodyHas(s, Major) => major \in {"S", "H"},
         BodyHas(s, Minor) => minor \in {"D", "C"}
  PROVE  substituteBodyChoice(s.body, major, minor) \in SUBSET Atom
<1>1. SUFFICES ASSUME NEW i \in DOMAIN s.body,
                      NEW w \in substituteBothMacros(Chosen(s.body[i].word, major, minor))
               PROVE  [word |-> w, names |-> UNION {Variants(n) : n \in s.body[i].names}] \in Atom
  BY DEF substituteBodyChoice
<1>2. s.body[i] \in Atom BY DEF Source
<1>3. UNION {Variants(n) : n \in s.body[i].names} \subseteq Seq(Token)
  BY <1>2, VariantsAreNames DEF Atom
<1>4. Chosen(s.body[i].word, major, minor) \in Word
  <2>1. s.body[i].word \in Word BY <1>2 DEF Atom
  <2>2. /\ s.body[i].word \in Major => major \in {"S", "H"}
        /\ s.body[i].word \in Minor => minor \in {"D", "C"}
    BY DEF BodyHas
  <2>3. QED BY <2>1, <2>2, ChosenSuit DEF Word
<1>5. w \in Word BY <1>4 DEF substituteBothMacros, Word
<1>6. QED BY <1>3, <1>5 DEF Atom

(* What a fork is: a statement with a concrete name. *)
LEMMA ForkIsStatement ==
  ASSUME NEW s \in Source, s.op # ":?", ~ NamesBoth(s), NEW k
  PROVE  LET g == Generated(s, MajorOf(s, k), MinorOf(s, k))
         IN  /\ g \in Stmt
             /\ g.name.kind # "entry" => ~ Has(g.name.tokens, Macro \cup Both)
<1> DEFINE major == MajorOf(s, k)  minor == MinorOf(s, k)
           g == Generated(s, major, minor)
<1>1. /\ NameHas(s, Major) => major \in {"S", "H"}
      /\ NameHas(s, Minor) => minor \in {"D", "C"}
  BY DEF MajorOf, MinorOf
<1> HIDE DEF major, minor
<1>2. s.name \in Name /\ s.attach \in Template \cup {NoTemplate} /\ s.op \in {":=", ":&", ":|"}
  BY DEF Source
<1>3. g.name \in Name /\ (g.name.kind # "entry" => ~ Has(g.name.tokens, Macro \cup Both))
  <2>1. CASE s.name.kind = "bid"
    <3>1. s.name.tokens \in Seq(Token) BY <1>2, NamesHoldTokens
    <3>2. /\ Has(s.name.tokens, Major) => major \in {"S", "H"}
          /\ Has(s.name.tokens, Minor) => minor \in {"D", "C"}
          /\ ~ Has(s.name.tokens, Both)
      BY <1>1, <2>1 DEF NameHas, NamesBoth
    <3>3. g.name = [s.name EXCEPT !.tokens = substituteNameTokens(s.name.tokens, major, minor)]
      BY <2>1 DEF Generated
    <3>4. /\ substituteNameTokens(s.name.tokens, major, minor) \in Seq(Token)
          /\ ~ Has(substituteNameTokens(s.name.tokens, major, minor), Macro)
          /\ ~ Has(substituteNameTokens(s.name.tokens, major, minor), Both)
      BY <3>1, <3>2, SubstitutedTokens
    <3>5. g.name \in Name BY <1>2, <2>1, <3>3, <3>4, NamesHoldTokens
    <3>6. g.name.tokens = substituteNameTokens(s.name.tokens, major, minor)
      <4>1. \E x, y, z : s.name = [kind |-> x, of |-> y, tokens |-> z] BY <1>2 DEF Name
      <4>2. QED BY <3>3, <4>1
    <3>7. QED BY <3>4, <3>5, <3>6 DEF Has
  <2>2. CASE s.name.kind # "bid"
    <3>1. g.name = s.name BY <2>2 DEF Generated
    <3>2. s.name.kind # "entry" => s.name.tokens = <<>> BY <1>2, <2>2, NamesHoldTokens
    <3>3. QED BY <1>2, <3>1, <3>2 DEF Has
  <2>3. QED BY <2>1, <2>2
<1>4. g.alts \in SUBSET SUBSET Atom
  <2>1. SUFFICES ASSUME NEW c \in BodyChoices(s, major, minor)
                 PROVE  substituteBodyChoice(s.body, c[1], c[2]) \in SUBSET Atom
    BY DEF Generated
  <2>2. /\ BodyHas(s, Major) => c[1] \in {"S", "H"}
        /\ BodyHas(s, Minor) => c[2] \in {"D", "C"}
    BY <1>1 DEF BodyChoices, FreeInBody
  <2>3. QED BY <2>2, BodyTypes
<1>5. g.stuck \in BOOLEAN /\ g.attach = s.attach /\ g.op = s.op BY DEF Generated, FreeInBody
<1>6. g = [name |-> g.name, op |-> g.op, alts |-> g.alts, attach |-> g.attach, stuck |-> g.stuck]
  BY DEF Generated
<1>7. g \in Stmt BY <1>2, <1>3, <1>4, <1>5, <1>6 DEF Stmt
<1>8. QED BY <1>3, <1>7 DEF major, minor

-----------------------------------------------------------------------------
(* The inductive invariant: from pass to pass the text is lawful, entries  *)
(* of templates excepted while there are any, and it loses its marks last. *)

WellFormed(s) == isWellFormedConcreteBidSequence(s.name.tokens)

Lawful(q)   == \A i \in DOMAIN q : q[i].name.kind # "entry" => WellFormed(q[i])
Plain(q)    == \A i \in DOMAIN q : q[i].name.kind # "entry" /\ WellFormed(q[i])
Unmarked(q) == \A i \in DOMAIN q : Marked(q[i].name.tokens) = {}

Passes ==
  /\ phase = "split" => out = <<>> /\ fork = 0
  /\ phase = "expand" => Lawful(out) /\ \A i \in DOMAIN source : source[i].op # ":?"
  /\ phase = "expand" /\ fork # 0 => at <= Len(source) /\ ~ NamesBoth(source[at])
  /\ phase = "collect" => Lawful(text) /\ Plain(out)
  /\ phase \in {"graft", "resolve"} => Plain(text) /\ Plain(out)
  /\ phase = "resolve" => Unmarked(out)
  /\ phase \in {"parsed", "syntax error"} => Plain(text) /\ Unmarked(text)

IInv == TypeOK /\ Passes

LEMMA EmptyText == Lawful(<<>>) /\ Plain(<<>>) /\ Unmarked(<<>>)
BY DEF Lawful, Plain, Unmarked

LEMMA LongerText ==
  ASSUME NEW q \in Seq(Stmt), NEW s \in Stmt
  PROVE  /\ Append(q, s) \in Seq(Stmt)
         /\ Lawful(q) /\ (s.name.kind # "entry" => WellFormed(s)) => Lawful(Append(q, s))
         /\ Plain(q) /\ s.name.kind # "entry" /\ WellFormed(s) => Plain(Append(q, s))
         /\ Unmarked(q) /\ Marked(s.name.tokens) = {} => Unmarked(Append(q, s))
<1> DEFINE T == Stmt  longer == Append(q, s)
<1>1. q \in Seq(T) /\ s \in T OBVIOUS
<1> HIDE DEF T
<1>2. /\ longer \in Seq(T)
      /\ \A i \in DOMAIN longer : (i \in DOMAIN q /\ longer[i] = q[i]) \/ longer[i] = s
  BY <1>1
<1> HIDE DEF longer
<1>3. /\ Lawful(q) /\ (s.name.kind # "entry" => WellFormed(s)) => Lawful(longer)
      /\ Plain(q) /\ s.name.kind # "entry" /\ WellFormed(s) => Plain(longer)
      /\ Unmarked(q) /\ Marked(s.name.tokens) = {} => Unmarked(longer)
  BY <1>2 DEF Lawful, Plain, Unmarked
<1>4. QED BY <1>2, <1>3 DEF T, longer

LEMMA InitialText == Init => IInv
<1> SUFFICES ASSUME Init PROVE IInv OBVIOUS
<1>1. source \in Seq(Source) BY SourcesAssumption DEF Init
<1>2. TypeOK BY <1>1 DEF Init, TypeOK, Phases
<1>3. Passes BY DEF Init, Passes
<1>4. QED BY <1>2, <1>3 DEF IInv

LEMMA FatalStep == ASSUME IInv, Fatal PROVE IInv'
<1>1. TypeOK' BY DEF IInv, TypeOK, Fatal, Phases, graftVars
<1>2. Passes' BY DEF Passes, Fatal
<1>3. QED BY <1>1, <1>2 DEF IInv

(* The next pass starts with what this one wrote. *)
LEMMA PassesOn ==
  ASSUME TypeOK, NEW after \in Phases, NextPass(after), UNCHANGED <<source, fork>>
  PROVE  /\ (source \in Seq(Source) /\ phase \in Phases /\ at \in Nat \ {0} /\ fork \in 0 .. 4)'
         /\ (text \in Seq(Stmt) /\ out \in Seq(Stmt))'
BY DEF TypeOK, NextPass

LEMMA SplitStep == ASSUME IInv, Split PROVE IInv'
<1>1. CASE \E i \in DOMAIN source : source[i].op = ":?" BY <1>1, FatalStep DEF Split
<1>2. CASE ~ \E i \in DOMAIN source : source[i].op = ":?"
  <2>1. TypeOK' BY <1>2 DEF IInv, TypeOK, Split, Phases, graftVars
  <2>2. Passes' BY <1>2, EmptyText DEF IInv, Passes, Split, graftVars
  <2>3. QED BY <2>1, <2>2 DEF IInv
<1>3. QED BY <1>1, <1>2

LEMMA GenerateForksStep == ASSUME IInv, GenerateForks PROVE IInv'
<1>1. CASE NamesBoth(source[at]) \/ ~ checkAnchorOrder(source[at])
  BY <1>1, FatalStep DEF GenerateForks
<1>2. CASE ~ (NamesBoth(source[at]) \/ ~ checkAnchorOrder(source[at]))
  <2>1. TypeOK' BY <1>2 DEF IInv, TypeOK, GenerateForks, graftVars
  <2>2. Passes'
    <3> USE DEF IInv, Passes, GenerateForks, graftVars
    <3>1. ~ NamesBoth(source[at])' BY <1>2 DEF NamesBoth
    <3>2. QED BY <1>2, <3>1
  <2>3. QED BY <2>1, <2>2 DEF IInv
<1>3. QED BY <1>1, <1>2

LEMMA FewForks == ASSUME NEW s PROVE Forks(s) \in {1, 2, 4}
BY DEF Forks, Times

(* What is written is a fork with a legal name, which is then well formed. *)
LEMMA WriteForkStep == ASSUME IInv, WriteFork PROVE IInv'
<1> DEFINE s == source[at]  g == Generated(s, MajorOf(s, fork), MinorOf(s, fork))
<1>1. CASE ~ LegalName(g) /\ Forks(s) = 1
  BY <1>1, FatalStep DEF WriteFork
<1>2. CASE ~ (~ LegalName(g) /\ Forks(s) = 1)
  <2>1. /\ out' = IF LegalName(g) THEN Append(out, g) ELSE out
        /\ \/ fork < Forks(s) /\ fork' = fork + 1 /\ UNCHANGED at
           \/ fork' = 0 /\ at' = at + 1
        /\ UNCHANGED <<source, phase, text, graftVars>> /\ phase = "expand" /\ fork > 0
    BY <1>2 DEF WriteFork
  <2>2. /\ at \in DOMAIN source /\ s \in Source /\ ~ NamesBoth(s) /\ s.op # ":?"
        /\ Lawful(out) /\ out \in Seq(Stmt)
    <3>1. at <= Len(source) /\ at \in Nat \ {0} /\ source \in Seq(Source) /\ fork # 0
      BY <2>1 DEF IInv, TypeOK, Passes
    <3>2. at \in DOMAIN source /\ s \in Source BY <3>1
    <3>3. QED BY <2>1, <3>1, <3>2 DEF IInv, TypeOK, Passes
  <2>3. g \in Stmt /\ (g.name.kind # "entry" => ~ Has(g.name.tokens, Macro \cup Both))
    BY <2>2, ForkIsStatement
  <2>4. LegalName(g) /\ g.name.kind # "entry" => WellFormed(g)
    <3>1. g.name.kind \in {"bid", "entry", "rule"} /\ (g.name.kind = "rule" => g.name.tokens = <<>>)
      <4>1. g.name \in Name BY <2>3 DEF Stmt
      <4>2. QED BY <4>1, NamesHoldTokens
    <3>2. g.name.kind = "rule" => isLegalBidSequence(g.name.tokens)
      BY <3>1 DEF isLegalBidSequence
    <3>3. QED BY <2>3, <3>1, <3>2 DEF LegalName, WellFormed, isWellFormedConcreteBidSequence
  <2> HIDE DEF g
  <2>5. out' \in Seq(Stmt) /\ Lawful(out') BY <2>1, <2>2, <2>3, <2>4, LongerText
  <2>6. TypeOK'
    <3>1. fork' \in 0 .. 4 /\ at' \in Nat \ {0}
      <4>1. at \in Nat \ {0} /\ fork \in 0 .. 4 BY DEF IInv, TypeOK
      <4>2. Forks(s) \in {1, 2, 4} BY FewForks
      <4> HIDE DEF s
      <4>3. QED BY <2>1, <4>1, <4>2
    <3>2. QED BY <2>1, <2>5, <3>1 DEF IInv, TypeOK, graftVars
  <2>7. Passes'
    <3>1. fork' # 0 => at' = at BY <2>1
    <3>2. fork' # 0 => at' <= Len(source') /\ ~ NamesBoth(source[at])'
      BY <2>1, <2>2, <3>1 DEF IInv, TypeOK, NamesBoth
    <3>3. QED BY <2>1, <2>5, <3>2 DEF IInv, Passes
  <2>8. QED BY <2>6, <2>7 DEF IInv
<1>3. QED BY <1>1, <1>2

LEMMA ExpandedStep == ASSUME IInv, Expanded PROVE IInv'
<1>1. TypeOK' BY PassesOn DEF IInv, TypeOK, Expanded, NextPass, graftVars, Phases
<1>2. Passes' BY EmptyText DEF IInv, Passes, Expanded, NextPass
<1>3. QED BY <1>1, <1>2 DEF IInv

(* The statement a pass is at. *)
LEMMA AtStatement ==
  ASSUME TypeOK, at <= Len(text)
  PROVE  at \in DOMAIN text /\ text[at] \in Stmt /\ at + 1 \in Nat \ {0}
<1> DEFINE T == Stmt
<1>1. text \in Seq(T) /\ at \in Nat \ {0} BY DEF TypeOK
<1> HIDE DEF T
<1>2. at \in DOMAIN text /\ text[at] \in T /\ at + 1 \in Nat \ {0} BY <1>1
<1>3. QED BY <1>2 DEF T

LEMMA CollectEntryStep == ASSUME IInv, CollectEntry PROVE IInv'
<1> DEFINE s == text[at]  t == s.name.of
<1>1. CASE Fatal BY <1>1, FatalStep
<1>2. CASE ~ Fatal
  <2>1. /\ templates' = [templates EXCEPT ![t] = Append(@, s)]
        /\ at' = at + 1
        /\ UNCHANGED <<source, fork, phase, text, out, existingNames, referenced, frames>>
        /\ phase = "collect" /\ at <= Len(text) /\ s.name.kind = "entry"
    BY <1>2 DEF CollectEntry
  <2>2. s \in Stmt /\ at + 1 \in Nat \ {0} BY <2>1, AtStatement DEF IInv
  <2>3. templates' \in [Template -> Seq(Stmt)]
    <3>1. t \in Template => templates[t] \in Seq(Stmt) BY DEF IInv, TypeOK
    <3>2. t \in Template => Append(templates[t], s) \in Seq(Stmt)
      BY <2>2, <3>1, LongerText
    <3> HIDE DEF s
    <3>3. QED BY <2>1, <3>2 DEF IInv, TypeOK
  <2>4. TypeOK' BY <2>1, <2>2, <2>3 DEF IInv, TypeOK
  <2>5. Passes' BY <2>1 DEF IInv, Passes
  <2>6. QED BY <2>4, <2>5 DEF IInv
<1>3. QED BY <1>1, <1>2

LEMMA CollectOtherStep == ASSUME IInv, CollectOther PROVE IInv'
<1> DEFINE s == text[at]
<1>1. s \in Stmt /\ at \in DOMAIN text /\ at + 1 \in Nat \ {0}
  BY AtStatement DEF IInv, CollectOther
<1>2. s.name.kind # "entry" /\ WellFormed(s) /\ Plain(out)
  BY <1>1 DEF IInv, Passes, CollectOther, Lawful
<1>3. out' \in Seq(Stmt) /\ Plain(out')
  BY <1>1, <1>2, LongerText DEF IInv, TypeOK, CollectOther
<1>4. TypeOK' BY <1>1, <1>3 DEF IInv, TypeOK, CollectOther, graftVars
<1>5. Passes' BY <1>3 DEF IInv, Passes, CollectOther, graftVars
<1>6. QED BY <1>4, <1>5 DEF IInv

LEMMA CollectedStep == ASSUME IInv, Collected PROVE IInv'
<1>1. existingNames' \subseteq Name
  <2> DEFINE T == Stmt
  <2>1. out \in Seq(T) BY DEF IInv, TypeOK
  <2> HIDE DEF T
  <2>2. \A i \in DOMAIN out : out[i] \in T BY <2>1
  <2>3. \A i \in DOMAIN out : out[i].name \in Name BY <2>2 DEF T, Stmt
  <2>4. QED BY <2>3 DEF Collected
<1>2. TypeOK' BY <1>1, PassesOn DEF IInv, TypeOK, Collected, NextPass, Phases
<1>3. Passes' BY EmptyText DEF IInv, Passes, Collected, NextPass
<1>4. QED BY <1>2, <1>3 DEF IInv

-----------------------------------------------------------------------------
(* Grafting.                                                               *)

Frame == [name: Name, template: Template, next: Nat \ {0}]

LEMMA AttachedStatement ==
  ASSUME NEW s \in Stmt
  PROVE  /\ Attached(s) \in Template \cup {NoTemplate}
         /\ Bare(s) \in Stmt /\ Bare(s).name = s.name
         /\ \A name \in Name : [Bare(s) EXCEPT !.name = name] \in Stmt
                               /\ [Bare(s) EXCEPT !.name = name].name = name
BY DEF Attached, Bare, Stmt

LEMMA AttachedCall ==
  ASSUME NEW calls \in Seq(Frame), NEW name \in Name, NEW t \in Template \cup {NoTemplate},
         referenced \subseteq Template, Attach(calls, name, t)
  PROVE  frames' \in Seq(Frame) /\ referenced' \subseteq Template
<1>1. CASE t = NoTemplate BY <1>1 DEF Attach
<1>2. CASE t # NoTemplate
  <2> DEFINE call == [name |-> name, template |-> t, next |-> 1]
  <2>1. call \in Frame BY <1>2 DEF Frame
  <2> DEFINE T == Frame
  <2>2. calls \in Seq(T) /\ call \in T BY <2>1
  <2>3. frames' = Append(calls, call) /\ referenced' = referenced \cup {t}
    BY <1>2 DEF Attach, Referencing
  <2> HIDE DEF T, call
  <2>4. frames' \in Seq(T) BY <2>2, <2>3
  <2>5. QED BY <1>2, <2>3, <2>4 DEF T
<1>3. QED BY <1>1, <1>2

LEMMA GraftStatementStep == ASSUME IInv, GraftStatement PROVE IInv'
<1> DEFINE s == text[at]
<1>1. CASE Fatal BY <1>1, FatalStep
<1>2. CASE ~ Fatal
  <2>1. /\ phase = "graft" /\ frames = <<>> /\ at <= Len(text)
        /\ out' = Append(out, Bare(s)) /\ Attach(<<>>, s.name, Attached(s)) /\ at' = at + 1
        /\ UNCHANGED <<source, fork, phase, text, templates, existingNames>>
    BY <1>2 DEF GraftStatement
  <2>2. s \in Stmt /\ at \in DOMAIN text /\ at + 1 \in Nat \ {0}
    BY <2>1, AtStatement DEF IInv
  <2>3. s.name.kind # "entry" /\ WellFormed(s) /\ Plain(out)
    BY <2>1, <2>2 DEF IInv, Passes, Plain
  <2>4. Bare(s) \in Stmt /\ Bare(s).name = s.name BY <2>2, AttachedStatement
  <2>5. out' \in Seq(Stmt) /\ Plain(out')
    <3>1. WellFormed(Bare(s)) BY <2>3, <2>4 DEF WellFormed
    <3>2. QED BY <2>1, <2>3, <2>4, <3>1, LongerText DEF IInv, TypeOK
  <2>6. frames' \in Seq(Frame) /\ referenced' \subseteq Template
    <3>1. s.name \in Name BY <2>2 DEF Stmt
    <3>2. Attached(s) \in Template \cup {NoTemplate} BY <2>2, AttachedStatement
    <3>3. <<>> \in Seq(Frame) /\ referenced \subseteq Template BY DEF IInv, TypeOK
    <3> HIDE DEF s
    <3>4. QED BY <2>1, <3>1, <3>2, <3>3, AttachedCall
  <2>7. TypeOK' BY <2>1, <2>2, <2>5, <2>6 DEF IInv, TypeOK, Frame
  <2>8. Passes' BY <2>1, <2>5 DEF IInv, Passes
  <2>9. QED BY <2>7, <2>8 DEF IInv
<1>3. QED BY <1>1, <1>2

LEMMA TopCall ==
  ASSUME TypeOK, frames # <<>>
  PROVE  /\ top \in Frame /\ Advanced(frames) \in Seq(Frame)
         /\ SubSeq(frames, 1, Len(frames) - 1) \in Seq(Frame)
         /\ top.next <= Len(entries) => entries[top.next] \in Stmt
<1> DEFINE T == Frame
<1>1. frames \in Seq(T) BY DEF TypeOK, Frame
<1> HIDE DEF T
<1>2. Len(frames) \in DOMAIN frames /\ top \in T BY <1>1 DEF top
<1>3. SubSeq(frames, 1, Len(frames) - 1) \in Seq(T) BY <1>1
<1>4. Advanced(frames) \in Seq(T)
  <2>1. [top EXCEPT !.next = top.next + 1] \in T BY <1>2 DEF T, Frame
  <2>2. Advanced(frames) = [frames EXCEPT ![Len(frames)] = [top EXCEPT !.next = top.next + 1]]
    BY <1>2 DEF Advanced, top
  <2>3. QED BY <1>1, <1>2, <2>1, <2>2
<1>5. ASSUME top.next <= Len(entries) PROVE entries[top.next] \in Stmt
  <2>1. top.template \in Template /\ top.next \in Nat \ {0} BY <1>2 DEF T, Frame
  <2>2. entries \in Seq(Stmt) BY <2>1 DEF TypeOK, entries
  <2> DEFINE U == Stmt
  <2>3. entries \in Seq(U) BY <2>2
  <2> HIDE DEF U
  <2>4. entries[top.next] \in U BY <1>5, <2>1, <2>3
  <2>5. QED BY <2>4 DEF U
<1>6. QED BY <1>2, <1>3, <1>4, <1>5 DEF T

(* A grafted name is looked at before it is written. *)
LEMMA GraftEntryStep == ASSUME IInv, GraftEntry PROVE IInv'
<1> DEFINE e == entries[top.next]  name == GraftedName(top.name, e)
           written == [Bare(e) EXCEPT !.name = name]
<1>1. CASE Fatal BY <1>1, FatalStep
<1>2. CASE ~ Fatal
  <2>1. /\ phase = "graft" /\ frames # <<>> /\ top.next <= Len(entries)
        /\ name.kind = "bid" /\ isWellFormedConcreteBidSequence(name.tokens)
        /\ existingNames' = existingNames \cup {name} /\ out' = Append(out, written)
        /\ Attach(Advanced(frames), name, Attached(e))
        /\ UNCHANGED <<source, fork, phase, at, text, templates>>
    BY <1>2 DEF GraftEntry
  <2>2. top \in Frame /\ Advanced(frames) \in Seq(Frame) /\ e \in Stmt
    BY <2>1, TopCall DEF IInv
  <2>3. name \in Name
    <3>1. top.name \in Name /\ e.name \in Name BY <2>2 DEF Frame, Stmt
    <3>2. name = [top.name EXCEPT !.tokens = top.name.tokens \o e.name.tokens]
      BY DEF GraftedName
    <3>3. name.kind = top.name.kind
      <4>1. \E x, y, z : top.name = [kind |-> x, of |-> y, tokens |-> z] BY <3>1 DEF Name
      <4> HIDE DEF name
      <4>2. QED BY <3>2, <4>1
    <3>4. top.name.tokens \o e.name.tokens \in Seq(Token)
      <4> DEFINE T == Token
      <4>1. top.name.tokens \in Seq(T) /\ e.name.tokens \in Seq(T) BY <3>1, NamesHoldTokens
      <4> HIDE DEF T, e
      <4>2. top.name.tokens \o e.name.tokens \in Seq(T) BY <4>1
      <4>3. QED BY <4>2 DEF T
    <3>5. QED BY <2>1, <3>1, <3>2, <3>3, <3>4, NamesHoldTokens
  <2>4. written \in Stmt /\ written.name = name /\ Attached(e) \in Template \cup {NoTemplate}
    BY <2>2, <2>3, AttachedStatement
  <2> HIDE DEF name, e
  <2>5. out' \in Seq(Stmt) /\ Plain(out')
    <3>1. WellFormed(written) /\ written.name.kind # "entry" BY <2>1, <2>4 DEF WellFormed
    <3>2. out \in Seq(Stmt) /\ Plain(out) BY <2>1 DEF IInv, TypeOK, Passes
    <3> HIDE DEF written
    <3>3. QED BY <2>1, <2>4, <3>1, <3>2, LongerText
  <2>6. frames' \in Seq(Frame) /\ referenced' \subseteq Template
    BY <2>1, <2>2, <2>3, <2>4, AttachedCall DEF IInv, TypeOK
  <2>7. TypeOK' BY <2>1, <2>3, <2>5, <2>6 DEF IInv, TypeOK, Frame
  <2>8. Passes' BY <2>1, <2>5 DEF IInv, Passes
  <2>9. QED BY <2>7, <2>8 DEF IInv
<1>3. QED BY <1>1, <1>2

LEMMA GraftReturnsStep == ASSUME IInv, GraftReturns PROVE IInv'
<1>1. frames' \in Seq(Frame) BY TopCall DEF IInv, GraftReturns
<1>2. TypeOK' BY <1>1 DEF IInv, TypeOK, GraftReturns, Frame
<1>3. Passes' BY DEF IInv, Passes, GraftReturns
<1>4. QED BY <1>2, <1>3 DEF IInv

LEMMA GraftedStep == ASSUME IInv, Grafted PROVE IInv'
<1>1. TypeOK' BY PassesOn DEF IInv, TypeOK, Grafted, NextPass, graftVars, Phases
<1>2. Passes' BY EmptyText DEF IInv, Passes, Grafted, NextPass
<1>3. QED BY <1>1, <1>2 DEF IInv

LEMMA ResolveStatementStep == ASSUME IInv, ResolveStatement PROVE IInv'
<1> DEFINE s == text[at]
           alts == IF MentionsTrump(s) THEN substituteTrumpInBody(s.alts, Trump(s)) ELSE s.alts
           written == [s EXCEPT !.name.tokens = WithoutMarks(s.name.tokens), !.alts = alts]
<1>1. CASE Fatal BY <1>1, FatalStep
<1>2. CASE ~ Fatal
  <2>1. /\ phase = "resolve" /\ at <= Len(text)
        /\ \A i \in Marked(s.name.tokens) : s.name.tokens[i].strain \in Suit
        /\ MentionsTrump(s) => Marked(s.name.tokens) # {}
        /\ out' = Append(out, written) /\ at' = at + 1
        /\ UNCHANGED <<source, fork, phase, text, graftVars>>
    BY <1>2 DEF ResolveStatement
  <2>2. s \in Stmt /\ at \in DOMAIN text /\ at + 1 \in Nat \ {0}
    BY <2>1, AtStatement DEF IInv
  <2>3. /\ s.name.kind # "entry" /\ isWellFormedConcreteBidSequence(s.name.tokens)
        /\ Plain(out) /\ Unmarked(out)
    BY <2>1, <2>2 DEF IInv, Passes, Plain, WellFormed
  <2>4. s.name \in Name /\ s.name.tokens \in Seq(Token)
    <3>1. s.name \in Name BY <2>2 DEF Stmt
    <3>2. QED BY <3>1, NamesHoldTokens
  <2> DEFINE bare == WithoutMarks(s.name.tokens)  name == [s.name EXCEPT !.tokens = bare]
  <2>5. /\ bare \in Seq(Token) /\ Marked(bare) = {}
        /\ isWellFormedConcreteBidSequence(bare)
    BY <2>3, <2>4, MarksAreNoCalls
  <2>6. name \in Name /\ name.kind # "entry" /\ name.tokens = bare
    <3>1. \E x, y, z : s.name = [kind |-> x, of |-> y, tokens |-> z] BY <2>4 DEF Name
    <3>2. name.kind = s.name.kind /\ name.tokens = bare BY <3>1
    <3>3. CASE s.name.kind = "rule"
      <4>1. s.name.tokens = <<>> BY <2>4, <3>3, NamesHoldTokens
      <4>2. bare = <<>> BY <4>1 DEF WithoutMarks
      <4>3. name = s.name BY <3>1, <4>1, <4>2
      <4>4. QED BY <2>3, <2>4, <3>2, <4>3
    <3>4. CASE s.name.kind # "rule" BY <2>3, <2>4, <2>5, <3>2, <3>4, NamesHoldTokens
    <3>5. QED BY <3>3, <3>4
  <2>7. alts \in SUBSET SUBSET Atom
    <3>1. s.alts \in SUBSET SUBSET Atom BY <2>2 DEF Stmt
    <3>2. CASE ~ MentionsTrump(s) BY <3>1, <3>2
    <3>3. CASE MentionsTrump(s)
      <4>1. Trump(s) \in Suit
        <5>1. Marked(s.name.tokens) # {} BY <2>1, <3>3
        <5>2. \E i \in Marked(s.name.tokens) : \A k \in Marked(s.name.tokens) : k <= i
          BY <5>1, <2>4, LastMark
        <5>3. QED BY <2>1, <5>1, <5>2 DEF Trump, anchor
      <4>2. \A a \in Atom : [a EXCEPT !.word = IF @ = "Trump" THEN Trump(s) ELSE @] \in Atom
        BY <4>1 DEF Atom, Word
      <4>3. substituteTrumpInBody(s.alts, Trump(s)) \in SUBSET SUBSET Atom
        BY <3>1, <4>2 DEF substituteTrumpInBody
      <4>4. QED BY <3>3, <4>3
    <3>4. QED BY <3>2, <3>3
  <2>8. written \in Stmt /\ written.name = name
    <3>1. written = [s EXCEPT !.name = name, !.alts = alts] BY <2>2 DEF Stmt
    <3> HIDE DEF written, name, alts
    <3>2. QED BY <2>2, <2>6, <2>7, <3>1 DEF Stmt
  <2> HIDE DEF s, alts, bare, name
  <2>9. out' \in Seq(Stmt) /\ Plain(out') /\ Unmarked(out')
    <3>1. /\ WellFormed(written) /\ written.name.kind # "entry"
          /\ Marked(written.name.tokens) = {}
      BY <2>5, <2>6, <2>8 DEF WellFormed
    <3>2. out \in Seq(Stmt) BY DEF IInv, TypeOK
    <3> HIDE DEF written
    <3>3. QED BY <2>1, <2>3, <2>8, <3>1, <3>2, LongerText
  <2>10. TypeOK' BY <2>1, <2>2, <2>9 DEF IInv, TypeOK, graftVars
  <2>11. Passes' BY <2>1, <2>9 DEF IInv, Passes
  <2>12. QED BY <2>10, <2>11 DEF IInv
<1>3. QED BY <1>1, <1>2

LEMMA ResolvedStep == ASSUME IInv, Resolved PROVE IInv'
<1> DEFINE after == IF \E i \in DOMAIN out : Unreadable(out[i]) THEN "syntax error" ELSE "parsed"
<1>1. NextPass(after) /\ after \in {"parsed", "syntax error"}
  BY DEF Resolved
<1> HIDE DEF after
<1>2. TypeOK' BY <1>1, PassesOn DEF IInv, TypeOK, Resolved, NextPass, graftVars, Phases
<1>3. Passes' BY <1>1, EmptyText DEF IInv, Passes, Resolved, NextPass
<1>4. QED BY <1>2, <1>3 DEF IInv

LEMMA TextStep == IInv /\ [Next]_vars => IInv'
<1> SUFFICES ASSUME IInv, [Next]_vars PROVE IInv' OBVIOUS
<1>1. CASE UNCHANGED vars
  <2>1. (TypeOK <=> TypeOK') BY <1>1 DEF vars, graftVars, TypeOK
  <2>2. (Passes <=> Passes') BY <1>1 DEF vars, Passes, NamesBoth
  <2>3. QED BY <2>1, <2>2 DEF IInv
<1>2. CASE Next
  BY <1>2, SplitStep, GenerateForksStep, WriteForkStep, ExpandedStep, CollectEntryStep,
     CollectOtherStep, CollectedStep, GraftStatementStep, GraftEntryStep, GraftReturnsStep,
     GraftedStep, ResolveStatementStep, ResolvedStep DEF Next
<1>3. QED BY <1>1, <1>2

-----------------------------------------------------------------------------
(* The theorem: whatever the rules file, macros and templates, and whether *)
(* names were typed, forked or grafted, the parser is given lawful bid     *)
(* sequences only (read_rules()).                                          *)
THEOREM OutputIsAlwaysLegal == Spec => []OutputIsLegal
<1>1. IInv /\ [Next]_vars => IInv' BY TextStep
<1>2. IInv => OutputIsLegal BY DEF IInv, Passes, Plain, Unmarked, WellFormed, OutputIsLegal
<1>3. QED BY <1>1, <1>2, InitialText, PTL DEF Spec

-----------------------------------------------------------------------------
(* What a file means, level by level.                                      *)

Below(file, S) == UNION {EntriesUnder(file, d) : d \in S}

AreLevels(file, n, f) ==
  f = [k \in 0 .. n |-> IF k = 0 THEN Typed(file) ELSE Below(file, f[k - 1])]

Levels(file, n) == CHOOSE f : AreLevels(file, n, f)
Level(file, k)  == Levels(file, k)[k]

(* Every definition of a file, however deep its templates nest. *)
All(file) == UNION {Level(file, k) : k \in Nat}

(* Induction: what holds of 0 and of the successors of what it holds of.   *)
LEMMA EveryNumber ==
  ASSUME NEW S \in SUBSET Nat, 0 \in S, \A n \in S : n + 1 \in S
  PROVE  \A n \in Nat : n \in S
<1> DEFINE Bad == Nat \ S
<1>1. SUFFICES ASSUME Bad # {} PROVE FALSE OBVIOUS
<1>2. PICK n \in Bad : \A m \in Bad : n <= m BY <1>1, LeastNumber
<1>3. n # 0 BY <1>2
<1>4. n - 1 \in Nat /\ n - 1 \notin Bad BY <1>2, <1>3
<1>5. (n - 1) + 1 \in S BY <1>4
<1>6. QED BY <1>2, <1>5

LEMMA LevelsExist ==
  ASSUME NEW file PROVE \A n \in Nat : \E f : AreLevels(file, n, f)
<1> DEFINE S == {n \in Nat : \E f : AreLevels(file, n, f)}
<1>1. 0 \in S
  <2> DEFINE f == [k \in 0 .. 0 |-> Typed(file)]
  <2>1. AreLevels(file, 0, f) BY DEF AreLevels
  <2>2. QED BY <2>1
<1>2. ASSUME NEW n \in S PROVE n + 1 \in S
  <2>1. PICK f : AreLevels(file, n, f) BY <1>2
  <2> DEFINE g == [k \in 0 .. (n + 1) |-> IF k = n + 1 THEN Below(file, f[n]) ELSE f[k]]
  <2>2. DOMAIN f = 0 .. n BY <2>1 DEF AreLevels
  <2>3. \A k \in 0 .. n : f[k] = IF k = 0 THEN Typed(file) ELSE Below(file, f[k - 1])
    BY <2>1 DEF AreLevels
  <2>4. \A k \in 0 .. (n + 1) : g[k] = IF k = 0 THEN Typed(file) ELSE Below(file, g[k - 1])
    <3> TAKE k \in 0 .. (n + 1)
    <3>1. CASE k = n + 1
      <4>1. g[k] = Below(file, f[n]) /\ k # 0 /\ k - 1 = n /\ g[k - 1] = f[n] BY <3>1
      <4>2. QED BY <4>1
    <3>2. CASE k # n + 1
      <4>1. k \in 0 .. n /\ g[k] = f[k] BY <3>2
      <4>2. k # 0 => g[k - 1] = f[k - 1] BY <4>1
      <4>3. QED BY <2>3, <4>1, <4>2
    <3>3. QED BY <3>1, <3>2
  <2>5. g = [k \in 0 .. (n + 1) |-> g[k]] OBVIOUS
  <2> HIDE DEF g
  <2>6. AreLevels(file, n + 1, g) BY <2>4, <2>5 DEF AreLevels
  <2>7. QED BY <2>6
<1> HIDE DEF S
<1>3. \A n \in Nat : n \in S BY <1>1, <1>2, EveryNumber DEF S
<1>4. QED BY <1>3 DEF S

LEMMA LevelsAgree ==
  ASSUME NEW file, NEW n \in Nat, NEW m \in Nat, NEW f, NEW g,
         AreLevels(file, n, f), AreLevels(file, m, g), n <= m
  PROVE  \A k \in 0 .. n : f[k] = g[k]
<1> DEFINE S == {k \in Nat : k <= n => f[k] = g[k]}
<1>1. /\ \A k \in 0 .. n : f[k] = IF k = 0 THEN Typed(file) ELSE Below(file, f[k - 1])
      /\ \A k \in 0 .. m : g[k] = IF k = 0 THEN Typed(file) ELSE Below(file, g[k - 1])
  BY DEF AreLevels
<1>2. 0 \in S BY <1>1
<1>3. ASSUME NEW k \in S PROVE k + 1 \in S
  <2>1. ASSUME k + 1 <= n PROVE f[k + 1] = g[k + 1]
    <3>1. k + 1 # 0 /\ (k + 1) - 1 = k /\ k + 1 \in 0 .. n /\ k + 1 \in 0 .. m /\ k \in Nat
      BY <2>1
    <3>2. f[k] = g[k] BY <1>3, <2>1
    <3>3. f[k + 1] = Below(file, f[k]) /\ g[k + 1] = Below(file, g[k]) BY <1>1, <3>1
    <3>4. QED BY <3>2, <3>3
  <2>2. QED BY <2>1
<1> HIDE DEF S
<1>4. \A k \in Nat : k \in S BY <1>2, <1>3, EveryNumber DEF S
<1>5. QED BY <1>4 DEF S

LEMMA LevelsAre ==
  ASSUME NEW file, NEW n \in Nat
  PROVE  /\ AreLevels(file, n, Levels(file, n))
         /\ \A k \in 0 .. n : Levels(file, n)[k] = Level(file, k)
<1>1. \A m \in Nat : AreLevels(file, m, Levels(file, m)) BY LevelsExist DEF Levels
<1>2. ASSUME NEW k \in 0 .. n PROVE Levels(file, n)[k] = Level(file, k)
  <2>1. \A i \in 0 .. k : Levels(file, k)[i] = Levels(file, n)[i] BY <1>1, LevelsAgree
  <2>2. QED BY <2>1 DEF Level
<1>3. QED BY <1>1, <1>2

LEMMA LevelRule ==
  ASSUME NEW file
  PROVE  /\ Level(file, 0) = Typed(file)
         /\ \A k \in Nat : Level(file, k + 1) = Below(file, Level(file, k))
<1>1. Level(file, 0) = Typed(file)
  <2>1. AreLevels(file, 0, Levels(file, 0)) BY LevelsAre
  <2>2. QED BY <2>1 DEF AreLevels, Level
<1>2. ASSUME NEW k \in Nat PROVE Level(file, k + 1) = Below(file, Level(file, k))
  <2> DEFINE f == Levels(file, k + 1)
  <2>1. AreLevels(file, k + 1, f) /\ f[k] = Level(file, k) BY LevelsAre
  <2>2. k + 1 # 0 /\ (k + 1) - 1 = k /\ k + 1 \in 0 .. (k + 1) OBVIOUS
  <2> HIDE DEF f
  <2>3. f[k + 1] = Below(file, f[k]) BY <2>1, <2>2 DEF AreLevels
  <2>4. QED BY <2>1, <2>3 DEF Level, f
<1>3. QED BY <1>1, <1>2

LEMMA DefinitionsAre ==
  ASSUME NEW file, NEW depth \in Nat
  PROVE  Definitions(file, depth) = UNION {Level(file, k) : k \in 0 .. depth}
<1>1. Definitions(file, depth) = UNION {Levels(file, depth)[k] : k \in 0 .. depth}
  BY DEF Definitions, Levels, AreLevels, Below
<1>2. QED BY <1>1, LevelsAre

LEMMA AllHolds ==
  ASSUME NEW file
  PROVE  /\ Typed(file) \subseteq All(file)
         /\ \A d \in All(file) : EntriesUnder(file, d) \subseteq All(file)
<1>1. Typed(file) \subseteq All(file) BY LevelRule DEF All
<1>2. ASSUME NEW d \in All(file) PROVE EntriesUnder(file, d) \subseteq All(file)
  <2>1. PICK k \in Nat : d \in Level(file, k) BY DEF All
  <2>2. EntriesUnder(file, d) \subseteq Level(file, k + 1) BY <2>1, LevelRule DEF Below
  <2>3. QED BY <2>2 DEF All
<1>3. QED BY <1>1, <1>2

LEMMA AllInduction ==
  ASSUME NEW file, NEW S,
         Typed(file) \subseteq S,
         \A d \in S \cap All(file) : EntriesUnder(file, d) \subseteq S
  PROVE  All(file) \subseteq S
<1> DEFINE K == {k \in Nat : Level(file, k) \subseteq S}
<1>1. 0 \in K BY LevelRule
<1>2. ASSUME NEW k \in K PROVE k + 1 \in K
  <2>1. \A d \in Level(file, k) : EntriesUnder(file, d) \subseteq S BY <1>2 DEF All
  <2>2. Level(file, k + 1) \subseteq S BY <2>1, LevelRule DEF Below
  <2>3. QED BY <2>2
<1> HIDE DEF K
<1>3. \A k \in Nat : k \in K BY <1>1, <1>2, EveryNumber DEF K
<1>4. QED BY <1>3 DEF K, All

(* The statements that lead to a definition are one more than its depth.   *)
LEMMA ViaTells ==
  ASSUME NEW file, NEW k \in Nat, NEW d \in Level(file, k)
  PROVE  d.via \in Seq(DOMAIN file) /\ Len(d.via) = k + 1
<1> DEFINE Right(n, c) == c.via \in Seq(DOMAIN file) /\ Len(c.via) = n + 1
           K == {n \in Nat : \A c \in Level(file, n) : Right(n, c)}
<1>1. 0 \in K
  <2>1. \A c \in Typed(file) : \E i \in DOMAIN file : c.via = <<i>>
    BY DEF Typed, Choosing
  <2>2. \A i \in DOMAIN file : <<i>> \in Seq(DOMAIN file) /\ Len(<<i>>) = 1 OBVIOUS
  <2>3. ASSUME NEW c \in Typed(file) PROVE Right(0, c)
    <3>1. PICK i \in DOMAIN file : c.via = <<i>> BY <2>1
    <3>2. 0 + 1 = 1 OBVIOUS
    <3>3. QED BY <2>2, <3>1, <3>2
  <2>4. QED BY <2>3, LevelRule
<1>2. ASSUME NEW n \in K PROVE n + 1 \in K
  <2>1. SUFFICES ASSUME NEW c \in Level(file, n + 1) PROVE Right(n + 1, c) OBVIOUS
  <2>2. PICK b \in Level(file, n) : \E e \in Entries(file, Attaches(file, b)) :
         c = Under(file, b, e)
    BY LevelRule DEF Below, EntriesUnder
  <2>3. b.via \in Seq(DOMAIN file) /\ Len(b.via) = n + 1 BY <1>2
  <2>4. PICK e \in DOMAIN file : c.via = Append(b.via, e) BY <2>2 DEF Under, Entries
  <2>5. QED BY <2>3, <2>4
<1> HIDE DEF K
<1>3. \A n \in Nat : n \in K BY <1>1, <1>2, EveryNumber DEF K
<1>4. QED BY <1>3 DEF K

LEMMA StatUnder ==
  ASSUME NEW file, NEW d, d.via \in Seq(DOMAIN file), NEW e \in DOMAIN file
  PROVE  /\ Stat(file, Under(file, d, e)) = file[e]
         /\ Under(file, d, e).via = Append(d.via, e)
         /\ Len(Under(file, d, e).via) = Len(d.via) + 1
<1>1. Under(file, d, e).via = Append(d.via, e) BY DEF Under
<1>2. Len(Append(d.via, e)) = Len(d.via) + 1 /\ Append(d.via, e)[Len(d.via) + 1] = e OBVIOUS
<1>3. QED BY <1>1, <1>2 DEF Stat

LEMMA UnderIsDeeper ==
  ASSUME NEW file, NEW d, d.via \in Seq(DOMAIN file), NEW e \in DOMAIN file
  PROVE  Under(file, d, e) # d
<1>1. Len(Under(file, d, e).via) = Len(d.via) + 1 BY StatUnder
<1>2. Len(d.via) \in Nat OBVIOUS
<1>3. QED BY <1>1, <1>2

(* A definition and those whose templates led to it. *)
LEMMA Ancestors ==
  ASSUME NEW file, NEW k \in Nat, NEW d \in Level(file, k)
  PROVE  \E s \in [0 .. k -> All(file)] :
           /\ s[k] = d
           /\ \A m \in 0 .. k : s[m] \in Level(file, m)
           /\ \A m \in 0 .. (k - 1) : s[m + 1] \in EntriesUnder(file, s[m])
<1> DEFINE Chain(n, c, s) ==
             /\ s \in [0 .. n -> All(file)] /\ s[n] = c
             /\ \A m \in 0 .. n : s[m] \in Level(file, m)
             /\ \A m \in 0 .. (n - 1) : s[m + 1] \in EntriesUnder(file, s[m])
           K == {n \in Nat : \A c \in Level(file, n) : \E s : Chain(n, c, s)}
<1>1. 0 \in K
  <2>1. SUFFICES ASSUME NEW c \in Level(file, 0) PROVE \E s : Chain(0, c, s)
    OBVIOUS
  <2>2. Chain(0, c, [m \in 0 .. 0 |-> c]) BY DEF All
  <2>3. QED BY <2>2
<1>2. ASSUME NEW n \in K PROVE n + 1 \in K
  <2>1. SUFFICES ASSUME NEW c \in Level(file, n + 1) PROVE \E s : Chain(n + 1, c, s) OBVIOUS
  <2>2. PICK b \in Level(file, n) : c \in EntriesUnder(file, b) BY LevelRule DEF Below
  <2>3. PICK s : Chain(n, b, s) BY <1>2
  <2> DEFINE u == [m \in 0 .. (n + 1) |-> IF m = n + 1 THEN c ELSE s[m]]
  <2>4. c \in All(file) BY DEF All
  <2>5. u \in [0 .. (n + 1) -> All(file)]
    <3>1. \A m \in 0 .. (n + 1) : m # n + 1 => m \in 0 .. n OBVIOUS
    <3>2. QED BY <2>3, <2>4, <3>1
  <2>6. u[n + 1] = c /\ \A m \in 0 .. n : u[m] = s[m]
    <3>1. n + 1 \in 0 .. (n + 1) /\ \A m \in 0 .. n : m \in 0 .. (n + 1) /\ m # n + 1 OBVIOUS
    <3>2. QED BY <3>1
  <2> HIDE DEF u
  <2>7. \A m \in 0 .. (n + 1) : u[m] \in Level(file, m)
    <3>1. \A m \in 0 .. (n + 1) : m = n + 1 \/ m \in 0 .. n OBVIOUS
    <3>2. QED BY <2>3, <2>6, <3>1
  <2>8. \A m \in 0 .. n : u[m + 1] \in EntriesUnder(file, u[m])
    <3> TAKE m \in 0 .. n
    <3>1. CASE m = n BY <2>2, <2>3, <2>6, <3>1
    <3>2. CASE m # n
      <4>1. m \in 0 .. (n - 1) /\ m + 1 \in 0 .. n BY <3>2
      <4>2. s[m + 1] \in EntriesUnder(file, s[m]) BY <2>3, <4>1
      <4>3. QED BY <2>6, <4>1, <4>2
    <3>3. QED BY <3>1, <3>2
  <2>9. (n + 1) - 1 = n OBVIOUS
  <2>10. Chain(n + 1, c, u) BY <2>5, <2>6, <2>7, <2>8, <2>9
  <2>11. QED BY <2>10
<1> HIDE DEF K
<1>3. \A n \in Nat : n \in K BY <1>1, <1>2, EveryNumber DEF K
<1>4. PICK s : Chain(k, d, s) BY <1>3 DEF K
<1>5. QED BY <1>4

(* A template that leads to itself leads on for ever: when definitions     *)
(* are of bounded depth, that depth is at most the number of templates.    *)
LEMMA TemplatesNest ==
  ASSUME NEW file \in Seq(Source), IsFiniteSet(Template),
         NEW max \in Nat, \A d \in All(file) : Len(d.via) <= max,
         NEW k \in Nat, NEW c \in Level(file, k)
  PROVE  k <= Cardinality(Template)
<1> DEFINE Depths == {n \in Nat : Level(file, n) # {}}
           Left   == {max - n : n \in Depths}
<1>1. \A n \in Depths : n < max
  <2> TAKE n \in Depths
  <2>1. PICK d \in Level(file, n) : TRUE OBVIOUS
  <2>2. d \in All(file) /\ Len(d.via) = n + 1 BY ViaTells DEF All
  <2>3. QED BY <2>2
<1>2. Left \in SUBSET Nat /\ k \in Depths /\ Left # {}
  <2>1. \A n \in Depths : max - n \in Nat BY <1>1
  <2>2. k \in Depths OBVIOUS
  <2>3. QED BY <2>1, <2>2
<1>3. PICK l \in Left : \A j \in Left : l <= j BY <1>2, LeastNumber
<1>4. PICK deep \in Depths : l = max - deep BY <1>3
<1>5. \A n \in Depths : n <= deep
  <2> TAKE n \in Depths
  <2>1. max - deep <= max - n BY <1>3, <1>4
  <2>2. QED BY <2>1
<1>6. PICK last \in Level(file, deep) : TRUE BY <1>4
<1>7. deep \in Nat /\ k <= deep BY <1>2, <1>5
<1> HIDE DEF Left
<1>8. PICK s \in [0 .. deep -> All(file)] :
        /\ \A m \in 0 .. deep : s[m] \in Level(file, m)
        /\ \A m \in 0 .. (deep - 1) : s[m + 1] \in EntriesUnder(file, s[m])
  BY <1>6, <1>7, Ancestors
<1> DEFINE t == [m \in 0 .. (deep - 1) |-> Attaches(file, s[m])]
<1>9. ASSUME Cardinality(Template) < deep PROVE FALSE
  <2>1. t \in [0 .. (deep - 1) -> Template]
    <3> SUFFICES ASSUME NEW m \in 0 .. (deep - 1) PROVE Attaches(file, s[m]) \in Template
      OBVIOUS
    <3>1. PICK e \in Entries(file, Attaches(file, s[m])) : TRUE BY <1>8 DEF EntriesUnder
    <3>2. file[e] \in Source /\ file[e].name.kind = "entry"
           /\ file[e].name.of = Attaches(file, s[m])
      BY <3>1 DEF Entries
    <3>3. file[e].name \in Name BY <3>2 DEF Source
    <3>4. QED BY <3>2, <3>3 DEF Name
  <2>2. IsFiniteSet(0 .. (deep - 1)) /\ Cardinality(0 .. (deep - 1)) = deep
    <3>1. 0 <= deep - 1
      <4>1. Cardinality(Template) \in Nat BY FS_CardinalityType
      <4>2. QED BY <1>7, <1>9, <4>1
    <3>2. deep - 1 \in Int /\ 0 \in Int /\ (deep - 1) - 0 + 1 = deep /\ ~ (0 > deep - 1)
      BY <1>7, <3>1
    <3>3. QED BY <3>2, FS_Interval
  <2> HIDE DEF t
  <2>3. \E x, y \in 0 .. (deep - 1) : x # y /\ t[x] = t[y] BY <1>9, <2>1, <2>2, FS_PigeonHole
  <2>4. PICK a \in 0 .. (deep - 1), b \in 0 .. (deep - 1) : a < b /\ t[a] = t[b]
    <3>1. PICK x \in 0 .. (deep - 1), y \in 0 .. (deep - 1) : x # y /\ t[x] = t[y] BY <2>3
    <3>2. x < y \/ y < x BY <3>1
    <3>3. QED BY <3>1, <3>2
  <2> DEFINE K == {m \in Nat : a + m <= deep =>
                     \E d \in Level(file, b + m) : Attaches(file, d) = Attaches(file, s[a + m])}
  <2>5. 0 \in K
    <3>1. s[b] \in Level(file, b) /\ Attaches(file, s[b]) = Attaches(file, s[a])
      BY <1>8, <2>4 DEF t
    <3>2. b + 0 = b /\ a + 0 = a OBVIOUS
    <3>3. QED BY <3>1, <3>2
  <2>6. ASSUME NEW m \in K PROVE m + 1 \in K
    <3>1. SUFFICES ASSUME a + (m + 1) <= deep
                   PROVE  \E d \in Level(file, b + (m + 1)) :
                            Attaches(file, d) = Attaches(file, s[a + (m + 1)])
      OBVIOUS
    <3>2. m \in Nat /\ a + m <= deep /\ a + m \in 0 .. (deep - 1) /\ b + m \in Nat
          /\ (a + m) + 1 = a + (m + 1) /\ (b + m) + 1 = b + (m + 1)
      BY <1>7, <3>1
    <3>3. PICK d \in Level(file, b + m) : Attaches(file, d) = Attaches(file, s[a + m])
      BY <2>6, <3>2
    <3>4. PICK e \in Entries(file, Attaches(file, s[a + m])) :
            s[a + (m + 1)] = Under(file, s[a + m], e)
      BY <1>8, <3>2 DEF EntriesUnder
    <3>5. Under(file, d, e) \in Level(file, b + (m + 1))
      <4>1. Under(file, d, e) \in Below(file, Level(file, b + m))
        BY <3>3, <3>4 DEF Below, EntriesUnder
      <4>2. Level(file, (b + m) + 1) = Below(file, Level(file, b + m)) BY <3>2, LevelRule
      <4>3. QED BY <3>2, <4>1, <4>2
    <3>6. s[a + m].via \in Seq(DOMAIN file) /\ d.via \in Seq(DOMAIN file) /\ e \in DOMAIN file
      <4>1. s[a + m] \in Level(file, a + m) /\ a + m \in Nat BY <1>8, <3>2
      <4>2. QED BY <3>2, <3>4, <4>1, ViaTells DEF Entries
    <3>7. Stat(file, Under(file, d, e)) = Stat(file, Under(file, s[a + m], e))
      BY <3>6, StatUnder
    <3>8. Attaches(file, Under(file, d, e)) = Attaches(file, s[a + (m + 1)])
      BY <3>4, <3>7 DEF Attaches
    <3>9. QED BY <3>5, <3>8
  <2> HIDE DEF K
  <2>7. \A m \in Nat : m \in K BY <2>5, <2>6, EveryNumber DEF K
  <2>8. deep - a \in Nat /\ a + (deep - a) <= deep /\ b + (deep - a) \in Nat
         /\ b + (deep - a) > deep
    BY <1>7, <2>4
  <2>9. Level(file, b + (deep - a)) # {} BY <2>7, <2>8 DEF K
  <2>10. b + (deep - a) \in Depths BY <2>8, <2>9
  <2>11. b + (deep - a) <= deep BY <1>5, <2>10
  <2>12. QED BY <1>7, <2>8, <2>11
<1>10. Cardinality(Template) \in Nat BY FS_CardinalityType
<1>11. QED BY <1>7, <1>9, <1>10
-----------------------------------------------------------------------------
(* The forks of a file's statements, each by its statement and the suits   *)
(* chosen; those that are kept; and the definitions they are.              *)
Origins(file) ==
  {x \in (DOMAIN file) \X {"S", "H", "-"} \X {"D", "C", "-"} :
     /\ x[2] \in IF NameHas(file[x[1]], Major) THEN Majors ELSE {"-"}
     /\ x[3] \in IF NameHas(file[x[1]], Minor) THEN Minors ELSE {"-"}}

Fork(file, x)    == Generated(file[x[1]], x[2], x[3])
Kept(file)       == {x \in Origins(file) : LegalName(Fork(file, x))}
IsEntry(file, x) == file[x[1]].name.kind = "entry"
KeptTyped(file)  == {x \in Kept(file) : ~ IsEntry(file, x)}
DefOf(file, x)   == Choosing(file, x[1], x[2], x[3])
EntryAt(e)       == <<e, "-", "-">>

(* A definition as the grafting writes it. *)
Written(file, d) ==
  [Bare(Generated(Stat(file, d), d.major, d.minor)) EXCEPT !.name = d.name]

(* What is known of a file whose macros were expanded without a mistake.   *)
Expandable(file) ==
  \A i \in DOMAIN file :
    /\ file[i].op # ":?" /\ ~ NamesBoth(file[i]) /\ checkAnchorOrder(file[i])
    /\ file[i].name.kind = "bid" /\ ~ Has(file[i].name.tokens, Macro)
         => isLegalBidSequence(file[i].name.tokens)

(* The one suit of a macro of a name is the one that is chosen. *)
LEMMA OneSuit ==
  ASSUME NEW w, w \notin Both, w # "Trump", NEW major, NEW minor,
         w \in Major => major \in Majors, w \in Minor => minor \in Minors
  PROVE  SuitsOf(w, major, minor, "") = {Chosen(w, major, minor)}
<1>1. w \in Macro \/ w \notin Macro \cup Both \cup {"Trump"} BY Zenon
<1>2. CASE w \in Macro
  BY <1>2 DEF SuitsOf, Chosen, complementSuit, Majors, Minors
<1>3. CASE w \notin Macro \cup Both \cup {"Trump"}
  BY <1>3 DEF SuitsOf, Chosen
<1>4. QED BY <1>1, <1>2, <1>3

LEMMA InstanceIsChosen ==
  ASSUME NEW tokens \in Seq(Token), NEW major, NEW minor, ~ Has(tokens, Both),
         Has(tokens, Major) => major \in Majors, Has(tokens, Minor) => minor \in Minors
  PROVE  Instance(tokens, major, minor) = substituteNameTokens(tokens, major, minor)
<1>1. ASSUME NEW i \in DOMAIN tokens
      PROVE  (CHOOSE x \in SuitsOf(tokens[i].strain, major, minor, "") : TRUE)
             = Chosen(tokens[i].strain, major, minor)
  <2> DEFINE w == tokens[i].strain
  <2>1. w \notin Both /\ (w \in Major => major \in Majors) /\ (w \in Minor => minor \in Minors)
    BY <1>1 DEF Has
  <2>2. w # "Trump"
    <3>1. tokens[i] \in Token BY <1>1
    <3>2. QED BY <3>1 DEF Token
  <2> HIDE DEF w
  <2>3. SuitsOf(w, major, minor, "") = {Chosen(w, major, minor)} BY <2>1, <2>2, OneSuit
  <2>4. QED BY <2>3 DEF w
<1>2. QED BY <1>1 DEF Instance, substituteNameTokens

LEMMA OriginParts ==
  ASSUME NEW file, NEW x \in Origins(file)
  PROVE  /\ x = <<x[1], x[2], x[3]>> /\ x[1] \in DOMAIN file
         /\ NameHas(file[x[1]], Major) => x[2] \in Majors
         /\ ~ NameHas(file[x[1]], Major) => x[2] = "-"
         /\ NameHas(file[x[1]], Minor) => x[3] \in Minors
         /\ ~ NameHas(file[x[1]], Minor) => x[3] = "-"
BY DEF Origins

(* The name of a fork is the name of the definition. *)
LEMMA ForkName ==
  ASSUME NEW file \in Seq(Source), Expandable(file), NEW x \in Origins(file), ~ IsEntry(file, x)
  PROVE  /\ Fork(file, x).name = DefOf(file, x).name
         /\ LegalName(Fork(file, x)) <=> isLegalBidSequence(DefOf(file, x).name.tokens)
         /\ DefOf(file, x).name.kind = file[x[1]].name.kind
<1> DEFINE s == file[x[1]]  tokens == s.name.tokens
<1>1. s \in Source /\ x[1] \in DOMAIN file BY OriginParts
<1>2. s.name \in Name BY <1>1 DEF Source
<1>3. /\ tokens \in Seq(Token) /\ (s.name.kind # "bid" => tokens = <<>>)
      /\ \E k, t, q : s.name = [kind |-> k, of |-> t, tokens |-> q]
  <2>1. s.name.kind # "entry" BY DEF IsEntry
  <2>2. \E k, t, q : s.name = [kind |-> k, of |-> t, tokens |-> q] BY <1>2 DEF Name
  <2>3. QED BY <1>2, <2>1, <2>2, NamesHoldTokens
<1>4. Fork(file, x).name = IF s.name.kind = "bid"
                           THEN [s.name EXCEPT !.tokens = substituteNameTokens(tokens, x[2], x[3])]
                           ELSE s.name
  BY DEF Fork, Generated
<1>5. DefOf(file, x).name = [s.name EXCEPT !.tokens = Instance(tokens, x[2], x[3])]
  BY DEF DefOf, Choosing
<1>6. Fork(file, x).name = DefOf(file, x).name
  <2>1. CASE s.name.kind = "bid"
    <3>1. ~ Has(tokens, Both) BY <1>1, <2>1 DEF Expandable, NamesBoth
    <3>2. (Has(tokens, Major) => x[2] \in Majors) /\ (Has(tokens, Minor) => x[3] \in Minors)
      BY <2>1, OriginParts DEF NameHas
    <3>3. Instance(tokens, x[2], x[3]) = substituteNameTokens(tokens, x[2], x[3])
      BY <1>3, <3>1, <3>2, InstanceIsChosen
    <3>4. QED BY <1>4, <1>5, <2>1, <3>3
  <2>2. CASE s.name.kind # "bid"
    <3>1. tokens = <<>> BY <1>3, <2>2
    <3>2. Instance(tokens, x[2], x[3]) = <<>> BY <3>1 DEF Instance
    <3> HIDE DEF s
    <3>3. [s.name EXCEPT !.tokens = <<>>] = s.name BY <1>3, <3>1
    <3>4. QED BY <1>4, <1>5, <2>2, <3>2, <3>3
  <2>3. QED BY <2>1, <2>2
<1>7. /\ DefOf(file, x).name.kind = s.name.kind
      /\ s.name.kind # "bid" => DefOf(file, x).name.tokens = <<>>
  <2>1. DefOf(file, x).name.tokens = Instance(tokens, x[2], x[3])
         /\ DefOf(file, x).name.kind = s.name.kind
    <3> HIDE DEF s
    <3>1. QED BY <1>3, <1>5
  <2>2. tokens = <<>> => Instance(tokens, x[2], x[3]) = <<>> BY DEF Instance
  <2>3. QED BY <1>3, <2>1, <2>2
<1>8. isLegalBidSequence(<<>>) BY DEF isLegalBidSequence
<1>9. LegalName(Fork(file, x)) <=> isLegalBidSequence(DefOf(file, x).name.tokens)
  BY <1>6, <1>7, <1>8 DEF LegalName
<1>10. QED BY <1>6, <1>7, <1>9

LEMMA TypedIs ==
  ASSUME NEW file \in Seq(Source), Expandable(file)
  PROVE  /\ Typed(file) = {DefOf(file, x) : x \in KeptTyped(file)}
         /\ \A x, y \in KeptTyped(file) : DefOf(file, x) = DefOf(file, y) => x = y
<1>1. ASSUME NEW d \in Typed(file) PROVE \E x \in KeptTyped(file) : d = DefOf(file, x)
  <2>1. PICK i \in {k \in DOMAIN file : file[k].name.kind # "entry"} :
          \E j \in IF NameHas(file[i], Major) THEN Majors ELSE {"-"} :
            \E n \in IF NameHas(file[i], Minor) THEN Minors ELSE {"-"} :
              d = Choosing(file, i, j, n)
    BY <1>1 DEF Typed
  <2>2. PICK j \in IF NameHas(file[i], Major) THEN Majors ELSE {"-"} :
          \E n \in IF NameHas(file[i], Minor) THEN Minors ELSE {"-"} : d = Choosing(file, i, j, n)
    BY <2>1
  <2>3. PICK n \in IF NameHas(file[i], Minor) THEN Minors ELSE {"-"} : d = Choosing(file, i, j, n)
    BY <2>2
  <2> DEFINE x == <<i, j, n>>
  <2>4. j \in {"S", "H", "-"} /\ n \in {"D", "C", "-"} BY DEF Majors, Minors
  <2>5. x \in Origins(file) /\ ~ IsEntry(file, x) /\ DefOf(file, x) = d
    BY <2>3, <2>4 DEF Origins, IsEntry, DefOf
  <2>6. isLegalBidSequence(d.name.tokens) BY <1>1 DEF Typed
  <2> HIDE DEF x
  <2>7. LegalName(Fork(file, x)) BY <2>5, <2>6, ForkName
  <2>8. QED BY <2>5, <2>7 DEF KeptTyped, Kept
<1>2. ASSUME NEW x \in KeptTyped(file) PROVE DefOf(file, x) \in Typed(file)
  <2>1. x \in Origins(file) /\ ~ IsEntry(file, x) /\ LegalName(Fork(file, x))
    BY <1>2 DEF KeptTyped, Kept
  <2>2. isLegalBidSequence(DefOf(file, x).name.tokens) BY <2>1, ForkName
  <2>3. /\ x[1] \in {k \in DOMAIN file : file[k].name.kind # "entry"}
        /\ x[2] \in IF NameHas(file[x[1]], Major) THEN Majors ELSE {"-"}
        /\ x[3] \in IF NameHas(file[x[1]], Minor) THEN Minors ELSE {"-"}
    BY <2>1 DEF Origins, IsEntry
  <2>4. QED BY <2>2, <2>3 DEF Typed, DefOf
<1>3. ASSUME NEW x \in KeptTyped(file), NEW y \in KeptTyped(file), DefOf(file, x) = DefOf(file, y)
      PROVE  x = y
  <2>1. x = <<x[1], x[2], x[3]>> /\ y = <<y[1], y[2], y[3]>>
    BY OriginParts DEF KeptTyped, Kept
  <2>2. <<x[1]>> = <<y[1]>> /\ x[2] = y[2] /\ x[3] = y[3] BY <1>3 DEF DefOf, Choosing
  <2>3. <<x[1]>>[1] = <<y[1]>>[1] BY <2>2
  <2>4. x[1] = y[1] BY <2>3
  <2>5. QED BY <2>1, <2>2, <2>4
<1>4. QED BY <1>1, <1>2, <1>3

(* An entry is kept as it is. *)
LEMMA EntryFork ==
  ASSUME NEW file \in Seq(Source), NEW x \in Origins(file), IsEntry(file, x)
  PROVE  /\ x = EntryAt(x[1]) /\ x \in Kept(file)
         /\ Fork(file, x).name = file[x[1]].name /\ Fork(file, x).op = file[x[1]].op
<1>1. x = EntryAt(x[1])
  <2>1. x[2] = "-" /\ x[3] = "-" BY OriginParts DEF NameHas, IsEntry
  <2>2. QED BY <2>1, OriginParts DEF EntryAt
<1>2. Fork(file, x).name = file[x[1]].name /\ Fork(file, x).op = file[x[1]].op
  BY DEF Fork, Generated, IsEntry
<1>3. LegalName(Fork(file, x)) BY <1>2 DEF LegalName, IsEntry
<1>4. QED BY <1>1, <1>2, <1>3 DEF Kept

LEMMA EntryOrigin ==
  ASSUME NEW file, NEW e \in DOMAIN file, file[e].name.kind = "entry"
  PROVE  /\ EntryAt(e) \in Origins(file) /\ IsEntry(file, EntryAt(e)) /\ EntryAt(e)[1] = e
BY DEF EntryAt, Origins, NameHas, IsEntry

(* What is attached to a fork, and how it is written without. *)
LEMMA ForkAttached ==
  ASSUME NEW file, NEW x
  PROVE  Attached(Fork(file, x)) = IF Stuck(file[x[1]]) THEN NoTemplate ELSE file[x[1]].attach
BY DEF Attached, Fork, Generated, Stuck

LEMMA TypedForkWritten ==
  ASSUME NEW file \in Seq(Source), Expandable(file), NEW x \in KeptTyped(file)
  PROVE  /\ Bare(Fork(file, x)) = Written(file, DefOf(file, x))
         /\ Attached(Fork(file, x)) = Attaches(file, DefOf(file, x))
         /\ Fork(file, x).name = DefOf(file, x).name
<1> DEFINE d == DefOf(file, x)  g == Fork(file, x)
<1>1. Stat(file, d) = file[x[1]] /\ d.major = x[2] /\ d.minor = x[3]
  BY DEF DefOf, Choosing, Stat
<1>2. g.name = d.name BY ForkName DEF KeptTyped, Kept
<1>3. g = Generated(Stat(file, d), d.major, d.minor) BY <1>1 DEF Fork
<1>4. [Bare(g) EXCEPT !.name = g.name] = Bare(g)
  <2>1. \E n, o, a, t, k : g = [name |-> n, op |-> o, alts |-> a, attach |-> t, stuck |-> k]
    BY DEF Fork, Generated
  <2> HIDE DEF g
  <2>2. \A y : [[g EXCEPT !.attach = y] EXCEPT !.name = g.name] = [g EXCEPT !.attach = y]
    BY <2>1
  <2>3. \E y : Bare(g) = [g EXCEPT !.attach = y] BY DEF Bare
  <2>4. QED BY <2>2, <2>3
<1>5. Bare(g) = Written(file, d) BY <1>2, <1>3, <1>4 DEF Written
<1>6. Attached(g) = Attaches(file, d) BY <1>1, ForkAttached DEF Attaches
<1>7. QED BY <1>2, <1>5, <1>6

LEMMA EntryForkWritten ==
  ASSUME NEW file \in Seq(Source), NEW d, d.via \in Seq(DOMAIN file),
         NEW e \in DOMAIN file, file[e].name.kind = "entry"
  PROVE  LET g == Fork(file, EntryAt(e))  c == Under(file, d, e)
         IN  /\ GraftedName(d.name, g) = c.name
             /\ [Bare(g) EXCEPT !.name = c.name] = Written(file, c)
             /\ Attached(g) = Attaches(file, c)
<1> DEFINE g == Fork(file, EntryAt(e))  c == Under(file, d, e)
<1>1. EntryAt(e)[1] = e /\ EntryAt(e)[2] = "-" /\ EntryAt(e)[3] = "-" BY DEF EntryAt
<1>2. Stat(file, c) = file[e] /\ c.major = "-" /\ c.minor = "-" BY StatUnder DEF Under
<1>3. g = Generated(file[e], "-", "-") BY <1>1 DEF Fork
<1>4. g.name = file[e].name BY <1>3 DEF Generated
<1>5. GraftedName(d.name, g) = c.name BY <1>4 DEF GraftedName, Under
<1>6. [Bare(g) EXCEPT !.name = c.name] = Written(file, c) BY <1>2, <1>3 DEF Written
<1>7. Attached(g) = Attaches(file, c) BY <1>1, <1>2, ForkAttached DEF Attaches
<1>8. QED BY <1>5, <1>6, <1>7

-----------------------------------------------------------------------------
(* A text holds forks, each once: o says which is where.                   *)
Lists(file, q, o, X) ==
  /\ o \in [DOMAIN q -> X]
  /\ \A p \in DOMAIN q : q[p] = Fork(file, o[p])
  /\ \A p, r \in DOMAIN q : o[p] = o[r] => p = r
  /\ \A x \in X : \E p \in DOMAIN q : o[p] = x

Listed(file, q, X) == \E o : Lists(file, q, o, X)

LEMMA ListsNone == ASSUME NEW file PROVE Listed(file, <<>>, {})
<1>1. Lists(file, <<>>, [p \in {} |-> p], {}) BY DEF Lists
<1>2. QED BY <1>1 DEF Listed

LEMMA ListsMore ==
  ASSUME NEW file, NEW T, NEW q \in Seq(T), NEW X, NEW x, x \notin X, Fork(file, x) \in T,
         Listed(file, q, X)
  PROVE  Listed(file, Append(q, Fork(file, x)), X \cup {x})
<1> DEFINE g == Fork(file, x)  n == Len(q)  new == Append(q, g)
<1>1. PICK o : Lists(file, q, o, X) BY DEF Listed
<1> DEFINE u == [p \in 1 .. (n + 1) |-> IF p = n + 1 THEN x ELSE o[p]]
<1>2. /\ n \in Nat /\ DOMAIN q = 1 .. n /\ DOMAIN new = 1 .. (n + 1)
      /\ new[n + 1] = g /\ \A p \in 1 .. n : new[p] = q[p]
  OBVIOUS
<1>3. \A p \in 1 .. (n + 1) : p = n + 1 \/ p \in 1 .. n BY <1>2
<1>4. n + 1 \in 1 .. (n + 1) /\ \A p \in 1 .. n : p \in 1 .. (n + 1) /\ p # n + 1 BY <1>2
<1>5. u[n + 1] = x /\ \A p \in 1 .. n : u[p] = o[p] BY <1>4
<1>6. u = [p \in 1 .. (n + 1) |-> u[p]] OBVIOUS
<1> HIDE DEF u, new, n
<1>7. u \in [1 .. (n + 1) -> X \cup {x}] BY <1>1, <1>2, <1>3, <1>5, <1>6 DEF Lists
<1>8. \A p \in 1 .. (n + 1) : new[p] = Fork(file, u[p]) BY <1>1, <1>2, <1>3, <1>5 DEF Lists
<1>9. \A p, r \in 1 .. (n + 1) : u[p] = u[r] => p = r
  BY <1>1, <1>2, <1>3, <1>5 DEF Lists
<1>10. \A y \in X \cup {x} : \E p \in 1 .. (n + 1) : u[p] = y
  BY <1>1, <1>2, <1>4, <1>5 DEF Lists
<1>11. Lists(file, new, u, X \cup {x}) BY <1>2, <1>7, <1>8, <1>9, <1>10 DEF Lists
<1>12. QED BY <1>11 DEF Listed, new
-----------------------------------------------------------------------------
(* The macros: what has been written lists what was kept of the forks so   *)
(* far, and what has been passed was without mistake.                      *)
Before(file, a, f) ==
  {x \in Kept(file) :
     x[1] < a \/ (x[1] = a /\ \E k \in 1 .. (f - 1) :
                    x[2] = MajorOf(file[a], k) /\ x[3] = MinorOf(file[a], k))}

Checked(s)  == ~ NamesBoth(s) /\ checkAnchorOrder(s)
NamedAs(s)  == s.name.kind = "bid" /\ ~ Has(s.name.tokens, Macro)
                 => isLegalBidSequence(s.name.tokens)

NothingGrafted ==
  /\ templates = [t \in Template |-> <<>>]
  /\ existingNames = {} /\ referenced = {} /\ frames = <<>>

ExpandText ==
  /\ phase \in {"split", "expand"} => NothingGrafted
  /\ phase = "split" => at = 1
  /\ phase = "expand" =>
       /\ Listed(source, out, Before(source, at, fork))
       /\ fork # 0 => fork <= Forks(source[at])
       /\ \A i \in DOMAIN source : i < at \/ (i = at /\ fork # 0) => Checked(source[i])
       /\ \A i \in DOMAIN source : i < at => NamedAs(source[i])

(* The forks are counted through the choices, each once. *)
LEMMA ForkChoices ==
  ASSUME NEW s
  PROVE  /\ \A k \in 1 .. Forks(s) :
              /\ MajorOf(s, k) \in IF NameHas(s, Major) THEN Majors ELSE {"-"}
              /\ MinorOf(s, k) \in IF NameHas(s, Minor) THEN Minors ELSE {"-"}
         /\ \A k, l \in 1 .. Forks(s) :
              MajorOf(s, k) = MajorOf(s, l) /\ MinorOf(s, k) = MinorOf(s, l) => k = l
         /\ \A j \in IF NameHas(s, Major) THEN Majors ELSE {"-"},
               n \in IF NameHas(s, Minor) THEN Minors ELSE {"-"} :
              \E k \in 1 .. Forks(s) : j = MajorOf(s, k) /\ n = MinorOf(s, k)
<1>1. CASE NameHas(s, Major) /\ NameHas(s, Minor)
  <2>1. Forks(s) = 4 /\ 1 .. 4 = {1, 2, 3, 4} BY <1>1 DEF Forks, Times
  <2>2. /\ MajorOf(s, 1) = "S" /\ MinorOf(s, 1) = "D" /\ MajorOf(s, 2) = "S"
         /\ MinorOf(s, 2) = "C"
        /\ MajorOf(s, 3) = "H" /\ MinorOf(s, 3) = "D" /\ MajorOf(s, 4) = "H"
               /\ MinorOf(s, 4) = "C"
    BY <1>1 DEF MajorOf, MinorOf, Times
  <2>3. QED BY <1>1, <2>1, <2>2 DEF Majors, Minors
<1>2. CASE NameHas(s, Major) /\ ~ NameHas(s, Minor)
  <2>1. Forks(s) = 2 /\ 1 .. 2 = {1, 2} BY <1>2 DEF Forks, Times
  <2>2. /\ MajorOf(s, 1) = "S" /\ MinorOf(s, 1) = "-" /\ MajorOf(s, 2) = "H"
         /\ MinorOf(s, 2) = "-"
    BY <1>2 DEF MajorOf, MinorOf, Times
  <2>3. QED BY <1>2, <2>1, <2>2 DEF Majors, Minors
<1>3. CASE ~ NameHas(s, Major) /\ NameHas(s, Minor)
  <2>1. Forks(s) = 2 /\ 1 .. 2 = {1, 2} BY <1>3 DEF Forks, Times
  <2>2. /\ MajorOf(s, 1) = "-" /\ MinorOf(s, 1) = "D" /\ MajorOf(s, 2) = "-"
         /\ MinorOf(s, 2) = "C"
    BY <1>3 DEF MajorOf, MinorOf
  <2>3. QED BY <1>3, <2>1, <2>2 DEF Majors, Minors
<1>4. CASE ~ NameHas(s, Major) /\ ~ NameHas(s, Minor)
  <2>1. Forks(s) = 1 /\ 1 .. 1 = {1} BY <1>4 DEF Forks, Times
  <2>2. MajorOf(s, 1) = "-" /\ MinorOf(s, 1) = "-" BY <1>4 DEF MajorOf, MinorOf
  <2>3. QED BY <1>4, <2>1, <2>2
<1>5. QED BY <1>1, <1>2, <1>3, <1>4

LEMMA ForkCounted ==
  ASSUME NEW file, NEW x \in Origins(file)
  PROVE  \E k \in 1 .. Forks(file[x[1]]) :
           x[2] = MajorOf(file[x[1]], k) /\ x[3] = MinorOf(file[x[1]], k)
<1> DEFINE s == file[x[1]]
           J == IF NameHas(s, Major) THEN Majors ELSE {"-"}
           N == IF NameHas(s, Minor) THEN Minors ELSE {"-"}
<1>1. x[2] \in J /\ x[3] \in N BY DEF Origins
<1> HIDE DEF s
<1>2. \A j \in J, n \in N : \E k \in 1 .. Forks(s) : j = MajorOf(s, k) /\ n = MinorOf(s, k)
  BY ForkChoices, Zenon
<1> HIDE DEF J, N
<1>3. \E k \in 1 .. Forks(s) : x[2] = MajorOf(s, k) /\ x[3] = MinorOf(s, k)
  BY <1>1, <1>2
<1>4. QED BY <1>3 DEF s

LEMMA NothingBefore ==
  ASSUME NEW file \in Seq(Source) PROVE Before(file, 1, 0) = {}
BY OriginParts DEF Before, Kept

(* Every fork of statement a but those counted before f. *)
LEMMA BeforeAdvances ==
  ASSUME NEW file \in Seq(Source), NEW a \in DOMAIN file, NEW f \in 1 .. Forks(file[a])
  PROVE  LET x == <<a, MajorOf(file[a], f), MinorOf(file[a], f)>>
             new == IF LegalName(Fork(file, x)) THEN {x} ELSE {}
         IN  /\ x \in Origins(file) /\ x \notin Before(file, a, f)
             /\ Before(file, a, f + 1) = Before(file, a, f) \cup new
             /\ f = Forks(file[a]) => Before(file, a + 1, 0) = Before(file, a, f) \cup new
<1> DEFINE s == file[a]  x == <<a, MajorOf(s, f), MinorOf(s, f)>>
           new == IF LegalName(Fork(file, x)) THEN {x} ELSE {}
<1>1. Forks(s) \in Nat /\ f \in Nat \ {0} /\ a \in Nat
  <2>1. Forks(s) \in {1, 2, 4} BY FewForks
  <2> HIDE DEF s
  <2>2. QED BY <2>1
<1>2. x[1] = a /\ x[2] = MajorOf(s, f) /\ x[3] = MinorOf(s, f) OBVIOUS
<1>3. x \in Origins(file) BY <1>1, ForkChoices DEF Origins, Majors, Minors
<1>4. \A k \in 1 .. (f - 1) : k \in 1 .. Forks(s) /\ k # f BY <1>1
<1>5. x \notin Before(file, a, f) BY <1>1, <1>2, <1>4, ForkChoices DEF Before
<1>6. ASSUME NEW y \in Kept(file), y[1] = a
      PROVE  \E k \in 1 .. Forks(s) : y[2] = MajorOf(s, k) /\ y[3] = MinorOf(s, k)
  BY <1>6, ForkCounted DEF Kept
<1>7. \A y \in Kept(file) : y[1] = a /\ y[2] = x[2] /\ y[3] = x[3] => y = x
  BY OriginParts DEF Kept
<1>8. x \in Kept(file) <=> LegalName(Fork(file, x)) BY <1>3 DEF Kept
<1>9. Kept(file) \subseteq Origins(file) /\ \A y \in Kept(file) : y[1] \in Int
  BY OriginParts DEF Kept
<1> HIDE DEF x, s
<1>10. Before(file, a, f + 1) = Before(file, a, f) \cup new
  <2>1. \A k \in 1 .. ((f + 1) - 1) : k = f \/ k \in 1 .. (f - 1) BY <1>1
  <2>2. f \in 1 .. ((f + 1) - 1) /\ \A k \in 1 .. (f - 1) : k \in 1 .. ((f + 1) - 1) BY <1>1
  <2>3. ASSUME NEW y \in Before(file, a, f + 1) PROVE y \in Before(file, a, f) \cup new
    <3>1. y \in Kept(file) BY DEF Before
    <3>2. CASE y = x BY <1>8, <3>1, <3>2
    <3>3. CASE y # x BY <1>2, <1>7, <2>1, <3>1, <3>3 DEF Before, s
    <3>4. QED BY <3>2, <3>3
  <2>4. ASSUME NEW y \in Before(file, a, f) \cup new PROVE y \in Before(file, a, f + 1)
    <3>1. CASE y \in Before(file, a, f) BY <2>2, <3>1 DEF Before
    <3>2. CASE y \in new BY <1>2, <1>8, <2>2, <3>2 DEF Before, s
    <3>3. QED BY <2>4, <3>1, <3>2
  <2>5. QED BY <2>3, <2>4
<1>11. ASSUME f = Forks(s) PROVE Before(file, a + 1, 0) = Before(file, a, f) \cup new
  <2>1. \A k \in 1 .. Forks(s) : k = f \/ k \in 1 .. (f - 1) BY <1>1, <1>11
  <2>2. \A y \in Kept(file) : y[1] < a + 1 <=> y[1] < a \/ y[1] = a BY <1>1, <1>9
  <2>3. Before(file, a + 1, 0) = {y \in Kept(file) : y[1] < a + 1}
    <3>1. ~ \E k \in 1 .. (0 - 1) : TRUE OBVIOUS
    <3>2. QED BY <3>1 DEF Before
  <2>4. ASSUME NEW y \in Kept(file), y[1] < a + 1 PROVE y \in Before(file, a, f) \cup new
    <3>1. CASE y = x BY <1>8, <3>1
    <3>2. CASE y # x /\ y[1] < a BY <3>2 DEF Before
    <3>3. CASE y # x /\ y[1] = a
      <4>1. PICK k \in 1 .. Forks(s) : y[2] = MajorOf(s, k) /\ y[3] = MinorOf(s, k)
        BY <1>6, <3>3
      <4>2. k \in 1 .. (f - 1) BY <1>2, <1>7, <2>1, <3>3, <4>1
      <4>3. QED BY <3>3, <4>1, <4>2 DEF Before, s
    <3>4. QED BY <2>2, <2>4, <3>1, <3>2, <3>3
  <2>5. ASSUME NEW y \in Before(file, a, f) \cup new PROVE y \in Kept(file) /\ y[1] < a + 1
    <3>1. CASE y \in Before(file, a, f) BY <2>2, <3>1 DEF Before
    <3>2. CASE y \in new BY <1>1, <1>2, <1>8, <3>2
    <3>3. QED BY <2>5, <3>1, <3>2
  <2>6. QED BY <2>3, <2>4, <2>5
<1>12. QED BY <1>3, <1>5, <1>10, <1>11 DEF x, s

(* A name without macros is its own and only fork. *)
LEMMA PlainName ==
  ASSUME NEW s \in Source, ~ Has(s.name.tokens, Macro), NEW major, NEW minor
  PROVE  Generated(s, major, minor).name = s.name
<1> DEFINE tokens == s.name.tokens
<1>1. s.name \in Name BY DEF Source
<1>2. tokens \in Seq(Token) BY <1>1, NamesHoldTokens
<1>3. \A i \in DOMAIN tokens :
        [tokens[i] EXCEPT !.strain = Chosen(tokens[i].strain, major, minor)] = tokens[i]
  <2> TAKE i \in DOMAIN tokens
  <2>1. tokens[i] \in Token BY <1>2
  <2>2. tokens[i].strain \notin Macro BY DEF Has
  <2>3. Chosen(tokens[i].strain, major, minor) = tokens[i].strain BY <2>2 DEF Chosen
  <2> HIDE DEF tokens
  <2>4. QED BY <2>1, <2>3 DEF Token
<1>4. substituteNameTokens(tokens, major, minor) = tokens
  <2>1. substituteNameTokens(tokens, major, minor) = [i \in DOMAIN tokens |-> tokens[i]]
    BY <1>3 DEF substituteNameTokens
  <2> DEFINE T == Token
  <2>2. tokens \in Seq(T) BY <1>2
  <2> HIDE DEF T, tokens
  <2>3. tokens = [i \in DOMAIN tokens |-> tokens[i]] BY <2>2
  <2>4. QED BY <2>1, <2>3
<1>5. [s.name EXCEPT !.tokens = tokens] = s.name BY <1>1 DEF Name
<1>6. QED BY <1>4, <1>5 DEF Generated

LEMMA ForksOf ==
  ASSUME NEW s
  PROVE  /\ Forks(s) \in {1, 2, 4}
         /\ Forks(s) = 1 <=> ~ NameHas(s, Major) /\ ~ NameHas(s, Minor)
BY DEF Forks, Times

Mistaken == ~ FileIsLawful \/ BareAsk

LEMMA MistakeStands == ASSUME Mistaken, UNCHANGED <<source, out>> PROVE Mistaken'
BY DEF Mistaken, FileIsLawful, BareAsk, NamesAreLawful, GraftsAreLawful, TrumpIsLawful, DifferInMarks,
       Node, Defined

LEMMA SplitText ==
  ASSUME IInv, ExpandText, Split
  PROVE  ExpandText' /\ phase' \in {"expand", "fatal"} /\ (phase' = "fatal" => Mistaken')
<1>1. CASE \E i \in DOMAIN source : source[i].op = ":?"
  <2>1. Mistaken BY <1>1 DEF Mistaken, BareAsk
  <2>2. phase' = "fatal" /\ UNCHANGED <<source, out>> BY <1>1 DEF Split, Fatal
  <2>3. QED BY <2>1, <2>2, MistakeStands DEF ExpandText
<1>2. CASE ~ \E i \in DOMAIN source : source[i].op = ":?"
  <2>1. /\ phase' = "expand" /\ UNCHANGED <<source, at, fork, text, out, graftVars>>
        /\ phase = "split" /\ at = 1 /\ fork = 0 /\ out = <<>> /\ NothingGrafted
        /\ source \in Seq(Source)
    BY <1>2 DEF Split, ExpandText, IInv, Passes, TypeOK
  <2>2. Before(source', at', fork') = {} BY <2>1, NothingBefore
  <2>3. Listed(source', out', Before(source', at', fork')) BY <2>1, <2>2, ListsNone
  <2>4. NothingGrafted' BY <2>1 DEF NothingGrafted, graftVars
  <2>5. \A i \in DOMAIN source' : ~ (i < at') /\ ~ (i = at' /\ fork' # 0) BY <2>1
  <2>6. QED BY <2>1, <2>3, <2>4, <2>5 DEF ExpandText
<1>3. QED BY <1>1, <1>2

LEMMA GenerateForksText ==
  ASSUME IInv, ExpandText, GenerateForks
  PROVE  ExpandText' /\ phase' \in {"expand", "fatal"} /\ (phase' = "fatal" => Mistaken')
<1>1. /\ phase = "expand" /\ at <= Len(source) /\ fork = 0 /\ at \in DOMAIN source
      /\ source \in Seq(Source)
  BY DEF GenerateForks, IInv, TypeOK
<1>2. CASE NamesBoth(source[at]) \/ ~ checkAnchorOrder(source[at])
  <2>1. Mistaken BY <1>1, <1>2 DEF Mistaken, FileIsLawful, NamesAreLawful
  <2>2. phase' = "fatal" /\ UNCHANGED <<source, out>> BY <1>2 DEF GenerateForks, Fatal
  <2>3. QED BY <2>1, <2>2, MistakeStands DEF ExpandText
<1>3. CASE ~ (NamesBoth(source[at]) \/ ~ checkAnchorOrder(source[at]))
  <2>1. fork' = 1 /\ UNCHANGED <<source, phase, at, text, out, graftVars>>
    BY <1>3 DEF GenerateForks
  <2>2. Before(source, at, 1) = Before(source, at, 0)
    <3>1. ~ (\E k \in 1 .. (1 - 1) : TRUE) /\ ~ (\E k \in 1 .. (0 - 1) : TRUE) OBVIOUS
    <3>2. QED BY <3>1 DEF Before
  <2>3. Listed(source', out', Before(source', at', fork')) BY <1>1, <2>1, <2>2 DEF ExpandText
  <2>4. NothingGrafted' BY <1>1, <2>1 DEF ExpandText, NothingGrafted, graftVars
  <2>5. fork' <= Forks(source'[at'])
    <3>1. Forks(source[at]) \in {1, 2, 4} BY ForksOf
    <3>2. QED BY <2>1, <3>1
  <2>6. \A i \in DOMAIN source' : i < at' \/ i = at' => Checked(source'[i])
    BY <1>1, <1>3, <2>1 DEF ExpandText, Checked
  <2>7. \A i \in DOMAIN source' : i < at' => NamedAs(source'[i]) BY <1>1, <2>1 DEF ExpandText
  <2>8. QED BY <1>1, <2>1, <2>3, <2>4, <2>5, <2>6, <2>7 DEF ExpandText
<1>4. QED BY <1>2, <1>3

LEMMA WriteForkText ==
  ASSUME IInv, ExpandText, WriteFork
  PROVE  ExpandText' /\ phase' \in {"expand", "fatal"} /\ (phase' = "fatal" => Mistaken')
<1> DEFINE s == source[at]  x == <<at, MajorOf(s, fork), MinorOf(s, fork)>>
           g == Generated(s, MajorOf(s, fork), MinorOf(s, fork))
<1>1. /\ phase = "expand" /\ fork > 0 /\ fork \in 0 .. 4 /\ at <= Len(source) /\ at \in Nat
      /\ at \in DOMAIN source /\ source \in Seq(Source) /\ fork <= Forks(s) /\ fork # 0
  <2>1. phase = "expand" /\ fork > 0 /\ fork \in 0 .. 4 /\ at \in Nat \ {0}
         /\ source \in Seq(Source)
    BY DEF WriteFork, IInv, TypeOK
  <2>2. fork # 0 BY <2>1
  <2>3. at <= Len(source) /\ fork <= Forks(s) BY <2>1, <2>2 DEF IInv, Passes, ExpandText
  <2>4. QED BY <2>1, <2>2, <2>3
<1>2. s \in Source /\ g = Fork(source, x) BY <1>1 DEF Fork
<1>3. Forks(s) \in {1, 2, 4} /\ (Forks(s) = 1 <=> ~ NameHas(s, Major) /\ ~ NameHas(s, Minor))
  BY ForksOf
<1>4. s.name.kind = "bid" /\ (~ NameHas(s, Major) /\ ~ NameHas(s, Minor))
        => g.name = s.name /\ ~ Has(s.name.tokens, Macro)
  BY <1>2, PlainName DEF NameHas, Has
<1>5. g.name.kind = s.name.kind
  <2>1. s.name \in Name BY <1>2 DEF Source
  <2>2. \E k, t, q : s.name = [kind |-> k, of |-> t, tokens |-> q] BY <2>1 DEF Name
  <2> HIDE DEF s
  <2>3. QED BY <2>2 DEF Generated
<1> HIDE DEF g
<1>6. CASE ~ LegalName(g) /\ Forks(s) = 1
  <2>1. s.name.kind = "bid" /\ ~ isLegalBidSequence(s.name.tokens) /\ ~ Has(s.name.tokens, Macro)
    BY <1>3, <1>4, <1>5, <1>6 DEF LegalName
  <2>2. Mistaken BY <1>1, <2>1 DEF Mistaken, FileIsLawful, NamesAreLawful
  <2>3. phase' = "fatal" /\ UNCHANGED <<source, out>> BY <1>6 DEF WriteFork, Fatal, g
  <2>4. QED BY <2>2, <2>3, MistakeStands DEF ExpandText
<1>7. CASE ~ (~ LegalName(g) /\ Forks(s) = 1)
  <2>1. /\ out' = IF LegalName(g) THEN Append(out, g) ELSE out
        /\ IF fork < Forks(s) THEN fork' = fork + 1 /\ UNCHANGED at
                              ELSE fork' = 0 /\ at' = at + 1
        /\ UNCHANGED <<source, phase, text, graftVars>>
    BY <1>7 DEF WriteFork, g
  <2>2. fork \in 1 .. Forks(s) BY <1>1, <1>3
  <2> DEFINE now == Before(source, at, fork)
             new == IF LegalName(g) THEN {x} ELSE {}
  <2>3. /\ x \notin now
        /\ Before(source, at, fork + 1) = now \cup new
        /\ fork = Forks(s) => Before(source, at + 1, 0) = now \cup new
    BY <1>1, <1>2, <2>2, BeforeAdvances
  <2>4. Before(source', at', fork') = now \cup new
    <3>1. CASE fork < Forks(s) BY <2>1, <2>3, <3>1
    <3>2. CASE ~ (fork < Forks(s))
      <4>1. fork = Forks(s) BY <1>1, <1>3, <3>2
      <4>2. QED BY <2>1, <2>3, <3>2, <4>1
    <3>3. QED BY <3>1, <3>2
  <2>5. Listed(source', out', Before(source', at', fork'))
    <3>1. Listed(source, out, now) BY <1>1 DEF ExpandText
    <3>2. CASE LegalName(g)
      <4> DEFINE T == {out[p] : p \in DOMAIN out} \cup {g}
      <4>1. out \in Seq(T) /\ g \in T
        <5>1. out \in Seq(Stmt) BY DEF IInv, TypeOK
        <5>2. out \in Seq({out[p] : p \in DOMAIN out} \cup {g}) BY <5>1
        <5>3. QED BY <5>2
      <4> HIDE DEF T, now
      <4>2. Listed(source, Append(out, g), now \cup {x}) BY <1>2, <2>3, <3>1, <4>1, ListsMore
      <4>3. QED BY <2>1, <2>4, <3>2, <4>2
    <3>3. CASE ~ LegalName(g)
      <4>1. now \cup new = now BY <3>3
      <4>2. QED BY <2>1, <2>4, <3>1, <3>3, <4>1
    <3>4. QED BY <3>2, <3>3
  <2>6. NothingGrafted' BY <1>1, <2>1 DEF ExpandText, NothingGrafted, graftVars
  <2>7. fork' # 0 => fork' <= Forks(source'[at']) BY <1>1, <1>3, <2>1
  <2>8. \A i \in DOMAIN source' : i < at' \/ (i = at' /\ fork' # 0) => Checked(source'[i])
    <3>1. \A i \in DOMAIN source : i < at \/ i = at => Checked(source[i])
      BY <1>1 DEF ExpandText
    <3>2. \A i \in DOMAIN source : i < at + 1 => i < at \/ i = at BY <1>1
    <3>3. QED BY <2>1, <3>1, <3>2
  <2>9. \A i \in DOMAIN source' : i < at' => NamedAs(source'[i])
    <3>1. \A i \in DOMAIN source : i < at => NamedAs(source[i]) BY <1>1 DEF ExpandText
    <3>2. \A i \in DOMAIN source : i < at + 1 => i < at \/ i = at BY <1>1
    <3>3. ~ (fork < Forks(s)) => NamedAs(s)
      <4>1. CASE Forks(s) = 1 BY <1>3, <1>4, <1>5, <1>7, <4>1 DEF NamedAs, LegalName
      <4>2. CASE Forks(s) # 1
        <5>1. NameHas(s, Major) \/ NameHas(s, Minor) BY <1>3, <4>2
        <5>2. QED BY <5>1 DEF NamedAs, NameHas, Has
      <4>3. QED BY <4>1, <4>2
    <3>4. QED BY <2>1, <3>1, <3>2, <3>3
  <2>10. QED BY <1>1, <2>1, <2>5, <2>6, <2>7, <2>8, <2>9 DEF ExpandText
<1>8. QED BY <1>6, <1>7
-----------------------------------------------------------------------------
(* The entries: each of the forks passed is listed by its template, or is  *)
(* still in the text.                                                      *)
EntryOf(file, x, t) == IsEntry(file, x) /\ file[x[1]].name.of = t

EntryLawful(file, e) ==
  /\ file[e].op = ":=" /\ file[e].name.tokens # <<>>
  /\ isWellFormedConcreteBidSequence(file[e].name.tokens)

Done(o, q, a) == {o[p] : p \in {r \in DOMAIN q : r < a}}

CollectState(o) ==
  LET done == Done(o, text, at)
  IN  /\ Lists(source, text, o, Kept(source))
      /\ Listed(source, out, {x \in done : ~ IsEntry(source, x)})
      /\ \A t \in Template : Listed(source, templates[t], {x \in done : EntryOf(source, x, t)})
      /\ \A x \in done : IsEntry(source, x) => EntryLawful(source, x[1])
      /\ \A x, y \in done :
           IsEntry(source, x) /\ IsEntry(source, y)
           /\ source[x[1]].name = source[y[1]].name => x = y

CollectText ==
  phase = "collect" =>
    Expandable(source) /\ referenced = {} /\ frames = <<>> /\ \E o : CollectState(o)

LEMMA DoneAdvances ==
  ASSUME NEW file, NEW T, NEW q \in Seq(T), NEW o, NEW X, Lists(file, q, o, X)
  PROVE  /\ Done(o, q, 1) = {}
         /\ \A a \in DOMAIN q : Done(o, q, a + 1) = Done(o, q, a) \cup {o[a]}
                                /\ o[a] \notin Done(o, q, a)
         /\ \A a \in Nat : a > Len(q) => Done(o, q, a) = X
<1>1. DOMAIN q = 1 .. Len(q) /\ Len(q) \in Nat OBVIOUS
<1>2. Done(o, q, 1) = {} BY <1>1 DEF Done
<1>3. ASSUME NEW a \in DOMAIN q
      PROVE  Done(o, q, a + 1) = Done(o, q, a) \cup {o[a]} /\ o[a] \notin Done(o, q, a)
  <2>1. \A r \in DOMAIN q : r < a + 1 <=> r < a \/ r = a BY <1>1
  <2>2. ~ (a < a) BY <1>1
  <2>3. QED BY <2>1, <2>2 DEF Done, Lists
<1>4. ASSUME NEW a \in Nat, a > Len(q) PROVE Done(o, q, a) = X
  <2>1. \A r \in DOMAIN q : r < a BY <1>1, <1>4
  <2>2. QED BY <2>1 DEF Done, Lists
<1>5. QED BY <1>2, <1>3, <1>4

LEMMA EverythingBefore ==
  ASSUME NEW file \in Seq(Source), NEW a \in Nat, a > Len(file)
  PROVE  Before(file, a, 0) = Kept(file)
<1>1. \A i \in DOMAIN file : i < a OBVIOUS
<1>2. QED BY <1>1, OriginParts DEF Before, Kept

LEMMA ExpandedText ==
  ASSUME IInv, ExpandText, Expanded
  PROVE  phase' = "collect" /\ CollectText'
<1>1. /\ phase = "expand" /\ at > Len(source) /\ fork = 0 /\ at \in Nat /\ source \in Seq(Source)
      /\ phase' = "collect" /\ at' = 1 /\ text' = out /\ out' = <<>>
      /\ UNCHANGED <<source, templates, existingNames, referenced, frames>>
      /\ out \in Seq(Stmt)
  BY DEF Expanded, NextPass, graftVars, IInv, TypeOK
<1>2. \A i \in DOMAIN source : i < at BY <1>1
<1>3. Expandable(source)
  <2>1. \A i \in DOMAIN source : source[i].op # ":?" BY <1>1 DEF IInv, Passes
  <2>2. QED BY <1>1, <1>2, <2>1 DEF ExpandText, Expandable, Checked, NamedAs
<1>4. Listed(source, out, Kept(source)) BY <1>1, EverythingBefore DEF ExpandText
<1>5. PICK o : Lists(source, out, o, Kept(source)) BY <1>4 DEF Listed
<1>6. Done(o, out, 1) = {}
  <2> DEFINE T == Stmt
  <2>1. out \in Seq(T) BY <1>1
  <2> HIDE DEF T
  <2>2. QED BY <1>5, <2>1, DoneAdvances
<1>7. NothingGrafted BY <1>1 DEF ExpandText
<1>8. CollectState(o)'
  <2>1. Done(o, text', at') = {} BY <1>1, <1>6
  <2>2. Listed(source, <<>>, {}) BY ListsNone
  <2>3. \A t \in Template : templates'[t] = <<>> BY <1>1, <1>7 DEF NothingGrafted
  <2>4. /\ {x \in Done(o, text', at') : ~ IsEntry(source, x)} = {}
        /\ \A t \in Template : {x \in Done(o, text', at') : EntryOf(source, x, t)} = {}
    BY <2>1
  <2>5. Listed(source', out', {x \in Done(o, text', at') : ~ IsEntry(source', x)})
    BY <1>1, <2>2, <2>4
  <2>6. \A t \in Template :
          Listed(source', templates'[t], {x \in Done(o, text', at') : EntryOf(source', x, t)})
    BY <1>1, <2>2, <2>3, <2>4
  <2>7. Lists(source', text', o, Kept(source')) BY <1>1, <1>5
  <2>8. QED BY <2>1, <2>5, <2>6, <2>7 DEF CollectState
<1>9. QED BY <1>1, <1>3, <1>7, <1>8 DEF CollectText, NothingGrafted

LEMMA ForkKind ==
  ASSUME NEW file \in Seq(Source), NEW x \in Origins(file)
  PROVE  Fork(file, x).name.kind = file[x[1]].name.kind
<1> DEFINE s == file[x[1]]
<1>1. s \in Source BY OriginParts
<1>2. s.name \in Name BY <1>1 DEF Source
<1>3. \E k, t, q : s.name = [kind |-> k, of |-> t, tokens |-> q] BY <1>2 DEF Name
<1>4. Fork(file, x) = Generated(s, x[2], x[3]) BY DEF Fork
<1> HIDE DEF s
<1>5. Fork(file, x).name.kind = s.name.kind BY <1>3, <1>4 DEF Generated
<1>6. QED BY <1>5 DEF s

(* The statement that is looked at next. *)
LEMMA NextStatement ==
  ASSUME IInv, at <= Len(text), NEW X \in SUBSET Origins(source), NEW o, Lists(source, text, o, X)
  PROVE  /\ at \in DOMAIN text /\ o[at] \in X /\ text[at] = Fork(source, o[at])
         /\ o[at] \notin Done(o, text, at) /\ Done(o, text, at) \subseteq X
         /\ Done(o, text, at + 1) = Done(o, text, at) \cup {o[at]}
         /\ text[at].name.kind = source[o[at][1]].name.kind
         /\ text[at] \in Stmt /\ o[at][1] \in DOMAIN source
<1>1. at \in DOMAIN text /\ text[at] \in Stmt BY AtStatement DEF IInv
<1> DEFINE T == Stmt
<1>2. text \in Seq(T) /\ source \in Seq(Source) BY DEF IInv, TypeOK
<1> HIDE DEF T
<1>3. /\ o[at] \notin Done(o, text, at)
      /\ Done(o, text, at + 1) = Done(o, text, at) \cup {o[at]}
  <2>1. \A a \in DOMAIN text : Done(o, text, a + 1) = Done(o, text, a) \cup {o[a]}
                               /\ o[a] \notin Done(o, text, a)
    BY <1>2, DoneAdvances
  <2>2. QED BY <1>1, <2>1
<1>4. o[at] \in X /\ text[at] = Fork(source, o[at]) /\ Done(o, text, at) \subseteq X
  BY <1>1 DEF Lists, Done
<1>5. QED BY <1>1, <1>2, <1>3, <1>4, ForkKind, OriginParts

LEMMA ListsOneMore ==
  ASSUME NEW file, NEW q \in Seq(Stmt), NEW X, NEW x, x \notin X, Fork(file, x) \in Stmt,
         Listed(file, q, X)
  PROVE  Listed(file, Append(q, Fork(file, x)), X \cup {x})
<1> DEFINE T == Stmt
<1>1. q \in Seq(T) /\ Fork(file, x) \in T OBVIOUS
<1> HIDE DEF T
<1>2. QED BY <1>1, ListsMore

LEMMA CollectOtherText ==
  ASSUME IInv, CollectText, CollectOther
  PROVE  phase' = "collect" /\ CollectText'
<1>1. /\ phase = "collect" /\ at <= Len(text) /\ text[at].name.kind # "entry"
      /\ out' = Append(out, text[at]) /\ at' = at + 1
      /\ UNCHANGED <<source, phase, text, templates, referenced, frames>>
      /\ out \in Seq(Stmt)
  BY DEF CollectOther, graftVars, IInv, TypeOK
<1>2. PICK o : CollectState(o) BY <1>1 DEF CollectText
<1> DEFINE done == Done(o, text, at)  x == o[at]
<1>3. Lists(source, text, o, Kept(source)) BY <1>2 DEF CollectState
<1>4. Kept(source) \subseteq Origins(source) BY DEF Kept
<1>5. /\ x \notin done /\ text[at] = Fork(source, x) /\ Fork(source, x) \in Stmt
      /\ Done(o, text, at + 1) = done \cup {x} /\ ~ IsEntry(source, x)
  BY <1>1, <1>3, <1>4, NextStatement DEF IsEntry
<1>6. Done(o, text', at') = done \cup {x} BY <1>1, <1>5
<1> HIDE DEF x, done
<1>7. CollectState(o)'
  <2>1. Listed(source', out', {y \in done \cup {x} : ~ IsEntry(source', y)})
    <3> DEFINE X == {y \in done : ~ IsEntry(source, y)}
    <3>1. Listed(source, out, X) BY <1>2 DEF CollectState, done
    <3>2. {y \in done \cup {x} : ~ IsEntry(source, y)} = X \cup {x} BY <1>5
    <3>3. x \notin X BY <1>5
    <3> HIDE DEF X
    <3>4. Listed(source, Append(out, Fork(source, x)), X \cup {x})
      BY <1>1, <1>5, <3>1, <3>3, ListsOneMore
    <3>5. QED BY <1>1, <1>5, <3>2, <3>4
  <2>2. \A t \in Template :
          Listed(source', templates'[t], {y \in done \cup {x} : EntryOf(source', y, t)})
    <3> TAKE t \in Template
    <3>1. {y \in done \cup {x} : EntryOf(source, y, t)} = {y \in done : EntryOf(source, y, t)}
      BY <1>5 DEF EntryOf
    <3>2. QED BY <1>1, <1>2, <3>1 DEF CollectState, done
  <2>3. \A y \in done \cup {x} : IsEntry(source', y) => EntryLawful(source', y[1])
    BY <1>1, <1>2, <1>5 DEF CollectState, done
  <2>4. \A y, z \in done \cup {x} :
          IsEntry(source', y) /\ IsEntry(source', z)
          /\ source'[y[1]].name = source'[z[1]].name => y = z
    BY <1>1, <1>2, <1>5 DEF CollectState, done
  <2>5. Lists(source', text', o, Kept(source')) BY <1>1, <1>3
  <2>6. QED BY <1>6, <2>1, <2>2, <2>3, <2>4, <2>5 DEF CollectState
<1>8. Expandable(source') /\ referenced' = {} /\ frames' = <<>> BY <1>1 DEF CollectText
<1>9. QED BY <1>1, <1>7, <1>8 DEF CollectText

LEMMA StatementName ==
  ASSUME NEW file \in Seq(Source), NEW e \in DOMAIN file
  PROVE  /\ file[e] \in Source /\ file[e].name \in Name
         /\ \E k, f, q : file[e].name = [kind |-> k, of |-> f, tokens |-> q]
<1> DEFINE T == Source
<1>1. file \in Seq(T) OBVIOUS
<1> HIDE DEF T
<1>2. file[e] \in T BY <1>1
<1>3. file[e] \in Source /\ file[e].name \in Name BY <1>2 DEF T, Source
<1>4. \E k, f, q : file[e].name = [kind |-> k, of |-> f, tokens |-> q] BY <1>3 DEF Name
<1>5. QED BY <1>3, <1>4

LEMMA CollectEntryText ==
  ASSUME IInv, CollectText, CollectEntry
  PROVE  /\ phase' \in {"collect", "fatal"} /\ (phase' = "fatal" => Mistaken') /\ CollectText'
<1> DEFINE s == text[at]  t == s.name.of
<1>1. /\ phase = "collect" /\ at <= Len(text) /\ s.name.kind = "entry"
      /\ source \in Seq(Source) /\ templates \in [Template -> Seq(Stmt)]
  BY DEF CollectEntry, IInv, TypeOK
<1>2. PICK o : CollectState(o) BY <1>1 DEF CollectText
<1> DEFINE done == Done(o, text, at)  x == o[at]
<1>3. Lists(source, text, o, Kept(source)) BY <1>2 DEF CollectState
<1>4. Kept(source) \subseteq Origins(source) BY DEF Kept
<1>5. /\ x \notin done /\ s = Fork(source, x) /\ Fork(source, x) \in Stmt
      /\ Done(o, text, at + 1) = done \cup {x} /\ IsEntry(source, x)
      /\ x \in Kept(source) /\ done \subseteq Kept(source) /\ x[1] \in DOMAIN source
  BY <1>1, <1>3, <1>4, NextStatement DEF IsEntry
<1>6. s.name = source[x[1]].name /\ s.op = source[x[1]].op /\ x = EntryAt(x[1])
  BY <1>1, <1>4, <1>5, EntryFork
<1>7. t \in Template
  <2>1. source[x[1]].name \in Name BY <1>1, <1>5, StatementName
  <2>2. QED BY <1>1, <1>6, <2>1 DEF Name
<1> DEFINE had == {y \in done : EntryOf(source, y, t)}
<1>8. PICK u : Lists(source, templates[t], u, had) BY <1>2, <1>7 DEF CollectState, Listed
<1>9. \A i \in DOMAIN templates[t] :
        /\ u[i] \in had /\ templates[t][i].name = source[u[i][1]].name
        /\ source[u[i][1]].name.kind = "entry" /\ source[u[i][1]].name.of = t
  <2> TAKE i \in DOMAIN templates[t]
  <2>1. u[i] \in had /\ templates[t][i] = Fork(source, u[i]) BY <1>8 DEF Lists
  <2>2. u[i] \in Origins(source) /\ IsEntry(source, u[i]) /\ source[u[i][1]].name.of = t
    BY <1>4, <1>5, <2>1 DEF EntryOf
  <2>3. QED BY <1>1, <2>1, <2>2, EntryFork DEF IsEntry
<1>10. \A y \in had : \E i \in DOMAIN templates[t] : u[i] = y BY <1>8 DEF Lists
<1> DEFINE clash == \E i \in DOMAIN templates[t] : templates[t][i].name.tokens = s.name.tokens
           wrong == \/ s.op # ":=" \/ s.name.tokens = <<>>
                    \/ ~ isWellFormedConcreteBidSequence(s.name.tokens)
<1>11. CASE wrong \/ clash
  <2>1. ASSUME wrong PROVE Mistaken
    <3>1. source[x[1]].name.kind = "entry" BY <1>1, <1>6
    <3>3. s.op \in {":=", ":&", ":|"} BY <1>5 DEF Stmt
    <3> HIDE DEF x, s
    <3>2. QED BY <1>5, <1>6, <2>1, <3>1, <3>3 DEF Mistaken, FileIsLawful, NamesAreLawful
  <2>2. ASSUME clash PROVE Mistaken
    <3>1. PICK i \in DOMAIN templates[t] : templates[t][i].name.tokens = s.name.tokens
      BY <2>2
    <3> DEFINE y == u[i]
    <3>2. y \in had /\ templates[t][i].name = source[y[1]].name
          /\ source[y[1]].name.kind = "entry" /\ source[y[1]].name.of = t
      BY <1>9
    <3>3. y \in Origins(source) /\ IsEntry(source, y) /\ y # x BY <1>4, <1>5, <3>2 DEF EntryOf
    <3>4. y = EntryAt(y[1]) /\ y[1] \in DOMAIN source BY <1>1, <3>3, EntryFork, OriginParts
    <3>5. y[1] # x[1] BY <1>6, <3>3, <3>4
    <3>7. source[y[1]].name.tokens = source[x[1]].name.tokens BY <1>6, <3>1, <3>2
    <3>8. source[y[1]].name = source[x[1]].name
      <4> DEFINE a == source[y[1]].name  b == source[x[1]].name
      <4>1. a.kind = b.kind /\ a.of = b.of /\ a.tokens = b.tokens BY <1>1, <1>6, <3>2, <3>7
      <4>2. /\ \E k, f, q : a = [kind |-> k, of |-> f, tokens |-> q]
            /\ \E k, f, q : b = [kind |-> k, of |-> f, tokens |-> q]
        BY <1>1, <1>5, <3>4, StatementName
      <4> HIDE DEF a, b
      <4>3. a = b BY <4>1, <4>2
      <4>4. QED BY <4>3 DEF a, b
    <3>9. source[x[1]].name.kind = "entry" BY <1>1, <1>6
    <3> HIDE DEF x, y, s
    <3>10. QED BY <1>5, <3>4, <3>5, <3>8, <3>9 DEF Mistaken, FileIsLawful, NamesAreLawful
  <2>3. Mistaken BY <1>11, <2>1, <2>2
  <2>4. phase' = "fatal" /\ UNCHANGED <<source, out>> BY <1>11 DEF CollectEntry, Fatal
  <2>5. QED BY <2>3, <2>4, MistakeStands DEF CollectText
<1>12. CASE ~ (wrong \/ clash)
  <2>1. /\ templates' = [templates EXCEPT ![t] = Append(templates[t], s)] /\ at' = at + 1
        /\ UNCHANGED <<source, fork, phase, text, out, existingNames, referenced, frames>>
    BY <1>12 DEF CollectEntry
  <2>2. Done(o, text', at') = done \cup {x} BY <1>5, <2>1
  <2>3. Listed(source', out', {y \in done \cup {x} : ~ IsEntry(source', y)})
    <3>1. {y \in done \cup {x} : ~ IsEntry(source, y)} = {y \in done : ~ IsEntry(source, y)}
      BY <1>5
    <3>2. QED BY <1>2, <2>1, <3>1 DEF CollectState
  <2>4. \A v \in Template :
          Listed(source', templates'[v], {y \in done \cup {x} : EntryOf(source', y, v)})
    <3> TAKE v \in Template
    <3>1. CASE v = t
      <4>1. {y \in done \cup {x} : EntryOf(source, y, t)} = had \cup {x}
        BY <1>5, <1>6 DEF EntryOf
      <4>2. x \notin had BY <1>5
      <4>3. templates'[t] = Append(templates[t], s) BY <1>1, <1>7, <2>1
      <4>4. templates[t] \in Seq(Stmt) /\ Listed(source, templates[t], had)
        BY <1>1, <1>7, <1>8 DEF Listed
      <4> HIDE DEF had
      <4>5. Listed(source, Append(templates[t], Fork(source, x)), had \cup {x})
        BY <1>5, <4>2, <4>4, ListsOneMore
      <4>6. QED BY <1>5, <2>1, <3>1, <4>1, <4>3, <4>5
    <3>2. CASE v # t
      <4>1. {y \in done \cup {x} : EntryOf(source, y, v)} = {y \in done : EntryOf(source, y, v)}
        BY <1>6, <3>2 DEF EntryOf
      <4>2. templates'[v] = templates[v] BY <1>1, <2>1, <3>2
      <4>3. QED BY <1>2, <2>1, <4>1, <4>2 DEF CollectState
    <3>3. QED BY <3>1, <3>2
  <2>5. \A y \in done \cup {x} : IsEntry(source', y) => EntryLawful(source', y[1])
    <3>1. EntryLawful(source, x[1]) BY <1>6, <1>12 DEF EntryLawful
    <3>2. QED BY <1>2, <2>1, <3>1 DEF CollectState
  <2>6. \A y, z \in done \cup {x} :
          IsEntry(source', y) /\ IsEntry(source', z)
          /\ source'[y[1]].name = source'[z[1]].name => y = z
    <3>1. ASSUME NEW y \in done, IsEntry(source, y), source[y[1]].name = source[x[1]].name
          PROVE  FALSE
      <4>1. y \in had BY <1>6, <3>1 DEF EntryOf
      <4>2. PICK i \in DOMAIN templates[t] : u[i] = y BY <1>10, <4>1
      <4>3. templates[t][i].name = s.name BY <1>6, <1>9, <3>1, <4>2
      <4>4. QED BY <1>12, <4>3
    <3>2. \A y, z \in done :
            IsEntry(source, y) /\ IsEntry(source, z)
            /\ source[y[1]].name = source[z[1]].name => y = z
      BY <1>2 DEF CollectState
    <3> HIDE DEF x, done, s
    <3>3. QED BY <2>1, <3>1, <3>2
  <2>7. Lists(source', text', o, Kept(source')) BY <1>3, <2>1
  <2>8. CollectState(o)' BY <2>2, <2>3, <2>4, <2>5, <2>6, <2>7 DEF CollectState
  <2>9. Expandable(source') /\ referenced' = {} /\ frames' = <<>>
    BY <1>1, <2>1 DEF CollectText
  <2>10. QED BY <1>1, <2>1, <2>8, <2>9 DEF CollectText
<1>13. QED BY <1>11, <1>12
-----------------------------------------------------------------------------
(* A definition is known by the statements that lead to it and its name,   *)
(* and an entry under it tells the definition it is under.                 *)
LEMMA CancelRight ==
  ASSUME NEW T, NEW a \in Seq(T), NEW b \in Seq(T), NEW c \in Seq(T), a \o c = b \o c
  PROVE  a = b
<1>1. Len(a \o c) = Len(a) + Len(c) /\ Len(b \o c) = Len(b) + Len(c) OBVIOUS
<1>2. Len(a) = Len(b) BY <1>1
<1>3. \A i \in 1 .. Len(a) : (a \o c)[i] = a[i] /\ (b \o c)[i] = b[i] BY <1>2
<1>4. \A i \in 1 .. Len(a) : a[i] = b[i] BY <1>3
<1>5. QED BY <1>2, <1>4

LEMMA JoinedHas ==
  ASSUME NEW p \in Seq(Token), NEW q \in Seq(Token), NEW words
  PROVE  Has(p \o q, words) <=> Has(p, words) \/ Has(q, words)
<1> DEFINE T == Token  pq == p \o q
<1>1. p \in Seq(T) /\ q \in Seq(T) OBVIOUS
<1> HIDE DEF T
<1>2. /\ DOMAIN p = 1 .. Len(p) /\ DOMAIN q = 1 .. Len(q) /\ DOMAIN pq = 1 .. (Len(p) + Len(q))
      /\ Len(p) \in Nat /\ Len(q) \in Nat
  BY <1>1
<1>3. \A i \in DOMAIN p : i \in DOMAIN pq /\ pq[i] = p[i] BY <1>1, <1>2
<1>4. \A i \in DOMAIN q : Len(p) + i \in DOMAIN pq /\ pq[Len(p) + i] = q[i] BY <1>1, <1>2
<1>5. ASSUME NEW i \in DOMAIN pq PROVE i \in DOMAIN p \/ i - Len(p) \in DOMAIN q BY <1>2
<1>6. \A i \in DOMAIN pq : i - Len(p) \in DOMAIN q => pq[i] = q[i - Len(p)]
  <2>1. \A i \in DOMAIN pq : Len(p) + (i - Len(p)) = i BY <1>2
  <2>2. QED BY <1>4, <2>1
<1> HIDE DEF pq
<1>7. Has(pq, words) <=> Has(p, words) \/ Has(q, words)
  BY <1>3, <1>4, <1>5, <1>6 DEF Has
<1>8. QED BY <1>7 DEF pq

LEMMA AllShape ==
  ASSUME NEW file \in Seq(Source), Expandable(file), NEW d \in All(file)
  PROVE  /\ d.via \in Seq(DOMAIN file) /\ Len(d.via) >= 1
         /\ Len(d.via) = 1 <=> d \in Typed(file)
         /\ Len(d.via) # 1 => d = [via |-> d.via, major |-> "-", minor |-> "-", name |-> d.name]
         /\ d.name.tokens \in Seq(Token)
         /\ \E k, f, q : d.name = [kind |-> k, of |-> f, tokens |-> q]
<1> DEFINE Named(c) == /\ c.name.tokens \in Seq(Token)
                       /\ \E k, f, q : c.name = [kind |-> k, of |-> f, tokens |-> q]
           S == {c \in All(file) : Named(c)}
<1>1. Typed(file) \subseteq S
  <2> SUFFICES ASSUME NEW c \in Typed(file) PROVE c \in S OBVIOUS
  <2>1. PICK x \in KeptTyped(file) : c = DefOf(file, x) BY TypedIs
  <2>2. x \in Origins(file) /\ ~ IsEntry(file, x) BY DEF KeptTyped, Kept
  <2>3. x[1] \in DOMAIN file BY <2>2, OriginParts
  <2>4. \E k, f, q : file[x[1]].name = [kind |-> k, of |-> f, tokens |-> q]
    BY <2>3, StatementName
  <2>5. \E k, f, q : c.name = [kind |-> k, of |-> f, tokens |-> q]
    BY <2>1, <2>4 DEF DefOf, Choosing
  <2>6. c.name = Fork(file, x).name BY <2>1, <2>2, ForkName
  <2>7. Fork(file, x).name \in Name
    <3>1. file[x[1]] \in Source BY <2>3, StatementName
    <3>2. file[x[1]].op # ":?" /\ ~ NamesBoth(file[x[1]]) BY <2>3 DEF Expandable
    <3>3. PICK k \in 1 .. Forks(file[x[1]]) :
            x[2] = MajorOf(file[x[1]], k) /\ x[3] = MinorOf(file[x[1]], k)
      BY <2>2, ForkCounted
    <3>4. Fork(file, x) \in Stmt BY <3>1, <3>2, <3>3, ForkIsStatement DEF Fork
    <3>5. QED BY <3>4 DEF Stmt
  <2>8. c.name.tokens \in Seq(Token) BY <2>6, <2>7, NamesHoldTokens
  <2>9. c \in All(file) BY AllHolds
  <2>10. QED BY <2>5, <2>8, <2>9
<1>2. ASSUME NEW b \in S \cap All(file) PROVE EntriesUnder(file, b) \subseteq S
  <2> SUFFICES ASSUME NEW c \in EntriesUnder(file, b) PROVE c \in S OBVIOUS
  <2>1. PICK e \in Entries(file, Attaches(file, b)) : c = Under(file, b, e) BY DEF EntriesUnder
  <2>2. e \in DOMAIN file BY DEF Entries
  <2>3. file[e].name.tokens \in Seq(Token) BY <2>2, StatementName, NamesHoldTokens
  <2>4. b.name.tokens \in Seq(Token) /\ \E k, f, q : b.name = [kind |-> k, of |-> f, tokens |-> q]
    BY <1>2
  <2>5. c.name = [b.name EXCEPT !.tokens = b.name.tokens \o file[e].name.tokens]
    BY <2>1 DEF Under
  <2>6. b.name.tokens \o file[e].name.tokens \in Seq(Token)
    <3> DEFINE T == Token
    <3>1. b.name.tokens \in Seq(T) /\ file[e].name.tokens \in Seq(T) BY <2>3, <2>4
    <3> HIDE DEF T
    <3>2. b.name.tokens \o file[e].name.tokens \in Seq(T) BY <3>1
    <3>3. QED BY <3>2 DEF T
  <2>7. Named(c) BY <2>4, <2>5, <2>6
  <2>8. c \in All(file) BY AllHolds
  <2>9. QED BY <2>7, <2>8
<1> HIDE DEF S
<1>3. d \in S BY <1>1, <1>2, AllInduction
<1>4. PICK k \in Nat : d \in Level(file, k) BY DEF All
<1>5. d.via \in Seq(DOMAIN file) /\ Len(d.via) = k + 1 BY <1>4, ViaTells
<1>6. k = 0 => d \in Typed(file) BY <1>4, LevelRule
<1>7. d \in Typed(file) => Len(d.via) = 1
  <2>1. d \in Typed(file) => d \in Level(file, 0) BY LevelRule
  <2>2. d \in Level(file, 0) => Len(d.via) = 0 + 1 BY ViaTells
  <2>3. QED BY <2>1, <2>2
<1>8. ASSUME k # 0
      PROVE  d = [via |-> d.via, major |-> "-", minor |-> "-", name |-> d.name]
  <2>1. k - 1 \in Nat /\ (k - 1) + 1 = k BY <1>8
  <2>2. Level(file, k) = Below(file, Level(file, k - 1)) BY <2>1, LevelRule
  <2>3. PICK b \in Level(file, k - 1) : d \in EntriesUnder(file, b) BY <1>4, <2>2 DEF Below
  <2>4. PICK e \in Entries(file, Attaches(file, b)) : d = Under(file, b, e)
    BY <2>3 DEF EntriesUnder
  <2>5. QED BY <2>4 DEF Under
<1>9. Named(d) BY <1>3 DEF S
<1> HIDE DEF Named
<1>10. Len(d.via) >= 1 /\ (Len(d.via) = 1 <=> k = 0) BY <1>5
<1>11. Len(d.via) = 1 <=> d \in Typed(file) BY <1>6, <1>7, <1>10
<1>12. Len(d.via) # 1 => d = [via |-> d.via, major |-> "-", minor |-> "-", name |-> d.name]
  BY <1>8, <1>10
<1>13. d.name.tokens \in Seq(Token) /\ \E h, f, q : d.name = [kind |-> h, of |-> f, tokens |-> q]
  BY <1>9, Zenon DEF Named
<1>14. QED BY <1>5, <1>10, <1>11, <1>12, <1>13

(* The suits a name chooses, and what is left to the body. *)
LEMMA AllChoices ==
  ASSUME NEW file \in Seq(Source), Expandable(file), NEW d \in All(file)
  PROVE  /\ d.major \in {"S", "H", "-"} /\ d.minor \in {"D", "C", "-"}
         /\ d.major = "-" <=> ~ NameHas(Stat(file, d), Major)
         /\ d.minor = "-" <=> ~ NameHas(Stat(file, d), Minor)
<1> DEFINE Right(c) ==
             /\ c.major \in {"S", "H", "-"} /\ c.minor \in {"D", "C", "-"}
             /\ c.major = "-" <=> ~ NameHas(Stat(file, c), Major)
             /\ c.minor = "-" <=> ~ NameHas(Stat(file, c), Minor)
           S == {c \in All(file) : Right(c)}
<1>1. ASSUME NEW c \in Typed(file) PROVE c \in S
  <2>1. PICK x \in KeptTyped(file) : c = DefOf(file, x) BY TypedIs
  <2>2. x \in Origins(file) BY DEF KeptTyped, Kept
  <2>3. Stat(file, c) = file[x[1]] /\ c.major = x[2] /\ c.minor = x[3]
    BY <2>1 DEF DefOf, Choosing, Stat
  <2>4. Right(c) BY <2>2, <2>3, OriginParts DEF Majors, Minors
  <2>5. QED BY <2>4, AllHolds
<1>2. ASSUME NEW b \in S \cap All(file) PROVE EntriesUnder(file, b) \subseteq S
  <2> SUFFICES ASSUME NEW c \in EntriesUnder(file, b) PROVE c \in S OBVIOUS
  <2>1. PICK e \in Entries(file, Attaches(file, b)) : c = Under(file, b, e) BY DEF EntriesUnder
  <2>2. e \in DOMAIN file /\ file[e].name.kind = "entry" BY DEF Entries
  <2>3. Stat(file, c) = file[e] BY <2>1, <2>2, AllShape, StatUnder
  <2>4. c.major = "-" /\ c.minor = "-" BY <2>1 DEF Under
  <2>5. Right(c) BY <2>2, <2>3, <2>4 DEF NameHas
  <2>6. c \in All(file) BY AllHolds
  <2>7. QED BY <2>5, <2>6
<1> HIDE DEF S
<1>3. d \in S BY <1>1, <1>2, AllInduction
<1>4. QED BY <1>3 DEF S

(* Two forks of a statement have different names. *)
LEMMA ForkNamesDiffer ==
  ASSUME NEW file \in Seq(Source), Expandable(file),
         NEW x \in KeptTyped(file), NEW y \in KeptTyped(file),
         x[1] = y[1], DefOf(file, x).name = DefOf(file, y).name
  PROVE  x = y
<1> DEFINE s == file[x[1]]  tokens == s.name.tokens
<1>1. /\ x \in Origins(file) /\ y \in Origins(file)
      /\ ~ IsEntry(file, x) /\ ~ IsEntry(file, y)
  BY DEF KeptTyped, Kept
<1>2. Fork(file, x).name = Fork(file, y).name BY <1>1, ForkName
<1>3. x[1] \in DOMAIN file BY <1>1, OriginParts
<1>4. \E k, f, q : s.name = [kind |-> k, of |-> f, tokens |-> q] BY <1>3, StatementName
<1>5. ASSUME s.name.kind = "bid"
      PROVE  substituteNameTokens(tokens, x[2], x[3]) = substituteNameTokens(tokens, y[2], y[3])
  <2>1. /\ Fork(file, x).name = [s.name EXCEPT !.tokens = substituteNameTokens(tokens, x[2], x[3])]
        /\ Fork(file, y).name = [s.name EXCEPT !.tokens = substituteNameTokens(tokens, y[2], y[3])]
    BY <1>5 DEF Fork, Generated
  <2> HIDE DEF s
  <2>2. /\ Fork(file, x).name.tokens = substituteNameTokens(tokens, x[2], x[3])
        /\ Fork(file, y).name.tokens = substituteNameTokens(tokens, y[2], y[3])
    BY <1>4, <2>1
  <2>3. QED BY <1>2, <2>2
<1>6. ASSUME s.name.kind = "bid", NEW i \in DOMAIN tokens
      PROVE  Chosen(tokens[i].strain, x[2], x[3]) = Chosen(tokens[i].strain, y[2], y[3])
  <2>1. \A j, n : substituteNameTokens(tokens, j, n)[i]
                  = [tokens[i] EXCEPT !.strain = Chosen(tokens[i].strain, j, n)]
    BY <1>6 DEF substituteNameTokens
  <2>2. tokens[i] \in Token
    <3>1. tokens \in Seq(Token) BY <1>3, StatementName, NamesHoldTokens
    <3>2. QED BY <1>6, <3>1
  <2>3. \A w : [tokens[i] EXCEPT !.strain = w].strain = w BY <2>2 DEF Token
  <2>4. substituteNameTokens(tokens, x[2], x[3])[i] = substituteNameTokens(tokens, y[2], y[3])[i]
    BY <1>5, <1>6
  <2> DEFINE v == Chosen(tokens[i].strain, x[2], x[3])  w == Chosen(tokens[i].strain, y[2], y[3])
  <2>5. [tokens[i] EXCEPT !.strain = v] = [tokens[i] EXCEPT !.strain = w] BY <2>1, <2>4
  <2> HIDE DEF v, w
  <2>6. v = w
    <3>1. [tokens[i] EXCEPT !.strain = v].strain = v /\ [tokens[i] EXCEPT !.strain = w].strain = w
      BY <2>3
    <3>2. QED BY <2>5, <3>1
  <2>7. QED BY <2>6 DEF v, w
<1>7. x[2] = y[2]
  <2>1. CASE NameHas(s, Major)
    <3>1. PICK i \in DOMAIN tokens : tokens[i].strain \in Major BY <2>1 DEF NameHas, Has
    <3>2. x[2] \in Majors /\ y[2] \in Majors BY <1>1, <2>1, OriginParts
    <3>3. Chosen(tokens[i].strain, x[2], x[3]) = Chosen(tokens[i].strain, y[2], y[3])
      BY <1>6, <2>1, <3>1 DEF NameHas
    <3> HIDE DEF tokens, s
    <3>4. QED BY <3>1, <3>2, <3>3 DEF Chosen, complementSuit, Majors
  <2>2. CASE ~ NameHas(s, Major) BY <1>1, <2>2, OriginParts
  <2>3. QED BY <2>1, <2>2
<1>8. x[3] = y[3]
  <2>1. CASE NameHas(s, Minor)
    <3>1. PICK i \in DOMAIN tokens : tokens[i].strain \in Minor BY <2>1 DEF NameHas, Has
    <3>2. x[3] \in Minors /\ y[3] \in Minors BY <1>1, <2>1, OriginParts
    <3>3. Chosen(tokens[i].strain, x[2], x[3]) = Chosen(tokens[i].strain, y[2], y[3])
      BY <1>6, <2>1, <3>1 DEF NameHas
    <3> HIDE DEF tokens, s
    <3>4. QED BY <3>1, <3>2, <3>3 DEF Chosen, complementSuit, Minors
  <2>2. CASE ~ NameHas(s, Minor) BY <1>1, <2>2, OriginParts
  <2>3. QED BY <2>1, <2>2
<1>9. QED BY <1>1, <1>7, <1>8, OriginParts

LEMMA KnownByVia ==
  ASSUME NEW file \in Seq(Source), Expandable(file), NEW b \in All(file), NEW d \in All(file),
         b.via = d.via, b.name = d.name
  PROVE  b = d
<1>1. CASE Len(b.via) = 1
  <2>1. b \in Typed(file) /\ d \in Typed(file) BY <1>1, AllShape
  <2>2. PICK x \in KeptTyped(file) : b = DefOf(file, x) BY <2>1, TypedIs
  <2>3. PICK y \in KeptTyped(file) : d = DefOf(file, y) BY <2>1, TypedIs
  <2>4. <<x[1]>> = <<y[1]>> BY <2>2, <2>3 DEF DefOf, Choosing
  <2>5. <<x[1]>>[1] = <<y[1]>>[1] BY <2>4
  <2>6. x[1] = y[1] BY <2>5
  <2>7. x = y BY <2>2, <2>3, <2>6, ForkNamesDiffer
  <2>8. QED BY <2>2, <2>3, <2>7
<1>2. CASE Len(b.via) # 1 BY <1>2, AllShape
<1>3. QED BY <1>1, <1>2

LEMMA KnownByEntry ==
  ASSUME NEW file \in Seq(Source), Expandable(file), NEW b \in All(file), NEW d \in All(file),
         NEW e \in DOMAIN file, NEW f \in DOMAIN file, Under(file, b, e) = Under(file, d, f)
  PROVE  b = d /\ e = f
<1>1. b.via \in Seq(DOMAIN file) /\ d.via \in Seq(DOMAIN file) BY AllShape
<1>2. Append(b.via, e) = Append(d.via, f) BY DEF Under
<1>3. b.via = d.via /\ e = f
  <2> DEFINE T == DOMAIN file  p == b.via  q == d.via
  <2>1. p \in Seq(T) /\ q \in Seq(T) /\ e \in T /\ f \in T BY <1>1
  <2>2. Append(p, e) = Append(q, f) BY <1>2
  <2> HIDE DEF T, p, q
  <2>3. Len(p) = Len(q) /\ Append(p, e)[Len(p) + 1] = e /\ Append(q, f)[Len(q) + 1] = f
    <3>1. Len(Append(p, e)) = Len(p) + 1 /\ Len(Append(q, f)) = Len(q) + 1 BY <2>1
    <3>2. QED BY <2>1, <2>2, <3>1
  <2>4. \A i \in 1 .. Len(p) : p[i] = q[i]
    <3>1. \A i \in 1 .. Len(p) : Append(p, e)[i] = p[i] /\ Append(q, f)[i] = q[i] BY <2>1, <2>3
    <3>2. QED BY <2>2, <3>1
  <2>5. p = q BY <2>1, <2>3, <2>4
  <2>6. e = f BY <2>2, <2>3
  <2>7. QED BY <2>5, <2>6 DEF p, q
<1> DEFINE more == file[e].name.tokens
<1>4. b.name = d.name
  <2>1. /\ b.name.tokens \in Seq(Token) /\ d.name.tokens \in Seq(Token)
        /\ \E k, t, q : b.name = [kind |-> k, of |-> t, tokens |-> q]
        /\ \E k, t, q : d.name = [kind |-> k, of |-> t, tokens |-> q]
    BY AllShape
  <2>2. more \in Seq(Token) BY StatementName, NamesHoldTokens
  <2>3. [b.name EXCEPT !.tokens = b.name.tokens \o more]
        = [d.name EXCEPT !.tokens = d.name.tokens \o more]
    BY <1>3 DEF Under
  <2> DEFINE x == b.name.tokens \o more  y == d.name.tokens \o more
  <2>4. [b.name EXCEPT !.tokens = x] = [d.name EXCEPT !.tokens = y] BY <2>3
  <2> HIDE DEF x, y, more
  <2>5. b.name.kind = d.name.kind /\ b.name.of = d.name.of /\ x = y BY <2>1, <2>4
  <2>6. b.name.tokens = d.name.tokens
    <3> DEFINE T == Token
    <3>1. b.name.tokens \in Seq(T) /\ d.name.tokens \in Seq(T) /\ more \in Seq(T)
      BY <2>1, <2>2
    <3>2. b.name.tokens \o more = d.name.tokens \o more BY <2>5 DEF x, y
    <3> HIDE DEF T
    <3>3. QED BY <3>1, <3>2, CancelRight
  <2>7. QED BY <2>1, <2>5, <2>6
<1>5. QED BY <1>3, <1>4, KnownByVia
-----------------------------------------------------------------------------
(* The grafting: P are the definitions written so far, D those whose       *)
(* templates are being copied, o and E where the typed statements and the  *)
(* templates' entries come from.                                           *)
EntriesLawful(file) ==
  \A e \in DOMAIN file : file[e].name.kind = "entry" =>
    EntryLawful(file, e) /\ \A k \in DOMAIN file : file[k].name = file[e].name => k = e

GraftLists(o, E) ==
  /\ Lists(source, text, o, KeptTyped(source))
  /\ \A t \in Template :
       Lists(source, templates[t], E[t], {EntryAt(e) : e \in Entries(source, t)})

(* The typed ones before the statement at hand are written, and no entry   *)
(* before what it is under.                                                *)
Came(o, P) ==
  /\ P \subseteq All(source)
  /\ \A d \in P : Len(d.via) <= Len(out)
  /\ \A p \in DOMAIN text : DefOf(source, o[p]) \in P <=> p < at
  /\ \A d \in All(source) : \A c \in EntriesUnder(source, d) : c \in P => d \in P

WrittenAre(P) ==
  /\ {out[p] : p \in DOMAIN out} = {Written(source, d) : d \in P}
  /\ existingNames = {d.name : d \in P \cup Typed(source)}
  /\ referenced = {Attaches(source, d) : d \in P} \ {NoTemplate}

Stacked(P, D) ==
  \A j \in 1 .. Len(frames) :
    /\ D[j] \in P /\ Len(D[j].via) = j
    /\ frames[j].name = D[j].name /\ frames[j].template = Attaches(source, D[j])

(* What is under a definition is written, except for what its frame has    *)
(* not come to.                                                            *)
Waiting(D, d, i) == \E j \in 1 .. Len(frames) : D[j] = d /\ frames[j].next <= i

Pending(E, P, D) ==
  \A d \in P : \A t \in Template : t = Attaches(source, d) =>
    \A i \in DOMAIN templates[t] :
      Under(source, d, E[t][i][1]) \in P <=> ~ Waiting(D, d, i)

GraftedLawfully(file, P) ==
  /\ \A c \in P \cup Typed(file), d \in P : Copied(d) /\ c.name = d.name => c = d
  /\ \A d \in P : Attaches(file, d) # NoTemplate => Entries(file, Attaches(file, d)) # {}
  /\ \A d \in P : /\ isLegalBidSequence(d.name.tokens)
                  /\ Copied(d) => d.name.kind = "bid"

GraftState(o, E, P, D) ==
  /\ Came(o, P) /\ WrittenAre(P) /\ Stacked(P, D) /\ Pending(E, P, D)
  /\ GraftedLawfully(source, P)

GraftText ==
  phase = "graft" =>
    /\ Expandable(source) /\ EntriesLawful(source)
    /\ \E o, E, P, D : GraftLists(o, E) /\ GraftState(o, E, P, D)

LEMMA EntriesOf ==
  ASSUME NEW file \in Seq(Source), NEW t
  PROVE  {x \in Kept(file) : EntryOf(file, x, t)} = {EntryAt(e) : e \in Entries(file, t)}
<1>1. ASSUME NEW x \in Kept(file), EntryOf(file, x, t)
      PROVE  \E e \in Entries(file, t) : x = EntryAt(e)
  <2>1. x \in Origins(file) /\ IsEntry(file, x) /\ file[x[1]].name.of = t
    BY <1>1 DEF Kept, EntryOf
  <2>2. x[1] \in DOMAIN file /\ x = EntryAt(x[1]) BY <2>1, OriginParts, EntryFork
  <2>3. QED BY <2>1, <2>2 DEF Entries, IsEntry
<1>2. ASSUME NEW e \in Entries(file, t)
      PROVE  EntryAt(e) \in Kept(file) /\ EntryOf(file, EntryAt(e), t)
  <2>1. e \in DOMAIN file /\ file[e].name.kind = "entry" /\ file[e].name.of = t BY DEF Entries
  <2>2. EntryAt(e) \in Origins(file) /\ IsEntry(file, EntryAt(e)) /\ EntryAt(e)[1] = e
    BY <2>1, EntryOrigin
  <2>3. QED BY <2>1, <2>2, EntryFork DEF EntryOf
<1>3. QED BY <1>1, <1>2

LEMMA CollectedText ==
  ASSUME IInv, CollectText, Collected
  PROVE  phase' = "graft" /\ GraftText'
<1>1. /\ phase = "collect" /\ at > Len(text) /\ at \in Nat /\ source \in Seq(Source)
      /\ phase' = "graft" /\ at' = 1 /\ text' = out /\ out' = <<>>
      /\ existingNames' = {out[i].name : i \in DOMAIN out}
      /\ UNCHANGED <<source, templates, referenced, frames>>
  BY DEF Collected, NextPass, graftVars, IInv, TypeOK
<1>2. PICK o : CollectState(o) BY <1>1 DEF CollectText
<1>3. Expandable(source) /\ referenced = {} /\ frames = <<>> BY <1>1 DEF CollectText
<1>4. Done(o, text, at) = Kept(source)
  <2> DEFINE T == Stmt
  <2>1. text \in Seq(T) BY DEF IInv, TypeOK
  <2> HIDE DEF T
  <2>2. Lists(source, text, o, Kept(source)) BY <1>2 DEF CollectState
  <2>3. \A a \in Nat : a > Len(text) => Done(o, text, a) = Kept(source)
    BY <2>1, <2>2, DoneAdvances
  <2>4. QED BY <1>1, <2>3
<1>5. {x \in Kept(source) : ~ IsEntry(source, x)} = KeptTyped(source) BY DEF KeptTyped
<1>6. PICK u : Lists(source, out, u, KeptTyped(source))
  BY <1>2, <1>4, <1>5 DEF CollectState, Listed
<1>7. \A t \in Template : \E f :
        Lists(source, templates[t], f, {EntryAt(e) : e \in Entries(source, t)})
  <2> TAKE t \in Template
  <2>1. Listed(source, templates[t], {x \in Kept(source) : EntryOf(source, x, t)})
    BY <1>2, <1>4 DEF CollectState
  <2>2. QED BY <1>1, <2>1, EntriesOf DEF Listed
<1> DEFINE E == [t \in Template |-> CHOOSE f :
                   Lists(source, templates[t], f, {EntryAt(e) : e \in Entries(source, t)})]
<1>8. \A t \in Template :
        Lists(source, templates[t], E[t], {EntryAt(e) : e \in Entries(source, t)})
  BY <1>7
<1>9. PICK EE : EE = E OBVIOUS
<1> HIDE DEF E
<1>10. GraftLists(u, EE)' BY <1>1, <1>6, <1>8, <1>9 DEF GraftLists
<1>11. EntriesLawful(source)
  <2> SUFFICES ASSUME NEW e \in DOMAIN source, source[e].name.kind = "entry"
               PROVE  EntryLawful(source, e)
                      /\ \A k \in DOMAIN source : source[k].name = source[e].name => k = e
    BY DEF EntriesLawful
  <2>1. \A k \in DOMAIN source : source[k].name.kind = "entry" =>
          EntryAt(k) \in Kept(source) /\ IsEntry(source, EntryAt(k)) /\ EntryAt(k)[1] = k
    BY <1>1, EntryOrigin, EntryFork
  <2>2. \A x \in Kept(source) : IsEntry(source, x) => EntryLawful(source, x[1])
    BY <1>2, <1>4 DEF CollectState
  <2>3. \A x, y \in Kept(source) :
          IsEntry(source, x) /\ IsEntry(source, y)
          /\ source[x[1]].name = source[y[1]].name => x = y
    BY <1>2, <1>4 DEF CollectState
  <2>4. EntryLawful(source, e) BY <2>1, <2>2
  <2>5. ASSUME NEW k \in DOMAIN source, source[k].name = source[e].name PROVE k = e
    <3>1. source[k].name.kind = "entry" BY <2>5
    <3>2. EntryAt(k) = EntryAt(e) BY <2>1, <2>3, <2>5, <3>1
    <3>3. EntryAt(k)[1] = EntryAt(e)[1] BY <3>2
    <3>4. QED BY <2>1, <3>1, <3>3
  <2>6. QED BY <2>4, <2>5
<1>12. GraftState(u, EE, {}, <<>>)'
  <2>1. Came(u, {})'
    <3>1. \A p \in DOMAIN out : ~ (p < 1)
      <4>1. out \in Seq(Stmt) BY DEF IInv, TypeOK
      <4>2. DOMAIN out = 1 .. Len(out) BY <4>1
      <4>3. QED BY <4>2
    <3>2. QED BY <1>1, <3>1 DEF Came
  <2>2. {out[i].name : i \in DOMAIN out} = {d.name : d \in Typed(source)}
    <3>1. Typed(source) = {DefOf(source, x) : x \in KeptTyped(source)}
      BY <1>1, <1>3, TypedIs
    <3>2. \A x \in KeptTyped(source) : Fork(source, x).name = DefOf(source, x).name
      BY <1>1, <1>3, TypedForkWritten
    <3>3. \A i \in DOMAIN out : u[i] \in KeptTyped(source) /\ out[i] = Fork(source, u[i])
      BY <1>6 DEF Lists
    <3>4. \A x \in KeptTyped(source) : \E i \in DOMAIN out : u[i] = x BY <1>6 DEF Lists
    <3>5. QED BY <3>1, <3>2, <3>3, <3>4
  <2>3. {} \cup Typed(source) = Typed(source) OBVIOUS
  <2>4. WrittenAre({})'
    <3>1. existingNames' = {d.name : d \in {} \cup Typed(source')} BY <1>1, <2>2, <2>3
    <3>2. {out'[p] : p \in DOMAIN out'} = {Written(source', d) : d \in {}} BY <1>1
    <3>3. referenced' = {Attaches(source', d) : d \in {}} \ {NoTemplate} BY <1>1, <1>3
    <3>4. QED BY <3>1, <3>2, <3>3 DEF WrittenAre
  <2>5. Stacked({}, <<>>)' BY <1>1, <1>3 DEF Stacked
  <2>6. Pending(EE, {}, <<>>)' BY DEF Pending
  <2>7. GraftedLawfully(source', {}) BY DEF GraftedLawfully
  <2>8. QED BY <2>1, <2>4, <2>5, <2>6, <2>7 DEF GraftState
<1>13. QED BY <1>1, <1>3, <1>10, <1>11, <1>12 DEF GraftText

LEMMA InDefined ==
  ASSUME IInv, NEW d \in All(source), Expandable(source), Len(d.via) <= Len(out) + 2
  PROVE  d \in Defined
<1>1. PICK k \in Nat : d \in Level(source, k) BY DEF All
<1>2. Len(d.via) = k + 1 BY <1>1, ViaTells
<1>3. Cardinality(Template) \in Nat BY SourcesAssumption, FS_CardinalityType
<1>4. Len(out) \in Nat
  <2>1. out \in Seq(Stmt) BY DEF IInv, TypeOK
  <2>2. QED BY <2>1
<1> DEFINE depth == Cardinality(Template) + Len(out) + 1
<1>5. depth \in Nat /\ k \in 0 .. depth BY <1>2, <1>3, <1>4
<1> HIDE DEF depth
<1>6. d \in Definitions(source, depth) BY <1>1, <1>5, DefinitionsAre
<1>7. QED BY <1>6 DEF Defined, depth

LEMMA EntryListed ==
  ASSUME NEW o, NEW E, GraftLists(o, E), NEW t \in Template, source \in Seq(Source)
  PROVE  /\ \A i \in DOMAIN templates[t] :
              /\ E[t][i][1] \in Entries(source, t)
              /\ templates[t][i] = Fork(source, EntryAt(E[t][i][1]))
         /\ \A i, k \in DOMAIN templates[t] : E[t][i][1] = E[t][k][1] => i = k
         /\ \A e \in Entries(source, t) : \E i \in DOMAIN templates[t] : E[t][i][1] = e
<1>1. Lists(source, templates[t], E[t], {EntryAt(e) : e \in Entries(source, t)})
  BY DEF GraftLists
<1>2. \A e : EntryAt(e)[1] = e BY DEF EntryAt
<1>3. \A i \in DOMAIN templates[t] :
        E[t][i][1] \in Entries(source, t) /\ E[t][i] = EntryAt(E[t][i][1])
        /\ templates[t][i] = Fork(source, E[t][i])
  <2> TAKE i \in DOMAIN templates[t]
  <2>1. PICK e \in Entries(source, t) : E[t][i] = EntryAt(e) BY <1>1 DEF Lists
  <2>2. templates[t][i] = Fork(source, E[t][i]) BY <1>1 DEF Lists
  <2>3. QED BY <1>2, <2>1, <2>2
<1>4. \A i, k \in DOMAIN templates[t] : E[t][i] = E[t][k] => i = k BY <1>1 DEF Lists
<1>5. \A e \in Entries(source, t) : \E i \in DOMAIN templates[t] : E[t][i] = EntryAt(e)
  BY <1>1 DEF Lists
<1>6. QED BY <1>2, <1>3, <1>4, <1>5

LEMMA DeclaredIs ==
  ASSUME IInv, NEW o, NEW E, GraftLists(o, E), NEW t \in Template
  PROVE  Declared(t) <=> Entries(source, t) # {}
<1>1. source \in Seq(Source) /\ templates[t] \in Seq(Stmt) BY DEF IInv, TypeOK
<1>2. templates[t] # <<>> <=> DOMAIN templates[t] # {}
  <2> DEFINE q == templates[t]
  <2>1. q \in Seq(Stmt) BY <1>1
  <2> HIDE DEF q
  <2>2. Len(q) \in Nat /\ DOMAIN q = 1 .. Len(q) /\ (q = <<>> <=> Len(q) = 0) BY <2>1
  <2>3. 1 .. Len(q) = {} <=> Len(q) = 0
    <3>1. Len(q) # 0 => 1 \in 1 .. Len(q) BY <2>2
    <3>2. Len(q) = 0 => 1 .. Len(q) = {} OBVIOUS
    <3>3. QED BY <3>1, <3>2
  <2>4. q # <<>> <=> DOMAIN q # {} BY <2>2, <2>3
  <2>5. QED BY <2>4 DEF q
<1>3. DOMAIN templates[t] # {} <=> Entries(source, t) # {} BY <1>1, EntryListed
<1>4. t # NoTemplate BY SourcesAssumption
<1>5. QED BY <1>2, <1>3, <1>4 DEF Declared

(* What a definition attaches, and what it is called under it.             *)
LEMMA AttachesTemplate ==
  ASSUME NEW file \in Seq(Source), Expandable(file), NEW d \in All(file)
  PROVE  Attaches(file, d) \in Template \cup {NoTemplate}
<1>1. d.via \in Seq(DOMAIN file) /\ Len(d.via) >= 1 BY AllShape
<1>2. d.via[Len(d.via)] \in DOMAIN file BY <1>1
<1>3. Stat(file, d) \in Source BY <1>2, StatementName DEF Stat
<1>4. QED BY <1>3 DEF Attaches, Source

LEMMA RangeGrows ==
  ASSUME NEW q \in Seq(Stmt), NEW w
  PROVE  LET new == Append(q, w)
         IN  {new[p] : p \in DOMAIN new} = {q[p] : p \in DOMAIN q} \cup {w}
<1> DEFINE T == Stmt \cup {w}  new == Append(q, w)  n == Len(q)
<1>1. q \in Seq(T) /\ w \in T OBVIOUS
<1> HIDE DEF T
<1>2. /\ n \in Nat /\ DOMAIN q = 1 .. n /\ DOMAIN new = 1 .. (n + 1)
      /\ new[n + 1] = w /\ \A p \in 1 .. n : new[p] = q[p]
  BY <1>1
<1> HIDE DEF new, n
<1>3. (\A p \in 1 .. (n + 1) : p = n + 1 \/ p \in 1 .. n)
      /\ n + 1 \in 1 .. (n + 1) /\ 1 .. n \subseteq 1 .. (n + 1)
  BY <1>2
<1>4. {new[p] : p \in DOMAIN new} = {q[p] : p \in DOMAIN q} \cup {w} BY <1>2, <1>3
<1>5. QED BY <1>4 DEF new

LEMMA WrittenMore ==
  ASSUME NEW P, NEW c, NEW calls, out \in Seq(Stmt), WrittenAre(P), source' = source,
         out' = Append(out, Written(source, c)),
         existingNames' = existingNames \cup {c.name},
         Attach(calls, c.name, Attaches(source, c))
  PROVE  WrittenAre(P \cup {c})'
<1>1. {out'[p] : p \in DOMAIN out'} = {out[p] : p \in DOMAIN out} \cup {Written(source, c)}
  BY RangeGrows
<1>2. {out'[p] : p \in DOMAIN out'} = {Written(source', d) : d \in P \cup {c}}
  BY <1>1 DEF WrittenAre
<1>3. existingNames' = {d.name : d \in (P \cup {c}) \cup Typed(source')} BY DEF WrittenAre
<1>4. referenced' = {Attaches(source', d) : d \in P \cup {c}} \ {NoTemplate}
  BY DEF WrittenAre, Attach, Referencing
<1>5. QED BY <1>2, <1>3, <1>4 DEF WrittenAre

(* The calls a step leaves, before it attaches anything itself. *)
OnStack(calls, P, D) ==
  \A j \in 1 .. Len(calls) :
    /\ D[j] \in P /\ Len(D[j].via) = j
    /\ calls[j].name = D[j].name /\ calls[j].template = Attaches(source, D[j])

Owed(E, P, c, D, calls) ==
  \A d \in P : \A t \in Template : t = Attaches(source, d) =>
    \A i \in DOMAIN templates[t] :
      Under(source, d, E[t][i][1]) \in P \cup {c}
      <=> ~ \E j \in 1 .. Len(calls) : D[j] = d /\ calls[j].next <= i

LEMMA GraftGoesOn ==
  ASSUME IInv, Expandable(source), NEW o, NEW E, NEW P, NEW D, GraftLists(o, E), Came(o, P),
         NEW c \in All(source), c \notin P, NEW calls \in Seq(Frame),
         Len(c.via) = Len(calls) + 1, Attach(calls, c.name, Attaches(source, c)),
         source' = source, templates' = templates,
         OnStack(calls, P, D), Owed(E, P, c, D, calls)
  PROVE  \E D2 : Stacked(P \cup {c}, D2)' /\ Pending(E, P \cup {c}, D2)'
<1> DEFINE L == Len(calls)  a == Attaches(source, c)
           call == [name |-> c.name, template |-> a, next |-> 1]
           D2 == [j \in 1 .. (L + 1) |-> IF j = L + 1 THEN c ELSE D[j]]
<1>1. L \in Nat /\ source \in Seq(Source) BY DEF IInv, TypeOK
<1>2. D2[L + 1] = c /\ \A j \in 1 .. L : D2[j] = D[j]
  <2>1. L + 1 \in 1 .. (L + 1) /\ \A j \in 1 .. L : j \in 1 .. (L + 1) /\ j # L + 1 BY <1>1
  <2>2. QED BY <2>1
<1>3. a \in Template \cup {NoTemplate} BY <1>1, AttachesTemplate
<1>4. /\ a = NoTemplate => Len(frames') = L /\ \A j \in 1 .. L : frames'[j] = calls[j]
      /\ a # NoTemplate => /\ Len(frames') = L + 1 /\ frames'[L + 1] = call
                           /\ \A j \in 1 .. L : frames'[j] = calls[j]
  <2>1. CASE a = NoTemplate BY <2>1 DEF Attach
  <2>2. CASE a # NoTemplate
    <3>1. frames' = Append(calls, call) BY <2>2 DEF Attach
    <3> DEFINE T == Frame \cup {call}
    <3>2. calls \in Seq(T) /\ call \in T OBVIOUS
    <3> HIDE DEF T, call
    <3>3. Len(Append(calls, call)) = L + 1 /\ Append(calls, call)[L + 1] = call
          /\ \A j \in 1 .. L : Append(calls, call)[j] = calls[j]
      BY <3>2
    <3>4. QED BY <2>2, <3>1, <3>3
  <2>3. QED BY <2>1, <2>2
<1>5. \A d \in P : c # d OBVIOUS
<1> HIDE DEF D2, L
<1>6. Stacked(P \cup {c}, D2)'
  <2> SUFFICES ASSUME NEW j \in 1 .. Len(frames')
               PROVE  /\ D2[j] \in P \cup {c} /\ Len(D2[j].via) = j
                      /\ frames'[j].name = D2[j].name
                      /\ frames'[j].template = Attaches(source', D2[j])
    BY DEF Stacked
  <2>1. CASE j \in 1 .. L
    <3>1. D2[j] = D[j] /\ frames'[j] = calls[j] BY <1>2, <1>4, <2>1
    <3>2. QED BY <2>1, <3>1 DEF L, OnStack
  <2>2. CASE j \notin 1 .. L
    <3>1. j = L + 1 /\ a # NoTemplate BY <1>1, <1>4, <2>2
    <3>2. D2[j] = c /\ frames'[j] = call BY <1>2, <1>4, <3>1
    <3>3. QED BY <3>1, <3>2 DEF L
  <2>3. QED BY <2>1, <2>2
<1>7. Pending(E, P \cup {c}, D2)'
  <2> SUFFICES ASSUME NEW d \in P \cup {c}, NEW t \in Template, t = Attaches(source, d),
                      NEW i \in DOMAIN templates[t]
               PROVE  Under(source, d, E[t][i][1]) \in P \cup {c}
                      <=> ~ \E j \in 1 .. Len(frames') : D2[j] = d /\ frames'[j].next <= i
    BY DEF Pending, Waiting
  <2>1. CASE d \in P
    <3>1. d # c BY <1>5, <2>1
    <3>2. ASSUME NEW j \in 1 .. Len(frames'), D2[j] = d
          PROVE  j \in 1 .. L /\ frames'[j] = calls[j] /\ D2[j] = D[j]
      BY <1>1, <1>2, <1>4, <3>1, <3>2
    <3>3. 1 .. L \subseteq 1 .. Len(frames') /\ \A j \in 1 .. L : frames'[j] = calls[j]
      BY <1>1, <1>4
    <3>4. (\E j \in 1 .. Len(frames') : D2[j] = d /\ frames'[j].next <= i)
          <=> \E j \in 1 .. L : D[j] = d /\ calls[j].next <= i
      BY <1>2, <3>2, <3>3
    <3>5. QED BY <2>1, <3>4 DEF L, Owed
  <2>2. CASE d = c
    <3>1. t # NoTemplate BY SourcesAssumption
    <3>2. Len(frames') = L + 1 /\ frames'[L + 1].next = 1 BY <1>4, <2>2, <3>1
    <3>3. 1 <= i /\ L + 1 \in 1 .. Len(frames')
      <4>1. templates[t] \in Seq(Stmt) BY DEF IInv, TypeOK
      <4>2. DOMAIN templates[t] = 1 .. Len(templates[t]) BY <4>1
      <4>3. QED BY <1>1, <3>2, <4>2
    <3>4. \E j \in 1 .. Len(frames') : D2[j] = d /\ frames'[j].next <= i
      BY <1>2, <2>2, <3>2, <3>3
    <3> DEFINE e == E[t][i][1]
    <3>5. e \in Entries(source, t) BY <1>1, EntryListed
    <3>6. Under(source, c, e) \in EntriesUnder(source, c) BY <2>2, <3>5 DEF EntriesUnder
    <3>7. Under(source, c, e) \notin P BY <3>6 DEF Came
    <3>8. Under(source, c, e) # c
      <4>1. c.via \in Seq(DOMAIN source) /\ e \in DOMAIN source
        BY <1>1, <3>5, AllShape DEF Entries
      <4> HIDE DEF e
      <4>2. QED BY <4>1, UnderIsDeeper
    <3>9. QED BY <2>2, <3>4, <3>7, <3>8
  <2>3. QED BY <2>1, <2>2
<1>8. QED BY <1>6, <1>7

LEMMA TypedShape ==
  ASSUME NEW file \in Seq(Source), Expandable(file), NEW c \in Typed(file)
  PROVE  /\ c \in All(file) /\ Len(c.via) = 1 /\ ~ Copied(c)
         /\ \A d \in All(file) : c \notin EntriesUnder(file, d)
<1>1. c \in All(file) BY AllHolds
<1>2. Len(c.via) = 1 BY <1>1, AllShape
<1>3. ASSUME NEW d \in All(file), c \in EntriesUnder(file, d) PROVE FALSE
  <2>1. PICK e \in Entries(file, Attaches(file, d)) : c = Under(file, d, e)
    BY <1>3 DEF EntriesUnder
  <2>2. d.via \in Seq(DOMAIN file) /\ Len(d.via) >= 1 /\ e \in DOMAIN file
    BY AllShape DEF Entries
  <2>3. Len(c.via) = Len(d.via) + 1 BY <2>1, <2>2, StatUnder
  <2>4. Len(d.via) \in Nat BY <2>2
  <2>5. 1 = Len(d.via) + 1 BY <1>2, <2>3
  <2>6. QED BY <2>2, <2>4, <2>5
<1>4. QED BY <1>1, <1>2, <1>3 DEF Copied

LEMMA GraftStatementText ==
  ASSUME IInv, GraftText, GraftStatement
  PROVE  /\ phase' \in {"graft", "fatal"} /\ (phase' = "fatal" => Mistaken') /\ GraftText'
<1>1. /\ phase = "graft" /\ frames = <<>> /\ at <= Len(text) /\ source \in Seq(Source)
      /\ at \in Nat /\ out \in Seq(Stmt) /\ Len(out) \in Nat
  BY DEF GraftStatement, IInv, TypeOK
<1>2. Expandable(source) /\ EntriesLawful(source) BY <1>1 DEF GraftText
<1>3. PICK o, E, P, D : GraftLists(o, E) /\ GraftState(o, E, P, D) BY <1>1 DEF GraftText
<1>4. Lists(source, text, o, KeptTyped(source)) BY <1>3 DEF GraftLists
<1>5. Came(o, P) /\ WrittenAre(P) /\ Pending(E, P, D) /\ GraftedLawfully(source, P)
  BY <1>3 DEF GraftState
<1>6. KeptTyped(source) \subseteq Origins(source) BY DEF KeptTyped, Kept
<1>7. PICK x \in KeptTyped(source) : x = o[at] /\ at \in DOMAIN text /\ text[at] = Fork(source, x)
  BY <1>1, <1>4, <1>6, NextStatement
<1>16. PICK c : c = DefOf(source, x) OBVIOUS
<1>17. PICK a : a = Attaches(source, c) OBVIOUS
<1>8. /\ c \in Typed(source) /\ Bare(text[at]) = Written(source, c)
      /\ Attached(text[at]) = a /\ text[at].name = c.name
  BY <1>1, <1>2, <1>7, <1>16, <1>17, TypedIs, TypedForkWritten
<1>9. /\ c \in All(source) /\ Len(c.via) = 1 /\ ~ Copied(c)
      /\ \A d \in All(source) : c \notin EntriesUnder(source, d)
  BY <1>1, <1>2, <1>8, TypedShape
<1>10. c \notin P
  <2>1. ~ (at < at) BY <1>1
  <2>2. QED BY <1>5, <1>7, <1>16, <2>1 DEF Came
<1>11. a \in Template \cup {NoTemplate} BY <1>1, <1>2, <1>9, <1>17, AttachesTemplate
<1>12. \A y \in KeptTyped(source) : DefOf(source, y) = c => y = x
  BY <1>1, <1>2, <1>7, <1>16, TypedIs
<1>13. CASE ~ Declared(a)
  <2>1. a # NoTemplate BY <1>13 DEF Declared
  <2>2. Entries(source, a) = {} BY <1>3, <1>11, <1>13, <2>1, DeclaredIs
  <2>3. Len(c.via) <= Len(out) + 2 BY <1>1, <1>9
  <2>4. c \in Defined BY <1>2, <1>9, <2>3, InDefined
  <2>5. Mistaken BY <1>17, <2>1, <2>2, <2>4 DEF Mistaken, FileIsLawful, GraftsAreLawful
  <2>6. phase' = "fatal" /\ UNCHANGED <<source, out>>
    BY <1>8, <1>13 DEF GraftStatement, Fatal
  <2>7. QED BY <2>5, <2>6, MistakeStands DEF GraftText
<1>14. CASE Declared(a)
  <2>1. /\ out' = Append(out, Written(source, c)) /\ Attach(<<>>, c.name, a) /\ at' = at + 1
        /\ UNCHANGED <<source, fork, phase, text, templates, existingNames>>
    BY <1>8, <1>14 DEF GraftStatement
  <2>2. WrittenAre(P \cup {c})'
    <3>1. c.name \in existingNames BY <1>5, <1>8 DEF WrittenAre
    <3>2. existingNames' = existingNames \cup {c.name} BY <2>1, <3>1
    <3>3. QED BY <1>1, <1>5, <1>17, <2>1, <3>2, WrittenMore
  <2>3. PICK D2 : Stacked(P \cup {c}, D2)' /\ Pending(E, P \cup {c}, D2)'
    <3> DEFINE calls == <<>>
    <3>1. calls \in Seq(Frame) /\ Len(calls) = 0 /\ ~ \E j \in 1 .. Len(calls) : TRUE
      OBVIOUS
    <3>2. Len(c.via) = Len(calls) + 1 BY <1>9
    <3>3. ASSUME NEW d \in P, NEW t \in Template, t = Attaches(source, d),
                 NEW i \in DOMAIN templates[t]
          PROVE  Under(source, d, E[t][i][1]) \in P \cup {c}
                 <=> ~ \E j \in 1 .. Len(calls) : D[j] = d /\ calls[j].next <= i
      <4>1. ~ Waiting(D, d, i) BY <1>1 DEF Waiting
      <4>2. Under(source, d, E[t][i][1]) \in P BY <1>5, <3>3, <4>1 DEF Pending
      <4>3. QED BY <3>1, <4>2
    <3>4. Owed(E, P, c, D, calls) /\ OnStack(calls, P, D) BY <3>1, <3>3 DEF Owed, OnStack
    <3>5. Attach(calls, c.name, Attaches(source, c)) /\ source' = source /\ templates' = templates
      BY <1>17, <2>1
    <3> HIDE DEF calls
    <3>6. QED BY <1>2, <1>3, <1>5, <1>9, <1>10, <3>1, <3>2, <3>4, <3>5, GraftGoesOn
  <2>4. Came(o, P \cup {c})'
    <3>1. P \cup {c} \subseteq All(source) BY <1>5, <1>9 DEF Came
    <3>2. \A d \in P \cup {c} : Len(d.via) <= Len(out')
      <4>1. Len(out') = Len(out) + 1
        <5> DEFINE w == Written(source, c)  T == Stmt \cup {w}
        <5>1. out \in Seq(T) /\ w \in T BY <1>1
        <5>2. out' = Append(out, w) BY <2>1
        <5> HIDE DEF T, w
        <5>3. QED BY <5>1, <5>2
      <4>2. \A d \in P : Len(d.via) <= Len(out) BY <1>5 DEF Came
      <4>3. \A d \in P : Len(d.via) \in Nat
        <5>1. \A d \in P : d.via \in Seq(DOMAIN source) BY <1>1, <1>2, <1>5, AllShape DEF Came
        <5>2. QED BY <5>1
      <4>4. 1 <= Len(out) + 1 BY <1>1
      <4>5. \A d \in P : Len(d.via) <= Len(out) + 1 BY <1>1, <4>2, <4>3
      <4>6. \A d \in P \cup {c} : Len(d.via) <= Len(out) + 1 BY <1>9, <4>4, <4>5
      <4>7. QED BY <4>1, <4>6
    <3>3. ASSUME NEW p \in DOMAIN text PROVE DefOf(source, o[p]) \in P \cup {c} <=> p < at + 1
      <4>1. DefOf(source, o[p]) \in P <=> p < at BY <1>5 DEF Came
      <4>2. p \in Int
        <5>1. text \in Seq(Stmt) BY DEF IInv, TypeOK
        <5>2. QED BY <5>1
      <4>3. DefOf(source, o[p]) = c <=> p = at
        <5>1. o[p] \in KeptTyped(source) BY <1>4 DEF Lists
        <5>2. o[p] = o[at] => p = at BY <1>4, <1>7 DEF Lists
        <5>3. QED BY <1>7, <1>12, <1>16, <5>1, <5>2
      <4>4. QED BY <1>1, <4>1, <4>2, <4>3
    <3>4. \A d \in All(source) : \A b \in EntriesUnder(source, d) :
            b \in P \cup {c} => d \in P \cup {c}
      BY <1>5, <1>9 DEF Came
    <3>5. QED BY <2>1, <3>1, <3>2, <3>3, <3>4 DEF Came
  <2>5. GraftedLawfully(source, P \cup {c})
    <3>1. a # NoTemplate => Entries(source, a) # {} BY <1>3, <1>11, <1>14, DeclaredIs
    <3>2. isLegalBidSequence(c.name.tokens) BY <1>8 DEF Typed
    <3>3. QED BY <1>5, <1>8, <1>9, <1>17, <3>1, <3>2 DEF GraftedLawfully
  <2>6. GraftLists(o, E)' BY <1>3, <2>1 DEF GraftLists
  <2>7. GraftState(o, E, P \cup {c}, D2)' BY <2>1, <2>2, <2>3, <2>4, <2>5 DEF GraftState
  <2>8. QED BY <1>1, <1>2, <2>1, <2>6, <2>7 DEF GraftText
<1>15. QED BY <1>13, <1>14

(* No name that is defined holds a macro. *)
LEMMA AllConcrete ==
  ASSUME NEW file \in Seq(Source), Expandable(file), EntriesLawful(file), NEW d \in All(file)
  PROVE  ~ Has(d.name.tokens, Macro \cup Both)
<1> DEFINE S == {c \in All(file) : ~ Has(c.name.tokens, Macro \cup Both)}
<1>1. ASSUME NEW c \in Typed(file) PROVE c \in S
  <2>1. PICK x \in KeptTyped(file) : c = DefOf(file, x) BY TypedIs
  <2>2. x \in Origins(file) /\ ~ IsEntry(file, x) BY DEF KeptTyped, Kept
  <2>3. x[1] \in DOMAIN file BY <2>2, OriginParts
  <2>4. c.name = Fork(file, x).name /\ Fork(file, x).name.kind # "entry"
    BY <2>1, <2>2, ForkName, ForkKind DEF IsEntry
  <2>5. file[x[1]] \in Source /\ file[x[1]].op # ":?" /\ ~ NamesBoth(file[x[1]])
    BY <2>3, StatementName DEF Expandable
  <2>6. PICK k \in 1 .. Forks(file[x[1]]) :
          x[2] = MajorOf(file[x[1]], k) /\ x[3] = MinorOf(file[x[1]], k)
    BY <2>2, ForkCounted
  <2>7. ~ Has(Fork(file, x).name.tokens, Macro \cup Both)
    BY <2>4, <2>5, <2>6, ForkIsStatement DEF Fork
  <2>8. QED BY <2>4, <2>7, AllHolds
<1>2. ASSUME NEW b \in S \cap All(file) PROVE EntriesUnder(file, b) \subseteq S
  <2> SUFFICES ASSUME NEW c \in EntriesUnder(file, b) PROVE c \in S OBVIOUS
  <2>1. PICK e \in Entries(file, Attaches(file, b)) : c = Under(file, b, e) BY DEF EntriesUnder
  <2>2. e \in DOMAIN file /\ file[e].name.kind = "entry" BY DEF Entries
  <2> DEFINE p == b.name.tokens  q == file[e].name.tokens
  <2>3. p \in Seq(Token) /\ \E k, f, r : b.name = [kind |-> k, of |-> f, tokens |-> r]
    BY AllShape
  <2>4. q \in Seq(Token) BY <2>2, StatementName, NamesHoldTokens
  <2>5. ~ Has(p, Macro \cup Both) BY <1>2
  <2>6. ~ Has(q, Macro \cup Both)
    BY <2>2 DEF EntriesLawful, EntryLawful, isWellFormedConcreteBidSequence
  <2>7. c.name = [b.name EXCEPT !.tokens = p \o q] BY <2>1 DEF Under
  <2> HIDE DEF p, q
  <2>8. c.name.tokens = p \o q
    <3> DEFINE new == p \o q
    <3>1. c.name = [b.name EXCEPT !.tokens = new] BY <2>7
    <3> HIDE DEF new
    <3>2. c.name.tokens = new BY <2>3, <3>1
    <3>3. QED BY <3>2 DEF new
  <2>9. ~ Has(p \o q, Macro \cup Both) BY <2>3, <2>4, <2>5, <2>6, JoinedHas
  <2>10. c \in All(file) BY AllHolds
  <2>11. QED BY <2>8, <2>9, <2>10
<1> HIDE DEF S
<1>3. d \in S BY <1>1, <1>2, AllInduction
<1>4. QED BY <1>3 DEF S

(* Frames that advance, and what they wait for. *)
LEMMA AdvancedFrames ==
  ASSUME IInv, frames # <<>>
  PROVE  LET calls == Advanced(frames)  n == Len(frames)
         IN  /\ calls \in Seq(Frame) /\ Len(calls) = n /\ n \in Nat \ {0}
             /\ frames[n] \in Frame
             /\ \A j \in 1 .. n : /\ calls[j].name = frames[j].name
                                  /\ calls[j].template = frames[j].template
                                  /\ j # n => calls[j].next = frames[j].next
             /\ calls[n].next = frames[n].next + 1
<1> DEFINE T == Frame  n == Len(frames)  calls == Advanced(frames)
<1>1. frames \in Seq(T) /\ calls \in Seq(T) BY TopCall DEF IInv, TypeOK, Frame
<1> HIDE DEF T
<1>2. n \in Nat \ {0} /\ DOMAIN frames = 1 .. n
  <2>1. n \in Nat /\ DOMAIN frames = 1 .. n /\ (n = 0 => frames = <<>>) BY <1>1
  <2>2. QED BY <2>1
<1>3. calls = [frames EXCEPT ![n].next = frames[n].next + 1] BY DEF Advanced
<1>4. n \in 1 .. n BY <1>2
<1>5. \A j \in 1 .. n : frames[j] \in T BY <1>1, <1>2
<1>6. \A j \in 1 .. n : \E a, b, c : frames[j] = [name |-> a, template |-> b, next |-> c]
  BY <1>5 DEF T, Frame
<1>7. DOMAIN calls = 1 .. n /\ Len(calls) = n
  <2>1. DOMAIN calls = 1 .. n BY <1>2, <1>3
  <2>2. QED BY <1>1, <1>2, <2>1
<1> HIDE DEF n
<1>8. \A j \in 1 .. n : /\ calls[j].name = frames[j].name
                        /\ calls[j].template = frames[j].template
                        /\ j # n => calls[j].next = frames[j].next
  BY <1>2, <1>3, <1>6
<1>9. calls[n].next = frames[n].next + 1
  <2> DEFINE m == frames[n].next + 1
  <2>1. calls = [frames EXCEPT ![n].next = m] BY <1>3
  <2> HIDE DEF m
  <2>2. calls[n].next = m BY <1>2, <1>4, <1>6, <2>1
  <2>3. QED BY <2>2 DEF m
<1>10. QED BY <1>1, <1>2, <1>4, <1>5, <1>7, <1>8, <1>9 DEF T, n

LEMMA LongerBy ==
  ASSUME NEW q \in Seq(Stmt), NEW w PROVE Len(Append(q, w)) = Len(q) + 1
<1> DEFINE T == Stmt \cup {w}
<1>1. q \in Seq(T) /\ w \in T OBVIOUS
<1> HIDE DEF T
<1>2. QED BY <1>1

LEMMA GraftEntryText ==
  ASSUME IInv, GraftText, GraftEntry
  PROVE  /\ phase' \in {"graft", "fatal"} /\ (phase' = "fatal" => Mistaken') /\ GraftText'
<1>1. /\ phase = "graft" /\ frames # <<>> /\ source \in Seq(Source)
      /\ out \in Seq(Stmt) /\ Len(out) \in Nat /\ templates \in [Template -> Seq(Stmt)]
  BY DEF GraftEntry, IInv, TypeOK
<1>2. Expandable(source) /\ EntriesLawful(source) BY <1>1 DEF GraftText
<1>3. PICK o, E, P, D : GraftLists(o, E) /\ GraftState(o, E, P, D) BY <1>1 DEF GraftText
<1>4. Came(o, P) /\ WrittenAre(P) /\ Stacked(P, D) /\ Pending(E, P, D)
      /\ GraftedLawfully(source, P)
  BY <1>3 DEF GraftState
<1>5. PICK L \in Nat \ {0}, calls \in Seq(Frame) :
        /\ L = Len(frames) /\ calls = Advanced(frames) /\ Len(calls) = L /\ frames[L] \in Frame
        /\ \A j \in 1 .. L : /\ calls[j].name = frames[j].name
                             /\ calls[j].template = frames[j].template
                             /\ j # L => calls[j].next = frames[j].next
        /\ calls[L].next = frames[L].next + 1
  BY <1>1, AdvancedFrames
<1>6. PICK n \in Nat \ {0} : n = top.next BY <1>5 DEF top, Frame
<1>7. PICK d \in P : d = D[L] /\ Len(d.via) = L /\ top.name = d.name
                     /\ top.template = Attaches(source, d)
  <2>1. L \in 1 .. Len(frames) BY <1>5
  <2>2. QED BY <1>4, <1>5, <2>1 DEF Stacked, top
<1>8. PICK t \in Template : t = Attaches(source, d) /\ t = top.template
  BY <1>5, <1>7 DEF top, Frame
<1>9. n \in DOMAIN templates[t]
  <2>1. n <= Len(templates[t]) BY <1>6, <1>8 DEF GraftEntry, entries
  <2>2. templates[t] \in Seq(Stmt) BY <1>1
  <2>3. QED BY <2>1, <2>2
<1>10. PICK e \in Entries(source, t) :
         e = E[t][n][1] /\ templates[t][n] = Fork(source, EntryAt(e))
  BY <1>1, <1>3, <1>9, EntryListed
<1>11. d \in All(source) /\ d.via \in Seq(DOMAIN source) /\ Len(d.via) >= 1
       /\ e \in DOMAIN source /\ source[e].name.kind = "entry"
       /\ \E k, f, q : d.name = [kind |-> k, of |-> f, tokens |-> q]
  BY <1>1, <1>2, <1>4, AllShape DEF Entries, Came
<1>12. PICK c : c = Under(source, d, e) OBVIOUS
<1>13. PICK a : a = Attaches(source, c) OBVIOUS
<1>14. /\ GraftedName(top.name, entries[top.next]) = c.name
       /\ [Bare(entries[top.next]) EXCEPT !.name = c.name] = Written(source, c)
       /\ Attached(entries[top.next]) = a
  <2> DEFINE g == Fork(source, EntryAt(e))
  <2>1. entries[top.next] = g BY <1>6, <1>8, <1>10 DEF entries
  <2>2. /\ GraftedName(d.name, g) = c.name
         /\ [Bare(g) EXCEPT !.name = c.name] = Written(source, c)
        /\ Attached(g) = Attaches(source, c)
    BY <1>1, <1>11, <1>12, EntryForkWritten
  <2> HIDE DEF g
  <2>3. QED BY <1>7, <1>13, <2>1, <2>2
<1>15. c \in EntriesUnder(source, d) /\ c \in All(source)
  BY <1>8, <1>10, <1>11, <1>12, AllHolds DEF EntriesUnder
<1>16. Len(c.via) = L + 1 /\ Copied(c)
  <2>1. Len(Under(source, d, e).via) = Len(d.via) + 1 BY <1>11, StatUnder
  <2>2. Len(c.via) = L + 1 BY <1>7, <1>12, <2>1
  <2>3. QED BY <1>5, <2>2 DEF Copied
<1>17. c \notin Typed(source)
  <2>1. c \in Typed(source) => Len(c.via) = 1 BY <1>1, <1>2, TypedShape
  <2>2. QED BY <1>5, <1>16, <2>1
<1>18. c \notin P
  <2>1. L \in 1 .. Len(frames) /\ frames[L].next <= n BY <1>5, <1>6 DEF top
  <2>2. Waiting(D, d, n) BY <1>7, <2>1 DEF Waiting
  <2>3. QED BY <1>4, <1>8, <1>9, <1>10, <1>12, <2>2 DEF Pending
<1>19. c.name.kind = d.name.kind BY <1>11, <1>12 DEF Under
<1>20. a \in Template \cup {NoTemplate} BY <1>1, <1>2, <1>13, <1>15, AttachesTemplate
<1>21. \A b \in P \cup Typed(source) : b \in All(source) /\ b \in Defined
  <2> TAKE b \in P \cup Typed(source)
  <2>1. b \in All(source) BY <1>4, AllHolds DEF Came
  <2>2. b.via \in Seq(DOMAIN source) BY <1>1, <1>2, <2>1, AllShape
  <2>3. Len(b.via) \in Nat BY <2>2
  <2>4. Len(b.via) <= Len(out) \/ Len(b.via) = 1
    BY <1>1, <1>2, <1>4, TypedShape DEF Came
  <2>5. Len(b.via) <= Len(out) + 2
    <3> DEFINE m == Len(b.via)  k == Len(out)
    <3>1. m \in Nat /\ k \in Nat /\ (m <= k \/ m = 1) BY <1>1, <2>3, <2>4
    <3> HIDE DEF m, k
    <3>2. m <= k + 2 BY <3>1
    <3>3. QED BY <3>2 DEF m, k
  <2>6. QED BY <1>2, <2>1, <2>5, InDefined
<1>22. c \in Defined
  <2>1. L <= Len(out) BY <1>4, <1>7 DEF Came
  <2>2. Len(c.via) <= Len(out) + 2 BY <1>1, <1>5, <1>16, <2>1
  <2>3. QED BY <1>2, <1>15, <2>2, InDefined
<1>23. isWellFormedConcreteBidSequence(c.name.tokens) <=> isLegalBidSequence(c.name.tokens)
  BY <1>1, <1>2, <1>15, AllConcrete DEF isWellFormedConcreteBidSequence
<1>24. existingNames = {b.name : b \in P \cup Typed(source)} BY <1>4 DEF WrittenAre
<1> DEFINE wrong == \/ c.name \in existingNames
                    \/ c.name.kind # "bid" \/ ~ isLegalBidSequence(c.name.tokens)
                    \/ ~ Declared(a)
<1>25. CASE wrong
  <2>1. ASSUME c.name \in existingNames PROVE Mistaken
    <3>1. PICK b \in P \cup Typed(source) : b.name = c.name BY <1>24, <2>1
    <3>2. b \in All(source) /\ b \in Defined /\ b # c BY <1>17, <1>18, <1>21
    <3>3. b.via # c.via BY <1>1, <1>2, <1>15, <3>1, <3>2, KnownByVia
    <3>4. Node(b) = Node(c) /\ ~ DifferInMarks(b, c) BY <3>1 DEF Node, DifferInMarks
    <3>5. QED BY <1>16, <1>22, <3>1, <3>2, <3>3, <3>4 DEF Mistaken, FileIsLawful, GraftsAreLawful
  <2>2. ASSUME c.name.kind # "bid" PROVE Mistaken
    <3>1. t # NoTemplate /\ d \in Defined BY <1>21, SourcesAssumption
    <3>2. QED BY <1>8, <1>19, <2>2, <3>1 DEF Mistaken, FileIsLawful, GraftsAreLawful
  <2>3. ASSUME ~ isLegalBidSequence(c.name.tokens) PROVE Mistaken
    BY <1>22, <2>3 DEF Mistaken, FileIsLawful, GraftsAreLawful
  <2>4. ASSUME ~ Declared(a) PROVE Mistaken
    <3>1. a # NoTemplate BY <2>4 DEF Declared
    <3>2. Entries(source, a) = {} BY <1>3, <1>20, <2>4, <3>1, DeclaredIs
    <3>3. QED BY <1>13, <1>22, <3>1, <3>2 DEF Mistaken, FileIsLawful, GraftsAreLawful
  <2>5. Mistaken BY <1>25, <2>1, <2>2, <2>3, <2>4
  <2>6. phase' = "fatal" /\ UNCHANGED <<source, out>>
    BY <1>14, <1>23, <1>25 DEF GraftEntry, Fatal, Exists
  <2>7. QED BY <2>5, <2>6, MistakeStands DEF GraftText
<1>26. CASE ~ wrong
  <2>1. /\ existingNames' = existingNames \cup {c.name}
        /\ out' = Append(out, Written(source, c))
        /\ Attach(calls, c.name, a)
        /\ UNCHANGED <<source, fork, phase, at, text, templates>>
    BY <1>5, <1>14, <1>23, <1>26 DEF GraftEntry, Exists
  <2>2. WrittenAre(P \cup {c})' BY <1>1, <1>4, <1>13, <2>1, WrittenMore
  <2>3. PICK D2 : Stacked(P \cup {c}, D2)' /\ Pending(E, P \cup {c}, D2)'
    <3>1. \A j \in 1 .. L : /\ D[j] \in P /\ Len(D[j].via) = j
                            /\ frames[j].name = D[j].name
                            /\ frames[j].template = Attaches(source, D[j])
      BY <1>4, <1>5 DEF Stacked
    <3>2. \A j \in 1 .. L : D[j] = d => j = L BY <1>7, <3>1
    <3>3. ASSUME NEW d2 \in P, NEW u \in Template, u = Attaches(source, d2),
                 NEW i \in DOMAIN templates[u]
          PROVE  Under(source, d2, E[u][i][1]) \in P \cup {c}
                 <=> ~ \E j \in 1 .. Len(calls) : D[j] = d2 /\ calls[j].next <= i
      <4>1. Under(source, d2, E[u][i][1]) \in P
            <=> ~ \E j \in 1 .. L : D[j] = d2 /\ frames[j].next <= i
        BY <1>4, <1>5, <3>3 DEF Pending, Waiting
      <4>2. Under(source, d2, E[u][i][1]) = c => d2 = d /\ E[u][i][1] = e
        <5>1. d2 \in All(source) BY <1>4 DEF Came
        <5>2. E[u][i][1] \in DOMAIN source BY <1>1, <1>3, EntryListed DEF Entries
        <5>3. QED BY <1>1, <1>2, <1>11, <1>12, <5>1, <5>2, KnownByEntry
      <4>3. CASE d2 # d
        <5>1. \A j \in 1 .. L : D[j] = d2 => calls[j].next = frames[j].next
          BY <1>5, <1>7, <4>3
        <5>2. QED BY <1>5, <4>1, <4>2, <4>3, <5>1
      <4>4. CASE d2 = d
        <5>1. u = t BY <1>8, <3>3, <4>4
        <5>2. (\E j \in 1 .. L : D[j] = d2 /\ frames[j].next <= i) <=> n <= i
          BY <1>5, <1>6, <1>7, <3>2, <4>4 DEF top
        <5>3. (\E j \in 1 .. L : D[j] = d2 /\ calls[j].next <= i) <=> n + 1 <= i
          BY <1>5, <1>6, <1>7, <3>2, <4>4 DEF top
        <5>4. i \in Nat
          <6>1. templates[u] \in Seq(Stmt) BY <1>1
          <6>2. QED BY <6>1
        <5>5. CASE i = n
          <6>1. Under(source, d2, E[u][i][1]) = c BY <1>10, <1>12, <4>4, <5>1, <5>5
          <6>2. ~ (n + 1 <= i) BY <5>5
          <6>3. QED BY <1>5, <5>3, <6>1, <6>2
        <5>6. CASE i # n
          <6>1. Under(source, d2, E[u][i][1]) # c
            BY <1>1, <1>3, <1>9, <1>10, <4>2, <5>1, <5>6, EntryListed
          <6>2. n + 1 <= i <=> n <= i BY <5>4, <5>6
          <6>3. QED BY <1>5, <4>1, <5>2, <5>3, <6>1, <6>2
        <5>7. QED BY <5>5, <5>6
      <4>5. QED BY <4>3, <4>4
    <3>4. OnStack(calls, P, D) BY <1>5, <3>1 DEF OnStack
    <3>5. /\ Len(c.via) = Len(calls) + 1 /\ Attach(calls, c.name, Attaches(source, c))
          /\ source' = source /\ templates' = templates
      BY <1>5, <1>13, <1>16, <2>1
    <3>6. GraftLists(o, E) /\ Came(o, P) /\ calls \in Seq(Frame) BY <1>3, <1>4, <1>5
    <3>7. Owed(E, P, c, D, calls) BY <3>3 DEF Owed
    <3>8. QED BY <1>2, <1>15, <1>18, <3>4, <3>5, <3>6, <3>7, GraftGoesOn
  <2>4. Came(o, P \cup {c})'
    <3>1. P \cup {c} \subseteq All(source) BY <1>4, <1>15 DEF Came
    <3>2. \A b \in P \cup {c} : Len(b.via) <= Len(out')
      <4>1. Len(out') = Len(out) + 1 BY <1>1, <2>1, LongerBy
      <4>2. \A b \in P : Len(b.via) <= Len(out) BY <1>4 DEF Came
      <4>3. \A b \in P : Len(b.via) \in Nat
        <5>1. \A b \in P : b.via \in Seq(DOMAIN source) BY <1>1, <1>2, <1>4, AllShape DEF Came
        <5>2. QED BY <5>1
      <4>4. L + 1 <= Len(out) + 1 BY <1>1, <1>5, <1>7, <4>2
      <4>5. \A b \in P : Len(b.via) <= Len(out) + 1 BY <1>1, <4>2, <4>3
      <4>6. \A b \in P \cup {c} : Len(b.via) <= Len(out) + 1 BY <1>16, <4>4, <4>5
      <4>7. QED BY <4>1, <4>6
    <3>3. ASSUME NEW p \in DOMAIN text PROVE DefOf(source, o[p]) \in P \cup {c} <=> p < at
      <4>1. DefOf(source, o[p]) \in P <=> p < at BY <1>4 DEF Came
      <4>2. o[p] \in KeptTyped(source) BY <1>3 DEF GraftLists, Lists
      <4>3. DefOf(source, o[p]) \in Typed(source) BY <1>1, <1>2, <4>2, TypedIs
      <4>4. QED BY <1>17, <4>1, <4>3
    <3>4. \A b \in All(source) : \A z \in EntriesUnder(source, b) :
            z \in P \cup {c} => b \in P \cup {c}
      <4>1. ASSUME NEW b \in All(source), c \in EntriesUnder(source, b) PROVE b = d
        <5>1. PICK f \in Entries(source, Attaches(source, b)) : c = Under(source, b, f)
          BY <4>1 DEF EntriesUnder
        <5>2. f \in DOMAIN source BY DEF Entries
        <5>3. QED BY <1>1, <1>2, <1>11, <1>12, <5>1, <5>2, KnownByEntry
      <4>2. QED BY <1>4, <4>1 DEF Came
    <3>5. QED BY <2>1, <3>1, <3>2, <3>3, <3>4 DEF Came
  <2>5. GraftedLawfully(source, P \cup {c})
    <3>1. a # NoTemplate => Entries(source, a) # {} BY <1>3, <1>20, <1>26, DeclaredIs
    <3>2. \A b \in P \cup Typed(source) : b.name # c.name BY <1>24, <1>26
    <3>3. ASSUME NEW b \in (P \cup {c}) \cup Typed(source), NEW z \in P \cup {c},
                 Copied(z), b.name = z.name
          PROVE  b = z
      BY <1>4, <3>2, <3>3 DEF GraftedLawfully
    <3>4. \A z \in P \cup {c} :
            Attaches(source, z) # NoTemplate => Entries(source, Attaches(source, z)) # {}
      BY <1>4, <1>13, <3>1 DEF GraftedLawfully
    <3>5. \A z \in P \cup {c} : /\ isLegalBidSequence(z.name.tokens)
                                /\ Copied(z) => z.name.kind = "bid"
      BY <1>4, <1>26 DEF GraftedLawfully
    <3>6. QED BY <3>3, <3>4, <3>5 DEF GraftedLawfully
  <2>6. GraftLists(o, E)' BY <1>3, <2>1 DEF GraftLists
  <2>7. GraftState(o, E, P \cup {c}, D2)' BY <2>1, <2>2, <2>3, <2>4, <2>5 DEF GraftState
  <2>8. QED BY <1>1, <1>2, <2>1, <2>6, <2>7 DEF GraftText
<1>27. QED BY <1>25, <1>26

LEMMA GraftReturnsText ==
  ASSUME IInv, GraftText, GraftReturns
  PROVE  phase' = "graft" /\ GraftText'
<1>1. /\ phase = "graft" /\ frames # <<>> /\ source \in Seq(Source)
      /\ templates \in [Template -> Seq(Stmt)] /\ top.next > Len(templates[top.template])
      /\ frames' = SubSeq(frames, 1, Len(frames) - 1)
      /\ UNCHANGED <<source, fork, phase, at, text, out, templates, existingNames, referenced>>
  BY DEF GraftReturns, IInv, TypeOK, entries
<1>2. Expandable(source) /\ EntriesLawful(source) BY <1>1 DEF GraftText
<1>3. PICK o, E, P, D : GraftLists(o, E) /\ GraftState(o, E, P, D) BY <1>1 DEF GraftText
<1>4. Came(o, P) /\ WrittenAre(P) /\ Stacked(P, D) /\ Pending(E, P, D)
      /\ GraftedLawfully(source, P)
  BY <1>3 DEF GraftState
<1>5. PICK L \in Nat \ {0} : L = Len(frames) /\ frames[L] \in Frame BY <1>1, AdvancedFrames
<1>6. Len(frames') = L - 1 /\ \A j \in 1 .. (L - 1) : frames'[j] = frames[j]
  <2> DEFINE T == Frame
  <2>1. frames \in Seq(T) BY DEF IInv, TypeOK, Frame
  <2> HIDE DEF T
  <2>2. QED BY <1>1, <1>5, <2>1
<1>7. Stacked(P, D)'
  <2>1. \A j \in 1 .. (L - 1) : j \in 1 .. L BY <1>5
  <2>2. QED BY <1>1, <1>4, <1>5, <1>6, <2>1 DEF Stacked
<1>8. Pending(E, P, D)'
  <2> SUFFICES ASSUME NEW d \in P, NEW t \in Template, t = Attaches(source, d),
                      NEW i \in DOMAIN templates[t]
               PROVE  Under(source, d, E[t][i][1]) \in P
                      <=> ~ \E j \in 1 .. Len(frames') : D[j] = d /\ frames'[j].next <= i
    BY <1>1 DEF Pending, Waiting
  <2>1. Under(source, d, E[t][i][1]) \in P
        <=> ~ \E j \in 1 .. L : D[j] = d /\ frames[j].next <= i
    BY <1>4, <1>5 DEF Pending, Waiting
  <2>2. ASSUME D[L] = d PROVE ~ (frames[L].next <= i)
    <3>1. L \in 1 .. Len(frames) BY <1>5
    <3>2. frames[L].template = t BY <1>4, <2>2, <3>1 DEF Stacked
    <3>3. frames[L].next > Len(templates[t]) BY <1>1, <1>5, <3>2 DEF top
    <3>4. i \in Nat /\ i <= Len(templates[t]) /\ Len(templates[t]) \in Nat
      <4>1. templates[t] \in Seq(Stmt) BY <1>1
      <4>2. QED BY <4>1
    <3>5. frames[L].next \in Nat BY <1>5 DEF Frame
    <3>6. QED BY <3>3, <3>4, <3>5
  <2>3. \A j \in 1 .. L : j = L \/ j \in 1 .. (L - 1) BY <1>5
  <2>4. \A j \in 1 .. (L - 1) : j \in 1 .. L BY <1>5
  <2>5. (\E j \in 1 .. Len(frames') : D[j] = d /\ frames'[j].next <= i)
        <=> \E j \in 1 .. L : D[j] = d /\ frames[j].next <= i
    BY <1>6, <2>2, <2>3, <2>4
  <2>6. QED BY <2>1, <2>5
<1>9. Came(o, P)' BY <1>1, <1>4 DEF Came
<1>10. WrittenAre(P)' BY <1>1, <1>4 DEF WrittenAre
<1>11. GraftLists(o, E)' BY <1>1, <1>3 DEF GraftLists
<1>12. GraftState(o, E, P, D)' BY <1>1, <1>4, <1>7, <1>8, <1>9, <1>10 DEF GraftState
<1>13. QED BY <1>1, <1>2, <1>11, <1>12 DEF GraftText
-----------------------------------------------------------------------------
(* The last pass: every definition is written, and in the part that is     *)
(* read Trump was a suit wherever it is named.                             *)
Lawfully(file) ==
  /\ Expandable(file) /\ EntriesLawful(file) /\ GraftedLawfully(file, All(file))
  /\ \E max \in Nat : \A d \in All(file) : Len(d.via) <= max

Resolvable(s) ==
  /\ \A i \in Marked(s.name.tokens) : s.name.tokens[i].strain \in Suit
  /\ MentionsTrump(s) => Marked(s.name.tokens) # {}

Resolution(s) ==
  [s EXCEPT !.name.tokens = WithoutMarks(@),
            !.alts = IF MentionsTrump(s) THEN substituteTrumpInBody(@, Trump(s)) ELSE @]

TemplatesAre ==
  /\ referenced = {Attaches(source, d) : d \in All(source)} \ {NoTemplate}
  /\ \A t \in Template : templates[t] # <<>> <=> Entries(source, t) # {}

ResolveText ==
  phase = "resolve" =>
    /\ Lawfully(source) /\ TemplatesAre
    /\ {text[p] : p \in DOMAIN text} = {Written(source, d) : d \in All(source)}
    /\ \A p \in DOMAIN text : p < at => Resolvable(text[p])
    /\ {out[p] : p \in DOMAIN out} = {Resolution(text[p]) : p \in {r \in DOMAIN text : r < at}}

FinalText ==
  phase \in {"parsed", "syntax error"} =>
    /\ Lawfully(source) /\ TemplatesAre
    /\ {text[p] : p \in DOMAIN text} = {Resolution(Written(source, d)) : d \in All(source)}
    /\ \A d \in All(source) : Resolvable(Written(source, d))
    /\ phase = "syntax error" <=> \E p \in DOMAIN text : Unreadable(text[p])

LEMMA GraftedText ==
  ASSUME IInv, GraftText, Grafted
  PROVE  phase' = "resolve" /\ ResolveText'
<1>1. /\ phase = "graft" /\ frames = <<>> /\ at > Len(text) /\ at \in Nat
      /\ source \in Seq(Source) /\ text \in Seq(Stmt) /\ out \in Seq(Stmt)
      /\ templates \in [Template -> Seq(Stmt)]
      /\ phase' = "resolve" /\ at' = 1 /\ text' = out /\ out' = <<>>
      /\ UNCHANGED <<source, templates, referenced>>
  BY DEF Grafted, NextPass, graftVars, IInv, TypeOK
<1>2. Expandable(source) /\ EntriesLawful(source) BY <1>1 DEF GraftText
<1>3. PICK o, E, P, D : GraftLists(o, E) /\ GraftState(o, E, P, D) BY <1>1 DEF GraftText
<1>4. Came(o, P) /\ WrittenAre(P) /\ Pending(E, P, D) /\ GraftedLawfully(source, P)
  BY <1>3 DEF GraftState
<1>5. Typed(source) \subseteq P
  <2> SUFFICES ASSUME NEW c \in Typed(source) PROVE c \in P OBVIOUS
  <2>1. PICK x \in KeptTyped(source) : c = DefOf(source, x) BY <1>1, <1>2, TypedIs
  <2>2. PICK p \in DOMAIN text : o[p] = x BY <1>3 DEF GraftLists, Lists
  <2>3. p < at BY <1>1
  <2>4. QED BY <1>4, <2>1, <2>2, <2>3 DEF Came
<1>6. ASSUME NEW d \in P \cap All(source) PROVE EntriesUnder(source, d) \subseteq P
  <2> DEFINE t == Attaches(source, d)
  <2> SUFFICES ASSUME NEW e \in Entries(source, t) PROVE Under(source, d, e) \in P
    BY DEF EntriesUnder
  <2>1. t \in Template
    <3>1. e \in DOMAIN source /\ source[e].name.kind = "entry" /\ source[e].name.of = t
      BY DEF Entries
    <3>2. source[e].name \in Name BY <1>1, <3>1, StatementName
    <3>3. QED BY <3>1, <3>2 DEF Name
  <2>2. PICK i \in DOMAIN templates[t] : E[t][i][1] = e BY <1>1, <1>3, <2>1, EntryListed
  <2>3. ~ Waiting(D, d, i) BY <1>1 DEF Waiting
  <2>4. QED BY <1>4, <2>1, <2>2, <2>3 DEF Pending
<1>7. P = All(source)
  <2>1. All(source) \subseteq P BY <1>5, <1>6, AllInduction
  <2>2. QED BY <1>4, <2>1 DEF Came
<1>8. Lawfully(source)
  <2>1. Len(out) \in Nat BY <1>1
  <2>2. \A d \in All(source) : Len(d.via) <= Len(out) BY <1>4, <1>7 DEF Came
  <2>3. QED BY <1>2, <1>4, <1>7, <2>1, <2>2 DEF Lawfully
<1>9. TemplatesAre
  <2>1. \A t \in Template : templates[t] # <<>> <=> Entries(source, t) # {}
    <3> TAKE t \in Template
    <3>1. t # NoTemplate BY SourcesAssumption
    <3>2. Declared(t) <=> Entries(source, t) # {} BY <1>3, DeclaredIs
    <3>3. QED BY <3>1, <3>2 DEF Declared
  <2>2. QED BY <1>4, <1>7, <2>1 DEF TemplatesAre, WrittenAre
<1>10. TemplatesAre' BY <1>1, <1>9 DEF TemplatesAre
<1>11. \A p \in DOMAIN out : ~ (p < 1)
  <2>1. DOMAIN out = 1 .. Len(out) BY <1>1
  <2>2. QED BY <2>1
<1>12. {text'[p] : p \in DOMAIN text'} = {Written(source', d) : d \in All(source')}
  BY <1>1, <1>4, <1>7 DEF WrittenAre
<1>13. {out'[p] : p \in DOMAIN out'} = {} /\ {r \in DOMAIN text' : r < at'} = {}
  BY <1>1, <1>11
<1>14. QED BY <1>1, <1>8, <1>10, <1>11, <1>12, <1>13 DEF ResolveText


LEMMA AllDefined ==
  ASSUME IInv, Lawfully(source)
  PROVE  Defined = All(source)
<1>1. PICK max \in Nat : \A d \in All(source) : Len(d.via) <= max BY DEF Lawfully
<1>2. source \in Seq(Source) /\ out \in Seq(Stmt) BY DEF IInv, TypeOK
<1>3. IsFiniteSet(Template) /\ Cardinality(Template) \in Nat
  BY SourcesAssumption, FS_CardinalityType
<1> DEFINE depth == Cardinality(Template) + Len(out) + 1
<1>4. Len(out) \in Nat BY <1>2
<1>5. depth \in Nat /\ depth >= Cardinality(Template) BY <1>3, <1>4
<1> HIDE DEF depth
<1>6. Definitions(source, depth) = UNION {Level(source, k) : k \in 0 .. depth}
  BY <1>5, DefinitionsAre
<1>7. \A k \in Nat : \A d \in Level(source, k) : k \in 0 .. depth
  <2> TAKE k \in Nat
  <2> TAKE d \in Level(source, k)
  <2>1. k <= Cardinality(Template) BY <1>1, <1>2, <1>3, TemplatesNest
  <2>2. QED BY <1>3, <1>5, <2>1
<1>8. 0 .. depth \subseteq Nat OBVIOUS
<1>9. QED BY <1>6, <1>7, <1>8 DEF All, Defined, depth

LEMMA WordsOf ==
  ASSUME NEW W, NEW N, NEW word
  PROVE  (\E a \in {[word |-> w, names |-> N] : w \in W} : a.word = word) <=> word \in W
<1>1. \A w : [word |-> w, names |-> N].word = w OBVIOUS
<1>2. ASSUME word \in W PROVE \E a \in {[word |-> w, names |-> N] : w \in W} : a.word = word
  <2>1. [word |-> word, names |-> N] \in {[word |-> w, names |-> N] : w \in W} BY <1>2
  <2>2. QED BY <1>1, <2>1
<1>3. QED BY <1>1, <1>2

LEMMA TrumpStays ==
  ASSUME NEW j \in {"S", "H", "-"}, NEW n \in {"D", "C", "-"}, NEW w
  PROVE  "Trump" \in substituteBothMacros(Chosen(w, j, n)) <=> w = "Trump"
<1>1. complementSuit(j) \in {"S", "H", "D", "C"} /\ complementSuit(n) \in {"S", "H", "D", "C"}
  BY DEF complementSuit
<1>2. QED BY <1>1 DEF Chosen, substituteBothMacros

LEMMA TrumpInBody ==
  ASSUME NEW body, NEW j \in {"S", "H", "-"}, NEW n \in {"D", "C", "-"}
  PROVE  (\E a \in substituteBodyChoice(body, j, n) : a.word = "Trump")
         <=> \E k \in DOMAIN body : body[k].word = "Trump"
<1> DEFINE W(k) == substituteBothMacros(Chosen(body[k].word, j, n))
           N(k) == UNION {Variants(m) : m \in body[k].names}
           Z(k) == {[word |-> w, names |-> N(k)] : w \in W(k)}
<1>1. substituteBodyChoice(body, j, n) = UNION {Z(k) : k \in DOMAIN body}
  BY DEF substituteBodyChoice
<1>2. \A k : "Trump" \in W(k) <=> body[k].word = "Trump" BY TrumpStays
<1> HIDE DEF W, N
<1>3. \A k : (\E a \in Z(k) : a.word = "Trump") <=> "Trump" \in W(k) BY WordsOf
<1> HIDE DEF Z
<1>4. QED BY <1>1, <1>2, <1>3

(* Trump is in what is written exactly if it is in the body. *)
LEMMA TrumpMentioned ==
  ASSUME NEW file \in Seq(Source), Expandable(file), NEW d \in All(file)
  PROVE  MentionsTrump(Written(file, d))
         <=> \E k \in DOMAIN Stat(file, d).body : Stat(file, d).body[k].word = "Trump"
<1> DEFINE s == Stat(file, d)  C == BodyChoices(s, d.major, d.minor)
<1>1. Written(file, d).alts = {substituteBodyChoice(s.body, c[1], c[2]) : c \in C}
  BY DEF Written, Bare, Generated
<1>2. d.major \in {"S", "H", "-"} /\ d.minor \in {"D", "C", "-"} BY AllChoices
<1>3. C # {}
  <2> DEFINE A == IF FreeInBody(s, Major) THEN {"S", "H"} ELSE {d.major}
             B == IF FreeInBody(s, Minor) THEN {"D", "C"} ELSE {d.minor}
  <2>1. A # {} /\ B # {} OBVIOUS
  <2>2. C = A \X B BY DEF BodyChoices
  <2>3. PICK x \in A : TRUE BY <2>1
  <2>4. PICK y \in B : TRUE BY <2>1
  <2> HIDE DEF A, B, C
  <2>5. <<x, y>> \in C BY <2>2
  <2>6. QED BY <2>5
<1>4. \A c \in C : c[1] \in {"S", "H", "-"} /\ c[2] \in {"D", "C", "-"}
  BY <1>2 DEF BodyChoices
<1> HIDE DEF s, C
<1>5. \A c \in C : (\E a \in substituteBodyChoice(s.body, c[1], c[2]) : a.word = "Trump")
                   <=> \E k \in DOMAIN s.body : s.body[k].word = "Trump"
  BY <1>4, TrumpInBody
<1>6. QED BY <1>1, <1>3, <1>5 DEF MentionsTrump, s

LEMMA ResolvableIs ==
  ASSUME NEW file \in Seq(Source), Expandable(file), NEW d \in All(file)
  PROVE  Resolvable(Written(file, d)) <=>
           /\ \A i \in Marked(d.name.tokens) : d.name.tokens[i].strain \in Suit
           /\ (\E k \in DOMAIN Stat(file, d).body : Stat(file, d).body[k].word = "Trump")
              => Marked(d.name.tokens) # {}
<1>1. Written(file, d).name = d.name BY DEF Written, Bare, Generated
<1>2. QED BY <1>1, TrumpMentioned DEF Resolvable

LEMMA ResolveStatementText ==
  ASSUME IInv, ResolveText, ResolveStatement
  PROVE  /\ phase' \in {"resolve", "fatal"} /\ (phase' = "fatal" => Mistaken') /\ ResolveText'
<1>1. /\ phase = "resolve" /\ at <= Len(text) /\ at \in Nat /\ source \in Seq(Source)
      /\ at \in DOMAIN text /\ out \in Seq(Stmt) /\ text \in Seq(Stmt)
  BY AtStatement DEF ResolveStatement, IInv, TypeOK
<1>2. Lawfully(source) /\ TemplatesAre BY <1>1 DEF ResolveText
<1>3. {text[p] : p \in DOMAIN text} = {Written(source, d) : d \in All(source)}
  BY <1>1 DEF ResolveText
<1>4. PICK d \in All(source) : text[at] = Written(source, d) BY <1>1, <1>3
<1>5. CASE ~ Resolvable(text[at])
  <2>1. d \in Defined BY <1>2, AllDefined
  <2>2. Expandable(source) BY <1>2 DEF Lawfully
  <2>3. ~ TrumpIsLawful BY <1>1, <1>4, <1>5, <2>1, <2>2, ResolvableIs DEF TrumpIsLawful
  <2>4. phase' = "fatal" /\ UNCHANGED <<source, out>>
    BY <1>5 DEF ResolveStatement, Fatal, Resolvable
  <2>5. Mistaken BY <2>3 DEF Mistaken, FileIsLawful
  <2>6. QED BY <2>4, <2>5, MistakeStands DEF ResolveText
<1>6. CASE Resolvable(text[at])
  <2>1. /\ out' = Append(out, Resolution(text[at])) /\ at' = at + 1
        /\ UNCHANGED <<source, fork, phase, text, graftVars>>
    BY <1>6 DEF ResolveStatement, Resolution, Resolvable
  <2>2. TemplatesAre' BY <1>2, <2>1 DEF TemplatesAre, graftVars
  <2>3. \A p \in DOMAIN text : p < at + 1 <=> p < at \/ p = at
    <3>1. DOMAIN text \subseteq Int BY <1>1
    <3>2. QED BY <1>1, <3>1
  <2>4. \A p \in DOMAIN text' : p < at' => Resolvable(text'[p])
    BY <1>1, <1>6, <2>1, <2>3 DEF ResolveText
  <2>5. {out'[p] : p \in DOMAIN out'} = {out[p] : p \in DOMAIN out} \cup {Resolution(text[at])}
    <3> DEFINE w == Resolution(text[at])
    <3>1. out' = Append(out, w) BY <2>1
    <3> HIDE DEF w
    <3> DEFINE o == Append(out, w)
    <3>2. {o[p] : p \in DOMAIN o} = {out[p] : p \in DOMAIN out} \cup {w}
      BY <1>1, RangeGrows
    <3>3. o = out' BY <3>1
    <3> HIDE DEF o
    <3>4. {out'[p] : p \in DOMAIN out'} = {out[p] : p \in DOMAIN out} \cup {w}
      BY <3>2, <3>3
    <3>5. QED BY <3>4 DEF w
  <2>6. {out'[p] : p \in DOMAIN out'}
        = {Resolution(text'[p]) : p \in {r \in DOMAIN text' : r < at'}}
    <3>1. {r \in DOMAIN text : r < at + 1} = {r \in DOMAIN text : r < at} \cup {at}
      BY <1>1, <2>3
    <3>2. {out[p] : p \in DOMAIN out} = {Resolution(text[p]) : p \in {r \in DOMAIN text : r < at}}
      BY <1>1 DEF ResolveText
    <3>3. QED BY <2>1, <2>5, <3>1, <3>2
  <2>7. QED BY <1>1, <1>2, <1>3, <2>1, <2>2, <2>4, <2>6 DEF ResolveText
<1>7. QED BY <1>5, <1>6

LEMMA AtTheEnd ==
  ASSUME IInv, at > Len(text) PROVE \A p \in DOMAIN text : p < at
<1> DEFINE T == Stmt
<1>1. text \in Seq(T) /\ at \in Nat BY DEF IInv, TypeOK
<1> HIDE DEF T
<1>2. DOMAIN text = 1 .. Len(text) /\ Len(text) \in Nat BY <1>1
<1>3. QED BY <1>1, <1>2

LEMMA ResolvedText ==
  ASSUME IInv, ResolveText, Resolved
  PROVE  phase' \in {"parsed", "syntax error"} /\ FinalText'
<1>1. /\ phase = "resolve" /\ at > Len(text) /\ at \in Nat /\ source \in Seq(Source)
      /\ text \in Seq(Stmt) /\ text' = out /\ phase' \in {"parsed", "syntax error"}
      /\ UNCHANGED <<source, fork, graftVars>>
  BY DEF Resolved, NextPass, IInv, TypeOK
<1>2. Lawfully(source) /\ TemplatesAre BY <1>1 DEF ResolveText
<1>3. {text[p] : p \in DOMAIN text} = {Written(source, d) : d \in All(source)}
  BY <1>1 DEF ResolveText
<1>4. \A p \in DOMAIN text : p < at BY <1>1, AtTheEnd
<1>5. \A p \in DOMAIN text : Resolvable(text[p]) BY <1>1, <1>4 DEF ResolveText
<1>6. {out[p] : p \in DOMAIN out} = {Resolution(text[p]) : p \in DOMAIN text}
  <2>1. {r \in DOMAIN text : r < at} = DOMAIN text BY <1>4
  <2>2. QED BY <1>1, <2>1 DEF ResolveText
<1>7. {Resolution(text[p]) : p \in DOMAIN text}
      = {Resolution(Written(source, d)) : d \in All(source)}
  BY <1>3
<1>8. \A d \in All(source) : Resolvable(Written(source, d)) BY <1>3, <1>5
<1>9. TemplatesAre' BY <1>1, <1>2 DEF TemplatesAre, graftVars
<1>10. (phase = "syntax error" <=> \E p \in DOMAIN text : Unreadable(text[p]))'
  <2>1. phase' = IF \E p \in DOMAIN out : Unreadable(out[p]) THEN "syntax error" ELSE "parsed"
    BY DEF Resolved, NextPass
  <2>2. QED BY <1>1, <2>1
<1>11. QED BY <1>1, <1>2, <1>6, <1>7, <1>8, <1>9, <1>10 DEF FinalText
-----------------------------------------------------------------------------
(* What is written means what the definition means.                        *)
LEMMA SameChoice ==
  ASSUME NEW tokens, NEW j, NEW n, NEW major, NEW minor,
         Has(tokens, Major) => j = major, Has(tokens, Minor) => n = minor
  PROVE  substituteNameTokens(tokens, j, n) = substituteNameTokens(tokens, major, minor)
<1>1. ASSUME NEW i \in DOMAIN tokens
      PROVE  Chosen(tokens[i].strain, j, n) = Chosen(tokens[i].strain, major, minor)
  <2>1. tokens[i].strain \in Major => j = major BY <1>1 DEF Has
  <2>2. tokens[i].strain \in Minor => n = minor BY <1>1 DEF Has
  <2>3. QED BY <2>1, <2>2 DEF Chosen
<1>2. QED BY <1>1 DEF substituteNameTokens

(* A reference is to any of the names it was forked into. *)
LEMMA VariantsAreInstances ==
  ASSUME NEW tokens \in Seq(Token), ~ Has(tokens, Both)
  PROVE  Instances(tokens) = Variants(tokens)
<1>1. \A j \in Majors, n \in Minors : Instance(tokens, j, n) = substituteNameTokens(tokens, j, n)
  BY InstanceIsChosen
<1>2. ASSUME NEW j \in Majors, NEW n \in Minors
      PROVE  substituteNameTokens(tokens, j, n) \in Variants(tokens)
  <2> DEFINE major == IF Has(tokens, Major) THEN j ELSE "-"
             minor == IF Has(tokens, Minor) THEN n ELSE "-"
  <2>1. substituteNameTokens(tokens, j, n) = substituteNameTokens(tokens, major, minor)
    BY SameChoice
  <2>2. major \in MajorChoices(Has(tokens, Major)) /\ minor \in MinorChoices(Has(tokens, Minor))
    BY DEF MajorChoices, MinorChoices, Majors, Minors
  <2> HIDE DEF major, minor
  <2>3. QED BY <2>1, <2>2 DEF Variants
<1>3. ASSUME NEW major \in MajorChoices(Has(tokens, Major)),
             NEW minor \in MinorChoices(Has(tokens, Minor))
      PROVE  \E j \in Majors, n \in Minors :
               substituteNameTokens(tokens, major, minor) = substituteNameTokens(tokens, j, n)
  <2> DEFINE j == IF Has(tokens, Major) THEN major ELSE "S"
             n == IF Has(tokens, Minor) THEN minor ELSE "D"
  <2>1. substituteNameTokens(tokens, major, minor) = substituteNameTokens(tokens, j, n)
    BY SameChoice
  <2>2. j \in Majors /\ n \in Minors BY DEF MajorChoices, MinorChoices, Majors, Minors
  <2> HIDE DEF j, n
  <2>3. QED BY <2>1, <2>2
<1>4. Instances(tokens) \subseteq Variants(tokens) BY <1>1, <1>2 DEF Instances
<1>5. Variants(tokens) \subseteq Instances(tokens)
  <2> SUFFICES ASSUME NEW v \in Variants(tokens) PROVE v \in Instances(tokens) OBVIOUS
  <2>1. PICK major \in MajorChoices(Has(tokens, Major)), minor \in MinorChoices(Has(tokens, Minor)) :
          v = substituteNameTokens(tokens, major, minor)
    BY DEF Variants
  <2>2. PICK j \in Majors, n \in Minors : v = substituteNameTokens(tokens, j, n) BY <1>3, <2>1
  <2>3. QED BY <1>1, <2>2 DEF Instances
<1>6. QED BY <1>4, <1>5

(* What a hand must satisfy for a word that was written. *)
ReadWord(w, names, h) == IF w = "ref" THEN names \cap h[2] # {} ELSE w \in h[1]

ReadAtom(x, trump, h) ==
  ReadWord(IF x.word = "Trump" THEN trump ELSE x.word, x.names, h)

LEMMA WordMeans ==
  ASSUME NEW a, a.word \in Word, a.names \in SUBSET Seq(Token),
         \A m \in a.names : ~ Has(m, Both),
         NEW c1, NEW c2, NEW j \in Majors, NEW n \in Minors,
         a.word \in Major => c1 = j, a.word \in Minor => c2 = n,
         NEW trump, a.word = "Trump" => trump \in Suit, NEW h
  PROVE  (\A w \in substituteBothMacros(Chosen(a.word, c1, c2)) :
            ReadWord(IF w = "Trump" THEN trump ELSE w, UNION {Variants(m) : m \in a.names}, h))
         <=> Accepts(a, j, n, trump, h)
<1> DEFINE word == a.word  N == UNION {Variants(m) : m \in a.names}
           W == substituteBothMacros(Chosen(word, c1, c2))
           V == SuitsOf(word, j, n, trump)
<1>1. CASE word = "ref"
  <2>1. W = {"ref"} BY <1>1 DEF substituteBothMacros, Chosen
  <2>2. \A m \in a.names : Instances(m) = Variants(m) BY VariantsAreInstances
  <2>3. (\E m \in a.names : Instances(m) \cap h[2] # {}) <=> N \cap h[2] # {} BY <2>2
  <2>4. Accepts(a, j, n, trump, h) <=> N \cap h[2] # {} BY <1>1, <2>3 DEF Accepts
  <2> HIDE DEF W, N
  <2>5. (\A w \in W : ReadWord(IF w = "Trump" THEN trump ELSE w, N, h)) <=> N \cap h[2] # {}
    BY <2>1 DEF ReadWord
  <2>6. QED BY <2>4, <2>5 DEF W, N
<1>2. CASE word # "ref"
  <2>1. V = {IF w = "Trump" THEN trump ELSE w : w \in W}
    <3>1. CASE word = "Maj" BY <3>1 DEF SuitsOf, substituteBothMacros, Chosen, Majors
    <3>2. CASE word = "OMaj"
      BY <3>2 DEF SuitsOf, substituteBothMacros, Chosen, complementSuit, Majors
    <3>3. CASE word = "Min" BY <3>3 DEF SuitsOf, substituteBothMacros, Chosen, Minors
    <3>4. CASE word = "OMin"
      BY <3>4 DEF SuitsOf, substituteBothMacros, Chosen, complementSuit, Minors
    <3>5. CASE word = "BMaj" BY <3>5 DEF SuitsOf, substituteBothMacros, Chosen, Majors
    <3>6. CASE word = "BMin" BY <3>6 DEF SuitsOf, substituteBothMacros, Chosen, Minors
    <3>7. CASE word = "Trump" BY <3>7 DEF SuitsOf, substituteBothMacros, Chosen
    <3>8. CASE word \in Suit BY <3>8 DEF SuitsOf, substituteBothMacros, Chosen
    <3>9. QED BY <1>2, <3>1, <3>2, <3>3, <3>4, <3>5, <3>6, <3>7, <3>8 DEF Word
  <2>2. "ref" \notin V
    <3>1. V \subseteq Suit BY <1>2 DEF SuitsOf, Majors, Minors, Word
    <3>2. QED BY <3>1
  <2>3. Accepts(a, j, n, trump, h) <=> V \subseteq h[1] BY <1>2 DEF Accepts
  <2> HIDE DEF W, V, N
  <2>4. (\A w \in W : ReadWord(IF w = "Trump" THEN trump ELSE w, N, h))
        <=> \A v \in V : ReadWord(v, N, h)
    BY <2>1
  <2>5. (\A v \in V : ReadWord(v, N, h)) <=> V \subseteq h[1] BY <2>2 DEF ReadWord
  <2>6. QED BY <2>3, <2>4, <2>5 DEF W, N
<1>3. QED BY <1>1, <1>2

LEMMA AltMeans ==
  ASSUME NEW body,
         \A k \in DOMAIN body : /\ body[k].word \in Word /\ body[k].names \in SUBSET Seq(Token)
                                /\ \A m \in body[k].names : ~ Has(m, Both),
         NEW c1, NEW c2, NEW j \in Majors, NEW n \in Minors,
         \A k \in DOMAIN body : (body[k].word \in Major => c1 = j)
                                /\ (body[k].word \in Minor => c2 = n),
         NEW trump, \A k \in DOMAIN body : body[k].word = "Trump" => trump \in Suit, NEW h
  PROVE  (\A x \in substituteBodyChoice(body, c1, c2) : ReadAtom(x, trump, h))
         <=> \A k \in DOMAIN body : Accepts(body[k], j, n, trump, h)
<1> DEFINE W(k) == substituteBothMacros(Chosen(body[k].word, c1, c2))
           N(k) == UNION {Variants(m) : m \in body[k].names}
           Z(k) == {[word |-> w, names |-> N(k)] : w \in W(k)}
           Reads(w, k) == ReadWord(IF w = "Trump" THEN trump ELSE w, N(k), h)
<1>1. substituteBodyChoice(body, c1, c2) = UNION {Z(k) : k \in DOMAIN body}
  BY DEF substituteBodyChoice
<1>2. \A k \in DOMAIN body : (\A w \in W(k) : Reads(w, k)) <=> Accepts(body[k], j, n, trump, h)
  <2> TAKE k \in DOMAIN body
  <2> DEFINE a == body[k]
  <2>1. /\ a.word \in Word /\ a.names \in SUBSET Seq(Token) /\ \A m \in a.names : ~ Has(m, Both)
        /\ a.word \in Major => c1 = j
        /\ a.word \in Minor => c2 = n
        /\ a.word = "Trump" => trump \in Suit
    OBVIOUS
  <2> HIDE DEF a
  <2>2. (\A w \in substituteBothMacros(Chosen(a.word, c1, c2)) :
           ReadWord(IF w = "Trump" THEN trump ELSE w, UNION {Variants(m) : m \in a.names}, h))
        <=> Accepts(a, j, n, trump, h)
    BY <2>1, WordMeans
  <2>3. QED BY <2>2 DEF a
<1> HIDE DEF W, N
<1>3. \A k, w : [word |-> w, names |-> N(k)].word = w /\ [word |-> w, names |-> N(k)].names = N(k)
  OBVIOUS
<1>4. \A k, w : ReadAtom([word |-> w, names |-> N(k)], trump, h) <=> Reads(w, k)
  BY <1>3 DEF ReadAtom
<1> HIDE DEF Reads
<1>5. \A k : (\A x \in Z(k) : ReadAtom(x, trump, h)) <=> \A w \in W(k) : Reads(w, k) BY <1>4
<1> HIDE DEF Z
<1>6. QED BY <1>1, <1>2, <1>5

(* The choices for the body are those its meaning leaves open. *)
ChoiceFits(s, c, j, n) ==
  (BodyHas(s, Major) => c[1] = j) /\ (BodyHas(s, Minor) => c[2] = n)

OpenMajors(d) == IF d.major = "-" THEN Majors ELSE {d.major}
OpenMinors(d) == IF d.minor = "-" THEN Minors ELSE {d.minor}

LEMMA ChoicesMeet ==
  ASSUME NEW file \in Seq(Source), Expandable(file), NEW d \in All(file)
  PROVE  LET s == Stat(file, d)  C == BodyChoices(s, d.major, d.minor)
         IN  /\ OpenMajors(d) \subseteq Majors /\ OpenMinors(d) \subseteq Minors
             /\ \A c \in C : \E j \in OpenMajors(d), n \in OpenMinors(d) : ChoiceFits(s, c, j, n)
             /\ \A j \in OpenMajors(d), n \in OpenMinors(d) : \E c \in C : ChoiceFits(s, c, j, n)
<1> DEFINE s == Stat(file, d)  C == BodyChoices(s, d.major, d.minor)
           A == IF FreeInBody(s, Major) THEN {"S", "H"} ELSE {d.major}
           B == IF FreeInBody(s, Minor) THEN {"D", "C"} ELSE {d.minor}
<1>1. /\ d.major \in {"S", "H", "-"} /\ d.minor \in {"D", "C", "-"}
      /\ d.major = "-" <=> ~ NameHas(s, Major)
      /\ d.minor = "-" <=> ~ NameHas(s, Minor)
  BY AllChoices
<1> HIDE DEF s
<1>2. OpenMajors(d) \subseteq Majors /\ OpenMinors(d) \subseteq Minors
  BY <1>1 DEF OpenMajors, OpenMinors, Majors, Minors
<1>3. /\ \A a \in A : \E j \in OpenMajors(d) : BodyHas(s, Major) => a = j
      /\ \A j \in OpenMajors(d) : \E a \in A : BodyHas(s, Major) => a = j
  BY <1>1 DEF OpenMajors, Majors, FreeInBody
<1>4. /\ \A b \in B : \E n \in OpenMinors(d) : BodyHas(s, Minor) => b = n
      /\ \A n \in OpenMinors(d) : \E b \in B : BodyHas(s, Minor) => b = n
  BY <1>1 DEF OpenMinors, Minors, FreeInBody
<1>5. C = A \X B BY DEF BodyChoices
<1> HIDE DEF A, B, C
<1>6. ASSUME NEW c \in C
      PROVE  \E j \in OpenMajors(d), n \in OpenMinors(d) : ChoiceFits(s, c, j, n)
  <2>1. c[1] \in A /\ c[2] \in B BY <1>5, <1>6
  <2>2. PICK j \in OpenMajors(d) : BodyHas(s, Major) => c[1] = j BY <1>3, <2>1
  <2>3. PICK n \in OpenMinors(d) : BodyHas(s, Minor) => c[2] = n BY <1>4, <2>1
  <2>4. QED BY <2>2, <2>3 DEF ChoiceFits
<1>7. ASSUME NEW j \in OpenMajors(d), NEW n \in OpenMinors(d)
      PROVE  \E c \in C : ChoiceFits(s, c, j, n)
  <2>1. PICK a \in A : BodyHas(s, Major) => a = j BY <1>3
  <2>2. PICK b \in B : BodyHas(s, Minor) => b = n BY <1>4
  <2>3. <<a, b>> \in C /\ <<a, b>>[1] = a /\ <<a, b>>[2] = b BY <1>5, <2>1, <2>2
  <2>4. ChoiceFits(s, <<a, b>>, j, n) BY <2>1, <2>2, <2>3 DEF ChoiceFits
  <2>5. QED BY <2>3, <2>4
<1>8. QED BY <1>2, <1>6, <1>7 DEF s, C

(* Reading what a definition was resolved to is reading what was written,  *)
(* with Trump for what it is.                                              *)
Atomic(alts)  == \A alt \in alts : \A x \in alt : \E w, q : x = [word |-> w, names |-> q]
Trumped(alts) == \E alt \in alts : \E x \in alt : x.word = "Trump"

ReadWith(file, alts, trump) ==
  {h \in Hands(file) : \E alt \in alts : \A x \in alt : ReadAtom(x, trump, h)}

LEMMA ReadResolved ==
  ASSUME NEW file, NEW alts, NEW trump, NEW new, Atomic(alts),
         Trumped(alts) => new = substituteTrumpInBody(alts, trump),
         ~ Trumped(alts) => new = alts
  PROVE  Read(file, new) = ReadWith(file, alts, trump)
<1> DEFINE Sub(x) == [x EXCEPT !.word = IF @ = "Trump" THEN trump ELSE @]
           Reads(x, h) == IF x.word = "ref" THEN x.names \cap h[2] # {} ELSE x.word \in h[1]
<1>1. ASSUME NEW alt \in alts, NEW x \in alt, NEW h
      PROVE  /\ Reads(Sub(x), h) <=> ReadAtom(x, trump, h)
             /\ x.word # "Trump" => (Reads(x, h) <=> ReadAtom(x, trump, h))
  <2>1. PICK w, q : x = [word |-> w, names |-> q] BY DEF Atomic
  <2> DEFINE v == IF x.word = "Trump" THEN trump ELSE x.word
  <2>2. Sub(x) = [x EXCEPT !.word = v] OBVIOUS
  <2> HIDE DEF v
  <2>3. [x EXCEPT !.word = v].word = v /\ [x EXCEPT !.word = v].names = x.names BY <2>1
  <2>4. Sub(x).word = v /\ Sub(x).names = x.names BY <2>2, <2>3
  <2>5. ReadAtom(x, trump, h) <=> ReadWord(v, x.names, h) BY DEF ReadAtom, v
  <2>6. x.word # "Trump" => v = x.word BY DEF v
  <2> HIDE DEF Sub
  <2>7. QED BY <2>4, <2>5, <2>6 DEF ReadWord
<1>2. CASE Trumped(alts)
  <2>0. new = substituteTrumpInBody(alts, trump) BY <1>2
  <2>1. substituteTrumpInBody(alts, trump) = {{Sub(x) : x \in alt} : alt \in alts}
    BY DEF substituteTrumpInBody
  <2> HIDE DEF Sub, Reads
  <2>2. \A h : (\E alt \in {{Sub(x) : x \in alt} : alt \in alts} : \A y \in alt : Reads(y, h))
               <=> \E alt \in alts : \A x \in alt : Reads(Sub(x), h)
    <3> DEFINE Im(alt) == {Sub(x) : x \in alt}
    <3>1. \A h, alt : (\A y \in Im(alt) : Reads(y, h)) <=> \A x \in alt : Reads(Sub(x), h)
      OBVIOUS
    <3> HIDE DEF Im
    <3>2. \A h : (\E alt \in {Im(b) : b \in alts} : \A y \in alt : Reads(y, h))
                 <=> \E b \in alts : \A y \in Im(b) : Reads(y, h)
      OBVIOUS
    <3>3. \A h : (\E alt \in {Im(b) : b \in alts} : \A y \in alt : Reads(y, h))
                 <=> \E b \in alts : \A x \in b : Reads(Sub(x), h)
      BY <3>1, <3>2
    <3>4. QED BY <3>3 DEF Im
  <2>3. \A h : (\E alt \in alts : \A x \in alt : Reads(Sub(x), h))
               <=> \E alt \in alts : \A x \in alt : ReadAtom(x, trump, h)
    BY <1>1
  <2>4. Read(file, substituteTrumpInBody(alts, trump))
        = {h \in Hands(file) : \E alt \in substituteTrumpInBody(alts, trump) :
             \A y \in alt : Reads(y, h)}
    BY DEF Read, Reads
  <2>5. QED BY <2>0, <2>1, <2>2, <2>3, <2>4 DEF ReadWith
<1>3. CASE ~ Trumped(alts)
  <2>0. new = alts BY <1>3
  <2>1. Read(file, alts) = {h \in Hands(file) : \E alt \in alts : \A x \in alt : Reads(x, h)}
    BY DEF Read
  <2> HIDE DEF Sub, Reads
  <2>2. \A h : (\E alt \in alts : \A x \in alt : Reads(x, h))
               <=> \E alt \in alts : \A x \in alt : ReadAtom(x, trump, h)
    BY <1>1, <1>3 DEF Trumped
  <2>3. QED BY <2>0, <2>1, <2>2 DEF ReadWith
<1>4. QED BY <1>2, <1>3

(* What is written of a definition. *)
LEMMA WrittenParts ==
  ASSUME NEW file, NEW d
  PROVE  LET w == Written(file, d)  r == Resolution(w)  s == Stat(file, d)
         IN  /\ w.name = d.name /\ w.op = s.op
             /\ w.alts = {substituteBodyChoice(s.body, c[1], c[2]) :
                           c \in BodyChoices(s, d.major, d.minor)}
             /\ r.op = w.op /\ r.stuck = Stuck(s)
             /\ r.name = [d.name EXCEPT !.tokens = WithoutMarks(@)]
             /\ r.alts = IF MentionsTrump(w) THEN substituteTrumpInBody(w.alts, anchor(d.name.tokens))
                                             ELSE w.alts
<1> DEFINE w == Written(file, d)  s == Stat(file, d)
           A == {substituteBodyChoice(s.body, c[1], c[2]) :
                  c \in BodyChoices(s, d.major, d.minor)}
<1>1. \E a : w = [name |-> d.name, op |-> s.op, alts |-> A, attach |-> a, stuck |-> Stuck(s)]
  <2> DEFINE g == Generated(s, d.major, d.minor)  z == Stuck(s)
  <2>1. \E m, a : g = [name |-> m, op |-> s.op, alts |-> A, attach |-> a, stuck |-> z]
    BY DEF Generated, Stuck
  <2> HIDE DEF A, s, z
  <2>2. \E a : w = [[g EXCEPT !.attach = a] EXCEPT !.name = d.name] BY DEF Written, Bare, s
  <2> HIDE DEF g, w
  <2>3. PICK m, a : g = [name |-> m, op |-> s.op, alts |-> A, attach |-> a, stuck |-> z]
    BY <2>1
  <2>4. PICK b : w = [[g EXCEPT !.attach = b] EXCEPT !.name = d.name] BY <2>2
  <2>5. [g EXCEPT !.attach = b] = [name |-> m, op |-> s.op, alts |-> A, attach |-> b, stuck |-> z]
    BY <2>3
  <2>6. w = [name |-> d.name, op |-> s.op, alts |-> A, attach |-> b, stuck |-> z]
    BY <2>4, <2>5
  <2>7. QED BY <2>6 DEF z
<1> HIDE DEF w, A
<1>2. w.name = d.name /\ w.op = s.op /\ w.alts = A /\ w.stuck = Stuck(s) BY <1>1
<1>3. Trump(w) = anchor(d.name.tokens) BY <1>2 DEF Trump
<1> DEFINE new == IF MentionsTrump(w) THEN substituteTrumpInBody(w.alts, Trump(w)) ELSE w.alts
           name == [d.name EXCEPT !.tokens = WithoutMarks(@)]
<1>4. Resolution(w) = [w EXCEPT !.name.tokens = WithoutMarks(@), !.alts = new] BY DEF Resolution
<1> HIDE DEF new
<1>5. Resolution(w).op = w.op /\ Resolution(w).stuck = w.stuck /\ Resolution(w).name = name /\ Resolution(w).alts = new
  BY <1>1, <1>2, <1>4
<1>6. QED BY <1>2, <1>3, <1>5 DEF w, A, new

LEMMA MeansTheSame ==
  ASSUME NEW file \in Seq(Source), Expandable(file), NEW d \in All(file),
         Resolvable(Written(file, d))
  PROVE  Read(file, Resolution(Written(file, d)).alts) = Meaning(file, d)
<1> DEFINE w == Written(file, d)  s == Stat(file, d)  body == s.body
           C == BodyChoices(s, d.major, d.minor)  trump == anchor(d.name.tokens)
<1>1. d.via \in Seq(DOMAIN file) /\ Len(d.via) >= 1 /\ d.name.tokens \in Seq(Token) BY AllShape
<1>2. d.via[Len(d.via)] \in DOMAIN file BY <1>1
<1>3. s \in Source /\ ~ NamesBoth(s) BY <1>2, StatementName DEF Stat, Expandable
<1>4. \A k \in DOMAIN body : /\ body[k].word \in Word /\ body[k].names \in SUBSET Seq(Token)
                              /\ \A m \in body[k].names : ~ Has(m, Both)
  <2>1. body \in Seq(Atom) BY <1>3 DEF Source
  <2>2. \A k \in DOMAIN body : body[k] \in Atom BY <2>1
  <2>3. QED BY <1>3, <2>2 DEF Atom, NamesBoth
<1>5. /\ w.alts = {substituteBodyChoice(body, c[1], c[2]) : c \in C}
      /\ Resolution(w).alts = IF MentionsTrump(w) THEN substituteTrumpInBody(w.alts, trump) ELSE w.alts
  BY WrittenParts
<1>6. Atomic(w.alts) BY <1>5 DEF Atomic, substituteBodyChoice
<1>7. (\E k \in DOMAIN body : body[k].word = "Trump") => trump \in Suit
  <2>1. (\E k \in DOMAIN body : body[k].word = "Trump") => Marked(d.name.tokens) # {}
    BY ResolvableIs
  <2>2. \A i \in Marked(d.name.tokens) : d.name.tokens[i].strain \in Suit BY ResolvableIs
  <2>3. Marked(d.name.tokens) # {} => trump \in Suit BY <1>1, <2>2, LastMark DEF anchor
  <2>4. QED BY <2>1, <2>3
<1> DEFINE alts == w.alts
<1>8. Read(file, Resolution(w).alts) = ReadWith(file, alts, trump)
  <2> DEFINE new == Resolution(w).alts
  <2>1. /\ Trumped(alts) => new = substituteTrumpInBody(alts, trump)
        /\ ~ Trumped(alts) => new = alts
    BY <1>5 DEF MentionsTrump, Trumped
  <2>2. Atomic(alts) BY <1>6
  <2> HIDE DEF trump, w, alts, new
  <2>3. Read(file, new) = ReadWith(file, alts, trump) BY <2>1, <2>2, ReadResolved
  <2>4. QED BY <2>3 DEF new
<1>9. ASSUME NEW c \in C, NEW j \in Majors, NEW n \in Minors, ChoiceFits(s, c, j, n), NEW h
      PROVE  (\A x \in substituteBodyChoice(body, c[1], c[2]) : ReadAtom(x, trump, h))
             <=> \A k \in DOMAIN body : Accepts(body[k], j, n, trump, h)
  <2> DEFINE c1 == c[1]  c2 == c[2]
  <2>1. \A k \in DOMAIN body : (body[k].word \in Major => c1 = j)
                               /\ (body[k].word \in Minor => c2 = n)
    BY <1>9 DEF ChoiceFits, BodyHas
  <2>2. \A k \in DOMAIN body : body[k].word = "Trump" => trump \in Suit BY <1>7
  <2> HIDE DEF c1, c2, trump, body
  <2>3. (\A x \in substituteBodyChoice(body, c1, c2) : ReadAtom(x, trump, h))
        <=> \A k \in DOMAIN body : Accepts(body[k], j, n, trump, h)
    BY <1>4, <2>1, <2>2, AltMeans
  <2>4. QED BY <2>3 DEF c1, c2
<1>10. /\ OpenMajors(d) \subseteq Majors /\ OpenMinors(d) \subseteq Minors
       /\ \A c \in C : \E j \in OpenMajors(d), n \in OpenMinors(d) : ChoiceFits(s, c, j, n)
       /\ \A j \in OpenMajors(d), n \in OpenMinors(d) : \E c \in C : ChoiceFits(s, c, j, n)
  BY ChoicesMeet
<1>11. Meaning(file, d)
       = {h \in Hands(file) : \E j \in OpenMajors(d), n \in OpenMinors(d) :
            \A k \in DOMAIN body : Accepts(body[k], j, n, trump, h)}
  BY DEF Meaning, OpenMajors, OpenMinors
<1> HIDE DEF s, body, C, trump, w
<1>12. ASSUME NEW h
       PROVE  (\E alt \in alts : \A x \in alt : ReadAtom(x, trump, h))
              <=> \E j \in OpenMajors(d), n \in OpenMinors(d) :
                    \A k \in DOMAIN body : Accepts(body[k], j, n, trump, h)
  <2>1. (\E alt \in alts : \A x \in alt : ReadAtom(x, trump, h))
        <=> \E c \in C : \A x \in substituteBodyChoice(body, c[1], c[2]) : ReadAtom(x, trump, h)
    BY <1>5
  <2>2. QED BY <1>9, <1>10, <2>1
<1>13. QED BY <1>8, <1>11, <1>12 DEF w, ReadWith

(* A copied definition is made by an entry, under one that attaches it.    *)
LEMMA CopiedEntry ==
  ASSUME NEW file \in Seq(Source), Expandable(file), NEW d \in All(file), Copied(d)
  PROVE  \E e \in DOMAIN file : file[e].name.kind = "entry" /\ Stat(file, d) = file[e]
<1> DEFINE S == {c \in All(file) : Copied(c) =>
                   \E e \in DOMAIN file : file[e].name.kind = "entry" /\ Stat(file, c) = file[e]}
<1>1. Typed(file) \subseteq S BY TypedShape
<1>2. ASSUME NEW b \in S \cap All(file) PROVE EntriesUnder(file, b) \subseteq S
  <2> SUFFICES ASSUME NEW c \in EntriesUnder(file, b) PROVE c \in S OBVIOUS
  <2>1. PICK e \in Entries(file, Attaches(file, b)) : c = Under(file, b, e) BY DEF EntriesUnder
  <2>2. e \in DOMAIN file /\ file[e].name.kind = "entry" BY DEF Entries
  <2>3. Stat(file, c) = file[e] BY <2>1, <2>2, AllShape, StatUnder
  <2>4. c \in All(file) BY AllHolds
  <2>5. QED BY <2>2, <2>3, <2>4
<1> HIDE DEF S
<1>3. d \in S BY <1>1, <1>2, AllInduction
<1>4. QED BY <1>3 DEF S

-----------------------------------------------------------------------------
(* The passes together.                                                    *)
MeaningInv ==
  /\ ExpandText /\ CollectText /\ GraftText /\ ResolveText /\ FinalText
  /\ phase = "fatal" => Mistaken

LEMMA Elsewhere ==
  /\ phase' \notin {"split", "expand"} => ExpandText'
  /\ phase' # "collect" => CollectText'
  /\ phase' # "graft" => GraftText'
  /\ phase' # "resolve" => ResolveText'
  /\ phase' \notin {"parsed", "syntax error"} => FinalText'
<1>1. phase' \notin {"split", "expand"} => ExpandText' BY DEF ExpandText
<1>2. phase' # "collect" => CollectText' BY DEF CollectText
<1>3. phase' # "graft" => GraftText' BY DEF GraftText
<1>4. phase' # "resolve" => ResolveText' BY DEF ResolveText
<1>5. phase' \notin {"parsed", "syntax error"} => FinalText' BY DEF FinalText
<1>6. QED BY <1>1, <1>2, <1>3, <1>4, <1>5

LEMMA InitialMeaning == Init => MeaningInv
<1> SUFFICES ASSUME Init PROVE MeaningInv OBVIOUS
<1>1. phase = "split" /\ at = 1 /\ NothingGrafted BY DEF Init, NothingGrafted
<1>2. ExpandText BY <1>1 DEF ExpandText
<1>3. CollectText /\ GraftText /\ ResolveText /\ FinalText
  BY <1>1 DEF CollectText, GraftText, ResolveText, FinalText
<1>4. QED BY <1>1, <1>2, <1>3 DEF MeaningInv

LEMMA StutterMeaning == ASSUME MeaningInv, UNCHANGED vars PROVE MeaningInv'
<1>1. UNCHANGED <<source, phase, at, fork, text, out, templates, existingNames, referenced, frames>>
  BY DEF vars, graftVars
<1>2. ExpandText' BY <1>1 DEF MeaningInv, ExpandText, NothingGrafted
<1>3. CollectText'
  <2>1. \A o : CollectState(o) => CollectState(o)' BY <1>1 DEF CollectState
  <2>2. CollectText BY DEF MeaningInv
  <2>3. QED BY <1>1, <2>1, <2>2 DEF CollectText
<1>4. GraftText'
  <2>1. \A o, E : GraftLists(o, E) => GraftLists(o, E)' BY <1>1 DEF GraftLists
  <2>2. \A o, E, P, D : GraftState(o, E, P, D) => GraftState(o, E, P, D)'
    <3> TAKE o, E, P, D
    <3>1. Came(o, P) => Came(o, P)' BY <1>1 DEF Came
    <3>2. WrittenAre(P) => WrittenAre(P)' BY <1>1 DEF WrittenAre
    <3>3. Stacked(P, D) => Stacked(P, D)' BY <1>1 DEF Stacked
    <3>4. Pending(E, P, D) => Pending(E, P, D)' BY <1>1 DEF Pending, Waiting
    <3>5. GraftedLawfully(source, P) => GraftedLawfully(source, P)' BY <1>1
    <3>6. QED BY <3>1, <3>2, <3>3, <3>4, <3>5 DEF GraftState
  <2>3. GraftText BY DEF MeaningInv
  <2>4. QED BY <1>1, <2>1, <2>2, <2>3 DEF GraftText
<1>5. ResolveText' BY <1>1 DEF MeaningInv, ResolveText, TemplatesAre
<1>6. FinalText' BY <1>1 DEF MeaningInv, FinalText, TemplatesAre
<1>7. (phase = "fatal" => Mistaken)' BY <1>1, MistakeStands DEF MeaningInv
<1>8. QED BY <1>2, <1>3, <1>4, <1>5, <1>6, <1>7 DEF MeaningInv

LEMMA NextMeaning == ASSUME IInv, MeaningInv, Next PROVE MeaningInv'
<1>1. ExpandText /\ CollectText /\ GraftText /\ ResolveText BY DEF MeaningInv
<1>2. CASE Split BY <1>1, <1>2, SplitText, Elsewhere DEF MeaningInv
<1>3. CASE GenerateForks BY <1>1, <1>3, GenerateForksText, Elsewhere DEF MeaningInv
<1>4. CASE WriteFork BY <1>1, <1>4, WriteForkText, Elsewhere DEF MeaningInv
<1>5. CASE Expanded BY <1>1, <1>5, ExpandedText, Elsewhere DEF MeaningInv
<1>6. CASE CollectEntry BY <1>1, <1>6, CollectEntryText, Elsewhere DEF MeaningInv
<1>7. CASE CollectOther BY <1>1, <1>7, CollectOtherText, Elsewhere DEF MeaningInv
<1>8. CASE Collected BY <1>1, <1>8, CollectedText, Elsewhere DEF MeaningInv
<1>9. CASE GraftStatement BY <1>1, <1>9, GraftStatementText, Elsewhere DEF MeaningInv
<1>10. CASE GraftEntry BY <1>1, <1>10, GraftEntryText, Elsewhere DEF MeaningInv
<1>11. CASE GraftReturns BY <1>1, <1>11, GraftReturnsText, Elsewhere DEF MeaningInv
<1>12. CASE Grafted BY <1>1, <1>12, GraftedText, Elsewhere DEF MeaningInv
<1>13. CASE ResolveStatement BY <1>1, <1>13, ResolveStatementText, Elsewhere DEF MeaningInv
<1>14. CASE Resolved BY <1>1, <1>14, ResolvedText, Elsewhere DEF MeaningInv
<1>15. QED BY <1>2, <1>3, <1>4, <1>5, <1>6, <1>7, <1>8, <1>9, <1>10, <1>11, <1>12, <1>13, <1>14
  DEF Next

LEMMA SpecMeans == Spec => [](IInv /\ MeaningInv)
<1>1. Init => IInv /\ MeaningInv BY InitialText, InitialMeaning
<1>2. IInv /\ MeaningInv /\ [Next]_vars => (IInv /\ MeaningInv)'
  <2>1. IInv /\ [Next]_vars => IInv' BY TextStep
  <2>2. IInv /\ MeaningInv /\ Next => MeaningInv' BY NextMeaning
  <2>3. MeaningInv /\ UNCHANGED vars => MeaningInv' BY StutterMeaning
  <2>4. QED BY <2>1, <2>2, <2>3
<1>3. QED BY <1>1, <1>2, PTL DEF Spec

LEMMA LawfulText ==
  ASSUME IInv, Lawfully(source)
  PROVE  NamesAreLawful /\ GraftsAreLawful /\ ~ BareAsk
<1>1. /\ Expandable(source) /\ EntriesLawful(source) /\ GraftedLawfully(source, All(source))
      /\ Defined = All(source) /\ source \in Seq(Source)
  BY AllDefined DEF Lawfully, IInv, TypeOK
<1>2. NamesAreLawful
  <2> SUFFICES ASSUME NEW i \in DOMAIN source
               PROVE  /\ ~ NamesBoth(source[i]) /\ checkAnchorOrder(source[i])
                      /\ source[i].name.kind = "entry" =>
                           /\ source[i].op \notin {":&", ":|"} /\ source[i].name.tokens # <<>>
                           /\ isWellFormedConcreteBidSequence(source[i].name.tokens)
                           /\ \A k \in DOMAIN source : source[k].name = source[i].name => k = i
                      /\ source[i].name.kind = "bid" /\ ~ Has(source[i].name.tokens, Macro)
                           => isLegalBidSequence(source[i].name.tokens)
    BY DEF NamesAreLawful
  <2>1. QED BY <1>1 DEF Expandable, EntriesLawful, EntryLawful
<1>3. ASSUME NEW d \in All(source), Attaches(source, d) # NoTemplate
      PROVE  d.name.kind = "bid" /\ Entries(source, Attaches(source, d)) # {}
  <2>1. Entries(source, Attaches(source, d)) # {} BY <1>1, <1>3 DEF GraftedLawfully
  <2>2. PICK e \in Entries(source, Attaches(source, d)) : TRUE BY <2>1
  <2> DEFINE c == Under(source, d, e)
  <2>3. c \in All(source) BY AllHolds DEF EntriesUnder
  <2>4. d.via \in Seq(DOMAIN source) /\ Len(d.via) >= 1 /\ e \in DOMAIN source
        /\ \E k, f, q : d.name = [kind |-> k, of |-> f, tokens |-> q]
    BY <1>1, AllShape DEF Entries
  <2>5. c.name.kind = d.name.kind BY <2>4 DEF Under
  <2>6. Copied(c)
    <3>1. Len(c.via) = Len(d.via) + 1 BY <2>4, StatUnder
    <3> HIDE DEF c
    <3>2. Len(d.via) \in Nat /\ Len(d.via) >= 1 BY <2>4
    <3>3. QED BY <3>1, <3>2 DEF Copied
  <2> HIDE DEF c
  <2>7. c.name.kind = "bid" BY <1>1, <2>3, <2>6 DEF GraftedLawfully
  <2>8. QED BY <2>1, <2>5, <2>7
<1>4. \A d \in All(source) : isLegalBidSequence(d.name.tokens) BY <1>1 DEF GraftedLawfully
<1>5. \A c, d \in All(source) : c.name = d.name /\ Copied(d) => c.via = d.via
  BY <1>1 DEF GraftedLawfully
<1>6. \A c, d \in All(source) : Node(c) = Node(d) /\ Copied(d) => c.via = d.via \/ DifferInMarks(c, d)
  BY <1>5 DEF DifferInMarks
<1>7. ~ BareAsk BY <1>1 DEF Expandable, BareAsk
<1>8. QED BY <1>1, <1>2, <1>3, <1>4, <1>6, <1>7 DEF GraftsAreLawful

-----------------------------------------------------------------------------
(* The theorem: the text that the parser reads defines exactly the names   *)
(* the file means, each with the rule the file means by it - whatever was  *)
(* forked, chosen, copied and resolved on the way (read_rules()).          *)
THEOREM TextMeansWhatTheFileDoes == Spec => []TextMeansSource
<1>1. ASSUME IInv, MeaningInv PROVE TextMeansSource
  <2> SUFFICES ASSUME phase = "parsed"
               PROVE  {<<text[i].name, text[i].op, Read(source, text[i].alts)>> :
                      i \in DOMAIN text}
                      = {<<Node(d), IF Copied(d) THEN ":=" ELSE Stat(source, d).op, Meaning(source, d)>> :
                           d \in Defined}
    BY DEF TextMeansSource
  <2> DEFINE Seen(s) == <<s.name, s.op, Read(source, s.alts)>>
             R(d) == Resolution(Written(source, d))
             Meant(d) == <<Node(d), IF Copied(d) THEN ":=" ELSE Stat(source, d).op, Meaning(source, d)>>
  <2>1. /\ Lawfully(source) /\ {text[p] : p \in DOMAIN text} = {R(d) : d \in All(source)}
        /\ \A d \in All(source) : Resolvable(Written(source, d))
    BY <1>1 DEF MeaningInv, FinalText
  <2>2. Defined = All(source) BY <1>1, <2>1, AllDefined
  <2>3. Expandable(source) /\ EntriesLawful(source) /\ source \in Seq(Source)
    BY <1>1, <2>1 DEF Lawfully, IInv, TypeOK
  <2>4. ASSUME NEW d \in All(source) PROVE Seen(R(d)) = Meant(d)
    <3>1. R(d).name = Node(d) /\ R(d).op = Stat(source, d).op BY WrittenParts DEF Node
    <3>2. Read(source, R(d).alts) = Meaning(source, d) BY <2>1, <2>3, MeansTheSame
    <3>3. Copied(d) => Stat(source, d).op = ":="
      BY <2>3, CopiedEntry DEF EntriesLawful, EntryLawful
    <3> HIDE DEF R
    <3>4. QED BY <3>1, <3>2, <3>3
  <2> HIDE DEF Seen, R, Meant
  <2>5. {Seen(text[i]) : i \in DOMAIN text} = {Seen(R(d)) : d \in All(source)} BY <2>1
  <2>6. {Seen(R(d)) : d \in All(source)} = {Meant(d) : d \in Defined} BY <2>2, <2>4
  <2>7. QED BY <2>5, <2>6 DEF Seen, Meant
<1>2. QED BY <1>1, SpecMeans, PTL

(* What the parser cannot read in the text is what cannot be read in the   *)
(* file: neither the forks nor the passes after them lose or make a mark.  *)
LEMMA MarkedVariants ==
  ASSUME NEW m \in Seq(Token)
  PROVE  (\E v \in Variants(m) : Marked(v) # {}) <=> Marked(m) # {}
<1>1. ASSUME NEW j, NEW n PROVE Marked(substituteNameTokens(m, j, n)) = Marked(m)
  <2> DEFINE v == substituteNameTokens(m, j, n)
  <2>1. DOMAIN v = DOMAIN m BY DEF substituteNameTokens
  <2>2. ASSUME NEW i \in DOMAIN m PROVE v[i].trump = m[i].trump
    <3>1. m[i] \in Token OBVIOUS
    <3>2. v[i] = [m[i] EXCEPT !.strain = Chosen(m[i].strain, j, n)] BY DEF substituteNameTokens
    <3> DEFINE x == Chosen(m[i].strain, j, n)
    <3> HIDE DEF x, v
    <3>3. QED BY <3>1, <3>2 DEF Token, x
  <2> HIDE DEF v
  <2>3. Marked(v) = Marked(m) BY <2>1, <2>2 DEF Marked
  <2>4. QED BY <2>3 DEF v
<1>2. Variants(m) # {}
  <2>1. PICK j \in MajorChoices(Has(m, Major)) : TRUE BY DEF MajorChoices
  <2>2. PICK n \in MinorChoices(Has(m, Minor)) : TRUE BY DEF MinorChoices
  <2>3. substituteNameTokens(m, j, n) \in Variants(m) BY DEF Variants
  <2>4. QED BY <2>3
<1>3. \A v \in Variants(m) : Marked(v) = Marked(m) BY <1>1 DEF Variants
<1>4. QED BY <1>2, <1>3

LEMMA MarkedChoice ==
  ASSUME NEW body, \A k \in DOMAIN body : body[k].names \subseteq Seq(Token), NEW j, NEW n
  PROVE  (\E x \in substituteBodyChoice(body, j, n) : \E v \in x.names : Marked(v) # {})
         <=> \E k \in DOMAIN body : \E m \in body[k].names : Marked(m) # {}
<1> DEFINE W(k) == substituteBothMacros(Chosen(body[k].word, j, n))
           N(k) == UNION {Variants(m) : m \in body[k].names}
           Z(k) == {[word |-> w, names |-> N(k)] : w \in W(k)}
<1>1. substituteBodyChoice(body, j, n) = UNION {Z(k) : k \in DOMAIN body}
  BY DEF substituteBodyChoice
<1>2. ASSUME NEW k \in DOMAIN body
      PROVE  (\E v \in N(k) : Marked(v) # {}) <=> \E m \in body[k].names : Marked(m) # {}
  <2>1. \A m \in body[k].names : (\E v \in Variants(m) : Marked(v) # {}) <=> Marked(m) # {}
    BY MarkedVariants
  <2>2. QED BY <2>1
<1>3. \A k : W(k) # {} BY DEF substituteBothMacros
<1> HIDE DEF W, N
<1>4. \A k : \A x \in Z(k) : x.names = N(k) OBVIOUS
<1>5. \A k : Z(k) # {} BY <1>3
<1> HIDE DEF Z
<1>6. QED BY <1>1, <1>2, <1>4, <1>5

(* Trump becomes a suit, references stay. *)
LEMMA MarkedResolved ==
  ASSUME NEW alts, Atomic(alts), NEW suit
  PROVE  (\E alt \in substituteTrumpInBody(alts, suit) : \E a \in alt : \E v \in a.names : Marked(v) # {})
         <=> \E alt \in alts : \E a \in alt : \E v \in a.names : Marked(v) # {}
<1> DEFINE R(a) == [a EXCEPT !.word = IF @ = "Trump" THEN suit ELSE @]
<1>1. substituteTrumpInBody(alts, suit) = {{R(a) : a \in alt} : alt \in alts}
  BY DEF substituteTrumpInBody
<1>2. \A alt \in alts : \A a \in alt : R(a).names = a.names BY DEF Atomic
<1> DEFINE Marks(alt) == \E a \in alt : \E v \in a.names : Marked(v) # {}
           Q(alt) == {R(a) : a \in alt}
<1> HIDE DEF R
<1>3. \A alt \in alts : Marks(Q(alt)) <=> Marks(alt) BY <1>2
<1>4. substituteTrumpInBody(alts, suit) = {Q(alt) : alt \in alts} BY <1>1
<1> HIDE DEF Q, Marks
<1>5. (\E alt \in substituteTrumpInBody(alts, suit) : Marks(alt)) <=> \E alt \in alts : Marks(alt)
  BY <1>3, <1>4
<1>6. QED BY <1>5 DEF Marks

LEMMA UnreadableIs ==
  ASSUME NEW file \in Seq(Source), Expandable(file), NEW d \in All(file)
  PROVE  Unreadable(Resolution(Written(file, d)))
         <=> Stuck(Stat(file, d)) \/ RefersToMark(Stat(file, d))
<1> DEFINE s == Stat(file, d)  C == BodyChoices(s, d.major, d.minor)
           A == {substituteBodyChoice(s.body, c[1], c[2]) : c \in C}
           w == Written(file, d)  r == Resolution(w)
           Marks(alts) == \E alt \in alts : \E a \in alt : \E v \in a.names : Marked(v) # {}
<1>1. /\ w.alts = A /\ r.stuck = Stuck(s)
      /\ r.alts = IF MentionsTrump(w) THEN substituteTrumpInBody(w.alts, anchor(d.name.tokens))
                                      ELSE w.alts
  BY WrittenParts
<1>2. \A k \in DOMAIN s.body : s.body[k].names \subseteq Seq(Token)
  <2>1. d.via[Len(d.via)] \in DOMAIN file BY AllShape
  <2>2. s \in Source BY <2>1, StatementName DEF Stat
  <2> HIDE DEF s
  <2>3. \A k \in DOMAIN s.body : s.body[k] \in Atom BY <2>2 DEF Source
  <2>4. QED BY <2>3 DEF Atom
<1>3. C # {}
  <2> DEFINE X == IF FreeInBody(s, Major) THEN {"S", "H"} ELSE {d.major}
             Y == IF FreeInBody(s, Minor) THEN {"D", "C"} ELSE {d.minor}
  <2>1. X # {} /\ Y # {} OBVIOUS
  <2>2. C = X \X Y BY DEF BodyChoices
  <2> HIDE DEF X, Y, C
  <2>3. \E x \in X, y \in Y : <<x, y>> \in C BY <2>1, <2>2
  <2>4. QED BY <2>3
<1>4. Atomic(A) BY DEF Atomic, substituteBodyChoice
<1>5. Marks(r.alts) <=> Marks(A)
  <2> DEFINE suit == anchor(d.name.tokens)  new == r.alts
  <2>1. new = substituteTrumpInBody(A, suit) \/ new = A BY <1>1
  <2> HIDE DEF new, A, suit
  <2>2. Marks(new) <=> Marks(A) BY <1>4, <2>1, MarkedResolved
  <2>3. QED BY <2>2 DEF new
<1>6. Marks(A) <=> RefersToMark(s)
  <2>1. \A c \in C : (\E x \in substituteBodyChoice(s.body, c[1], c[2]) :
                        \E v \in x.names : Marked(v) # {}) <=> RefersToMark(s)
    <3> TAKE c \in C
    <3> DEFINE body == s.body  j == c[1]  n == c[2]
    <3>1. \A k \in DOMAIN body : body[k].names \subseteq Seq(Token) BY <1>2
    <3>2. RefersToMark(s) <=> \E k \in DOMAIN body : \E m \in body[k].names : Marked(m) # {}
      BY DEF RefersToMark
    <3> HIDE DEF body, j, n, s
    <3>3. (\E x \in substituteBodyChoice(body, j, n) : \E v \in x.names : Marked(v) # {})
          <=> \E k \in DOMAIN body : \E m \in body[k].names : Marked(m) # {}
      BY <3>1, MarkedChoice
    <3>4. QED BY <3>2, <3>3 DEF body, j, n
  <2> HIDE DEF C, s
  <2>2. QED BY <1>3, <2>1
<1>7. Unreadable(r) <=> r.stuck \/ Marks(r.alts) BY DEF Unreadable
<1> HIDE DEF r, A, Marks, s
<1>8. QED BY <1>1, <1>5, <1>6, <1>7 DEF r, s

(* The theorem: a file is parsed exactly when it makes none of the         *)
(* mistakes and has none of the forms that the passes fail to bring to the *)
(* parser; of what ends the program instead, a message tells the mistakes  *)
(* and the bare ":?" (fatal() in majMinExpand.cpp), and the parser refuses *)
(* the rest.                                                               *)
THEOREM MistakesEndTheProgram == Spec => []MistakesAreFatal
<1>1. ASSUME IInv, MeaningInv PROVE MistakesAreFatal
  <2>1. phase = "fatal" => ~ FileIsLawful \/ BareAsk BY <1>1 DEF MeaningInv, Mistaken
  <2>2. ASSUME phase \in {"parsed", "syntax error"}
        PROVE  FileIsLawful /\ ~ BareAsk /\ (phase = "syntax error" <=> CannotBeRead)
    <3>1. /\ Lawfully(source) /\ \A d \in All(source) : Resolvable(Written(source, d))
          /\ {text[p] : p \in DOMAIN text} = {Resolution(Written(source, d)) : d \in All(source)}
          /\ phase = "syntax error" <=> \E p \in DOMAIN text : Unreadable(text[p])
      BY <1>1, <2>2 DEF MeaningInv, FinalText
    <3>2. Defined = All(source) /\ Expandable(source) /\ source \in Seq(Source)
      BY <1>1, <3>1, AllDefined DEF Lawfully, IInv, TypeOK
    <3>3. TrumpIsLawful BY <3>1, <3>2, ResolvableIs DEF TrumpIsLawful
    <3>4. NamesAreLawful /\ GraftsAreLawful /\ ~ BareAsk BY <1>1, <3>1, LawfulText
    <3>5. (\E p \in DOMAIN text : Unreadable(text[p]))
          <=> \E d \in All(source) : Unreadable(Resolution(Written(source, d)))
      BY <3>1
    <3>6. \A d \in All(source) : Unreadable(Resolution(Written(source, d)))
                                 <=> Stuck(Stat(source, d)) \/ RefersToMark(Stat(source, d))
      BY <3>2, UnreadableIs
    <3>7. CannotBeRead <=> \E d \in All(source) : Unreadable(Resolution(Written(source, d)))
      BY <3>2, <3>6 DEF CannotBeRead
    <3>8. QED BY <3>1, <3>3, <3>4, <3>5, <3>7 DEF FileIsLawful
  <2>3. QED BY <2>1, <2>2 DEF MistakesAreFatal
<1>2. QED BY <1>1, SpecMeans, PTL

(* The theorem: the templates reported as unused are those that nothing    *)
(* attaches, in the file or in a template (unusedAskTemplateNames).        *)
THEOREM UnusedTemplatesAreUnattached == Spec => []UnusedAreUnattached
<1>1. ASSUME IInv, MeaningInv PROVE UnusedAreUnattached
  <2> SUFFICES ASSUME phase = "parsed"
               PROVE  unusedAskTemplateNames
                      = {t \in Template : Entries(source, t) # {}}
                        \ {Attaches(source, d) : d \in Defined}
    BY DEF UnusedAreUnattached
  <2>1. Lawfully(source) /\ TemplatesAre BY <1>1 DEF MeaningInv, FinalText
  <2>2. Defined = All(source) BY <1>1, <2>1, AllDefined
  <2>3. QED BY <2>1, <2>2, SourcesAssumption DEF TemplatesAre, unusedAskTemplateNames
<1>2. QED BY <1>1, SpecMeans, PTL

=============================================================================
