---------------------------- MODULE RulesMeaning ----------------------------
(***************************************************************************)
(* What a rules file means according to its language, said without the     *)
(* passes that rewrite its text, and the properties that compare the two.  *)
(* Suits are told apart by whether the hand satisfies a comparison about   *)
(* them, references by whether the rules they name accept the hand.        *)
(***************************************************************************)
EXTENDS RulesText

Majors == {"S", "H"}
Minors == {"D", "C"}

(* The suits a word is about, once a major, a minor and Trump are known. *)
SuitsOf(w, major, minor, trump) ==
  CASE w = "Maj"   -> {major}
    [] w = "OMaj"  -> Majors \ {major}
    [] w = "Min"   -> {minor}
    [] w = "OMin"  -> Minors \ {minor}
    [] w = "BMaj"  -> Majors
    [] w = "BMin"  -> Minors
    [] w = "Trump" -> {trump}
    [] OTHER       -> {w}

(* The concrete names that a name stands for, with the choice behind each. *)
Instance(tokens, major, minor) ==
  [i \in DOMAIN tokens |->
     [tokens[i] EXCEPT !.strain = CHOOSE x \in SuitsOf(@, major, minor, "") : TRUE]]

Instances(tokens) == {Instance(tokens, j, n) : j \in Majors, n \in Minors}

(* A definition: the statement that makes it, or the attachments that led  *)
(* to it and the entry, its name, and the suits its name chooses.          *)
Entries(file, t) == {i \in DOMAIN file : file[i].name.kind = "entry" /\ file[i].name.of = t}
Stuck(s)         == s.attach # NoTemplate /\ (FreeInBody(s, Major) \/ FreeInBody(s, Minor))
Stat(file, d)    == file[d.via[Len(d.via)]]

Attaches(file, d) ==
  IF Stuck(Stat(file, d)) THEN NoTemplate ELSE Stat(file, d).attach

Choosing(file, i, j, n) ==
  [via |-> <<i>>, major |-> j, minor |-> n,
   name |-> [file[i].name EXCEPT !.tokens = Instance(@, j, n)]]

Typed(file) ==
  {d \in UNION {{Choosing(file, i, j, n) :
                   j \in IF NameHas(file[i], Major) THEN Majors ELSE {"-"},
                   n \in IF NameHas(file[i], Minor) THEN Minors ELSE {"-"}} :
                i \in {k \in DOMAIN file : file[k].name.kind # "entry"}} :
     isLegalBidSequence(d.name.tokens)}

Under(file, d, e) ==
  [via |-> Append(d.via, e), major |-> "-", minor |-> "-",
   name |-> [d.name EXCEPT !.tokens = @ \o file[e].name.tokens]]

EntriesUnder(file, d) == {Under(file, d, e) : e \in Entries(file, Attaches(file, d))}

Definitions(file, depth) ==
  LET atDepth[k \in 0 .. depth] ==
        IF k = 0 THEN Typed(file) ELSE UNION {EntriesUnder(file, d) : d \in atDepth[k - 1]}
  IN  UNION {atDepth[k] : k \in 0 .. depth}

(* Templates nest no deeper than there are templates, or one repeats and   *)
(* grafting does not end; and what it has come to so far is no deeper than *)
(* what it has written.                                                    *)
Defined == Definitions(source, Cardinality(Template) + Len(out) + 1)

Copied(d) == Len(d.via) > 1

(* The node of the tree that a definition is about: '@' is no call. *)
Node(d) == [d.name EXCEPT !.tokens = WithoutMarks(@)]

-----------------------------------------------------------------------------
(* The hands a definition accepts, as pairs of the suits that satisfy the  *)
(* comparison and the names whose rules accept the hand.                   *)
Referred(file) ==
  UNION {UNION {UNION {Instances(n) : n \in file[i].body[k].names} :
                  k \in DOMAIN file[i].body} : i \in DOMAIN file}

Hands(file) == (SUBSET Suit) \X (SUBSET Referred(file))

Accepts(a, major, minor, trump, h) ==
  IF a.word = "ref" THEN \E n \in a.names : Instances(n) \cap h[2] # {}
                    ELSE SuitsOf(a.word, major, minor, trump) \subseteq h[1]

(* A pair that its name leaves open may be either way round. *)
Meaning(file, d) ==
  {h \in Hands(file) :
     \E j \in (IF d.major = "-" THEN Majors ELSE {d.major}),
        n \in (IF d.minor = "-" THEN Minors ELSE {d.minor}) :
       \A k \in DOMAIN Stat(file, d).body :
         Accepts(Stat(file, d).body[k], j, n, anchor(d.name.tokens), h)}

Read(file, alts) ==
  {h \in Hands(file) : \E alt \in alts : \A a \in alt :
     IF a.word = "ref" THEN a.names \cap h[2] # {} ELSE a.word \in h[1]}

(* Whatever is forked, chosen, copied and resolved on the way, the text    *)
(* the parser reads defines the names the file means, each with the rule   *)
(* the file means by it: a macro of the body follows the name where the    *)
(* name chooses, a reference to a forked name is to any fork, an entry is  *)
(* defined under every name its template is attached to, directly or by    *)
(* another entry, and Trump is the suit of the last '@' of that very name. *)
TextMeansSource ==
  phase = "parsed" =>
    {<<text[i].name, text[i].op, Read(source, text[i].alts)>> : i \in DOMAIN text}
    = {<<Node(d), IF Copied(d) THEN ":=" ELSE Stat(source, d).op, Meaning(source, d)>> :
            d \in Defined}

(* The mistakes a file can make, with no regard to the pass that finds     *)
(* them.                                                                   *)
NamesAreLawful ==
  \A i \in DOMAIN source :
    LET s == source[i]
    IN  /\ ~ NamesBoth(s) /\ checkAnchorOrder(s)
        /\ s.name.kind = "entry" =>
             /\ s.op \notin {":&", ":|"} /\ s.name.tokens # <<>>
             /\ isWellFormedConcreteBidSequence(s.name.tokens)
             /\ \A k \in DOMAIN source : source[k].name = s.name => k = i
        /\ s.name.kind = "bid" /\ ~ Has(s.name.tokens, Macro)
             => isLegalBidSequence(s.name.tokens)

(* Two definitions of one node that the code takes for two: it compares    *)
(* the names with their marks (existingNames).                             *)
DifferInMarks(c, d) == Node(c) = Node(d) /\ c.name # d.name

GraftsAreLawful ==
  /\ \A d \in Defined :
       /\ Attaches(source, d) # NoTemplate
            => d.name.kind = "bid" /\ Entries(source, Attaches(source, d)) # {}
       /\ isLegalBidSequence(d.name.tokens)
  /\ \A c, d \in Defined :
       Node(c) = Node(d) /\ Copied(d) => c.via = d.via \/ DifferInMarks(c, d)

TrumpIsLawful ==
  \A d \in Defined :
    /\ \A i \in Marked(d.name.tokens) : d.name.tokens[i].strain \in Suit
    /\ (\E k \in DOMAIN Stat(source, d).body : Stat(source, d).body[k].word = "Trump")
         => Marked(d.name.tokens) # {}

FileIsLawful == NamesAreLawful /\ GraftsAreLawful /\ TrumpIsLawful

(* What ends the program in a lawful file: a bare ":?", which only the     *)
(* second pass knows (hand-spec.md has it mean ":= $ANY :?"); and, once    *)
(* defined, ":?" after a body with a free pair, or a reference with '@'.   *)
BareAsk == \E i \in DOMAIN source : source[i].op = ":?"

RefersToMark(s) == \E k \in DOMAIN s.body : \E n \in s.body[k].names : Marked(n) # {}

CannotBeRead == \E d \in Defined : Stuck(Stat(source, d)) \/ RefersToMark(Stat(source, d))

(* A file is parsed exactly when it makes none of the mistakes and has     *)
(* none of the three forms that the passes fail to bring to the parser; a  *)
(* message names the mistake or the bare ":?", the parser refuses the      *)
(* other two. So a node never gets both a template's answers and one of    *)
(* the same (marked) name of its own, or one template twice.               *)
MistakesAreFatal ==
  /\ phase = "parsed" => FileIsLawful /\ ~ BareAsk /\ ~ CannotBeRead
  /\ phase = "fatal" => ~ FileIsLawful \/ BareAsk
  /\ phase = "syntax error" => FileIsLawful /\ ~ BareAsk /\ CannotBeRead

(* The templates reported as unused are those no definition attaches,      *)
(* neither a typed one nor a copied entry.                                 *)
UnusedAreUnattached ==
  phase = "parsed" =>
    unusedAskTemplateNames =
      {t \in Template : Entries(source, t) # {}} \ {Attaches(source, d) : d \in Defined}
=============================================================================
