------------------------------ MODULE RulesText ------------------------------
(***************************************************************************)
(* What happens to the text of a rules file before it is parsed            *)
(* (read_rules()): expandMajMinMacros() replaces Maj, Min and their kin by *)
(* suits and forks the names that hold them, graftAskTemplates() copies    *)
(* the entries of a template under every name that attaches it, and        *)
(* resolveTrumpReferences() replaces Trump by the suit marked '@'. A       *)
(* mistake found on the way ends the program.                              *)
(*                                                                         *)
(* A body is a conjunction of comparisons and references. A comparison is  *)
(* the suit, macro or Trump it is about; what it says of it is the same    *)
(* throughout. References are to bid sequences.                            *)
(***************************************************************************)
EXTENDS BidNames, FiniteSets

CONSTANTS
  Template,     (* names of templates                                      *)
  NoTemplate,
  Sources       (* rules files, as sequences of statements                 *)

(* A bid sequence "$.1H.", a template's entry "$.?.T.5C." (of = T), or the *)
(* name of a hand property "$X", which holds no calls. Bound: calls are    *)
(* written one way; graftAt() copies the calls of an entry as typed and    *)
(* compares strings, so that "5c" is not "5C" to it.                       *)
Name == [kind: {"bid"}, of: {NoTemplate}, tokens: Seq(Token)]
        \cup [kind: {"entry"}, of: Template, tokens: Seq(Token)]
        \cup [kind: {"rule"}, of: {NoTemplate}, tokens: {<<>>}]

(* A reference may come to stand for any of several names. *)
Word == Suit \cup Macro \cup Both \cup {"Trump", "ref"}
Atom == [word: Word, names: SUBSET Seq(Token)]

Source == [name: Name, op: {":=", ":&", ":|", ":?"}, body: Seq(Atom),
           attach: Template \cup {NoTemplate}]

(* After the macros: a disjunction of conjunctions, and whether ":?" came  *)
(* to stand inside a parenthesis, where it is not looked for.              *)
Stmt == [name: Name, op: {":=", ":&", ":|"}, alts: SUBSET SUBSET Atom,
         attach: Template \cup {NoTemplate}, stuck: BOOLEAN]

ASSUME SourcesAssumption ==
  Sources \subseteq Seq(Source) /\ NoTemplate \notin Template /\ IsFiniteSet(Template)

VARIABLES
  source,
  phase,          (* the pass, or how it ended                             *)
  at,             (* the statement it is at                                *)
  fork,           (* the fork to be written; 0 before they are generated   *)
  text,           (* the statements it reads                               *)
  out,            (* the statements it has written                         *)
  templates,      (* the entries of each template, in order                *)
  existingNames,
  referenced,
  frames          (* graftAt()'s calls, innermost last                     *)

graftVars == <<templates, existingNames, referenced, frames>>
vars == <<source, phase, at, fork, text, out, graftVars>>

Init ==
  /\ source \in Sources
  /\ phase = "split" /\ at = 1 /\ fork = 0
  /\ text = <<>> /\ out = <<>>
  /\ templates = [t \in Template |-> <<>>]
  /\ existingNames = {} /\ referenced = {} /\ frames = <<>>

Fatal ==
  /\ phase' = "fatal"
  /\ UNCHANGED <<source, at, fork, text, out, graftVars>>

(* The first pass only knows ":=", ":&" and ":|". *)
Split ==
  /\ phase = "split"
  /\ IF \E i \in DOMAIN source : source[i].op = ":?"
     THEN Fatal
     ELSE phase' = "expand" /\ UNCHANGED <<source, at, fork, text, out, graftVars>>

(* A pass is through; the next reads what it wrote. *)
NextPass(after) ==
  /\ phase' = after /\ at' = 1
  /\ text' = out /\ out' = <<>>

-----------------------------------------------------------------------------
(* expandMajMinMacros().                                                   *)

(* A name with BMaj or BMin is no call, wherever it is written. *)
NamesBoth(s) ==
  \/ s.name.kind = "bid" /\ Has(s.name.tokens, Both)
  \/ \E i \in DOMAIN s.body : \E n \in s.body[i].names : Has(n, Both)

(* References are held to their own anchors; the rest of the statement is  *)
(* read from its name through its body.                                    *)
checkAnchorOrder(s) ==
  /\ \A i \in DOMAIN s.body : \A n \in s.body[i].names : Anchored(StrainsOf(n))
  /\ LET words == [i \in DOMAIN s.body |-> s.body[i].word]
     IN  Anchored((IF s.name.kind = "bid" THEN StrainsOf(s.name.tokens) ELSE <<>>) \o words)

BodyHas(s, words) == \E i \in DOMAIN s.body : s.body[i].word \in words
NameHas(s, words) == s.name.kind = "bid" /\ Has(s.name.tokens, words)

substituteBothMacros(w) ==
  CASE w = "BMaj" -> {"S", "H"} [] w = "BMin" -> {"D", "C"} [] OTHER -> {w}

(* A body with its references forked and its macros replaced. *)
substituteBodyChoice(body, major, minor) ==
  UNION {{[word |-> w, names |-> UNION {Variants(n) : n \in body[i].names}] :
            w \in substituteBothMacros(Chosen(body[i].word, major, minor))} :
         i \in DOMAIN body}

(* A pair of the body is free when the name does not choose it. *)
FreeInBody(s, pair) == BodyHas(s, pair) /\ ~ NameHas(s, pair)

BodyChoices(s, major, minor) ==
  (IF FreeInBody(s, Major) THEN {"S", "H"} ELSE {major})
  \X (IF FreeInBody(s, Minor) THEN {"D", "C"} ELSE {minor})

(* The statement for one choice of the pairs in its name. *)
Generated(s, major, minor) ==
  [name   |-> IF s.name.kind = "bid"
              THEN [s.name EXCEPT !.tokens = substituteNameTokens(@, major, minor)]
              ELSE s.name,
   op     |-> s.op,
   alts   |-> {substituteBodyChoice(s.body, c[1], c[2]) : c \in BodyChoices(s, major, minor)},
   attach |-> s.attach,
   stuck  |-> s.attach # NoTemplate /\ (FreeInBody(s, Major) \/ FreeInBody(s, Minor))]

(* Spades before hearts, and for each diamonds before clubs. *)
Times(pair) == IF pair THEN 2 ELSE 1

Forks(s) == Times(NameHas(s, Major)) * Times(NameHas(s, Minor))

MajorOf(s, k) ==
  IF NameHas(s, Major) THEN IF k <= Times(NameHas(s, Minor)) THEN "S" ELSE "H" ELSE "-"

MinorOf(s, k) == IF NameHas(s, Minor) THEN IF k % 2 = 1 THEN "D" ELSE "C" ELSE "-"

(* Mutant: a fork that is no auction is kept. *)
KeepAll(g) == TRUE

LegalName(g) == g.name.kind = "bid" => isLegalBidSequence(g.name.tokens)

GenerateForks ==
  /\ phase = "expand" /\ at <= Len(source) /\ fork = 0
  /\ IF NamesBoth(source[at]) \/ ~ checkAnchorOrder(source[at])
     THEN Fatal
     ELSE fork' = 1 /\ UNCHANGED <<source, phase, at, text, out, graftVars>>

(* A fork that is no auction is dropped; a name without macros must be one. *)
WriteFork ==
  /\ phase = "expand" /\ fork > 0
  /\ LET s == source[at]
         g == Generated(s, MajorOf(s, fork), MinorOf(s, fork))
     IN  IF ~ LegalName(g) /\ Forks(s) = 1
         THEN Fatal
         ELSE /\ out' = IF LegalName(g) THEN Append(out, g) ELSE out
              /\ IF fork < Forks(s) THEN fork' = fork + 1 /\ UNCHANGED at
                                    ELSE fork' = 0 /\ at' = at + 1
              /\ UNCHANGED <<source, phase, text, graftVars>>

Expanded ==
  /\ phase = "expand" /\ at > Len(source) /\ fork = 0
  /\ NextPass("collect")
  /\ UNCHANGED <<source, fork, graftVars>>

-----------------------------------------------------------------------------
(* graftAskTemplates().                                                    *)

Attached(s) == IF s.stuck THEN NoTemplate ELSE s.attach

(* An entry is taken out of the text and kept for its template. *)
CollectEntry ==
  /\ phase = "collect" /\ at <= Len(text) /\ text[at].name.kind = "entry"
  /\ LET s == text[at]
         t == s.name.of
     IN  IF \/ s.op # ":=" \/ s.name.tokens = <<>>
            \/ ~ isWellFormedConcreteBidSequence(s.name.tokens)
            \/ \E i \in DOMAIN templates[t] : templates[t][i].name.tokens = s.name.tokens
         THEN Fatal
         ELSE /\ templates' = [templates EXCEPT ![t] = Append(@, s)]
              /\ at' = at + 1
              /\ UNCHANGED <<source, fork, phase, text, out, existingNames, referenced, frames>>

CollectOther ==
  /\ phase = "collect" /\ at <= Len(text) /\ text[at].name.kind # "entry"
  /\ out' = Append(out, text[at])
  /\ at' = at + 1
  /\ UNCHANGED <<source, fork, phase, text, graftVars>>

Collected ==
  /\ phase = "collect" /\ at > Len(text)
  /\ NextPass("graft")
  /\ existingNames' = {out[i].name : i \in DOMAIN out}
  /\ UNCHANGED <<source, fork, templates, referenced, frames>>

(* Mutant: only what the file itself attaches is noted. *)
Noted(calls, t) == IF calls = <<>> THEN referenced \cup {t} ELSE referenced

Referencing(calls, t) == referenced \cup {t}

(* A call of graftAt(), if there is anything to attach. *)
Attach(calls, name, t) ==
  IF t = NoTemplate
  THEN frames' = calls /\ UNCHANGED referenced
  ELSE /\ frames' = Append(calls, [name |-> name, template |-> t, next |-> 1])
       /\ referenced' = Referencing(calls, t)

(* An undeclared template has no entries. *)
Declared(t) == t = NoTemplate \/ templates[t] # <<>>

Bare(s) == [s EXCEPT !.attach = IF s.stuck THEN @ ELSE NoTemplate]

(* A statement is written without its attachment, which comes next. *)
GraftStatement ==
  /\ phase = "graft" /\ frames = <<>> /\ at <= Len(text)
  /\ LET s == text[at]
     IN  IF ~ Declared(Attached(s))
         THEN Fatal
         ELSE /\ out' = Append(out, Bare(s))
              /\ Attach(<<>>, s.name, Attached(s))
              /\ at' = at + 1
              /\ UNCHANGED <<source, fork, phase, text, templates, existingNames>>

top     == frames[Len(frames)]
entries == templates[top.template]

(* The name of an entry under the name that attaches its template. *)
GraftedName(name, entry) == [name EXCEPT !.tokens = @ \o entry.name.tokens]

Advanced(calls) == [calls EXCEPT ![Len(calls)].next = @ + 1]

(* Mutant: only what the file defines itself is in the way. *)
InTheFile(name) == \E i \in DOMAIN text : text[i].name = name

Exists(name) == name \in existingNames

(* One entry, and then the template it attaches itself. *)
GraftEntry ==
  /\ phase = "graft" /\ frames # <<>> /\ top.next <= Len(entries)
  /\ LET e    == entries[top.next]
         name == GraftedName(top.name, e)
     IN  IF \/ Exists(name)
            \/ name.kind # "bid" \/ ~ isWellFormedConcreteBidSequence(name.tokens)
            \/ ~ Declared(Attached(e))
         THEN Fatal
         ELSE /\ existingNames' = existingNames \cup {name}
              /\ out' = Append(out, [Bare(e) EXCEPT !.name = name])
              /\ Attach(Advanced(frames), name, Attached(e))
              /\ UNCHANGED <<source, fork, phase, at, text, templates>>

GraftReturns ==
  /\ phase = "graft" /\ frames # <<>> /\ top.next > Len(entries)
  /\ frames' = SubSeq(frames, 1, Len(frames) - 1)
  /\ UNCHANGED <<source, fork, phase, at, text, out, templates, existingNames, referenced>>

Grafted ==
  /\ phase = "graft" /\ frames = <<>> /\ at > Len(text)
  /\ NextPass("resolve")
  /\ UNCHANGED <<source, fork, graftVars>>

(* What --validate reports: declared, and never attached. *)
unusedAskTemplateNames == {t \in Template : templates[t] # <<>>} \ referenced

-----------------------------------------------------------------------------
(* resolveTrumpReferences().                                               *)

(* Mutant: the first '@' of a name counts. *)
firstAnchor(s) == s.name.tokens[CHOOSE i \in Marked(s.name.tokens) :
                                  \A k \in Marked(s.name.tokens) : i <= k].strain

Trump(s) == anchor(s.name.tokens)

MentionsTrump(s) == \E alt \in s.alts : \E a \in alt : a.word = "Trump"

substituteTrumpInBody(alts, suit) ==
  {{[a EXCEPT !.word = IF @ = "Trump" THEN suit ELSE @] : a \in alt} : alt \in alts}

ResolveStatement ==
  /\ phase = "resolve" /\ at <= Len(text)
  /\ LET s == text[at]
     IN  IF \/ \E i \in Marked(s.name.tokens) : s.name.tokens[i].strain \notin Suit
            \/ MentionsTrump(s) /\ Marked(s.name.tokens) = {}
         THEN Fatal
         ELSE /\ out' = Append(out,
                   [s EXCEPT !.name.tokens = WithoutMarks(@),
                             !.alts = IF MentionsTrump(s)
                                      THEN substituteTrumpInBody(@, Trump(s)) ELSE @])
              /\ at' = at + 1
              /\ UNCHANGED <<source, fork, phase, text, graftVars>>

(* What the lexer has no token for: ":?", and the '@' of a reference, of   *)
(* which it takes the part before as a name.                               *)
Unreadable(s) ==
  s.stuck \/ \E alt \in s.alts : \E a \in alt : \E n \in a.names : Marked(n) # {}

(* The text is given to the parser. *)
Resolved ==
  /\ phase = "resolve" /\ at > Len(text)
  /\ NextPass(IF \E i \in DOMAIN out : Unreadable(out[i]) THEN "syntax error" ELSE "parsed")
  /\ UNCHANGED <<source, fork, graftVars>>

Next ==
  \/ Split \/ GenerateForks \/ WriteFork \/ Expanded
  \/ CollectEntry \/ CollectOther \/ Collected
  \/ GraftStatement \/ GraftEntry \/ GraftReturns \/ Grafted
  \/ ResolveStatement \/ Resolved

Spec == Init /\ [][Next]_vars
-----------------------------------------------------------------------------
(* Properties.                                                             *)

Phases == {"split", "expand", "collect", "graft", "resolve", "parsed", "syntax error", "fatal"}

(* Type invariant: every variable holds values of its kind; what a pass    *)
(* writes is what the next can read.                                       *)
TypeOK ==
  /\ source \in Seq(Source) /\ phase \in Phases /\ at \in Nat \ {0} /\ fork \in 0 .. 4
  /\ text \in Seq(Stmt) /\ out \in Seq(Stmt)
  /\ templates \in [Template -> Seq(Stmt)]
  /\ existingNames \subseteq Name /\ referenced \subseteq Template
  /\ frames \in Seq([name: Name, template: Template, next: Nat \ {0}])

(* What the parser reads needs no further check by the loader, which makes *)
(* none: every bid sequence, typed, forked or grafted, is an auction in    *)
(* which each call ranks higher than the calls before it, and holds no     *)
(* macro, no '@' and no template.                                          *)
OutputIsLegal ==
  phase \in {"parsed", "syntax error"} =>
    \A i \in DOMAIN text :
      /\ text[i].name.kind # "entry"
      /\ isWellFormedConcreteBidSequence(text[i].name.tokens)
      /\ Marked(text[i].name.tokens) = {}

=============================================================================
