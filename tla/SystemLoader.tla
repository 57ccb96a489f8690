---------------------------- MODULE SystemLoader ----------------------------
(***************************************************************************)
(* How a rules file becomes a convention tree: the parser makes a chain of *)
(* definitions that ":&" and ":|" modify in place (bridge.y, tnode.cpp),   *)
(* processRule() hangs each into the tree, and one pass over the finished  *)
(* tree computes what rejecting siblings teaches (bidlab.cpp).             *)
(***************************************************************************)
EXTENDS ConventionTree

CONSTANTS
  Name,          (* the names of the file, in the parser's upper case      *)
  AnyName,       (* $ANY                                                   *)
  Calls,         (* the calls parseBid() reads from each name              *)
  BidSequences,  (* the names it reads to their end                        *)
  Files          (* the files, as sequences of statements                  *)

(* An expression is a rule, or the name of one. *)
Expr      == Rule \cup Name
Statement == [op: {":=", ":&", ":|"}, name: Name, expr: Expr]
NoBody    == NULL

(* A legal auction: every bid outranks all bids before it. *)
Legal(s) == \A i, j \in DOMAIN s : i < j => s[j] = bidPass \/ s[j] > s[i]

(* makeDef() keeps every name in upper case and parseBid() reads one       *)
(* letter per call, so a call sequence has one name.                       *)
ASSUME FilesAssumption ==
  /\ Files \subseteq Seq(Statement)
  /\ AnyName \in Name /\ Name \cap Rule = {}
  /\ Calls \in [Name -> Seq(Call)]
  /\ BidSequences \subseteq Name
  /\ \A nm \in BidSequences : Calls[nm] # <<>> /\ Legal(Calls[nm])
  /\ \A nm, other \in BidSequences : Calls[nm] = Calls[other] => nm = other

VARIABLES
  file,      (* the file being read                                        *)
  line,      (* the statement to be parsed next                            *)
  pc,        (* "parse", "process", "walk", "negate", "ready" or "failed"  *)
  defs,      (* the chain of definitions: name and body                    *)
  k,         (* the definition processRule() is at                         *)
  c1,        (* the node it has reached                                    *)
  rest,      (* the calls still to be walked                               *)
  tree,
  created,   (* the nodes in the tree                                      *)
  stack,     (* the frames of precomputeSiblingNegations(), innermost last *)
  earlier,   (* negatedEarlierSiblings of each node                        *)
  all        (* negatedAllChildren of each node                            *)

parseVars == <<file, line, defs>>
walkVars  == <<k, c1, rest>>
treeVars  == <<tree, created>>
negVars   == <<stack, earlier, all>>
vars == <<parseVars, pc, walkVars, treeVars, negVars>>

Phases == {"parse", "process", "walk", "negate", "ready", "failed"}

-----------------------------------------------------------------------------
(* The definition chain.                                                   *)

(* Where defIndex finds a name: its last definition, 0 if it has none. *)
Latest(ds, nm) ==
  LET at == {i \in DOMAIN ds : ds[i].name = nm}
  IN  IF at = {} THEN 0 ELSE CHOOSE i \in at : \A j \in at : j <= i

(* find_rule(): $ANY is built in. *)
find_rule(ds, nm) ==
  IF nm = AnyName THEN AnyRule
  ELSE IF Latest(ds, nm) = 0 THEN NoBody ELSE ds[Latest(ds, nm)].body

Body(ds, e) == IF e \in Name THEN find_rule(ds, e) ELSE e

(* Mutant: a reference to a name that is not defined is let through. *)
AlwaysDefined(ds, e) == TRUE

Defined(ds, e) == Body(ds, e) # NoBody

(* simplifyRule() folds an AND of true leaves to the true leaf, and an OR  *)
(* with one.                                                               *)
Conjunction(l, r) == [ext |-> l.ext \cap r.ext, top |-> l.top /\ r.top]
Disjunction(l, r) == [ext |-> l.ext \cup r.ext, top |-> l.top \/ r.top]

(* Mutant: ":&" and ":|" modify the first definition of the name. *)
FirstModified(ds, nm, body) ==
  [ds EXCEPT ![CHOOSE i \in DOMAIN ds : /\ ds[i].name = nm
                                        /\ \A j \in 1 .. (i - 1) : ds[j].name # nm].body = body]

Modified(ds, nm, body) == [ds EXCEPT ![Latest(ds, nm)].body = body]

Init ==
  /\ file \in Files
  /\ line = 1 /\ pc = "parse" /\ defs = <<>>
  /\ k = 1 /\ c1 = Root /\ rest = <<>>
  /\ tree = [kids |-> [n \in Node |-> <<>>],
             call |-> [n \in Node |-> bidPass],
             rule |-> [n \in Node |-> NULL]]
  /\ created = {Root}
  /\ stack = <<>>
  /\ earlier = [n \in Node |-> NULL] /\ all = [n \in Node |-> NULL]

stat == file[line]

Parsing == pc = "parse" /\ line <= Len(file)

(* A definition is added to the chain, whether or not the name has one. *)
Define ==
  /\ Parsing /\ stat.op = ":="
  /\ Defined(defs, stat.expr)
  /\ defs' = Append(defs, [name |-> stat.name, body |-> Body(defs, stat.expr)])
  /\ line' = line + 1
  /\ UNCHANGED <<file, pc, walkVars, treeVars, negVars>>

(* The definition the name stands for gets a new body, in its place. *)
Modify ==
  /\ Parsing /\ stat.op \in {":&", ":|"}
  /\ Defined(defs, stat.expr) /\ Latest(defs, stat.name) # 0
  /\ LET old == defs[Latest(defs, stat.name)].body
         new == Body(defs, stat.expr)
     IN  defs' = Modified(defs, stat.name, IF stat.op = ":&" THEN Conjunction(old, new)
                                                             ELSE Disjunction(old, new))
  /\ line' = line + 1
  /\ UNCHANGED <<file, pc, walkVars, treeVars, negVars>>

(* A name that is not defined yet ends the program. *)
Reject ==
  /\ Parsing
  /\ \/ ~ Defined(defs, stat.expr)
     \/ stat.op # ":=" /\ Latest(defs, stat.name) = 0
  /\ pc' = "failed"
  /\ UNCHANGED <<parseVars, walkVars, treeVars, negVars>>

(* So does a file without a definition. *)
EndOfFile ==
  /\ pc = "parse" /\ line > Len(file)
  /\ pc' = IF defs = <<>> THEN "failed" ELSE "process"
  /\ UNCHANGED <<parseVars, walkVars, treeVars, negVars>>

-----------------------------------------------------------------------------
(* processRule().                                                          *)

(* The name of a hand property is no convention. *)
SkipRule ==
  /\ pc = "process" /\ k <= Len(defs)
  /\ Calls[defs[k].name] = <<>>
  /\ k' = k + 1
  /\ UNCHANGED <<parseVars, pc, c1, rest, treeVars, negVars>>

StartRule ==
  /\ pc = "process" /\ k <= Len(defs)
  /\ Calls[defs[k].name] # <<>>
  /\ c1' = Root /\ rest' = Calls[defs[k].name]
  /\ pc' = "walk"
  /\ UNCHANGED <<parseVars, k, treeVars, negVars>>

(* Mutant: only the first child is looked at. *)
InFirstPlace(n, b) == {c \in {tree.kids[n][i] : i \in {1} \cap DOMAIN tree.kids[n]} :
                         tree.call[c] = b}

ChildrenFor(n, b) == {c \in Kids(tree, n) : tree.call[c] = b}

(* A call whose node is there already. *)
Descend ==
  /\ pc = "walk" /\ rest # <<>>
  /\ \E c \in ChildrenFor(c1, Head(rest)) : c1' = c
  /\ rest' = Tail(rest)
  /\ UNCHANGED <<parseVars, pc, k, treeVars, negVars>>

(* A call without: a waypoint is appended to the siblings. *)
Create ==
  /\ pc = "walk" /\ rest # <<>>
  /\ ChildrenFor(c1, Head(rest)) = {}
  /\ Node \ created # {}   (* bound: the instance has nodes for all its names *)
  /\ LET new == CHOOSE n \in Node : n \notin created
     IN  /\ tree' = [tree EXCEPT !.kids[c1] = Append(@, new),
                                 !.call[new] = Head(rest)]
         /\ created' = created \cup {new}
         /\ c1' = new
  /\ rest' = Tail(rest)
  /\ UNCHANGED <<parseVars, pc, k, negVars>>

(* The name is read: a bid sequence gives its last node its rule. *)
EndRule ==
  /\ pc = "walk" /\ rest = <<>>
  /\ tree' = IF defs[k].name \in BidSequences
             THEN [tree EXCEPT !.rule[c1] = defs[k].body]
             ELSE tree
  /\ k' = k + 1
  /\ pc' = "process"
  /\ UNCHANGED <<parseVars, c1, rest, created, negVars>>

-----------------------------------------------------------------------------
(* precomputeSiblingNegations().                                           *)

Frame(n) == [node |-> n, pos |-> 1, acc |-> NULL]

StartNegations ==
  /\ pc = "process" /\ k > Len(defs)
  /\ pc' = "negate"
  /\ stack' = <<Frame(Root)>>
  /\ UNCHANGED <<parseVars, walkVars, treeVars, earlier, all>>

top == stack[Len(stack)]
Callers == SubSeq(stack, 1, Len(stack) - 1)

(* Mutant: a waypoint is negated like a rule. *)
WaypointsToo(acc, r) == combineRule(acc, negateRule(r))

WithNegated(acc, r) == IF r = NULL THEN acc ELSE combineRule(acc, negateRule(r))

(* The next sibling, and down into its own children. *)
NegateSibling ==
  /\ pc = "negate" /\ top.pos <= Len(tree.kids[top.node])
  /\ LET c == tree.kids[top.node][top.pos]
     IN  /\ earlier' = [earlier EXCEPT ![c] = top.acc]
         /\ stack' = Callers \o << [top EXCEPT !.pos = @ + 1,
                                               !.acc = WithNegated(@, tree.rule[c])],
                                   Frame(c) >>
  /\ UNCHANGED <<parseVars, pc, walkVars, treeVars, all>>

(* All children are scanned. *)
NegateParent ==
  /\ pc = "negate" /\ top.pos > Len(tree.kids[top.node])
  /\ all' = [all EXCEPT ![top.node] = top.acc]
  /\ stack' = Callers
  /\ pc' = IF Len(stack) = 1 THEN "ready" ELSE pc
  /\ UNCHANGED <<parseVars, walkVars, treeVars, earlier>>

Next == \/ Define \/ Modify \/ Reject \/ EndOfFile
        \/ SkipRule \/ StartRule \/ Descend \/ Create \/ EndRule
        \/ StartNegations \/ NegateSibling \/ NegateParent

Spec == Init /\ [][Next]_vars

-----------------------------------------------------------------------------
(* Properties.                                                             *)

(* Type invariant: every variable holds values of its kind. *)
TypeOK ==
  /\ file \in Seq(Statement) /\ line \in 1 .. (Len(file) + 1) /\ pc \in Phases
  /\ defs \in Seq([name: Name, body: Rule])
  /\ k \in 1 .. (Len(defs) + 1) /\ c1 \in created /\ rest \in Seq(Call)
  /\ tree \in Tree /\ created \subseteq Node /\ Root \in created
  /\ stack \in Seq([node: Node, pos: Nat \ {0}, acc: RulePtr])
  /\ earlier \in [Node -> RulePtr] /\ all \in [Node -> RulePtr]

(* Whatever the file repeats, redefines, modifies or breaks off, the tree  *)
(* is one that the auction can walk: no call has two nodes under one       *)
(* parent, no node two parents, and every rule that can be reached answers *)
(* with a Pass or a higher bid. Auction assumes it of every system.        *)
TreeIsWellFormed == WellFormed(tree)

(* What a file means according to its language, name by name: ":=" gives a *)
(* name a meaning, ":&" and ":|" change the one it has, and a reference    *)
(* means what its name meant there.                                        *)
Meant(m, e) == IF e = AnyName THEN AnyRule ELSE IF e \in Name THEN m[e] ELSE e

Stated(m, s) ==
  [m EXCEPT ![s.name] = CASE s.op = ":=" -> Meant(m, s.expr)
                          [] s.op = ":&" -> Conjunction(@, Meant(m, s.expr))
                          [] s.op = ":|" -> Disjunction(@, Meant(m, s.expr))]

MeaningAfter[i \in 0 .. Len(file)] ==
  IF i = 0 THEN [nm \in Name |-> NULL] ELSE Stated(MeaningAfter[i - 1], file[i])

Meaning == MeaningAfter[Len(file)]

(* The node a call sequence leads to from the root. *)
LeadsTo(s, n) ==
  \E path \in [0 .. Len(s) -> created] :
    /\ path[0] = Root /\ path[Len(s)] = n
    /\ \A i \in DOMAIN s : path[i] \in Kids(tree, path[i - 1]) /\ tree.call[path[i]] = s[i]

(* The bid sequences that the file defines. *)
Defines(s, nm) == s.op = ":=" /\ s.name = nm
GivenNames == {nm \in BidSequences : \E i \in DOMAIN file : Defines(file[i], nm)}

(* In a loaded system every bid sequence has a node, which carries the     *)
(* meaning its name has at the end of the file, although the chain holds   *)
(* every earlier definition too, processRule() applies them one after the  *)
(* other and the last one is changed in place; every other node is a       *)
(* waypoint, the start of a name that broke off half-way included.         *)
NodesMeanTheirNames ==
  pc = "ready" =>
    /\ \A nm \in GivenNames :
         \E n \in created : LeadsTo(Calls[nm], n) /\ tree.rule[n] = Meaning[nm]
    /\ \A n \in created :
         (\A nm \in GivenNames : ~ LeadsTo(Calls[nm], n)) => tree.rule[n] = NULL

(* The stored negations are those of the final rules: what the walk infers *)
(* from rejecting siblings never dates from before a waypoint got its rule *)
(* or a rule was redefined. ConventionTree uses them in this closed form.  *)
NegationsAreFinal ==
  pc = "ready" =>
    \A n \in created :
      /\ all[n] = negatedAllChildren(tree, n)
      /\ \A i \in DOMAIN tree.kids[n] :
           earlier[tree.kids[n][i]] = negatedEarlierSiblings(tree, n, i)

=============================================================================
