-------------------------- MODULE SimplifyProofs --------------------------
(***************************************************************************)
(* For any quantities, hands and rules whose literals keep clear of what   *)
(* stands for no bound: the rewriting of combined rules ends in complete   *)
(* trees without a literal inside, and accepts the hands the rules accept. *)
(***************************************************************************)
EXTENDS Simplify, FiniteSetTheorems, SequenceTheorems, WellFoundedInduction, TLAPS

-----------------------------------------------------------------------------
(* Numbers, and recursion on a rank.                                       *)

LEMMA LeastNumber ==
  ASSUME NEW I \in SUBSET Nat, I # {}
  PROVE  \E i \in I : \A j \in I : i <= j
<1> DEFINE less == OpToRel(<, Nat)
<1>1. IsWellFoundedOn(less, I)
  BY NatLessThanWellFounded, IsWellFoundedOnSubset
<1>2. PICK i0 \in I : TRUE OBVIOUS
<1>3. PICK i \in I : \A j \in I : ~ (<<j, i>> \in less) BY <1>1, <1>2, WFMin
<1>4. \A j \in I : ~ (j < i) BY <1>3 DEF OpToRel
<1>5. QED BY <1>4

(* Induction: what holds of 0 and of the successors of what it holds of.   *)
LEMMA EveryNumber ==
  ASSUME NEW S \in SUBSET Nat, 0 \in S, \A n \in S : n + 1 \in S
  PROVE  \A n \in Nat : n \in S
<1> DEFINE Bad == Nat \ S
<1>1. SUFFICES ASSUME Bad # {} PROVE FALSE OBVIOUS
<1>2. PICK n \in Bad : \A m \in Bad : n <= m BY <1>1, LeastNumber
<1>3. n # 0 BY <1>2
<1>4. n - 1 \in Nat /\ n - 1 \notin Bad BY <1>2, <1>3
<1>5. (n - 1) + 1 \in S BY <1>4
<1>6. QED BY <1>2, <1>5

(* What holds of each element if it holds of those of lower rank.          *)
LEMMA RankInduction ==
  ASSUME NEW S, NEW rank \in [S -> Nat], NEW G,
         \A n \in S : (\A m \in S : rank[m] < rank[n] => m \in G) => n \in G
  PROVE  S \subseteq G
<1> DEFINE Bad == {rank[n] : n \in S \ G}
<1>1. SUFFICES ASSUME Bad # {} PROVE FALSE OBVIOUS
<1>2. Bad \in SUBSET Nat OBVIOUS
<1> HIDE DEF Bad
<1>3. PICK k \in Bad : \A j \in Bad : k <= j BY <1>1, <1>2, LeastNumber
<1>4. PICK n \in S \ G : k = rank[n] BY <1>3 DEF Bad
<1>5. ASSUME NEW m \in S, rank[m] < rank[n] PROVE m \in G
  <2>1. SUFFICES ASSUME m \notin G PROVE FALSE OBVIOUS
  <2>2. rank[m] \in Bad BY <2>1 DEF Bad
  <2>3. QED BY <1>3, <1>4, <1>5, <2>2
<1>6. QED BY <1>4, <1>5

(* A step that looks only at what has a lower rank defines a function.     *)
LocalStep(S, V, rank, step) ==
  /\ rank \in [S -> Nat] /\ step \in [S \X [S -> V] -> V]
  /\ \A n \in S : \A f, g \in [S -> V] :
       (\A m \in S : rank[m] < rank[n] => f[m] = g[m]) => step[<<n, f>>] = step[<<n, g>>]

DefinedBy(f, S, V, step) == f \in [S -> V] /\ \A n \in S : f[n] = step[<<n, f>>]

LEMMA RecursionExists ==
  ASSUME NEW S, NEW V, NEW v \in V, NEW rank, NEW step, LocalStep(S, V, rank, step)
  PROVE  \E f : DefinedBy(f, S, V, step)
<1> DEFINE Upto(k, f) == f \in [S -> V] /\ \A n \in S : rank[n] < k => f[n] = step[<<n, f>>]
           K == {k \in Nat : \E f : Upto(k, f)}
<1>1. /\ rank \in [S -> Nat] /\ step \in [S \X [S -> V] -> V]
      /\ \A n \in S : \A f, g \in [S -> V] :
           (\A m \in S : rank[m] < rank[n] => f[m] = g[m]) => step[<<n, f>>] = step[<<n, g>>]
  BY DEF LocalStep
<1>2. 0 \in K
  <2> DEFINE f == [n \in S |-> v]
  <2>1. f \in [S -> V] /\ \A n \in S : ~ (rank[n] < 0) BY <1>1
  <2> HIDE DEF f
  <2>2. Upto(0, f) BY <2>1
  <2>3. QED BY <2>2
<1>3. ASSUME NEW k \in K PROVE k + 1 \in K
  <2>1. PICK f : Upto(k, f) OBVIOUS
  <2> DEFINE g == [n \in S |-> IF rank[n] < k THEN f[n] ELSE step[<<n, f>>]]
  <2>2. f \in [S -> V] BY <2>1
  <2>3. \A n \in S : step[<<n, f>>] \in V BY <1>1, <2>2
  <2>4. g \in [S -> V] BY <2>2, <2>3
  <2>5. \A n \in S : g[n] = step[<<n, f>>] BY <2>1
  <2>6. \A n \in S : rank[n] < k => g[n] = f[n] OBVIOUS
  <2> HIDE DEF g
  <2>7. ASSUME NEW n \in S, rank[n] < k + 1 PROVE g[n] = step[<<n, g>>]
    <3>1. \A m \in S : rank[m] < rank[n] => f[m] = g[m]
      <4> TAKE m \in S
      <4>1. rank[m] \in Nat /\ rank[n] \in Nat /\ k \in Nat BY <1>1
      <4>2. rank[m] < rank[n] => rank[m] < k BY <2>7, <4>1
      <4>3. QED BY <4>2, <2>6
    <3>2. step[<<n, f>>] = step[<<n, g>>] BY <1>1, <2>2, <2>4, <3>1
    <3>3. QED BY <2>5, <3>2
  <2>8. Upto(k + 1, g) BY <2>4, <2>7
  <2>9. QED BY <2>8
<1> HIDE DEF K
<1>4. \A k \in Nat : k \in K BY <1>2, <1>3, EveryNumber DEF K
<1> DEFINE F(k) == CHOOSE f : Upto(k, f)
<1>5. \A k \in Nat : Upto(k, F(k)) BY <1>4 DEF K
<1> HIDE DEF F
<1>6. \A n \in S : \A k \in Nat : \A l \in Nat :
        rank[n] < k /\ rank[n] < l => F(k)[n] = F(l)[n]
  <2> DEFINE G == {n \in S : \A k \in Nat : \A l \in Nat :
                     rank[n] < k /\ rank[n] < l => F(k)[n] = F(l)[n]}
  <2>1. ASSUME NEW n \in S, \A m \in S : rank[m] < rank[n] => m \in G PROVE n \in G
    <3>1. ASSUME NEW k \in Nat, NEW l \in Nat, rank[n] < k, rank[n] < l
          PROVE  F(k)[n] = F(l)[n]
      <4>1. Upto(k, F(k)) /\ Upto(l, F(l)) BY <1>5
      <4>2. F(k)[n] = step[<<n, F(k)>>] /\ F(l)[n] = step[<<n, F(l)>>]
        BY <3>1, <4>1
      <4>3. \A m \in S : rank[m] < rank[n] => F(k)[m] = F(l)[m]
        <5> SUFFICES ASSUME NEW m \in S, rank[m] < rank[n] PROVE F(k)[m] = F(l)[m] OBVIOUS
        <5>1. m \in G BY <2>1
        <5>2. rank[m] < k /\ rank[m] < l BY <1>1, <3>1
        <5>3. QED BY <5>1, <5>2
      <4>4. QED BY <1>1, <4>1, <4>2, <4>3
    <3>2. QED BY <3>1
  <2> HIDE DEF G
  <2>2. S \subseteq G BY <1>1, <2>1, RankInduction
  <2>3. QED BY <2>2 DEF G
<1> DEFINE f == [n \in S |-> F(rank[n] + 1)[n]]
<1>7. \A n \in S : rank[n] + 1 \in Nat /\ rank[n] < rank[n] + 1 BY <1>1
<1>8. f \in [S -> V]
  <2>1. ASSUME NEW n \in S PROVE F(rank[n] + 1)[n] \in V
    <3>1. F(rank[n] + 1) \in [S -> V] BY <1>5, <1>7
    <3>2. QED BY <3>1
  <2>2. QED BY <2>1
<1>9. ASSUME NEW n \in S PROVE f[n] = step[<<n, f>>]
  <2> DEFINE k == rank[n] + 1
  <2>1. k \in Nat /\ rank[n] < k BY <1>7
  <2>2. Upto(k, F(k)) BY <1>5, <2>1
  <2>3. F(k)[n] = step[<<n, F(k)>>] /\ f[n] = F(k)[n] /\ F(k) \in [S -> V] BY <2>1, <2>2
  <2>4. \A m \in S : rank[m] < rank[n] => F(k)[m] = f[m]
    <3> SUFFICES ASSUME NEW m \in S, rank[m] < rank[n] PROVE F(k)[m] = f[m] OBVIOUS
    <3>1. rank[m] \in Nat /\ rank[m] < k BY <1>1
    <3>2. f[m] = F(rank[m] + 1)[m] OBVIOUS
    <3> HIDE DEF f, k
    <3>3. QED BY <1>6, <1>7, <2>1, <3>1, <3>2
  <2> HIDE DEF f, k
  <2>5. QED BY <1>1, <1>8, <2>3, <2>4
<1> HIDE DEF f
<1>10. DefinedBy(f, S, V, step) BY <1>8, <1>9 DEF DefinedBy
<1>11. QED BY <1>10

-----------------------------------------------------------------------------
(* Trees, height by height.                                                *)

(* The trees with operands out of lower. *)
Nodes(literals, lower) ==
  [t : {"TINT"}, val : literals] \cup [t : {"TKWORD"}, val : Atom] \cup
  [t : Binary, left : lower, right : lower] \cup [t : {"TNOT"}, right : lower]

AreHeights(literals, n, f) ==
  f = [k \in 0 .. n |-> Nodes(literals, IF k = 0 THEN {} ELSE f[k - 1])]

Heights(literals, n) == CHOOSE f : AreHeights(literals, n, f)

LEMMA TreesAre ==
  ASSUME NEW literals, NEW n \in Nat
  PROVE  Trees(literals, n) = Heights(literals, n)[n]
BY DEF Trees, Heights, AreHeights, Nodes, Binary

LEMMA HeightsExist ==
  ASSUME NEW literals PROVE \A n \in Nat : AreHeights(literals, n, Heights(literals, n))
<1> DEFINE S == {n \in Nat : \E f : AreHeights(literals, n, f)}
<1>1. 0 \in S
  <2> DEFINE f == [k \in 0 .. 0 |-> Nodes(literals, {})]
  <2>1. AreHeights(literals, 0, f) BY DEF AreHeights
  <2>2. QED BY <2>1
<1>2. ASSUME NEW n \in S PROVE n + 1 \in S
  <2>1. PICK f : AreHeights(literals, n, f) BY <1>2
  <2> DEFINE g == [k \in 0 .. (n + 1) |-> IF k = n + 1 THEN Nodes(literals, f[n]) ELSE f[k]]
  <2>3. \A k \in 0 .. n : f[k] = Nodes(literals, IF k = 0 THEN {} ELSE f[k - 1])
    BY <2>1 DEF AreHeights
  <2>4. \A k \in 0 .. (n + 1) : g[k] = Nodes(literals, IF k = 0 THEN {} ELSE g[k - 1])
    <3> TAKE k \in 0 .. (n + 1)
    <3>1. CASE k = n + 1
      <4>1. g[k] = Nodes(literals, f[n]) /\ k # 0 /\ k - 1 = n /\ g[k - 1] = f[n] BY <3>1
      <4>2. QED BY <4>1
    <3>2. CASE k # n + 1
      <4>1. k \in 0 .. n /\ g[k] = f[k] BY <3>2
      <4>2. k # 0 => g[k - 1] = f[k - 1] BY <4>1
      <4>3. QED BY <2>3, <4>1, <4>2
    <3>3. QED BY <3>1, <3>2
  <2>5. g = [k \in 0 .. (n + 1) |-> g[k]] OBVIOUS
  <2> HIDE DEF g
  <2>6. AreHeights(literals, n + 1, g) BY <2>4, <2>5 DEF AreHeights
  <2>7. QED BY <2>6
<1> HIDE DEF S
<1>3. \A n \in Nat : n \in S BY <1>1, <1>2, EveryNumber DEF S
<1>4. \A n \in Nat : \E f : AreHeights(literals, n, f) BY <1>3 DEF S
<1>5. QED BY <1>4 DEF Heights

(* Trees built for two bounds agree up to the lower one.                   *)
LEMMA HeightsAgree ==
  ASSUME NEW literals, NEW n \in Nat, NEW k \in 0 .. n
  PROVE  Heights(literals, n)[k] = Trees(literals, k)
<1> DEFINE f == Heights(literals, n)
           g == Heights(literals, k)
           S == {j \in Nat : j <= k => f[j] = g[j]}
<1>1. /\ \A j \in 0 .. n : f[j] = Nodes(literals, IF j = 0 THEN {} ELSE f[j - 1])
      /\ \A j \in 0 .. k : g[j] = Nodes(literals, IF j = 0 THEN {} ELSE g[j - 1])
  <2>1. AreHeights(literals, n, f) /\ AreHeights(literals, k, g) BY HeightsExist
  <2> HIDE DEF f, g
  <2>2. QED BY <2>1 DEF AreHeights
<1> HIDE DEF f, g
<1>2. 0 \in S BY <1>1
<1>3. ASSUME NEW j \in S PROVE j + 1 \in S
  <2>1. ASSUME j + 1 <= k PROVE f[j + 1] = g[j + 1]
    <3>1. j + 1 # 0 /\ (j + 1) - 1 = j /\ j + 1 \in 0 .. n /\ j + 1 \in 0 .. k BY <2>1
    <3>2. f[j] = g[j] BY <1>3, <2>1
    <3>3. f[j + 1] = Nodes(literals, f[j]) /\ g[j + 1] = Nodes(literals, g[j]) BY <1>1, <3>1
    <3>4. QED BY <3>2, <3>3
  <2>2. QED BY <2>1
<1> HIDE DEF S
<1>4. \A j \in Nat : j \in S BY <1>2, <1>3, EveryNumber DEF S
<1>5. f[k] = g[k] BY <1>4 DEF S
<1>6. QED BY <1>5, TreesAre DEF f, g

LEMMA TreesRule ==
  ASSUME NEW literals
  PROVE  /\ Trees(literals, 0) = Nodes(literals, {})
         /\ \A k \in Nat : Trees(literals, k + 1) = Nodes(literals, Trees(literals, k))
<1>1. ASSUME NEW n \in Nat
      PROVE  Trees(literals, n) = Nodes(literals, IF n = 0 THEN {} ELSE Heights(literals, n)[n - 1])
  <2> DEFINE f == Heights(literals, n)
  <2>1. AreHeights(literals, n, f) BY HeightsExist
  <2> HIDE DEF f
  <2>2. f[n] = Nodes(literals, IF n = 0 THEN {} ELSE f[n - 1]) BY <2>1 DEF AreHeights
  <2>3. QED BY <2>2, TreesAre DEF f
<1>2. ASSUME NEW k \in Nat PROVE Trees(literals, k + 1) = Nodes(literals, Trees(literals, k))
  <2>1. k + 1 \in Nat /\ k + 1 # 0 /\ (k + 1) - 1 = k /\ k \in 0 .. (k + 1) OBVIOUS
  <2>2. Heights(literals, k + 1)[k] = Trees(literals, k) BY <2>1, HeightsAgree
  <2>3. QED BY <1>1, <2>1, <2>2
<1>3. QED BY <1>1, <1>2

LEMMA NodesGrow ==
  ASSUME NEW L1, NEW L2, NEW S1, NEW S2, L1 \subseteq L2, S1 \subseteq S2
  PROVE  Nodes(L1, S1) \subseteq Nodes(L2, S2)
BY DEF Nodes

(* The trees of a height are among those of a greater one.                 *)
LEMMA TreesGrow ==
  ASSUME NEW L1, NEW L2, L1 \subseteq L2
  PROVE  \A k \in Nat : \A j \in Nat : k <= j => Trees(L1, k) \subseteq Trees(L2, j)
<1> DEFINE K == {j \in Nat : \A k \in Nat : k <= j => Trees(L1, k) \subseteq Trees(L2, j)}
           H == {k \in Nat : Trees(L1, k) \subseteq Trees(L1, k + 1)}
<1>1. \A k \in Nat : k \in H
  <2>1. 0 \in H BY TreesRule, NodesGrow
  <2>2. ASSUME NEW k \in H PROVE k + 1 \in H
    <3>1. Trees(L1, k) \subseteq Trees(L1, k + 1) BY <2>2
    <3>2. Trees(L1, k + 1) = Nodes(L1, Trees(L1, k))
          /\ Trees(L1, (k + 1) + 1) = Nodes(L1, Trees(L1, k + 1)) BY TreesRule
    <3>3. QED BY <3>1, <3>2, NodesGrow
  <2> HIDE DEF H
  <2>3. QED BY <2>1, <2>2, EveryNumber DEF H
<1>2. 0 \in K BY TreesRule, NodesGrow
<1>3. ASSUME NEW j \in K PROVE j + 1 \in K
  <2>1. ASSUME NEW k \in Nat, k <= j + 1 PROVE Trees(L1, k) \subseteq Trees(L2, j + 1)
    <3>1. PICK i \in Nat : i <= j /\ Trees(L1, k) \subseteq Trees(L1, i + 1)
      <4>1. CASE k = 0
        <5>1. Trees(L1, 0) \subseteq Trees(L1, 0 + 1) BY <1>1
        <5>2. QED BY <4>1, <5>1
      <4>2. CASE k # 0
        <5>1. k - 1 \in Nat /\ k - 1 <= j /\ (k - 1) + 1 = k BY <2>1, <4>2
        <5>2. QED BY <5>1
      <4>3. QED BY <4>1, <4>2
    <3>2. Trees(L1, i) \subseteq Trees(L2, j) BY <1>3, <3>1
    <3>3. Trees(L1, i + 1) = Nodes(L1, Trees(L1, i)) /\ Trees(L2, j + 1) = Nodes(L2, Trees(L2, j))
      BY TreesRule
    <3>4. QED BY <3>1, <3>2, <3>3, NodesGrow
  <2>2. QED BY <2>1
<1> HIDE DEF K
<1>4. \A j \in Nat : j \in K BY <1>2, <1>3, EveryNumber DEF K
<1>5. QED BY <1>4 DEF K

-----------------------------------------------------------------------------
(* The trees of any height.                                                *)

AnyTree == UNION {Trees(Int, k) : k \in Nat}

Height(n) == CHOOSE k \in Nat : /\ n \in Trees(Int, k)
                                /\ \A j \in Nat : n \in Trees(Int, j) => k <= j

(* Every tree has a height, above those of its operands.                   *)
LEMMA HeightIs ==
  ASSUME NEW n \in AnyTree
  PROVE  /\ Height(n) \in Nat
         /\ \A j \in Nat : n \in Trees(Int, j) <=> Height(n) <= j
<1> DEFINE I == {k \in Nat : n \in Trees(Int, k)}
<1>1. I # {} BY DEF AnyTree
<1>2. \E k \in I : \A j \in I : k <= j BY <1>1, LeastNumber
<1>3. /\ Height(n) \in Nat /\ n \in Trees(Int, Height(n))
      /\ \A j \in Nat : n \in Trees(Int, j) => Height(n) <= j
  BY <1>2 DEF Height
<1>4. ASSUME NEW j \in Nat, Height(n) <= j PROVE n \in Trees(Int, j)
  BY <1>3, <1>4, TreesGrow
<1>5. QED BY <1>3, <1>4

(* A node is of one of four shapes. *)
Shaped(n, literals, lower) ==
  \/ \E v \in literals : n = Lit(v)
  \/ \E a \in Atom : n = Qty(a)
  \/ \E t \in Binary : \E l, r \in lower : n = Cmp(t, l, r)
  \/ \E r \in lower : n = Not(r)

LEMMA NodesShaped ==
  ASSUME NEW literals, NEW lower
  PROVE  \A n : n \in Nodes(literals, lower) <=> Shaped(n, literals, lower)
<1> TAKE n
<1>1. n \in [t : {"TINT"}, val : literals] <=> \E v \in literals : n = Lit(v) BY DEF Lit
<1>2. n \in [t : {"TKWORD"}, val : Atom] <=> \E a \in Atom : n = Qty(a) BY DEF Qty
<1>3. n \in [t : Binary, left : lower, right : lower]
        <=> \E t \in Binary : \E l, r \in lower : n = Cmp(t, l, r) BY DEF Cmp
<1>4. n \in [t : {"TNOT"}, right : lower] <=> \E r \in lower : n = Not(r) BY DEF Not
<1>5. QED BY <1>1, <1>2, <1>3, <1>4 DEF Nodes, Shaped

LEMMA AnyTreeShaped ==
  ASSUME NEW n \in AnyTree
  PROVE  /\ Shaped(n, Int, AnyTree)
         /\ \A o \in Operands(n) : o \in AnyTree /\ Height(o) < Height(n)
<1> DEFINE k == Height(n)
<1>1. k \in Nat /\ n \in Trees(Int, k) BY HeightIs
<1>2. CASE k = 0
  <2>1. n \in Nodes(Int, {}) BY <1>1, <1>2, TreesRule
  <2>2. Shaped(n, Int, {}) BY <2>1, NodesShaped
  <2>3. Operands(n) = {} BY <2>2 DEF Shaped, Lit, Qty, Operands, Binary, Comparisons
  <2>4. QED BY <2>2, <2>3 DEF Shaped
<1>3. CASE k # 0
  <2>1. k - 1 \in Nat /\ (k - 1) + 1 = k BY <1>1, <1>3
  <2>2. n \in Nodes(Int, Trees(Int, k - 1)) BY <1>1, <2>1, TreesRule
  <2>3. Shaped(n, Int, Trees(Int, k - 1)) BY <2>2, NodesShaped
  <2>4. \A o \in Trees(Int, k - 1) : o \in AnyTree /\ Height(o) <= k - 1
    BY <2>1, HeightIs DEF AnyTree
  <2>5. Operands(n) \subseteq Trees(Int, k - 1)
    BY <2>3 DEF Shaped, Lit, Qty, Cmp, Not, Operands, Binary, Comparisons
  <2>6. Shaped(n, Int, AnyTree) BY <2>3, <2>4 DEF Shaped
  <2> HIDE DEF k
  <2>7. ASSUME NEW o \in Operands(n) PROVE o \in AnyTree /\ Height(o) < k
    <3>1. o \in AnyTree /\ Height(o) <= k - 1 BY <2>4, <2>5
    <3>2. Height(o) \in Nat BY <3>1, HeightIs
    <3>3. QED BY <1>1, <3>1, <3>2
  <2>8. QED BY <2>6, <2>7 DEF k
<1>4. QED BY <1>2, <1>3

LEMMA TreesBuilt ==
  /\ \A v \in Int : Lit(v) \in AnyTree /\ Height(Lit(v)) = 0
  /\ \A a \in Atom : Qty(a) \in AnyTree /\ Height(Qty(a)) = 0
  /\ \A t \in Binary : \A l, r \in AnyTree : \A k \in Nat :
       Height(l) <= k /\ Height(r) <= k
         => Cmp(t, l, r) \in AnyTree /\ Height(Cmp(t, l, r)) <= k + 1
  /\ \A r \in AnyTree : Not(r) \in AnyTree /\ Height(Not(r)) <= Height(r) + 1
<1>1. ASSUME NEW n, Shaped(n, Int, {}) PROVE n \in AnyTree /\ Height(n) = 0
  <2>1. n \in Trees(Int, 0) BY <1>1, TreesRule, NodesShaped
  <2>2. n \in AnyTree BY <2>1 DEF AnyTree
  <2>3. Height(n) \in Nat /\ Height(n) <= 0 BY <2>1, <2>2, HeightIs
  <2>4. QED BY <2>2, <2>3
<1>2. ASSUME NEW k \in Nat, NEW n, Shaped(n, Int, Trees(Int, k))
      PROVE  n \in AnyTree /\ Height(n) <= k + 1
  <2>1. n \in Trees(Int, k + 1) BY <1>2, TreesRule, NodesShaped
  <2>2. n \in AnyTree BY <2>1 DEF AnyTree
  <2>3. QED BY <2>1, <2>2, HeightIs
<1>3. ASSUME NEW t \in Binary, NEW l \in AnyTree, NEW r \in AnyTree, NEW k \in Nat,
             Height(l) <= k, Height(r) <= k
      PROVE  Cmp(t, l, r) \in AnyTree /\ Height(Cmp(t, l, r)) <= k + 1
  <2>1. l \in Trees(Int, k) /\ r \in Trees(Int, k) BY <1>3, HeightIs
  <2>2. Shaped(Cmp(t, l, r), Int, Trees(Int, k)) BY <2>1 DEF Shaped
  <2>3. QED BY <1>2, <2>2
<1>4. ASSUME NEW r \in AnyTree PROVE Not(r) \in AnyTree /\ Height(Not(r)) <= Height(r) + 1
  <2>1. Height(r) \in Nat /\ r \in Trees(Int, Height(r)) BY HeightIs
  <2>2. Shaped(Not(r), Int, Trees(Int, Height(r))) BY <2>1 DEF Shaped
  <2>3. QED BY <1>2, <2>1, <2>2
<1>5. QED BY <1>1, <1>3, <1>4 DEF Shaped

(* The trees of the model are those up to a height. *)
LEMMA TreeIs ==
  /\ Tree \subseteq AnyTree
  /\ \A n \in AnyTree : n \in Tree <=> Height(n) <= MaxHeight
  /\ \A n \in Tree : Operands(n) \subseteq Tree
<1>1. MaxHeight \in Nat BY SimplifyAssumption
<1>2. Tree \subseteq AnyTree BY <1>1 DEF Tree, AnyTree
<1>3. \A n \in AnyTree : n \in Tree <=> Height(n) <= MaxHeight BY <1>1, HeightIs DEF Tree
<1>4. ASSUME NEW n \in Tree, NEW o \in Operands(n) PROVE o \in Tree
  <2>1. o \in AnyTree /\ Height(o) < Height(n) BY <1>2, AnyTreeShaped
  <2>2. Height(n) <= MaxHeight /\ Height(n) \in Nat /\ Height(o) \in Nat
    BY <1>2, <1>3, <2>1, HeightIs
  <2>3. Height(o) <= MaxHeight BY <1>1, <2>1, <2>2
  <2>4. QED BY <1>3, <2>1, <2>3
<1>5. QED BY <1>2, <1>3, <1>4

(* Induction: what holds of a node if it holds of its operands.            *)
LEMMA TreeInduction ==
  ASSUME NEW G, \A n \in AnyTree : Operands(n) \subseteq G => n \in G
  PROVE  AnyTree \subseteq G
<1> DEFINE rank == [n \in AnyTree |-> Height(n)]
<1>1. rank \in [AnyTree -> Nat] BY HeightIs
<1>2. ASSUME NEW n \in AnyTree, \A m \in AnyTree : rank[m] < rank[n] => m \in G
      PROVE  n \in G
  <2>1. ASSUME NEW o \in Operands(n) PROVE o \in G
    BY <1>2, AnyTreeShaped
  <2>2. QED BY <2>1
<1> HIDE DEF rank
<1>3. QED BY <1>1, <1>2, RankInduction

(* What a node is, by its kind.                                            *)
LEMMA Kinds ==
  ASSUME NEW n \in AnyTree
  PROVE  /\ n.t \in {"TINT", "TKWORD", "TNOT"} \cup Binary
         /\ n.t = "TINT" => n.val \in Int /\ n = Lit(n.val)
         /\ n.t = "TKWORD" => n.val \in Atom /\ n = Qty(n.val)
         /\ n.t \in Binary => n.left \in AnyTree /\ n.right \in AnyTree
                              /\ n = Cmp(n.t, n.left, n.right)
         /\ n.t = "TNOT" => n.right \in AnyTree /\ n = Not(n.right)
BY AnyTreeShaped DEF Shaped, Lit, Qty, Cmp, Not, Binary, Comparisons

LEMMA OperandsAre ==
  /\ \A n : n.t \in Binary => Operands(n) = {n.left, n.right}
  /\ \A n : n.t = "TNOT" => Operands(n) = {n.right}
BY DEF Operands, Binary, Comparisons

-----------------------------------------------------------------------------
(* The value of a tree of any height.                                      *)

ValueOf(n, f, h) ==
  CASE n.t = "TINT"   -> n.val
    [] n.t = "TKWORD" -> h[n.val]
    [] n.t \in Comparisons -> Truth(Compare(n.t, f[n.left], f[n.right]))
    [] n.t = "TNOT"   -> Truth(f[n.right] = 0)
    [] n.t = "TAND"   -> IF f[n.left] = 0 THEN 0 ELSE Truth(f[n.right] # 0)
    [] OTHER -> IF f[n.left] # 0 THEN f[n.left] ELSE Truth(f[n.right] # 0)

Values(h) == CHOOSE f \in [AnyTree -> Int] : \A n \in AnyTree : f[n] = ValueOf(n, f, h)

LEMMA ValueIsLocal ==
  ASSUME NEW n \in AnyTree, NEW f, NEW g, NEW h, \A o \in Operands(n) : f[o] = g[o]
  PROVE  ValueOf(n, f, h) = ValueOf(n, g, h)
<1>1. CASE n.t \in Binary
  <2>1. f[n.left] = g[n.left] /\ f[n.right] = g[n.right] BY <1>1, OperandsAre
  <2>2. QED BY <2>1, <1>1 DEF ValueOf, Binary, Comparisons
<1>2. CASE n.t = "TNOT"
  <2>1. f[n.right] = g[n.right] BY <1>2, OperandsAre
  <2>2. QED BY <2>1, <1>2 DEF ValueOf, Comparisons
<1>3. CASE n.t \in {"TINT", "TKWORD"} BY <1>3 DEF ValueOf, Comparisons
<1>4. QED BY <1>1, <1>2, <1>3, Kinds

LEMMA ValueIsInt ==
  ASSUME NEW n \in AnyTree, NEW f \in [AnyTree -> Int], NEW h \in [Atom -> Int]
  PROVE  ValueOf(n, f, h) \in Int
<1>1. \A b : Truth(b) \in Int BY DEF Truth
<1>2. CASE n.t \in Binary
  <2>1. f[n.left] \in Int /\ f[n.right] \in Int BY <1>2, Kinds
  <2>2. QED BY <1>1, <2>1, <1>2 DEF ValueOf, Binary, Comparisons
<1>3. CASE n.t = "TNOT" BY <1>1, <1>3 DEF ValueOf, Comparisons
<1>4. CASE n.t \in {"TINT", "TKWORD"} BY <1>4, Kinds DEF ValueOf, Comparisons
<1>5. QED BY <1>2, <1>3, <1>4, Kinds

LEMMA ValuesAre ==
  ASSUME NEW h \in [Atom -> Int]
  PROVE  /\ Values(h) \in [AnyTree -> Int]
         /\ \A n \in AnyTree : Values(h)[n] = ValueOf(n, Values(h), h)
<1> DEFINE F == [AnyTree -> Int]
           rank == [n \in AnyTree |-> Height(n)]
           step == [x \in AnyTree \X F |-> ValueOf(x[1], x[2], h)]
           V == Int
<1>0. 0 \in V OBVIOUS
<1>1. rank \in [AnyTree -> Nat] BY HeightIs
<1>2. \A n \in AnyTree : \A f \in F : step[<<n, f>>] = ValueOf(n, f, h) OBVIOUS
<1>3. step \in [AnyTree \X F -> Int]
  <2>1. \A x \in AnyTree \X F : ValueOf(x[1], x[2], h) \in Int BY ValueIsInt
  <2>2. QED BY <2>1
<1>4. ASSUME NEW n \in AnyTree, NEW f \in F, NEW g \in F,
             \A m \in AnyTree : rank[m] < rank[n] => f[m] = g[m]
      PROVE  step[<<n, f>>] = step[<<n, g>>]
  <2>1. \A o \in Operands(n) : f[o] = g[o] BY <1>4, AnyTreeShaped
  <2>2. QED BY <1>2, <2>1, ValueIsLocal
<1> HIDE DEF rank, step
<1>5. LocalStep(AnyTree, V, rank, step) BY <1>1, <1>3, <1>4 DEF LocalStep
<1>6. \E f \in F : \A n \in AnyTree : f[n] = step[<<n, f>>]
  <2> HIDE DEF V
  <2>1. PICK f : DefinedBy(f, AnyTree, V, step) BY <1>0, <1>5, RecursionExists
  <2>2. QED BY <2>1 DEF V, DefinedBy
<1>7. \E f \in F : \A n \in AnyTree : f[n] = ValueOf(n, f, h) BY <1>2, <1>6
<1>8. QED BY <1>7 DEF Values

(* Eval() reads as a tree is written, at any height.                       *)
LEMMA EvalIs ==
  ASSUME NEW h \in [Atom -> Int], NEW r \in Tree
  PROVE  Eval(r, h) = Values(h)[r]
<1> DEFINE v == Values(h)
           Is(f) == f = [n \in Tree |-> ValueOf(n, f, h)]
           w == CHOOSE f : Is(f)
<1>1. Eval(r, h) = w[r] BY DEF Eval, ValueOf
<1>2. \A n \in AnyTree : v[n] = ValueOf(n, v, h) BY ValuesAre
<1> HIDE DEF v
<1>3. Is(w)
  <2> DEFINE g == [n \in Tree |-> v[n]]
  <2>1. ASSUME NEW n \in Tree PROVE g[n] = ValueOf(n, g, h)
    <3>1. \A o \in Operands(n) : g[o] = v[o] BY TreeIs
    <3> HIDE DEF g
    <3>2. n \in AnyTree BY TreeIs
    <3>3. ValueOf(n, g, h) = ValueOf(n, v, h) BY <3>1, <3>2, ValueIsLocal
    <3>4. g[n] = v[n] BY DEF g
    <3>5. QED BY <1>2, <3>2, <3>3, <3>4
  <2>2. g = [n \in Tree |-> g[n]] OBVIOUS
  <2> HIDE DEF g
  <2>3. Is(g) BY <2>1, <2>2
  <2>4. QED BY <2>3
<1> HIDE DEF w
<1> DEFINE G == {n \in AnyTree : n \in Tree => w[n] = v[n]}
<1>4. ASSUME NEW n \in AnyTree, Operands(n) \subseteq G PROVE n \in G
  <2>1. SUFFICES ASSUME n \in Tree PROVE w[n] = v[n] OBVIOUS
  <2>2. \A o \in Operands(n) : w[o] = v[o] BY <1>4, <2>1, TreeIs
  <2>3. w[n] = ValueOf(n, w, h) BY <1>3, <2>1
  <2>4. QED BY <1>2, <2>2, <2>3, ValueIsLocal
<1> HIDE DEF G
<1>5. AnyTree \subseteq G BY <1>4, TreeInduction
<1>6. QED BY <1>1, <1>5, TreeIs DEF G, v

-----------------------------------------------------------------------------
(* Whether a tree of any height folds to true.                             *)

FoldsOf(n, f) ==
  [b \in BOOLEAN |->
     \/ n.t = "TINT" /\ b /\ n.val # 0
     \/ n.t = "TNOT" /\ f[n.right][~ b]
     \/ n.t \in {"TAND", "TOR"} /\ f[n.left][b] /\ f[n.right][b]
     \/ n.t \in {"TAND", "TOR"} /\ (b <=> n.t = "TOR")
                               /\ (f[n.left][b] \/ f[n.right][b])]

Sided == [BOOLEAN -> BOOLEAN]

Folding == CHOOSE f \in [AnyTree -> Sided] : \A n \in AnyTree : f[n] = FoldsOf(n, f)

LEMMA FoldsIsLocal ==
  ASSUME NEW n \in AnyTree, NEW f, NEW g, \A o \in Operands(n) : f[o] = g[o]
  PROVE  FoldsOf(n, f) = FoldsOf(n, g)
<1>1. CASE n.t \in Binary
  <2>1. f[n.left] = g[n.left] /\ f[n.right] = g[n.right] BY <1>1, OperandsAre
  <2>2. QED BY <2>1, <1>1 DEF FoldsOf, Binary, Comparisons
<1>2. CASE n.t = "TNOT"
  <2>1. f[n.right] = g[n.right] BY <1>2, OperandsAre
  <2>2. QED BY <2>1, <1>2 DEF FoldsOf
<1>3. CASE n.t \in {"TINT", "TKWORD"} BY <1>3 DEF FoldsOf
<1>4. QED BY <1>1, <1>2, <1>3, Kinds

LEMMA FoldsIsSided ==
  ASSUME NEW n, NEW f PROVE FoldsOf(n, f) \in Sided
BY DEF FoldsOf, Sided

LEMMA FoldingIs ==
  /\ Folding \in [AnyTree -> Sided]
  /\ \A n \in AnyTree : Folding[n] = FoldsOf(n, Folding)
<1> DEFINE F == [AnyTree -> Sided]
           rank == [n \in AnyTree |-> Height(n)]
           step == [x \in AnyTree \X F |-> FoldsOf(x[1], x[2])]
           v == [b \in BOOLEAN |-> FALSE]
<1>0. v \in Sided BY DEF Sided
<1> HIDE DEF v
<1>1. rank \in [AnyTree -> Nat] BY HeightIs
<1>2. \A n \in AnyTree : \A f \in F : step[<<n, f>>] = FoldsOf(n, f) OBVIOUS
<1>3. step \in [AnyTree \X F -> Sided]
  <2>1. \A x \in AnyTree \X F : FoldsOf(x[1], x[2]) \in Sided BY FoldsIsSided
  <2>2. QED BY <2>1
<1>4. ASSUME NEW n \in AnyTree, NEW f \in F, NEW g \in F,
             \A m \in AnyTree : rank[m] < rank[n] => f[m] = g[m]
      PROVE  step[<<n, f>>] = step[<<n, g>>]
  <2>1. \A o \in Operands(n) : f[o] = g[o] BY <1>4, AnyTreeShaped
  <2>2. QED BY <1>2, <2>1, FoldsIsLocal
<1> HIDE DEF rank, step
<1>5. LocalStep(AnyTree, Sided, rank, step) BY <1>1, <1>3, <1>4 DEF LocalStep
<1>6. \E f \in F : \A n \in AnyTree : f[n] = step[<<n, f>>]
  <2>1. PICK f : DefinedBy(f, AnyTree, Sided, step) BY <1>0, <1>5, RecursionExists
  <2>2. QED BY <2>1 DEF DefinedBy
<1>7. \E f \in F : \A n \in AnyTree : f[n] = FoldsOf(n, f) BY <1>2, <1>6
<1>8. QED BY <1>7 DEF Folding

(* FoldsToTrue() reads as a tree is written, at any height.                *)
LEMMA FoldsToTrueIs ==
  ASSUME NEW r \in Tree, NEW said \in BOOLEAN
  PROVE  FoldsToTrue(r, said) = Folding[r][said]
<1> DEFINE Is(f) == f = [n \in Tree |-> FoldsOf(n, f)]
           w == CHOOSE f : Is(f)
<1>1. FoldsToTrue(r, said) = w[r][said] BY DEF FoldsToTrue, FoldsOf
<1>2. \A n \in AnyTree : Folding[n] = FoldsOf(n, Folding) BY FoldingIs
<1>3. Is(w)
  <2> DEFINE g == [n \in Tree |-> Folding[n]]
  <2>1. ASSUME NEW n \in Tree PROVE g[n] = FoldsOf(n, g)
    <3>1. \A o \in Operands(n) : g[o] = Folding[o] BY TreeIs
    <3> HIDE DEF g
    <3>2. n \in AnyTree BY TreeIs
    <3>3. FoldsOf(n, g) = FoldsOf(n, Folding) BY <3>1, <3>2, FoldsIsLocal
    <3>4. g[n] = Folding[n] BY DEF g
    <3>5. QED BY <1>2, <3>2, <3>3, <3>4
  <2>2. g = [n \in Tree |-> g[n]] OBVIOUS
  <2> HIDE DEF g
  <2>3. Is(g) BY <2>1, <2>2
  <2>4. QED BY <2>3
<1> HIDE DEF w
<1> DEFINE G == {n \in AnyTree : n \in Tree => w[n] = Folding[n]}
<1>4. ASSUME NEW n \in AnyTree, Operands(n) \subseteq G PROVE n \in G
  <2>1. SUFFICES ASSUME n \in Tree PROVE w[n] = Folding[n] OBVIOUS
  <2>2. \A o \in Operands(n) : w[o] = Folding[o] BY <1>4, <2>1, TreeIs
  <2>3. w[n] = FoldsOf(n, w) BY <1>3, <2>1
  <2>4. QED BY <1>2, <2>2, <2>3, FoldsIsLocal
<1> HIDE DEF G
<1>5. AnyTree \subseteq G BY <1>4, TreeInduction
<1>6. QED BY <1>1, <1>5, TreeIs DEF G

-----------------------------------------------------------------------------
(* Whether a tree of any height has a literal for an operand.              *)

InsideOf(n, f) ==
  /\ n.t \in {"TAND", "TOR"}
  /\ \E o \in {n.left, n.right} : o.t = "TINT" \/ f[o]

Inside == CHOOSE f \in [AnyTree -> BOOLEAN] : \A n \in AnyTree : f[n] = InsideOf(n, f)

LEMMA InsideIsLocal ==
  ASSUME NEW n \in AnyTree, NEW f, NEW g, \A o \in Operands(n) : f[o] = g[o]
  PROVE  InsideOf(n, f) = InsideOf(n, g)
<1>1. CASE n.t \in {"TAND", "TOR"}
  <2>1. \A o \in {n.left, n.right} : f[o] = g[o] BY <1>1, OperandsAre DEF Binary
  <2>2. QED BY <2>1 DEF InsideOf
<1>2. CASE n.t \notin {"TAND", "TOR"} BY <1>2 DEF InsideOf
<1>3. QED BY <1>1, <1>2

LEMMA InsideIs ==
  /\ Inside \in [AnyTree -> BOOLEAN]
  /\ \A n \in AnyTree : Inside[n] = InsideOf(n, Inside)
<1> DEFINE V == BOOLEAN
           F == [AnyTree -> V]
           rank == [n \in AnyTree |-> Height(n)]
           step == [x \in AnyTree \X F |-> InsideOf(x[1], x[2])]
           v == FALSE
<1>0. v \in V OBVIOUS
<1>1. rank \in [AnyTree -> Nat] BY HeightIs
<1>2. \A n \in AnyTree : \A f \in F : step[<<n, f>>] = InsideOf(n, f) OBVIOUS
<1>3. step \in [AnyTree \X F -> V]
  <2>1. \A x \in AnyTree \X F : InsideOf(x[1], x[2]) \in V BY DEF InsideOf
  <2>2. QED BY <2>1
<1>4. ASSUME NEW n \in AnyTree, NEW f \in F, NEW g \in F,
             \A m \in AnyTree : rank[m] < rank[n] => f[m] = g[m]
      PROVE  step[<<n, f>>] = step[<<n, g>>]
  <2>1. \A o \in Operands(n) : f[o] = g[o] BY <1>4, AnyTreeShaped
  <2>2. InsideOf(n, f) = InsideOf(n, g) BY <2>1, InsideIsLocal
  <2>3. QED BY <1>2, <2>2
<1> HIDE DEF rank, step, V, v
<1>5. LocalStep(AnyTree, V, rank, step) BY <1>1, <1>3, <1>4 DEF LocalStep
<1>6. \E f \in F : \A n \in AnyTree : f[n] = step[<<n, f>>]
  <2>1. PICK f : DefinedBy(f, AnyTree, V, step) BY <1>0, <1>5, RecursionExists
  <2>2. QED BY <2>1 DEF DefinedBy
<1>7. \E f \in F : \A n \in AnyTree : f[n] = InsideOf(n, f) BY <1>2, <1>6
<1>8. QED BY <1>7 DEF Inside, V

(* LiteralOperand() reads as a tree is written, at any height.             *)
LEMMA LiteralOperandIs ==
  ASSUME NEW r \in Tree
  PROVE  LiteralOperand(r) = Inside[r]
<1> DEFINE Is(f) == f = [n \in Tree |-> InsideOf(n, f)]
           w == CHOOSE f : Is(f)
<1>1. LiteralOperand(r) = w[r] BY DEF LiteralOperand, InsideOf
<1>2. \A n \in AnyTree : Inside[n] = InsideOf(n, Inside) BY InsideIs
<1>3. Is(w)
  <2> DEFINE g == [n \in Tree |-> Inside[n]]
  <2>1. ASSUME NEW n \in Tree PROVE g[n] = InsideOf(n, g)
    <3>1. \A o \in Operands(n) : g[o] = Inside[o] BY TreeIs
    <3> HIDE DEF g
    <3>2. n \in AnyTree BY TreeIs
    <3>3. InsideOf(n, g) = InsideOf(n, Inside) BY <3>1, <3>2, InsideIsLocal
    <3>4. g[n] = Inside[n] BY DEF g
    <3>5. QED BY <1>2, <3>2, <3>3, <3>4
  <2>2. g = [n \in Tree |-> g[n]] OBVIOUS
  <2> HIDE DEF g
  <2>3. Is(g) BY <2>1, <2>2
  <2>4. QED BY <2>3
<1> HIDE DEF w
<1> DEFINE G == {n \in AnyTree : n \in Tree => w[n] = Inside[n]}
<1>4. ASSUME NEW n \in AnyTree, Operands(n) \subseteq G PROVE n \in G
  <2>1. SUFFICES ASSUME n \in Tree PROVE w[n] = Inside[n] OBVIOUS
  <2>2. \A o \in Operands(n) : w[o] = Inside[o] BY <1>4, <2>1, TreeIs
  <2>3. w[n] = InsideOf(n, w) BY <1>3, <2>1
  <2>4. InsideOf(n, w) = InsideOf(n, Inside) BY <2>2, InsideIsLocal
  <2>5. QED BY <1>2, <2>3, <2>4
<1> HIDE DEF G
<1>5. AnyTree \subseteq G BY <1>4, TreeInduction
<1>6. QED BY <1>1, <1>5, TreeIs DEF G

-----------------------------------------------------------------------------
(* Folding a sequence from the left.                                       *)

FoldsWith(f, n, V, v, step) ==
  /\ f \in [0 .. n -> V]
  /\ \A i \in 0 .. n : f[i] = IF i = 0 THEN v ELSE step[<<i, f[i - 1]>>]

LEMMA PrefixExists ==
  ASSUME NEW n \in Nat, NEW V, NEW v \in V, NEW step \in [(1 .. n) \X V -> V]
  PROVE  \E f : FoldsWith(f, n, V, v, step)
<1> DEFINE Upto(m, f) == /\ f \in [0 .. n -> V]
                         /\ \A i \in 0 .. n : i <= m =>
                              f[i] = IF i = 0 THEN v ELSE step[<<i, f[i - 1]>>]
           K == {m \in Nat : \E f : Upto(m, f)}
<1>1. 0 \in K
  <2> DEFINE f == [i \in 0 .. n |-> v]
  <2>1. Upto(0, f) OBVIOUS
  <2>2. QED BY <2>1
<1>2. ASSUME NEW m \in K PROVE m + 1 \in K
  <2>1. PICK f : Upto(m, f) OBVIOUS
  <2>2. CASE m + 1 \notin 0 .. n
    <3>1. Upto(m + 1, f) BY <2>1, <2>2
    <3>2. QED BY <3>1
  <2>3. CASE m + 1 \in 0 .. n
    <3> DEFINE w == step[<<m + 1, f[m]>>]
               g == [i \in 0 .. n |-> IF i = m + 1 THEN w ELSE f[i]]
    <3>1. m \in 0 .. n /\ f[m] \in V BY <2>1, <2>3
    <3>2. <<m + 1, f[m]>> \in (1 .. n) \X V BY <2>3, <3>1
    <3>3. w \in V BY <3>2
    <3> HIDE DEF w
    <3>4. g \in [0 .. n -> V] BY <2>1, <3>3
    <3>5. ASSUME NEW i \in 0 .. n, i <= m + 1
          PROVE  g[i] = IF i = 0 THEN v ELSE step[<<i, g[i - 1]>>]
      <4>1. CASE i = m + 1
        <5>1. g[i] = w /\ i # 0 /\ i - 1 = m /\ g[i - 1] = f[m] BY <4>1, <3>1
        <5>2. QED BY <4>1, <5>1 DEF w
      <4>2. CASE i # m + 1
        <5>1. i <= m /\ g[i] = f[i] BY <3>5, <4>2
        <5>2. i # 0 => i - 1 \in 0 .. n /\ g[i - 1] = f[i - 1] BY <5>1
        <5>3. f[i] = IF i = 0 THEN v ELSE step[<<i, f[i - 1]>>] BY <2>1, <5>1
        <5>4. QED BY <5>1, <5>2, <5>3
      <4>3. QED BY <4>1, <4>2
    <3> HIDE DEF g
    <3>6. Upto(m + 1, g) BY <3>4, <3>5
    <3>7. QED BY <3>6
  <2>4. QED BY <2>2, <2>3
<1> HIDE DEF K
<1>3. \A m \in Nat : m \in K BY <1>1, <1>2, EveryNumber DEF K
<1>4. PICK f : Upto(n, f) BY <1>3 DEF K
<1>5. FoldsWith(f, n, V, v, step) BY <1>4 DEF FoldsWith
<1>6. QED BY <1>5

Elements(s) == {s[i] : i \in DOMAIN s}

(* The elements of sequences and their concatenations.                     *)
LEMMA ElementsOf ==
  /\ \A S : \A s \in Seq(S) : Elements(s) \subseteq S
  /\ \A S : \A s, t \in Seq(S) : Elements(s \o t) = Elements(s) \cup Elements(t)
  /\ \A x : Elements(<<x>>) = {x}
<1>1. ASSUME NEW S, NEW s \in Seq(S) PROVE Elements(s) \subseteq S BY DEF Elements
<1>2. ASSUME NEW S, NEW s \in Seq(S), NEW t \in Seq(S)
      PROVE  Elements(s \o t) = Elements(s) \cup Elements(t)
  <2>1. /\ DOMAIN (s \o t) = 1 .. (Len(s) + Len(t)) /\ DOMAIN s = 1 .. Len(s)
        /\ DOMAIN t = 1 .. Len(t) /\ Len(s) \in Nat /\ Len(t) \in Nat
    OBVIOUS
  <2>2. \A i \in 1 .. (Len(s) + Len(t)) :
          (s \o t)[i] = IF i <= Len(s) THEN s[i] ELSE t[i - Len(s)]
    OBVIOUS
  <2>3. ASSUME NEW x \in Elements(s \o t) PROVE x \in Elements(s) \cup Elements(t)
    <3>1. PICK i \in 1 .. (Len(s) + Len(t)) : x = (s \o t)[i] BY <2>1 DEF Elements
    <3>2. CASE i <= Len(s)
      <4>1. x = s[i] /\ i \in DOMAIN s BY <2>1, <2>2, <3>1, <3>2
      <4>2. QED BY <4>1 DEF Elements
    <3>3. CASE ~ (i <= Len(s))
      <4>1. x = t[i - Len(s)] /\ i - Len(s) \in DOMAIN t BY <2>1, <2>2, <3>1, <3>3
      <4>2. QED BY <4>1 DEF Elements
    <3>4. QED BY <3>2, <3>3
  <2>4. ASSUME NEW i \in DOMAIN s PROVE s[i] \in Elements(s \o t)
    <3>1. i \in DOMAIN (s \o t) /\ (s \o t)[i] = s[i] BY <2>1, <2>2
    <3>2. QED BY <3>1 DEF Elements
  <2>5. ASSUME NEW i \in DOMAIN t PROVE t[i] \in Elements(s \o t)
    <3> DEFINE j == i + Len(s)
    <3>1. j \in DOMAIN (s \o t) /\ ~ (j <= Len(s)) /\ j - Len(s) = i BY <2>1
    <3> HIDE DEF j
    <3>2. (s \o t)[j] = t[i] BY <2>1, <2>2, <3>1
    <3>3. QED BY <3>1, <3>2 DEF Elements
  <2>6. QED BY <2>3, <2>4, <2>5 DEF Elements
<1>3. ASSUME NEW x PROVE Elements(<<x>>) = {x} BY DEF Elements
<1>4. QED BY <1>1, <1>2, <1>3

-----------------------------------------------------------------------------
(* AND and OR of a sequence of trees.                                      *)

LEMMA AndOfAllFolds ==
  ASSUME NEW G, trueLeaf \in G, \A l, r \in G : Conjoin(l, r) \in G, NEW items \in Seq(G)
  PROVE  \E f \in [0 .. Len(items) -> G] :
           /\ \A i \in 0 .. Len(items) :
                f[i] = IF i = 0 THEN trueLeaf ELSE Conjoin(f[i - 1], items[i])
           /\ andOfAll(items) = f[Len(items)]
<1> DEFINE n == Len(items)
           step == [x \in (1 .. n) \X G |-> Conjoin(x[2], items[x[1]])]
           Is(f) == f = [i \in 0 .. n |-> IF i = 0 THEN trueLeaf ELSE Conjoin(f[i - 1], items[i])]
           w == CHOOSE f : Is(f)
<1>1. n \in Nat /\ \A i \in 1 .. n : items[i] \in G OBVIOUS
<1>2. andOfAll(items) = w[n] BY DEF andOfAll
<1> HIDE DEF n
<1>3. \A x \in (1 .. n) \X G : Conjoin(x[2], items[x[1]]) \in G BY <1>1
<1>4. step \in [(1 .. n) \X G -> G] BY <1>3
<1>5. \A i \in 1 .. n : \A l \in G : step[<<i, l>>] = Conjoin(l, items[i]) OBVIOUS
<1> HIDE DEF step
<1> DEFINE v == trueLeaf
<1>v. v \in G OBVIOUS
<1> HIDE DEF v
<1>6a. PICK f : FoldsWith(f, n, G, v, step) BY <1>1, <1>4, <1>v, PrefixExists
<1>6. /\ f \in [0 .. n -> G]
      /\ \A i \in 0 .. n : f[i] = IF i = 0 THEN trueLeaf ELSE step[<<i, f[i - 1]>>]
  BY <1>6a DEF FoldsWith, v
<1>7. \A i \in 0 .. n : f[i] = IF i = 0 THEN trueLeaf ELSE Conjoin(f[i - 1], items[i])
  <2> TAKE i \in 0 .. n
  <2>1. i # 0 => i \in 1 .. n /\ i - 1 \in 0 .. n BY <1>1
  <2>2. i # 0 => f[i - 1] \in G BY <1>6, <2>1
  <2>3. QED BY <1>5, <1>6, <2>1, <2>2
<1>8. Is(f) BY <1>6, <1>7
<1>9. Is(w) BY <1>8
<1> HIDE DEF w
<1> DEFINE K == {i \in Nat : i <= n => w[i] = f[i]}
<1>10. 0 \in K BY <1>1, <1>7, <1>9
<1>11. ASSUME NEW i \in K PROVE i + 1 \in K
  <2>1. SUFFICES ASSUME i + 1 <= n PROVE w[i + 1] = f[i + 1] OBVIOUS
  <2>2. i + 1 \in 0 .. n /\ (i + 1) - 1 = i /\ i + 1 # 0 /\ w[i] = f[i] BY <1>1, <2>1
  <2>3. QED BY <1>7, <1>9, <2>2
<1> HIDE DEF K
<1>12. n \in K BY <1>1, <1>10, <1>11, EveryNumber DEF K
<1>13. andOfAll(items) = f[n] BY <1>1, <1>2, <1>12 DEF K
<1>14. QED BY <1>6, <1>7, <1>13 DEF n

LEMMA OrOfAllFolds ==
  ASSUME NEW G, falseLeaf \in G, \A l, r \in G : Disjoin(l, r) \in G, NEW items \in Seq(G)
  PROVE  \E f \in [0 .. Len(items) -> G] :
           /\ \A i \in 0 .. Len(items) :
                f[i] = IF i = 0 THEN falseLeaf ELSE Disjoin(f[i - 1], items[i])
           /\ orOfAll(items) = f[Len(items)]
<1> DEFINE n == Len(items)
           step == [x \in (1 .. n) \X G |-> Disjoin(x[2], items[x[1]])]
           Is(f) == f = [i \in 0 .. n |-> IF i = 0 THEN falseLeaf ELSE Disjoin(f[i - 1], items[i])]
           w == CHOOSE f : Is(f)
<1>1. n \in Nat /\ \A i \in 1 .. n : items[i] \in G OBVIOUS
<1>2. orOfAll(items) = w[n] BY DEF orOfAll
<1> HIDE DEF n
<1>3. \A x \in (1 .. n) \X G : Disjoin(x[2], items[x[1]]) \in G BY <1>1
<1>4. step \in [(1 .. n) \X G -> G] BY <1>3
<1>5. \A i \in 1 .. n : \A l \in G : step[<<i, l>>] = Disjoin(l, items[i]) OBVIOUS
<1> HIDE DEF step
<1> DEFINE v == falseLeaf
<1>v. v \in G OBVIOUS
<1> HIDE DEF v
<1>6a. PICK f : FoldsWith(f, n, G, v, step) BY <1>1, <1>4, <1>v, PrefixExists
<1>6. /\ f \in [0 .. n -> G]
      /\ \A i \in 0 .. n : f[i] = IF i = 0 THEN falseLeaf ELSE step[<<i, f[i - 1]>>]
  BY <1>6a DEF FoldsWith, v
<1>7. \A i \in 0 .. n : f[i] = IF i = 0 THEN falseLeaf ELSE Disjoin(f[i - 1], items[i])
  <2> TAKE i \in 0 .. n
  <2>1. i # 0 => i \in 1 .. n /\ i - 1 \in 0 .. n BY <1>1
  <2>2. i # 0 => f[i - 1] \in G BY <1>6, <2>1
  <2>3. QED BY <1>5, <1>6, <2>1, <2>2
<1>8. Is(f) BY <1>6, <1>7
<1>9. Is(w) BY <1>8
<1> HIDE DEF w
<1> DEFINE K == {i \in Nat : i <= n => w[i] = f[i]}
<1>10. 0 \in K BY <1>1, <1>7, <1>9
<1>11. ASSUME NEW i \in K PROVE i + 1 \in K
  <2>1. SUFFICES ASSUME i + 1 <= n PROVE w[i + 1] = f[i + 1] OBVIOUS
  <2>2. i + 1 \in 0 .. n /\ (i + 1) - 1 = i /\ i + 1 # 0 /\ w[i] = f[i] BY <1>1, <2>1
  <2>3. QED BY <1>7, <1>9, <2>2
<1> HIDE DEF K
<1>12. n \in K BY <1>1, <1>10, <1>11, EveryNumber DEF K
<1>13. orOfAll(items) = f[n] BY <1>1, <1>2, <1>12 DEF K
<1>14. QED BY <1>6, <1>7, <1>13 DEF n

(* What an interval for an atom is folded from.                            *)
Meets(iv, c, a) == IF Foldable(c) /\ AtomOf(c) = a THEN intersect(iv, IntervalOf(c)) ELSE iv

-----------------------------------------------------------------------------
(* What AND, OR, NOT and comparisons mean.                                 *)

BoundedHand == [Atom -> (LLONG_MIN + 1) .. (LLONG_MAX - 1)]

Holds(n, h)  == Values(h)[n] # 0
IsTrue(n, b) == Folding[n][b]

LEMMA BoundedHandIs == \A h \in BoundedHand : h \in [Atom -> Int]
<1> TAKE h \in BoundedHand
<1>1. (LLONG_MIN + 1) .. (LLONG_MAX - 1) \subseteq Int OBVIOUS
<1>2. QED BY <1>1 DEF BoundedHand

LEMMA Built ==
  /\ \A v \in Int : Lit(v) \in AnyTree
  /\ \A a \in Atom : Qty(a) \in AnyTree
  /\ \A t \in Comparisons : \A l, r \in AnyTree : Cmp(t, l, r) \in AnyTree
  /\ \A l, r \in AnyTree : And(l, r) \in AnyTree /\ Or(l, r) \in AnyTree
  /\ \A r \in AnyTree : Not(r) \in AnyTree
<1>1. ASSUME NEW t \in Binary, NEW l \in AnyTree, NEW r \in AnyTree
      PROVE  Cmp(t, l, r) \in AnyTree
  <2>1. Height(l) \in Nat /\ Height(r) \in Nat BY HeightIs
  <2>2. PICK k \in Nat : Height(l) <= k /\ Height(r) <= k BY <2>1
  <2>3. QED BY <2>2, TreesBuilt
<1>2. \A l, r : And(l, r) = Cmp("TAND", l, r) /\ Or(l, r) = Cmp("TOR", l, r)
  BY DEF And, Or, Cmp
<1>3. QED BY <1>1, <1>2, TreesBuilt DEF Binary

LEMMA HoldsRule ==
  ASSUME NEW h \in [Atom -> Int]
  PROVE  /\ \A v \in Int : Values(h)[Lit(v)] = v
         /\ \A a \in Atom : Values(h)[Qty(a)] = h[a]
         /\ \A n \in AnyTree : Values(h)[n] \in Int
         /\ \A n \in AnyTree : n.t \in Comparisons =>
              (Holds(n, h) <=> Compare(n.t, Values(h)[n.left], Values(h)[n.right]))
         /\ \A n \in AnyTree : n.t = "TNOT" => (Holds(n, h) <=> ~ Holds(n.right, h))
         /\ \A n \in AnyTree : n.t = "TAND" =>
              (Holds(n, h) <=> Holds(n.left, h) /\ Holds(n.right, h))
         /\ \A n \in AnyTree : n.t = "TOR" =>
              (Holds(n, h) <=> Holds(n.left, h) \/ Holds(n.right, h))
<1> DEFINE f == Values(h)
<1>1. f \in [AnyTree -> Int] /\ \A n \in AnyTree : f[n] = ValueOf(n, f, h) BY ValuesAre
<1>2. \A b \in BOOLEAN : Truth(b) # 0 <=> b BY DEF Truth
<1> HIDE DEF f
<1>3. ASSUME NEW v \in Int PROVE f[Lit(v)] = v
  BY <1>1, Built DEF ValueOf, Lit, Comparisons
<1>4. ASSUME NEW a \in Atom PROVE f[Qty(a)] = h[a]
  BY <1>1, Built DEF ValueOf, Qty, Comparisons
<1>5. ASSUME NEW n \in AnyTree, n.t \in Comparisons
      PROVE  f[n] # 0 <=> Compare(n.t, f[n.left], f[n.right])
  <2>1. f[n] = Truth(Compare(n.t, f[n.left], f[n.right]))
    BY <1>1, <1>5 DEF ValueOf, Comparisons
  <2>2. QED BY <2>1 DEF Truth
<1>6. ASSUME NEW n \in AnyTree, n.t = "TNOT" PROVE f[n] # 0 <=> ~ (f[n.right] # 0)
  <2>1. f[n] = Truth(f[n.right] = 0) BY <1>1, <1>6 DEF ValueOf, Comparisons
  <2>2. QED BY <2>1 DEF Truth
<1>7. ASSUME NEW n \in AnyTree, n.t = "TAND"
      PROVE  f[n] # 0 <=> f[n.left] # 0 /\ f[n.right] # 0
  <2>1. f[n] = IF f[n.left] = 0 THEN 0 ELSE Truth(f[n.right] # 0)
    BY <1>1, <1>7 DEF ValueOf, Comparisons
  <2>2. QED BY <2>1 DEF Truth
<1>8. ASSUME NEW n \in AnyTree, n.t = "TOR"
      PROVE  f[n] # 0 <=> f[n.left] # 0 \/ f[n.right] # 0
  <2>1. f[n] = IF f[n.left] # 0 THEN f[n.left] ELSE Truth(f[n.right] # 0)
    BY <1>1, <1>8 DEF ValueOf, Comparisons
  <2>2. QED BY <2>1 DEF Truth
<1>9. \A n \in AnyTree : f[n] \in Int BY <1>1
<1>10. QED BY <1>3, <1>4, <1>5, <1>6, <1>7, <1>8, <1>9 DEF f, Holds

LEMMA IsTrueRule ==
  ASSUME NEW n \in AnyTree, NEW b \in BOOLEAN
  PROVE  /\ n.t = "TINT" => (IsTrue(n, b) <=> b /\ n.val # 0)
         /\ n.t = "TNOT" => (IsTrue(n, b) <=> IsTrue(n.right, ~ b))
         /\ n.t = "TAND" => (IsTrue(n, b) <=> IF b THEN IsTrue(n.left, b) /\ IsTrue(n.right, b)
                                                   ELSE IsTrue(n.left, b) \/ IsTrue(n.right, b))
         /\ n.t = "TOR" => (IsTrue(n, b) <=> IF b THEN IsTrue(n.left, b) \/ IsTrue(n.right, b)
                                                  ELSE IsTrue(n.left, b) /\ IsTrue(n.right, b))
         /\ n.t \in Comparisons \cup {"TKWORD"} => ~ IsTrue(n, b)
         /\ IsTrue(n, b) \in BOOLEAN
<1>1. Folding[n] = FoldsOf(n, Folding) /\ Folding[n] \in Sided BY FoldingIs
<1>2. Folding[n][b] = (\/ n.t = "TINT" /\ b /\ n.val # 0
                       \/ n.t = "TNOT" /\ Folding[n.right][~ b]
                       \/ n.t \in {"TAND", "TOR"} /\ Folding[n.left][b] /\ Folding[n.right][b]
                       \/ n.t \in {"TAND", "TOR"} /\ (b <=> n.t = "TOR")
                                 /\ (Folding[n.left][b] \/ Folding[n.right][b]))
  BY <1>1 DEF FoldsOf
<1>3. Folding[n][b] \in BOOLEAN BY <1>1 DEF Sided
<1>4. QED BY <1>2, <1>3 DEF IsTrue, Comparisons

LEMMA InsideRule ==
  ASSUME NEW n \in AnyTree
  PROVE  /\ n.t \in {"TAND", "TOR"} =>
              (Inside[n] <=> \E o \in {n.left, n.right} : o.t = "TINT" \/ Inside[o])
         /\ n.t \notin {"TAND", "TOR"} => ~ Inside[n]
BY InsideIs DEF InsideOf

-----------------------------------------------------------------------------
(* Trees whose literals keep clear of what stands for no bound, also after *)
(* any comparison is negated.                                              *)

Clear(op, v) ==
  CASE op \in {"TGEQ", "TLT"} -> v \in (LLONG_MIN + 2) .. (LLONG_MAX - 1)
    [] op \in {"TLEQ", "TGT"} -> v \in (LLONG_MIN + 1) .. (LLONG_MAX - 2)
    [] OTHER -> v \in (LLONG_MIN + 2) .. (LLONG_MAX - 2)

SafeNode(n) ==
  /\ n.t = "TINT" => n.val \in (LLONG_MIN + 1) .. (LLONG_MAX - 1)
  /\ n.t \in Comparisons /\ n.left.t = "TKWORD" /\ n.right.t = "TINT" => Clear(n.t, n.right.val)
  /\ n.t \in Comparisons /\ n.left.t = "TINT" /\ n.right.t = "TKWORD"
       => Clear(Mirrored(n.t), n.left.val)

Closed(G) == G \subseteq AnyTree /\ \A n \in G : SafeNode(n) /\ Operands(n) \subseteq G

SafeTree == UNION {G \in SUBSET AnyTree : Closed(G)}

LEMMA SafeTreeIs ==
  /\ SafeTree \subseteq AnyTree
  /\ \A n \in SafeTree : SafeNode(n) /\ Operands(n) \subseteq SafeTree
  /\ \A n \in AnyTree : SafeNode(n) /\ Operands(n) \subseteq SafeTree => n \in SafeTree
<1>1. SafeTree \subseteq AnyTree BY DEF SafeTree
<1>2. ASSUME NEW n \in SafeTree PROVE SafeNode(n) /\ Operands(n) \subseteq SafeTree
  <2>1. PICK G \in SUBSET AnyTree : Closed(G) /\ n \in G BY DEF SafeTree
  <2>2. SafeNode(n) /\ Operands(n) \subseteq G BY <2>1 DEF Closed
  <2>3. QED BY <2>1, <2>2 DEF SafeTree
<1>3. ASSUME NEW n \in AnyTree, SafeNode(n), Operands(n) \subseteq SafeTree PROVE n \in SafeTree
  <2> DEFINE G == SafeTree \cup {n}
  <2>1. G \in SUBSET AnyTree BY <1>1
  <2>2. Closed(G) BY <1>1, <1>2, <1>3 DEF Closed
  <2> HIDE DEF G
  <2>3. G \subseteq SafeTree BY <2>1, <2>2 DEF SafeTree
  <2>4. QED BY <2>3 DEF G
<1>4. QED BY <1>1, <1>2, <1>3

(* What simplification may return: no literal inside, and no "true" but    *)
(* the literal.                                                            *)
FineTree == {s \in SafeTree : s.t = "TINT" \/ (~ Inside[s] /\ ~ IsTrue(s, TRUE))}

LEMMA BothFine ==
  ASSUME NEW l \in FineTree, NEW r \in FineTree, l.t # "TINT", r.t # "TINT"
  PROVE  And(l, r) \in FineTree /\ Or(l, r) \in FineTree
<1>1. l \in SafeTree /\ r \in SafeTree /\ ~ Inside[l] /\ ~ Inside[r]
      /\ ~ IsTrue(l, TRUE) /\ ~ IsTrue(r, TRUE)
  BY DEF FineTree
<1>2. l \in AnyTree /\ r \in AnyTree BY <1>1, SafeTreeIs
<1>3. ASSUME NEW n \in {And(l, r), Or(l, r)} PROVE n \in FineTree
  <2>1. n.t \in {"TAND", "TOR"} /\ n.left = l /\ n.right = r BY <1>3 DEF And, Or
  <2>2. n \in AnyTree BY <1>2, Built
  <2>3. Operands(n) = {l, r} BY <2>1 DEF Operands, Binary
  <2>4. SafeNode(n) BY <2>1 DEF SafeNode, Comparisons
  <2>5. n \in SafeTree BY <1>1, <2>2, <2>3, <2>4, SafeTreeIs
  <2>6. ~ Inside[n] BY <1>1, <2>1, <2>2, InsideRule
  <2>7. ~ IsTrue(n, TRUE) BY <1>1, <2>1, <2>2, IsTrueRule
  <2>8. QED BY <2>5, <2>6, <2>7 DEF FineTree
<1>4. QED BY <1>3

LEMMA LeavesFine ==
  trueLeaf \in FineTree /\ falseLeaf \in FineTree
<1>1. 1 \in Int /\ 0 \in Int /\ 1 \in (LLONG_MIN + 1) .. (LLONG_MAX - 1)
      /\ 0 \in (LLONG_MIN + 1) .. (LLONG_MAX - 1)
  BY SimplifyAssumption
<1>2. ASSUME NEW v \in {0, 1} PROVE Lit(v) \in FineTree
  <2>1. Lit(v) \in AnyTree BY Built
  <2>2. SafeNode(Lit(v)) BY <1>1 DEF SafeNode, Lit, Comparisons
  <2>3. Operands(Lit(v)) = {} BY DEF Operands, Lit, Binary, Comparisons
  <2>4. Lit(v) \in SafeTree BY <2>1, <2>2, <2>3, SafeTreeIs
  <2>5. Lit(v).t = "TINT" BY DEF Lit
  <2>6. QED BY <2>4, <2>5 DEF FineTree
<1>3. QED BY <1>2 DEF trueLeaf, falseLeaf

LEMMA LeavesAre ==
  /\ trueLeaf \in AnyTree /\ falseLeaf \in AnyTree
  /\ isTrueLeaf(trueLeaf) /\ ~ isTrueLeaf(falseLeaf) /\ isFalseLeaf(falseLeaf)
  /\ \A h \in [Atom -> Int] : Holds(trueLeaf, h) /\ ~ Holds(falseLeaf, h)
  /\ \A n \in AnyTree : \A h \in [Atom -> Int] :
       /\ isTrueLeaf(n) => Holds(n, h)
       /\ isFalseLeaf(n) => ~ Holds(n, h)
       /\ n.t = "TINT" => isTrueLeaf(n) \/ isFalseLeaf(n)
<1>1. trueLeaf \in AnyTree /\ falseLeaf \in AnyTree BY Built DEF trueLeaf, falseLeaf
<1>2. isTrueLeaf(trueLeaf) /\ ~ isTrueLeaf(falseLeaf) /\ isFalseLeaf(falseLeaf)
  BY DEF isTrueLeaf, isFalseLeaf, trueLeaf, falseLeaf, Lit
<1>3. ASSUME NEW n \in AnyTree, NEW h \in [Atom -> Int], n.t = "TINT"
      PROVE  Holds(n, h) <=> n.val # 0
  <2>1. n.val \in Int /\ n = Lit(n.val) BY <1>3, Kinds
  <2>2. Values(h)[n] = n.val BY <2>1, HoldsRule
  <2>3. QED BY <2>2 DEF Holds
<1>4. QED BY <1>1, <1>2, <1>3 DEF isTrueLeaf, isFalseLeaf

(* One more operand of an AND: what it means, and no literal inside.       *)
LEMMA ConjoinIs ==
  ASSUME NEW l \in AnyTree, NEW r \in AnyTree
  PROVE  /\ Conjoin(l, r) \in AnyTree
         /\ l \in FineTree /\ r \in FineTree => Conjoin(l, r) \in FineTree
         /\ isTrueLeaf(Conjoin(l, r)) <=> isTrueLeaf(l) /\ isTrueLeaf(r)
         /\ \A h \in [Atom -> Int] : Holds(Conjoin(l, r), h) <=> Holds(l, h) /\ Holds(r, h)
<1>1. CASE isFalseLeaf(l) \/ isFalseLeaf(r)
  <2>1. Conjoin(l, r) = falseLeaf BY <1>1 DEF Conjoin, isTrueLeaf, isFalseLeaf
  <2>2. ~ (isTrueLeaf(l) /\ isTrueLeaf(r)) BY <1>1 DEF isTrueLeaf, isFalseLeaf
  <2>3. QED BY <1>1, <2>1, <2>2, LeavesAre, LeavesFine
<1>2. CASE ~ (isFalseLeaf(l) \/ isFalseLeaf(r)) /\ isTrueLeaf(r)
  <2>1. Conjoin(l, r) = l BY <1>2 DEF Conjoin, isTrueLeaf, isFalseLeaf
  <2>2. QED BY <1>2, <2>1, LeavesAre
<1>3. CASE ~ (isFalseLeaf(l) \/ isFalseLeaf(r)) /\ ~ isTrueLeaf(r) /\ isTrueLeaf(l)
  <2>1. Conjoin(l, r) = r BY <1>3 DEF Conjoin, isTrueLeaf, isFalseLeaf
  <2>2. QED BY <1>3, <2>1, LeavesAre
<1>4. CASE ~ (isFalseLeaf(l) \/ isFalseLeaf(r)) /\ ~ isTrueLeaf(r) /\ ~ isTrueLeaf(l)
  <2>1. Conjoin(l, r) = And(l, r) BY <1>4 DEF Conjoin, isTrueLeaf, isFalseLeaf
  <2>2. l.t # "TINT" /\ r.t # "TINT" BY <1>4 DEF isTrueLeaf, isFalseLeaf
  <2>3. And(l, r) \in AnyTree BY Built
  <2>4. And(l, r).t = "TAND" /\ And(l, r).left = l /\ And(l, r).right = r BY DEF And
  <2>5. ~ isTrueLeaf(And(l, r)) BY <2>4 DEF isTrueLeaf
  <2>6. \A h \in [Atom -> Int] : Holds(And(l, r), h) <=> Holds(l, h) /\ Holds(r, h)
    BY <2>3, <2>4, HoldsRule
  <2>7. l \in FineTree /\ r \in FineTree => And(l, r) \in FineTree BY <2>2, BothFine
  <2>8. QED BY <1>4, <2>1, <2>3, <2>5, <2>6, <2>7
<1>5. QED BY <1>1, <1>2, <1>3, <1>4

(* One more operand of an OR: what it means, and no literal inside.        *)
LEMMA DisjoinIs ==
  ASSUME NEW l \in AnyTree, NEW r \in AnyTree
  PROVE  /\ Disjoin(l, r) \in AnyTree
         /\ l \in FineTree /\ r \in FineTree => Disjoin(l, r) \in FineTree
         /\ isTrueLeaf(Disjoin(l, r)) <=> isTrueLeaf(l) \/ isTrueLeaf(r)
         /\ \A h \in [Atom -> Int] : Holds(Disjoin(l, r), h) <=> Holds(l, h) \/ Holds(r, h)
<1>1. CASE isTrueLeaf(l) \/ isTrueLeaf(r)
  <2>1. Disjoin(l, r) = trueLeaf BY <1>1 DEF Disjoin, isTrueLeaf, isFalseLeaf
  <2>2. QED BY <1>1, <2>1, LeavesAre, LeavesFine
<1>2. CASE ~ (isTrueLeaf(l) \/ isTrueLeaf(r)) /\ isFalseLeaf(r)
  <2>1. Disjoin(l, r) = l BY <1>2 DEF Disjoin, isTrueLeaf, isFalseLeaf
  <2>2. QED BY <1>2, <2>1, LeavesAre
<1>3. CASE ~ (isTrueLeaf(l) \/ isTrueLeaf(r)) /\ ~ isFalseLeaf(r) /\ isFalseLeaf(l)
  <2>1. Disjoin(l, r) = r BY <1>3 DEF Disjoin, isTrueLeaf, isFalseLeaf
  <2>2. QED BY <1>3, <2>1, LeavesAre
<1>4. CASE ~ (isTrueLeaf(l) \/ isTrueLeaf(r)) /\ ~ isFalseLeaf(r) /\ ~ isFalseLeaf(l)
  <2>1. Disjoin(l, r) = Or(l, r) BY <1>4 DEF Disjoin, isTrueLeaf, isFalseLeaf
  <2>2. l.t # "TINT" /\ r.t # "TINT" BY <1>4 DEF isTrueLeaf, isFalseLeaf
  <2>3. Or(l, r) \in AnyTree BY Built
  <2>4. Or(l, r).t = "TOR" /\ Or(l, r).left = l /\ Or(l, r).right = r BY DEF Or
  <2>5. ~ isTrueLeaf(Or(l, r)) BY <2>4 DEF isTrueLeaf
  <2>6. \A h \in [Atom -> Int] : Holds(Or(l, r), h) <=> Holds(l, h) \/ Holds(r, h)
    BY <2>3, <2>4, HoldsRule
  <2>7. l \in FineTree /\ r \in FineTree => Or(l, r) \in FineTree BY <2>2, BothFine
  <2>8. QED BY <1>4, <2>1, <2>3, <2>5, <2>6, <2>7
<1>5. QED BY <1>1, <1>2, <1>3, <1>4

LEMMA FineAreTrees == FineTree \subseteq AnyTree
BY SafeTreeIs DEF FineTree

(* An AND of all holds on the hands on which each operand holds.           *)
LEMMA AndOfAllIs ==
  ASSUME NEW items \in Seq(AnyTree)
  PROVE  /\ andOfAll(items) \in AnyTree
         /\ items \in Seq(FineTree) => andOfAll(items) \in FineTree
         /\ isTrueLeaf(andOfAll(items)) <=> \A i \in DOMAIN items : isTrueLeaf(items[i])
         /\ \A h \in [Atom -> Int] :
              Holds(andOfAll(items), h) <=> \A i \in DOMAIN items : Holds(items[i], h)
<1> DEFINE n == Len(items)
           G == AnyTree
           F == FineTree
<1>1. trueLeaf \in G /\ \A l, r \in G : Conjoin(l, r) \in G BY LeavesAre, ConjoinIs
<1>2. trueLeaf \in F /\ \A l, r \in F : Conjoin(l, r) \in F
  <2>1. \A l, r \in F : l \in AnyTree /\ r \in AnyTree BY FineAreTrees
  <2>2. QED BY <2>1, LeavesFine, ConjoinIs
<1>3. items \in Seq(G) OBVIOUS
<1> HIDE DEF G, F
<1>4. PICK f \in [0 .. Len(items) -> G] :
           /\ \A i \in 0 .. Len(items) :
                f[i] = IF i = 0 THEN trueLeaf ELSE Conjoin(f[i - 1], items[i])
           /\ andOfAll(items) = f[Len(items)]
  BY <1>1, <1>3, AndOfAllFolds
<1>5. items \in Seq(F) => andOfAll(items) \in F
  <2>1. SUFFICES ASSUME items \in Seq(F) PROVE andOfAll(items) \in F OBVIOUS
  <2>2. PICK g \in [0 .. Len(items) -> F] :
           /\ \A i \in 0 .. Len(items) :
                g[i] = IF i = 0 THEN trueLeaf ELSE Conjoin(g[i - 1], items[i])
           /\ andOfAll(items) = g[Len(items)]
    BY <1>2, <2>1, AndOfAllFolds
  <2>3. QED BY <2>1, <2>2
<1>6. n \in Nat /\ \A i \in 1 .. n : items[i] \in G BY <1>3
<1>7. DOMAIN items = 1 .. n BY <1>3
<1> DEFINE Right(i) == /\ isTrueLeaf(f[i]) <=> \A j \in 1 .. i : isTrueLeaf(items[j])
                       /\ \A h \in [Atom -> Int] :
                            Holds(f[i], h) <=> \A j \in 1 .. i : Holds(items[j], h)
           K == {i \in Nat : i <= n => Right(i)}
<1> HIDE DEF n
<1>8. \A i \in 0 .. n : f[i] \in G BY <1>4 DEF n
<1>9. 0 \in K
  <2>1. f[0] = trueLeaf BY <1>4, <1>6 DEF n
  <2>2. QED BY <2>1, LeavesAre
<1>10. ASSUME NEW i \in K PROVE i + 1 \in K
  <2>1. SUFFICES ASSUME i + 1 <= n PROVE Right(i + 1) OBVIOUS
  <2>2. i + 1 \in 0 .. n /\ i + 1 \in 1 .. n /\ i \in 0 .. n /\ i + 1 # 0 /\ (i + 1) - 1 = i
    BY <1>6, <2>1
  <2>3. f[i + 1] = Conjoin(f[i], items[i + 1]) BY <1>4, <2>2 DEF n
  <2>4. f[i] \in AnyTree /\ items[i + 1] \in AnyTree BY <1>6, <1>8, <2>2 DEF G
  <2>5. Right(i) BY <2>1, <1>10, <2>2
  <2>6. \A j : j \in 1 .. (i + 1) <=> j \in 1 .. i \/ j = i + 1 BY <2>2
  <2>7. isTrueLeaf(f[i + 1]) <=> isTrueLeaf(f[i]) /\ isTrueLeaf(items[i + 1])
    BY <2>3, <2>4, ConjoinIs
  <2>8. \A h \in [Atom -> Int] :
          Holds(f[i + 1], h) <=> Holds(f[i], h) /\ Holds(items[i + 1], h)
    BY <2>3, <2>4, ConjoinIs
  <2>9. QED BY <2>5, <2>6, <2>7, <2>8
<1> HIDE DEF K
<1>11. n \in K BY <1>6, <1>9, <1>10, EveryNumber DEF K
<1>12. Right(n) BY <1>6, <1>11 DEF K
<1>13. andOfAll(items) = f[n] /\ f[n] \in G BY <1>4, <1>6, <1>8 DEF n
<1>14. QED BY <1>5, <1>7, <1>12, <1>13 DEF G, F

(* An OR of all holds on the hands on which some operand holds.            *)
LEMMA OrOfAllIs ==
  ASSUME NEW items \in Seq(AnyTree)
  PROVE  /\ orOfAll(items) \in AnyTree
         /\ items \in Seq(FineTree) => orOfAll(items) \in FineTree
         /\ isTrueLeaf(orOfAll(items)) <=> \E i \in DOMAIN items : isTrueLeaf(items[i])
         /\ \A h \in [Atom -> Int] :
              Holds(orOfAll(items), h) <=> \E i \in DOMAIN items : Holds(items[i], h)
<1> DEFINE n == Len(items)
           G == AnyTree
           F == FineTree
<1>1. falseLeaf \in G /\ \A l, r \in G : Disjoin(l, r) \in G BY LeavesAre, DisjoinIs
<1>2. falseLeaf \in F /\ \A l, r \in F : Disjoin(l, r) \in F
  <2>1. \A l, r \in F : l \in AnyTree /\ r \in AnyTree BY FineAreTrees
  <2>2. QED BY <2>1, LeavesFine, DisjoinIs
<1>3. items \in Seq(G) OBVIOUS
<1> HIDE DEF G, F
<1>4. PICK f \in [0 .. Len(items) -> G] :
           /\ \A i \in 0 .. Len(items) :
                f[i] = IF i = 0 THEN falseLeaf ELSE Disjoin(f[i - 1], items[i])
           /\ orOfAll(items) = f[Len(items)]
  BY <1>1, <1>3, OrOfAllFolds
<1>5. items \in Seq(F) => orOfAll(items) \in F
  <2>1. SUFFICES ASSUME items \in Seq(F) PROVE orOfAll(items) \in F OBVIOUS
  <2>2. PICK g \in [0 .. Len(items) -> F] :
           /\ \A i \in 0 .. Len(items) :
                g[i] = IF i = 0 THEN falseLeaf ELSE Disjoin(g[i - 1], items[i])
           /\ orOfAll(items) = g[Len(items)]
    BY <1>2, <2>1, OrOfAllFolds
  <2>3. QED BY <2>1, <2>2
<1>6. n \in Nat /\ \A i \in 1 .. n : items[i] \in G BY <1>3
<1>7. DOMAIN items = 1 .. n BY <1>3
<1> DEFINE Right(i) == /\ isTrueLeaf(f[i]) <=> \E j \in 1 .. i : isTrueLeaf(items[j])
                       /\ \A h \in [Atom -> Int] :
                            Holds(f[i], h) <=> \E j \in 1 .. i : Holds(items[j], h)
           K == {i \in Nat : i <= n => Right(i)}
<1> HIDE DEF n
<1>8. \A i \in 0 .. n : f[i] \in G BY <1>4 DEF n
<1>9. 0 \in K
  <2>1. f[0] = falseLeaf BY <1>4, <1>6 DEF n
  <2>2. QED BY <2>1, LeavesAre
<1>10. ASSUME NEW i \in K PROVE i + 1 \in K
  <2>1. SUFFICES ASSUME i + 1 <= n PROVE Right(i + 1) OBVIOUS
  <2>2. i + 1 \in 0 .. n /\ i + 1 \in 1 .. n /\ i \in 0 .. n /\ i + 1 # 0 /\ (i + 1) - 1 = i
    BY <1>6, <2>1
  <2>3. f[i + 1] = Disjoin(f[i], items[i + 1]) BY <1>4, <2>2 DEF n
  <2>4. f[i] \in AnyTree /\ items[i + 1] \in AnyTree BY <1>6, <1>8, <2>2 DEF G
  <2>5. Right(i) BY <2>1, <1>10, <2>2
  <2>6. \A j : j \in 1 .. (i + 1) <=> j \in 1 .. i \/ j = i + 1 BY <2>2
  <2>7. isTrueLeaf(f[i + 1]) <=> isTrueLeaf(f[i]) \/ isTrueLeaf(items[i + 1])
    BY <2>3, <2>4, DisjoinIs
  <2>8. \A h \in [Atom -> Int] :
          Holds(f[i + 1], h) <=> Holds(f[i], h) \/ Holds(items[i + 1], h)
    BY <2>3, <2>4, DisjoinIs
  <2>9. QED BY <2>5, <2>6, <2>7, <2>8
<1> HIDE DEF K
<1>11. n \in K BY <1>6, <1>9, <1>10, EveryNumber DEF K
<1>12. Right(n) BY <1>6, <1>11 DEF K
<1>13. orOfAll(items) = f[n] /\ f[n] \in G BY <1>4, <1>6, <1>8 DEF n
<1>14. QED BY <1>5, <1>7, <1>12, <1>13 DEF G, F

-----------------------------------------------------------------------------
(* The operands of an AND or an OR, however they are nested.               *)

SplitOf(n, f, op) == IF n.t = op THEN f[n.left] \o f[n.right] ELSE <<n>>

LEMMA FlattenedFolds ==
  ASSUME NEW op \in {"TAND", "TOR"}
  PROVE  \E f \in [Tree -> Seq(Tree)] :
           /\ \A n \in Tree : f[n] = SplitOf(n, f, op)
           /\ \A n \in Tree : Flattened(n, op) = f[n]
<1> DEFINE S == Tree
           V == Seq(S)
           F == [S -> V]
           rank == [n \in S |-> Height(n)]
           step == [x \in S \X F |-> SplitOf(x[1], x[2], op)]
           Is(f) == f = [n \in S |-> SplitOf(n, f, op)]
           w == CHOOSE f : Is(f)
           v == << >>
<1>0. v \in V OBVIOUS
<1>1. rank \in [S -> Nat] BY HeightIs, TreeIs
<1>2. \A n \in S : \A f \in F : step[<<n, f>>] = SplitOf(n, f, op) OBVIOUS
<1>3. ASSUME NEW n \in S, n.t = op PROVE n.left \in S /\ n.right \in S
  <2>1. Operands(n) = {n.left, n.right} BY <1>3, OperandsAre DEF Binary
  <2>2. QED BY <2>1, TreeIs
<1>4. step \in [S \X F -> V]
  <2>1. ASSUME NEW n \in S, NEW f \in F PROVE SplitOf(n, f, op) \in V
    <3>1. CASE n.t = op
      <4>1. f[n.left] \in V /\ f[n.right] \in V BY <3>1, <1>3
      <4> HIDE DEF S
      <4>2. f[n.left] \o f[n.right] \in V BY <4>1
      <4>3. QED BY <3>1, <4>2 DEF SplitOf
    <3>2. CASE n.t # op
      <4> HIDE DEF S
      <4>1. <<n>> \in V OBVIOUS
      <4>2. QED BY <3>2, <4>1 DEF SplitOf
    <3>3. QED BY <3>1, <3>2
  <2> HIDE DEF V, S, F
  <2>2. \A x \in S \X F : SplitOf(x[1], x[2], op) \in V BY <2>1
  <2>3. QED BY <2>2
<1>5. ASSUME NEW n \in S, NEW f \in F, NEW g \in F,
             \A m \in S : rank[m] < rank[n] => f[m] = g[m]
      PROVE  step[<<n, f>>] = step[<<n, g>>]
  <2>1. \A o \in Operands(n) : f[o] = g[o] BY <1>5, AnyTreeShaped, TreeIs
  <2>2. n.t = op => f[n.left] = g[n.left] /\ f[n.right] = g[n.right]
    BY <2>1, OperandsAre DEF Binary
  <2>3. SplitOf(n, f, op) = SplitOf(n, g, op) BY <2>2 DEF SplitOf
  <2> HIDE DEF step
  <2>4. QED BY <1>2, <2>3
<1>6. \A n \in Tree : Flattened(n, op) = w[n] BY DEF Flattened, SplitOf
<1> HIDE DEF rank, step, V, S, v
<1>7. LocalStep(S, V, rank, step) BY <1>1, <1>4, <1>5 DEF LocalStep
<1>8a. PICK f : DefinedBy(f, S, V, step) BY <1>0, <1>7, RecursionExists
<1>8. f \in F /\ \A n \in S : f[n] = step[<<n, f>>] BY <1>8a DEF DefinedBy
<1>9. \A n \in S : f[n] = SplitOf(n, f, op) BY <1>2, <1>8
<1>10. Is(f) BY <1>8, <1>9
<1>11. Is(w) BY <1>10
<1> HIDE DEF w
<1> DEFINE G == {n \in S : w[n] = f[n]}
<1>12. ASSUME NEW n \in S, \A m \in S : rank[m] < rank[n] => m \in G PROVE n \in G
  <2>1. n.t = op => w[n.left] = f[n.left] /\ w[n.right] = f[n.right]
    <3>1. SUFFICES ASSUME n.t = op PROVE w[n.left] = f[n.left] /\ w[n.right] = f[n.right]
      OBVIOUS
    <3>2. n.left \in S /\ n.right \in S BY <1>3, <3>1
    <3>3. n.left \in Operands(n) /\ n.right \in Operands(n) BY <3>1, OperandsAre DEF Binary
    <3>4. n \in AnyTree BY TreeIs DEF S
    <3>5. Height(n.left) < Height(n) /\ Height(n.right) < Height(n)
      BY <3>3, <3>4, AnyTreeShaped
    <3>6. rank[n.left] < rank[n] /\ rank[n.right] < rank[n] BY <3>2, <3>5 DEF rank
    <3>7. n.left \in G /\ n.right \in G BY <1>12, <3>2, <3>6
    <3>8. QED BY <3>7
  <2>2. SplitOf(n, w, op) = SplitOf(n, f, op) BY <2>1 DEF SplitOf
  <2>3. w[n] = SplitOf(n, w, op) BY <1>11
  <2>4. QED BY <2>2, <2>3, <1>9
<1> HIDE DEF G
<1>13. S \subseteq G BY <1>1, <1>12, RankInduction
<1>14. \A n \in S : w[n] = f[n] BY <1>13 DEF G
<1>15. QED BY <1>6, <1>8, <1>9, <1>14 DEF S, V

(* The operands of a nested AND or OR are lower and mean what it means.    *)
LEMMA FlattenedIs ==
  ASSUME NEW op \in {"TAND", "TOR"}, NEW n \in Tree
  PROVE  /\ Flattened(n, op) \in Seq(Tree)
         /\ \A x \in Elements(Flattened(n, op)) :
              /\ x \in Tree /\ Height(x) <= Height(n) /\ (n.t = op => Height(x) < Height(n))
              /\ n \in SafeTree => x \in SafeTree
         /\ \A h \in [Atom -> Int] :
              /\ op = "TAND" =>
                   (Holds(n, h) <=> \A x \in Elements(Flattened(n, op)) : Holds(x, h))
              /\ op = "TOR" =>
                   (Holds(n, h) <=> \E x \in Elements(Flattened(n, op)) : Holds(x, h))
         /\ op = "TAND" =>
              (IsTrue(n, TRUE) <=> \A x \in Elements(Flattened(n, op)) : IsTrue(x, TRUE))
         /\ op = "TOR" =>
              (IsTrue(n, TRUE) <=> \E x \in Elements(Flattened(n, op)) : IsTrue(x, TRUE))
<1>1. PICK f \in [Tree -> Seq(Tree)] : /\ \A m \in Tree : f[m] = SplitOf(m, f, op)
                                       /\ \A m \in Tree : Flattened(m, op) = f[m]
  BY FlattenedFolds
<1> DEFINE E(m) == Elements(f[m])
           Parts(m) == \A x \in E(m) :
                         /\ x \in Tree /\ Height(x) <= Height(m)
                         /\ m.t = op => Height(x) < Height(m)
                         /\ m \in SafeTree => x \in SafeTree
           Means(m) == \A h \in [Atom -> Int] :
                         /\ op = "TAND" => (Holds(m, h) <=> \A x \in E(m) : Holds(x, h))
                         /\ op = "TOR" => (Holds(m, h) <=> \E x \in E(m) : Holds(x, h))
           Folds(m) == /\ op = "TAND" => (IsTrue(m, TRUE) <=> \A x \in E(m) : IsTrue(x, TRUE))
                       /\ op = "TOR" => (IsTrue(m, TRUE) <=> \E x \in E(m) : IsTrue(x, TRUE))
           G == {m \in AnyTree : m \in Tree => Parts(m) /\ Means(m) /\ Folds(m)}
<1>2. ASSUME NEW m \in AnyTree, Operands(m) \subseteq G PROVE m \in G
  <2>1. SUFFICES ASSUME m \in Tree PROVE Parts(m) /\ Means(m) /\ Folds(m) OBVIOUS
  <2>2. CASE m.t # op
    <3>1. f[m] = <<m>> BY <1>1, <2>1, <2>2 DEF SplitOf
    <3>2. E(m) = {m} BY <3>1, ElementsOf
    <3> HIDE DEF E
    <3>3. Height(m) \in Nat BY HeightIs
    <3>4. Parts(m) BY <2>1, <2>2, <3>2, <3>3
    <3>5. Means(m) BY <3>2
    <3>6. Folds(m) BY <3>2
    <3>7. QED BY <3>4, <3>5, <3>6
  <2>3. CASE m.t = op
    <3>1. Operands(m) = {m.left, m.right} /\ m.t \in Binary BY <2>3, OperandsAre DEF Binary
    <3>2. m.left \in Tree /\ m.right \in Tree BY <2>1, <3>1, TreeIs
    <3>3. f[m] = f[m.left] \o f[m.right] BY <1>1, <2>1, <2>3 DEF SplitOf
    <3>4. f[m.left] \in Seq(Tree) /\ f[m.right] \in Seq(Tree) BY <1>1, <3>2
    <3>5. E(m) = E(m.left) \cup E(m.right) BY <3>3, <3>4, ElementsOf
    <3> HIDE DEF E
    <3>6. m.left \in G /\ m.right \in G BY <1>2, <3>1
    <3>7. Parts(m.left) /\ Parts(m.right) BY <3>2, <3>6
    <3>8. Means(m.left) /\ Means(m.right) BY <3>2, <3>6
    <3>9. Folds(m.left) /\ Folds(m.right) BY <3>2, <3>6
    <3>10. Height(m.left) < Height(m) /\ Height(m.right) < Height(m)
      BY <3>1, AnyTreeShaped
    <3>11. Height(m) \in Nat /\ Height(m.left) \in Nat /\ Height(m.right) \in Nat
      BY <3>2, HeightIs, TreeIs
    <3>12. m \in SafeTree => m.left \in SafeTree /\ m.right \in SafeTree
      BY <3>1, SafeTreeIs
    <3>13. Parts(m)
      <4>1. ASSUME NEW x \in E(m)
            PROVE  x \in Tree /\ Height(x) < Height(m) /\ (m \in SafeTree => x \in SafeTree)
        <5>1. PICK o \in {m.left, m.right} : x \in E(o) BY <3>5
        <5>2. x \in Tree /\ Height(x) <= Height(o) /\ (o \in SafeTree => x \in SafeTree)
          BY <5>1, <3>7
        <5>3. Height(x) \in Nat BY <5>2, HeightIs, TreeIs
        <5>4. QED BY <5>1, <5>2, <5>3, <3>10, <3>11, <3>12
      <4>2. \A x \in E(m) : x \in Tree => Height(x) \in Nat BY HeightIs, TreeIs
      <4>3. QED BY <4>1, <4>2, <3>11
    <3>14. Means(m)
      <4> SUFFICES ASSUME NEW h \in [Atom -> Int]
                   PROVE  /\ op = "TAND" => (Holds(m, h) <=> \A x \in E(m) : Holds(x, h))
                          /\ op = "TOR" => (Holds(m, h) <=> \E x \in E(m) : Holds(x, h))
        OBVIOUS
      <4>1. CASE op = "TAND"
        <5>1. Holds(m, h) <=> Holds(m.left, h) /\ Holds(m.right, h) BY <2>3, <4>1, HoldsRule
        <5>2. QED BY <4>1, <5>1, <3>5, <3>8
      <4>2. CASE op = "TOR"
        <5>1. Holds(m, h) <=> Holds(m.left, h) \/ Holds(m.right, h) BY <2>3, <4>2, HoldsRule
        <5>2. QED BY <4>2, <5>1, <3>5, <3>8
      <4>3. QED BY <4>1, <4>2
    <3>15. Folds(m)
      <4>1. CASE op = "TAND"
        <5>1. IsTrue(m, TRUE) <=> IsTrue(m.left, TRUE) /\ IsTrue(m.right, TRUE)
          BY <2>3, <4>1, IsTrueRule
        <5>2. QED BY <4>1, <5>1, <3>5, <3>9
      <4>2. CASE op = "TOR"
        <5>1. IsTrue(m, TRUE) <=> IsTrue(m.left, TRUE) \/ IsTrue(m.right, TRUE)
          BY <2>3, <4>2, IsTrueRule
        <5>2. QED BY <4>2, <5>1, <3>5, <3>9
      <4>3. QED BY <4>1, <4>2
    <3>16. QED BY <3>13, <3>14, <3>15
  <2>4. QED BY <2>2, <2>3
<1>3. f[n] \in Seq(Tree) /\ Flattened(n, op) = f[n] BY <1>1
<1> HIDE DEF G
<1>4. AnyTree \subseteq G BY <1>2, TreeInduction
<1>5. n \in AnyTree BY TreeIs
<1>6. Parts(n) /\ Means(n) /\ Folds(n) BY <1>4, <1>5 DEF G
<1>7. QED BY <1>3, <1>6

-----------------------------------------------------------------------------
(* Intervals.                                                              *)

Interval == [lo : Int, hi : Int]

Within(x, iv) == iv.lo <= x /\ x <= iv.hi

(* Intervals whose bounds are none, or keep clear of what stands for none. *)
ClearInterval ==
  [lo : {LLONG_MIN} \cup ((LLONG_MIN + 2) .. (LLONG_MAX - 1)),
   hi : {LLONG_MAX} \cup ((LLONG_MIN + 1) .. (LLONG_MAX - 2))]

Inner == (LLONG_MIN + 1) .. (LLONG_MAX - 1)

LEMMA Ends ==
  /\ LLONG_MIN \in Int /\ LLONG_MAX \in Int /\ LLONG_MIN < -1 /\ LLONG_MAX > 2
  /\ Unbounded \in Interval /\ Unbounded \in ClearInterval
  /\ Unbounded.lo = LLONG_MIN /\ Unbounded.hi = LLONG_MAX
  /\ ClearInterval \subseteq Interval
  /\ \A iv \in ClearInterval : LLONG_MIN <= iv.lo /\ iv.hi <= LLONG_MAX
  /\ \A iv \in Interval : iv.lo = LLONG_MIN /\ iv.hi = LLONG_MAX => iv = Unbounded
  /\ \A x \in Inner : Within(x, Unbounded)
<1>1. LLONG_MIN \in Int /\ LLONG_MAX \in Int /\ LLONG_MIN < -1 /\ LLONG_MAX > 2
  BY SimplifyAssumption
<1>2. Unbounded \in Interval /\ Unbounded.lo = LLONG_MIN /\ Unbounded.hi = LLONG_MAX
  BY <1>1 DEF Unbounded, Interval
<1>3. Unbounded \in ClearInterval BY DEF Unbounded, ClearInterval
<1>4. ASSUME NEW iv \in ClearInterval
      PROVE  iv \in Interval /\ LLONG_MIN <= iv.lo /\ iv.hi <= LLONG_MAX
  BY <1>1 DEF ClearInterval, Interval
<1>5. ASSUME NEW iv \in Interval, iv.lo = LLONG_MIN, iv.hi = LLONG_MAX PROVE iv = Unbounded
  BY <1>5 DEF Interval, Unbounded
<1>6. ASSUME NEW x \in Inner PROVE Within(x, Unbounded) BY <1>1, <1>2 DEF Inner, Within
<1>7. QED BY <1>1, <1>2, <1>3, <1>4, <1>5, <1>6

LEMMA IntersectIs ==
  ASSUME NEW i \in Interval, NEW j \in Interval
  PROVE  /\ intersect(i, j) \in Interval
         /\ \A x \in Int : Within(x, intersect(i, j)) <=> Within(x, i) /\ Within(x, j)
         /\ LLONG_MIN <= j.lo /\ j.hi <= LLONG_MAX
              => LLONG_MIN <= intersect(i, j).lo /\ intersect(i, j).hi <= LLONG_MAX
         /\ i \in ClearInterval /\ j \in ClearInterval =>
              /\ intersect(i, j) \in ClearInterval
              /\ intersect(i, j) = Unbounded <=> i = Unbounded /\ j = Unbounded
<1> DEFINE k == intersect(i, j)
<1>1. /\ i.lo \in Int /\ i.hi \in Int /\ j.lo \in Int /\ j.hi \in Int
      /\ k = [lo |-> Higher(i.lo, j.lo), hi |-> Lower(i.hi, j.hi)]
  BY DEF Interval, intersect
<1>2. k.lo = Higher(i.lo, j.lo) /\ k.hi = Lower(i.hi, j.hi) /\ k \in Interval
  BY <1>1 DEF Higher, Lower, Interval
<1> HIDE DEF k
<1>3. k.lo \in {i.lo, j.lo} /\ k.hi \in {i.hi, j.hi} /\ k.lo >= i.lo /\ k.lo >= j.lo
      /\ k.hi <= i.hi /\ k.hi <= j.hi /\ k.lo \in Int /\ k.hi \in Int
  BY <1>1, <1>2 DEF Higher, Lower
<1>4. \A x \in Int : Within(x, k) <=> Within(x, i) /\ Within(x, j)
  BY <1>1, <1>3 DEF Within
<1>5. LLONG_MIN <= j.lo /\ j.hi <= LLONG_MAX => LLONG_MIN <= k.lo /\ k.hi <= LLONG_MAX
  BY <1>1, <1>3, Ends
<1>6. ASSUME i \in ClearInterval, j \in ClearInterval
      PROVE  /\ k \in ClearInterval
             /\ k = Unbounded <=> i = Unbounded /\ j = Unbounded
  <2>1. k = [lo |-> k.lo, hi |-> k.hi] BY <1>2 DEF Interval
  <2>2. k.lo \in {LLONG_MIN} \cup ((LLONG_MIN + 2) .. (LLONG_MAX - 1))
        /\ k.hi \in {LLONG_MAX} \cup ((LLONG_MIN + 1) .. (LLONG_MAX - 2))
    BY <1>3, <1>6 DEF ClearInterval
  <2>3. k \in ClearInterval BY <2>1, <2>2 DEF ClearInterval
  <2>4. ASSUME k = Unbounded PROVE i = Unbounded /\ j = Unbounded
    <3>1. k.lo = LLONG_MIN /\ k.hi = LLONG_MAX BY <2>4, Ends
    <3>2. LLONG_MIN <= i.lo /\ i.hi <= LLONG_MAX /\ LLONG_MIN <= j.lo /\ j.hi <= LLONG_MAX
      BY <1>6, Ends
    <3>3. i.lo = LLONG_MIN /\ i.hi = LLONG_MAX /\ j.lo = LLONG_MIN /\ j.hi = LLONG_MAX
      BY <3>1, <3>2, <1>1, <1>3, Ends
    <3>4. QED BY <3>3, Ends
  <2>5. ASSUME i = Unbounded, j = Unbounded PROVE k = Unbounded
    <3>1. k.lo = LLONG_MIN /\ k.hi = LLONG_MAX BY <1>3, <2>5, Ends
    <3>2. QED BY <3>1, <1>2, Ends
  <2>6. QED BY <2>3, <2>4, <2>5
<1>7. QED BY <1>2, <1>4, <1>5, <1>6 DEF k

(* In a context, what it does not say already is all that matters.         *)
LEMMA NonRedundantIs ==
  ASSUME NEW iv \in Interval, NEW c \in Interval
  PROVE  /\ nonRedundantPart(iv, c) \in Interval
         /\ iv \in ClearInterval => nonRedundantPart(iv, c) \in ClearInterval
         /\ \A x \in Inner :
              Within(x, c) => (Within(x, nonRedundantPart(iv, c)) <=> Within(x, iv))
         /\ iv = Unbounded /\ LLONG_MIN <= c.lo /\ c.hi <= LLONG_MAX
              => nonRedundantPart(iv, c) = Unbounded
         /\ iv \in ClearInterval /\ c = Unbounded => nonRedundantPart(iv, c) = iv
<1> DEFINE k == nonRedundantPart(iv, c)
<1>1. /\ iv.lo \in Int /\ iv.hi \in Int /\ c.lo \in Int /\ c.hi \in Int
      /\ iv = [lo |-> iv.lo, hi |-> iv.hi]
  BY DEF Interval
<1>2. /\ k = [lo |-> k.lo, hi |-> k.hi]
      /\ k.lo = IF iv.lo <= c.lo THEN LLONG_MIN ELSE iv.lo
      /\ k.hi = IF iv.hi >= c.hi THEN LLONG_MAX ELSE iv.hi
  BY DEF nonRedundantPart
<1> HIDE DEF k
<1>3. k.lo \in Int /\ k.hi \in Int BY <1>1, <1>2, Ends
<1>4. k \in Interval BY <1>2, <1>3 DEF Interval
<1>5. ASSUME iv \in ClearInterval PROVE k \in ClearInterval
  <2>1. k.lo \in {LLONG_MIN} \cup ((LLONG_MIN + 2) .. (LLONG_MAX - 1))
        /\ k.hi \in {LLONG_MAX} \cup ((LLONG_MIN + 1) .. (LLONG_MAX - 2))
    BY <1>2, <1>5 DEF ClearInterval
  <2>2. QED BY <1>2, <2>1 DEF ClearInterval
<1>6. ASSUME NEW x \in Inner, Within(x, c) PROVE Within(x, k) <=> Within(x, iv)
  <2>1. x \in Int /\ LLONG_MIN <= x /\ x <= LLONG_MAX BY Ends DEF Inner
  <2>2. c.lo <= x /\ x <= c.hi BY <1>6 DEF Within
  <2>3. k.lo <= x <=> iv.lo <= x BY <1>1, <1>2, <2>1, <2>2, Ends
  <2>4. x <= k.hi <=> x <= iv.hi BY <1>1, <1>2, <2>1, <2>2, Ends
  <2>5. QED BY <2>3, <2>4 DEF Within
<1>7. ASSUME iv = Unbounded, LLONG_MIN <= c.lo, c.hi <= LLONG_MAX PROVE k = Unbounded
  <2>1. k.lo = LLONG_MIN /\ k.hi = LLONG_MAX BY <1>1, <1>2, <1>7, Ends
  <2>2. QED BY <2>1, <1>4, Ends
<1>8. ASSUME iv \in ClearInterval, c = Unbounded PROVE k = iv
  <2>1. LLONG_MIN <= iv.lo /\ iv.hi <= LLONG_MAX /\ c.lo = LLONG_MIN /\ c.hi = LLONG_MAX
    BY <1>8, Ends
  <2>2. k.lo = iv.lo /\ k.hi = iv.hi BY <1>1, <1>2, <2>1, Ends
  <2>3. QED BY <1>1, <1>2, <2>2
<1>9. QED BY <1>4, <1>5, <1>6, <1>7, <1>8 DEF k

-----------------------------------------------------------------------------
(* Comparisons of an atom with a literal.                                  *)

OpInterval(op, v) ==
  CASE op = "TGEQ" -> [Unbounded EXCEPT !.lo = v]
    [] op = "TLEQ" -> [Unbounded EXCEPT !.hi = v]
    [] op = "TGT"  -> [Unbounded EXCEPT !.lo = v + 1]
    [] op = "TLT"  -> [Unbounded EXCEPT !.hi = v - 1]
    [] op = "TEQU" -> [lo |-> v, hi |-> v]

Bounding == Comparisons \ {"TNEQ"}

LEMMA OpIntervalIs ==
  ASSUME NEW op \in Bounding, NEW v \in Int
  PROVE  /\ OpInterval(op, v) \in Interval
         /\ \A x \in Inner : Within(x, OpInterval(op, v)) <=> Compare(op, x, v)
         /\ Clear(op, v) => OpInterval(op, v) \in ClearInterval
                            /\ OpInterval(op, v) # Unbounded
<1> DEFINE k == OpInterval(op, v)
<1>1. /\ k = [lo |-> k.lo, hi |-> k.hi]
      /\ op = "TGEQ" => k.lo = v /\ k.hi = LLONG_MAX
      /\ op = "TLEQ" => k.lo = LLONG_MIN /\ k.hi = v
      /\ op = "TGT" => k.lo = v + 1 /\ k.hi = LLONG_MAX
      /\ op = "TLT" => k.lo = LLONG_MIN /\ k.hi = v - 1
      /\ op = "TEQU" => k.lo = v /\ k.hi = v
  BY DEF OpInterval, Unbounded, Bounding, Comparisons
<1>2. op \in {"TGEQ", "TLEQ", "TGT", "TLT", "TEQU"} BY DEF Bounding, Comparisons
<1> HIDE DEF k
<1>3. k.lo \in Int /\ k.hi \in Int BY <1>1, <1>2, Ends
<1>4. k \in Interval BY <1>1, <1>3 DEF Interval
<1>5. ASSUME NEW x \in Inner PROVE Within(x, k) <=> Compare(op, x, v)
  <2>1. x \in Int /\ LLONG_MIN <= x /\ x <= LLONG_MAX BY Ends DEF Inner
  <2>2. CASE op = "TGEQ" BY <2>1, <2>2, <1>1, Ends DEF Within, Compare
  <2>3. CASE op = "TLEQ" BY <2>1, <2>3, <1>1, Ends DEF Within, Compare
  <2>4. CASE op = "TGT" BY <2>1, <2>4, <1>1, Ends DEF Within, Compare
  <2>5. CASE op = "TLT" BY <2>1, <2>5, <1>1, Ends DEF Within, Compare
  <2>6. CASE op = "TEQU" BY <2>1, <2>6, <1>1, Ends DEF Within, Compare
  <2>7. QED BY <1>2, <2>2, <2>3, <2>4, <2>5, <2>6
<1>6. ASSUME Clear(op, v) PROVE k \in ClearInterval /\ k # Unbounded
  <2>1. /\ k.lo \in {LLONG_MIN} \cup ((LLONG_MIN + 2) .. (LLONG_MAX - 1))
        /\ k.hi \in {LLONG_MAX} \cup ((LLONG_MIN + 1) .. (LLONG_MAX - 2))
        /\ k.lo # LLONG_MIN \/ k.hi # LLONG_MAX
    <3>1. CASE op = "TGEQ" BY <3>1, <1>1, <1>6, Ends DEF Clear
    <3>2. CASE op = "TLEQ" BY <3>2, <1>1, <1>6, Ends DEF Clear
    <3>3. CASE op = "TGT" BY <3>3, <1>1, <1>6, Ends DEF Clear
    <3>4. CASE op = "TLT" BY <3>4, <1>1, <1>6, Ends DEF Clear
    <3>5. CASE op = "TEQU" BY <3>5, <1>1, <1>6, Ends DEF Clear
    <3>6. QED BY <1>2, <3>1, <3>2, <3>3, <3>4, <3>5
  <2>2. k \in ClearInterval BY <2>1, <1>1 DEF ClearInterval
  <2>3. k # Unbounded BY <2>1, Ends
  <2>4. QED BY <2>2, <2>3
<1>7. QED BY <1>4, <1>5, <1>6 DEF k

(* A comparison read from the other side is the same comparison.           *)
LEMMA MirroredIs ==
  /\ \A op \in Bounding : Mirrored(op) \in Bounding
  /\ \A op \in Bounding : \A x, v \in Int : Compare(op, v, x) <=> Compare(Mirrored(op), x, v)
<1>1. \A op \in Bounding : Mirrored(op) \in Bounding BY DEF Mirrored, Bounding, Comparisons
<1>2. ASSUME NEW op \in Bounding, NEW x \in Int, NEW v \in Int
      PROVE  Compare(op, v, x) <=> Compare(Mirrored(op), x, v)
  <2>1. op \in {"TGEQ", "TLEQ", "TGT", "TLT", "TEQU"} BY DEF Bounding, Comparisons
  <2>2. CASE op = "TGEQ" BY <2>2 DEF Compare, Mirrored
  <2>3. CASE op = "TLEQ" BY <2>3 DEF Compare, Mirrored
  <2>4. CASE op = "TGT" BY <2>4 DEF Compare, Mirrored
  <2>5. CASE op = "TLT" BY <2>5 DEF Compare, Mirrored
  <2>6. CASE op = "TEQU" BY <2>6 DEF Compare, Mirrored
  <2>7. QED BY <2>1, <2>2, <2>3, <2>4, <2>5, <2>6
<1>3. QED BY <1>1, <1>2

LEMMA FoldableIs ==
  ASSUME NEW n \in AnyTree, Foldable(n)
  PROVE  /\ AtomOf(n) \in Atom
         /\ IntervalOf(n) \in Interval
         /\ n \in SafeTree => IntervalOf(n) \in ClearInterval /\ IntervalOf(n) # Unbounded
         /\ \A h \in BoundedHand : Holds(n, h) <=> Within(h[AtomOf(n)], IntervalOf(n))
<1>1. n.t \in Bounding /\ n.t \in Comparisons /\ n.t \in Binary
  BY DEF Foldable, Bounding, Binary
<1>2. n.left \in AnyTree /\ n.right \in AnyTree BY <1>1, Kinds
<1>3. \A h \in BoundedHand : h \in [Atom -> Int] BY BoundedHandIs
<1>4. \A h \in BoundedHand : \A a \in Atom : h[a] \in Inner BY DEF BoundedHand, Inner
<1>5. Inner \subseteq Int BY DEF Inner
<1>6. CASE n.left.t = "TKWORD" /\ n.right.t = "TINT"
  <2> DEFINE a == n.left.val
             v == n.right.val
  <2>1. a \in Atom /\ n.left = Qty(a) /\ v \in Int /\ n.right = Lit(v) BY <1>2, <1>6, Kinds
  <2>2. AtomOf(n) = a BY <1>6 DEF AtomOf
  <2>3. IntervalOf(n) = OpInterval(n.t, v) BY <1>6 DEF IntervalOf, OpInterval
  <2>4. n \in SafeTree => Clear(n.t, v) BY <1>1, <1>6, SafeTreeIs DEF SafeNode
  <2> HIDE DEF a, v
  <2>5. ASSUME NEW h \in BoundedHand PROVE Holds(n, h) <=> Within(h[a], OpInterval(n.t, v))
    <3>1. Values(h)[n.left] = h[a] /\ Values(h)[n.right] = v BY <2>1, <1>3, HoldsRule
    <3>2. Holds(n, h) <=> Compare(n.t, h[a], v) BY <3>1, <1>1, <1>3, HoldsRule
    <3>3. h[a] \in Inner BY <1>4, <2>1
    <3>4. QED BY <3>2, <3>3, <1>1, <2>1, OpIntervalIs
  <2>6. QED BY <2>1, <2>2, <2>3, <2>4, <2>5, <1>1, OpIntervalIs
<1>7. CASE n.left.t = "TINT" /\ n.right.t = "TKWORD"
  <2> DEFINE a == n.right.val
             v == n.left.val
             op == Mirrored(n.t)
  <2>1. a \in Atom /\ n.right = Qty(a) /\ v \in Int /\ n.left = Lit(v) BY <1>2, <1>7, Kinds
  <2>2. AtomOf(n) = a BY <1>7 DEF AtomOf
  <2>3. IntervalOf(n) = OpInterval(op, v) BY <1>7 DEF IntervalOf, OpInterval
  <2>4. n \in SafeTree => Clear(op, v) BY <1>1, <1>7, SafeTreeIs DEF SafeNode
  <2>5. op \in Bounding BY <1>1, MirroredIs
  <2>6. \A x \in Int : Compare(n.t, v, x) <=> Compare(op, x, v) BY <1>1, <2>1, MirroredIs
  <2> HIDE DEF a, v, op
  <2>7. ASSUME NEW h \in BoundedHand PROVE Holds(n, h) <=> Within(h[a], OpInterval(op, v))
    <3>1. Values(h)[n.right] = h[a] /\ Values(h)[n.left] = v BY <2>1, <1>3, HoldsRule
    <3>2. Holds(n, h) <=> Compare(n.t, v, h[a]) BY <3>1, <1>1, <1>3, HoldsRule
    <3>3. h[a] \in Inner /\ h[a] \in Int BY <1>4, <1>5, <2>1
    <3>4. QED BY <3>2, <3>3, <2>1, <2>5, <2>6, OpIntervalIs
  <2>8. QED BY <2>1, <2>2, <2>3, <2>4, <2>5, <2>7, OpIntervalIs
<1>8. {n.left.t, n.right.t} = {"TKWORD", "TINT"} BY DEF Foldable
<1>9. QED BY <1>6, <1>7, <1>8

(* A bound written out is a tree, and holds as it compares.                *)
LEMMA BoundIs ==
  ASSUME NEW t \in {"TGEQ", "TLEQ", "TEQU"}, NEW a \in Atom, NEW v \in Int
  PROVE  LET n == Cmp(t, Qty(a), Lit(v)) IN
         /\ n \in AnyTree /\ n.t # "TINT" /\ ~ isTrueLeaf(n)
         /\ Clear(t, v) => n \in FineTree
         /\ \A h \in [Atom -> Int] : Holds(n, h) <=> Compare(t, h[a], v)
<1> DEFINE n == Cmp(t, Qty(a), Lit(v))
<1>1. t \in Comparisons BY DEF Comparisons
<1>2. Qty(a) \in AnyTree /\ Lit(v) \in AnyTree /\ n \in AnyTree BY <1>1, Built
<1>3. n.t = t /\ n.left = Qty(a) /\ n.right = Lit(v) BY DEF Cmp
<1>4. Qty(a).t = "TKWORD" /\ Lit(v).t = "TINT" /\ Qty(a).val = a /\ Lit(v).val = v
  BY DEF Qty, Lit
<1> HIDE DEF n
<1>5. n.t # "TINT" /\ ~ isTrueLeaf(n) BY <1>3 DEF isTrueLeaf
<1>6. ASSUME NEW h \in [Atom -> Int] PROVE Holds(n, h) <=> Compare(t, h[a], v)
  <2>1. Values(h)[n.left] = h[a] /\ Values(h)[n.right] = v BY <1>3, HoldsRule
  <2>2. QED BY <2>1, <1>1, <1>2, <1>3, HoldsRule
<1>7. ASSUME Clear(t, v) PROVE n \in FineTree
  <2>1. v \in (LLONG_MIN + 1) .. (LLONG_MAX - 1) BY <1>7, Ends DEF Clear
  <2>2. Qty(a) \in SafeTree
    <3>1. SafeNode(Qty(a)) BY <1>4 DEF SafeNode, Comparisons
    <3>2. Operands(Qty(a)) = {} BY <1>4 DEF Operands, Binary, Comparisons
    <3>3. QED BY <1>2, <3>1, <3>2, SafeTreeIs
  <2>3. Lit(v) \in SafeTree
    <3>1. SafeNode(Lit(v)) BY <1>4, <2>1 DEF SafeNode, Comparisons
    <3>2. Operands(Lit(v)) = {} BY <1>4 DEF Operands, Binary, Comparisons
    <3>3. QED BY <1>2, <3>1, <3>2, SafeTreeIs
  <2>4. SafeNode(n) BY <1>3, <1>4, <1>7 DEF SafeNode
  <2>5. Operands(n) = {Qty(a), Lit(v)} BY <1>1, <1>3 DEF Operands, Binary
  <2>6. n \in SafeTree BY <1>2, <2>2, <2>3, <2>4, <2>5, SafeTreeIs
  <2>7. ~ Inside[n] BY <1>2, <1>3, InsideRule
  <2>8. ~ IsTrue(n, TRUE) BY <1>1, <1>2, <1>3, IsTrueRule
  <2>9. QED BY <2>6, <2>7, <2>8 DEF FineTree
<1>8. QED BY <1>2, <1>5, <1>6, <1>7 DEF n

(* An interval written out holds where it has the value of the atom.       *)
LEMMA BuildIs ==
  ASSUME NEW a \in Atom, NEW iv \in Interval
  PROVE  /\ buildIntervalNode(a, iv) \in AnyTree
         /\ iv \in ClearInterval => buildIntervalNode(a, iv) \in FineTree
         /\ isTrueLeaf(buildIntervalNode(a, iv)) <=> iv = Unbounded
         /\ \A h \in BoundedHand : Holds(buildIntervalNode(a, iv), h) <=> Within(h[a], iv)
<1> DEFINE n == buildIntervalNode(a, iv)
           low == Cmp("TGEQ", Qty(a), Lit(iv.lo))
           high == Cmp("TLEQ", Qty(a), Lit(iv.hi))
           same == Cmp("TEQU", Qty(a), Lit(iv.lo))
<1>1. iv.lo \in Int /\ iv.hi \in Int BY DEF Interval
<1>2. \A h \in BoundedHand : /\ h \in [Atom -> Int] /\ h[a] \in Int
                             /\ LLONG_MIN < h[a] /\ h[a] < LLONG_MAX
  <2> TAKE h \in BoundedHand
  <2>1. h \in [Atom -> Int] BY BoundedHandIs
  <2>2. h[a] \in (LLONG_MIN + 1) .. (LLONG_MAX - 1) BY DEF BoundedHand
  <2>3. QED BY <2>1, <2>2, Ends
<1>3. /\ low \in AnyTree /\ low.t # "TINT" /\ ~ isTrueLeaf(low)
      /\ Clear("TGEQ", iv.lo) => low \in FineTree
      /\ \A h \in [Atom -> Int] : Holds(low, h) <=> Compare("TGEQ", h[a], iv.lo)
  BY <1>1, BoundIs
<1>4. /\ high \in AnyTree /\ high.t # "TINT" /\ ~ isTrueLeaf(high)
      /\ Clear("TLEQ", iv.hi) => high \in FineTree
      /\ \A h \in [Atom -> Int] : Holds(high, h) <=> Compare("TLEQ", h[a], iv.hi)
  BY <1>1, BoundIs
<1>5. /\ same \in AnyTree /\ ~ isTrueLeaf(same)
      /\ Clear("TEQU", iv.lo) => same \in FineTree
      /\ \A h \in [Atom -> Int] : Holds(same, h) <=> Compare("TEQU", h[a], iv.lo)
  BY <1>1, BoundIs
<1>6. \A h \in BoundedHand : /\ Holds(low, h) <=> iv.lo <= h[a]
                             /\ Holds(high, h) <=> h[a] <= iv.hi
                             /\ Holds(same, h) <=> h[a] = iv.lo
  <2> TAKE h \in BoundedHand
  <2>1. Holds(low, h) <=> h[a] >= iv.lo BY <1>2, <1>3 DEF Compare
  <2>2. Holds(high, h) <=> h[a] <= iv.hi BY <1>2, <1>4 DEF Compare
  <2>3. Holds(same, h) <=> h[a] = iv.lo BY <1>2, <1>5 DEF Compare
  <2> HIDE DEF low, high, same
  <2>4. QED BY <1>1, <1>2, <2>1, <2>2, <2>3
<1>7. iv \in ClearInterval =>
        /\ iv.lo = LLONG_MIN \/ Clear("TGEQ", iv.lo)
        /\ iv.hi = LLONG_MAX \/ Clear("TLEQ", iv.hi)
        /\ iv.lo = iv.hi => Clear("TEQU", iv.lo)
        /\ LLONG_MIN <= iv.lo /\ iv.hi <= LLONG_MAX
  <2> SUFFICES ASSUME iv \in ClearInterval
               PROVE  /\ iv.lo = LLONG_MIN \/ Clear("TGEQ", iv.lo)
                      /\ iv.hi = LLONG_MAX \/ Clear("TLEQ", iv.hi)
                      /\ iv.lo = iv.hi => Clear("TEQU", iv.lo)
                      /\ LLONG_MIN <= iv.lo /\ iv.hi <= LLONG_MAX
    OBVIOUS
  <2>1. iv.lo \in {LLONG_MIN} \cup ((LLONG_MIN + 2) .. (LLONG_MAX - 1))
        /\ iv.hi \in {LLONG_MAX} \cup ((LLONG_MIN + 1) .. (LLONG_MAX - 2))
    BY DEF ClearInterval
  <2>2. iv.lo = LLONG_MIN \/ Clear("TGEQ", iv.lo) BY <2>1 DEF Clear
  <2>3. iv.hi = LLONG_MAX \/ Clear("TLEQ", iv.hi) BY <2>1 DEF Clear
  <2>4. iv.lo = iv.hi => iv.lo \in (LLONG_MIN + 2) .. (LLONG_MAX - 2) BY <2>1, Ends
  <2>5. iv.lo = iv.hi => Clear("TEQU", iv.lo) BY <2>4 DEF Clear
  <2>6. QED BY <2>2, <2>3, <2>5, Ends
<1> HIDE DEF low, high, same
<1>8. CASE iv.lo > iv.hi
  <2>1. empty(iv) /\ iv # Unbounded BY <1>8, Ends DEF empty
  <2>2. n = falseLeaf BY <1>1, <1>8, <2>1, Ends DEF buildIntervalNode
  <2>3. \A h \in BoundedHand : ~ Within(h[a], iv) BY <1>1, <1>2, <1>8 DEF Within
  <2>4. \A h \in BoundedHand : ~ Holds(falseLeaf, h) BY <1>2, LeavesAre
  <2>5. QED BY <2>1, <2>2, <2>3, <2>4, LeavesAre, LeavesFine
<1>9. CASE iv = Unbounded
  <2>1. ~ empty(iv) /\ iv.lo # iv.hi /\ iv.lo = LLONG_MIN /\ iv.hi = LLONG_MAX
    BY <1>9, Ends DEF empty
  <2>2. n = trueLeaf BY <1>9, <2>1, Ends DEF buildIntervalNode
  <2>3. \A h \in BoundedHand : Within(h[a], iv) BY <1>2, <2>1, Ends DEF Within
  <2>4. \A h \in BoundedHand : Holds(trueLeaf, h) BY <1>2, LeavesAre
  <2>5. QED BY <1>9, <2>2, <2>3, <2>4, LeavesAre, LeavesFine
<1>10. CASE iv.lo = iv.hi
  <2>1. ~ empty(iv) /\ iv # Unbounded /\ ~ (iv.lo < iv.hi) BY <1>1, <1>10, Ends DEF empty
  <2>2. n = same BY <1>10, <2>1 DEF buildIntervalNode, same
  <2>3. \A h \in BoundedHand : Holds(same, h) <=> Within(h[a], iv)
    BY <1>1, <1>2, <1>6, <1>10 DEF Within
  <2> HIDE DEF n
  <2>4. QED BY <1>5, <1>7, <1>10, <2>1, <2>2, <2>3 DEF n
<1>11. CASE iv.lo < iv.hi /\ iv # Unbounded
  <2>1. ~ empty(iv) /\ iv.lo # iv.hi BY <1>1, <1>11 DEF empty
  <2>2. CASE LLONG_MIN < iv.lo /\ iv.hi = LLONG_MAX
    <3>1. n = low BY <1>11, <2>1, <2>2, Ends DEF buildIntervalNode, low
    <3>2. \A h \in BoundedHand : Holds(low, h) <=> Within(h[a], iv)
      BY <1>1, <1>2, <1>6, <2>2, Ends DEF Within
    <3>3. iv.lo # LLONG_MIN BY <2>2, Ends
    <3> HIDE DEF n
    <3>4. QED BY <1>3, <1>7, <1>11, <3>1, <3>2, <3>3 DEF n
  <2>3. CASE LLONG_MIN = iv.lo /\ iv.hi < LLONG_MAX
    <3>1. n = high BY <1>11, <2>1, <2>3, Ends DEF buildIntervalNode, high
    <3>2. \A h \in BoundedHand : Holds(high, h) <=> Within(h[a], iv)
      BY <1>1, <1>2, <1>6, <2>3, Ends DEF Within
    <3>3. iv.hi # LLONG_MAX BY <2>3, Ends
    <3> HIDE DEF n
    <3>4. QED BY <1>4, <1>7, <1>11, <3>1, <3>2, <3>3 DEF n
  <2>4. CASE ~ (LLONG_MIN < iv.lo /\ iv.hi = LLONG_MAX) /\ ~ (LLONG_MIN = iv.lo /\ iv.hi < LLONG_MAX)
    <3>1. n = And(low, high) BY <1>11, <2>1, <2>4, Ends DEF buildIntervalNode, low, high
    <3>2. And(low, high) \in AnyTree BY <1>3, <1>4, Built
    <3>3. And(low, high).t = "TAND" /\ And(low, high).left = low /\ And(low, high).right = high
      BY DEF And
    <3>4. ~ isTrueLeaf(And(low, high)) BY <3>3 DEF isTrueLeaf
    <3>5. \A h \in BoundedHand : Holds(And(low, high), h) <=> Within(h[a], iv)
      <4> TAKE h \in BoundedHand
      <4>1. Holds(And(low, high), h) <=> Holds(low, h) /\ Holds(high, h)
        BY <1>2, <3>2, <3>3, HoldsRule
      <4>2. QED BY <1>6, <4>1 DEF Within
    <3>6. ASSUME iv \in ClearInterval PROVE And(low, high) \in FineTree
      <4>1. iv.lo # LLONG_MIN /\ iv.hi # LLONG_MAX
        <5>1. LLONG_MIN <= iv.lo /\ iv.hi <= LLONG_MAX BY <1>7, <3>6
        <5>2. ~ (iv.lo = LLONG_MIN /\ iv.hi = LLONG_MAX) BY <1>11, Ends
        <5>3. QED BY <5>1, <5>2, <1>1, <2>4, Ends
      <4>2. low \in FineTree /\ high \in FineTree BY <1>3, <1>4, <1>7, <3>6, <4>1
      <4>3. QED BY <4>2, <1>3, <1>4, BothFine
    <3> HIDE DEF n
    <3>7. QED BY <1>11, <3>1, <3>2, <3>4, <3>5, <3>6 DEF n
  <2>5. QED BY <2>2, <2>3, <2>4
<1>12. QED BY <1>1, <1>8, <1>9, <1>10, <1>11

-----------------------------------------------------------------------------
(* What comparisons fold to.                                               *)

LEMMA MeetsIs ==
  ASSUME NEW a, NEW iv \in Interval, NEW c \in AnyTree
  PROVE  /\ Meets(iv, c, a) \in Interval
         /\ iv \in ClearInterval /\ c \in SafeTree =>
              /\ Meets(iv, c, a) \in ClearInterval
              /\ Meets(iv, c, a) = Unbounded <=> iv = Unbounded /\ ~ (Foldable(c) /\ AtomOf(c) = a)
         /\ \A h \in BoundedHand : a \in Atom =>
              (Within(h[a], Meets(iv, c, a)) <=>
                 Within(h[a], iv) /\ (Foldable(c) /\ AtomOf(c) = a => Holds(c, h)))
<1>1. CASE ~ (Foldable(c) /\ AtomOf(c) = a) BY <1>1 DEF Meets
<1>2. CASE Foldable(c) /\ AtomOf(c) = a
  <2> DEFINE k == IntervalOf(c)
  <2>1. Meets(iv, c, a) = intersect(iv, k) BY <1>2 DEF Meets
  <2>2. k \in Interval /\ (c \in SafeTree => k \in ClearInterval /\ k # Unbounded)
        /\ \A h \in BoundedHand : Holds(c, h) <=> Within(h[a], k)
    BY <1>2, FoldableIs
  <2> HIDE DEF k
  <2>3. \A h \in BoundedHand : a \in Atom => h[a] \in Int BY BoundedHandIs
  <2>4. QED BY <1>2, <2>1, <2>2, <2>3, IntersectIs
<1>3. QED BY <1>1, <1>2

LEMMA FoldedFolds ==
  ASSUME NEW a, NEW conjuncts \in Seq(AnyTree)
  PROVE  \E f \in [0 .. Len(conjuncts) -> Interval] :
           /\ \A i \in 0 .. Len(conjuncts) :
                f[i] = IF i = 0 THEN Unbounded ELSE Meets(f[i - 1], conjuncts[i], a)
           /\ Folded(conjuncts, a) = f[Len(conjuncts)]
<1> DEFINE G == Interval
           C == AnyTree
           n == Len(conjuncts)
           step == [x \in (1 .. n) \X G |-> Meets(x[2], conjuncts[x[1]], a)]
           Is(f) == f = [i \in 0 .. n |-> IF i = 0 THEN Unbounded
                                                   ELSE Meets(f[i - 1], conjuncts[i], a)]
           w == CHOOSE f : Is(f)
<1>1. n \in Nat /\ \A i \in 1 .. n : conjuncts[i] \in C OBVIOUS
<1>0. Unbounded \in G /\ \A iv \in G : \A c \in C : Meets(iv, c, a) \in G BY Ends, MeetsIs
<1> HIDE DEF G, C
<1>2. Folded(conjuncts, a) = w[n] BY DEF Folded, Meets
<1> HIDE DEF n
<1>3. \A x \in (1 .. n) \X G : Meets(x[2], conjuncts[x[1]], a) \in G BY <1>0, <1>1
<1>4. step \in [(1 .. n) \X G -> G] BY <1>3
<1>5. \A i \in 1 .. n : \A l \in G : step[<<i, l>>] = Meets(l, conjuncts[i], a) OBVIOUS
<1> HIDE DEF step
<1> DEFINE v == Unbounded
<1>v. v \in G BY <1>0
<1> HIDE DEF v
<1>6a. PICK f : FoldsWith(f, n, G, v, step) BY <1>1, <1>4, <1>v, PrefixExists
<1>6. /\ f \in [0 .. n -> G]
      /\ \A i \in 0 .. n : f[i] = IF i = 0 THEN Unbounded ELSE step[<<i, f[i - 1]>>]
  BY <1>6a DEF FoldsWith, v
<1>7. \A i \in 0 .. n : f[i] = IF i = 0 THEN Unbounded ELSE Meets(f[i - 1], conjuncts[i], a)
  <2> TAKE i \in 0 .. n
  <2>1. i # 0 => i \in 1 .. n /\ i - 1 \in 0 .. n BY <1>1
  <2>2. i # 0 => f[i - 1] \in G BY <1>6, <2>1
  <2>3. QED BY <1>5, <1>6, <2>1, <2>2
<1>8. Is(f) BY <1>6, <1>7
<1>9. Is(w) BY <1>8
<1> HIDE DEF w
<1> DEFINE K == {i \in Nat : i <= n => w[i] = f[i]}
<1>10. 0 \in K BY <1>1, <1>7, <1>9
<1>11. ASSUME NEW i \in K PROVE i + 1 \in K
  <2>1. SUFFICES ASSUME i + 1 <= n PROVE w[i + 1] = f[i + 1] OBVIOUS
  <2>2. i + 1 \in 0 .. n /\ (i + 1) - 1 = i /\ i + 1 # 0 /\ w[i] = f[i] BY <1>1, <2>1
  <2>3. QED BY <1>7, <1>9, <2>2
<1> HIDE DEF K
<1>12. n \in K BY <1>1, <1>10, <1>11, EveryNumber DEF K
<1>13. Folded(conjuncts, a) = f[n] BY <1>1, <1>2, <1>12 DEF K
<1>14. QED BY <1>6, <1>7, <1>13 DEF n, G

(* The conjuncts that bound an atom. *)
Bounds(c, a) == Foldable(c) /\ AtomOf(c) = a

(* The folded interval has the values on which all conjuncts hold.         *)
LEMMA FoldedIs ==
  ASSUME NEW conjuncts \in Seq(AnyTree), NEW a \in Atom
  PROVE  /\ Folded(conjuncts, a) \in Interval
         /\ conjuncts \in Seq(SafeTree) =>
              /\ Folded(conjuncts, a) \in ClearInterval
              /\ Folded(conjuncts, a) = Unbounded
                   <=> \A i \in DOMAIN conjuncts : ~ Bounds(conjuncts[i], a)
         /\ \A h \in BoundedHand :
              Within(h[a], Folded(conjuncts, a)) <=>
                \A i \in DOMAIN conjuncts : Bounds(conjuncts[i], a) => Holds(conjuncts[i], h)
<1> DEFINE n == Len(conjuncts)
<1>2. n \in Nat /\ DOMAIN conjuncts = 1 .. n /\ \A i \in 1 .. n : conjuncts[i] \in AnyTree OBVIOUS
<1>3. PICK f \in [0 .. Len(conjuncts) -> Interval] :
           /\ \A i \in 0 .. Len(conjuncts) :
                f[i] = IF i = 0 THEN Unbounded ELSE Meets(f[i - 1], conjuncts[i], a)
           /\ Folded(conjuncts, a) = f[Len(conjuncts)]
  BY FoldedFolds
<1> DEFINE Right(i) ==
             /\ conjuncts \in Seq(SafeTree) =>
                  /\ f[i] \in ClearInterval
                  /\ f[i] = Unbounded <=> \A j \in 1 .. i : ~ Bounds(conjuncts[j], a)
             /\ \A h \in BoundedHand :
                  Within(h[a], f[i]) <=>
                    \A j \in 1 .. i : Bounds(conjuncts[j], a) => Holds(conjuncts[j], h)
           K == {i \in Nat : i <= n => Right(i)}
<1>4. conjuncts \in Seq(SafeTree) => \A i \in 1 .. n : conjuncts[i] \in SafeTree OBVIOUS
<1> HIDE DEF n
<1>5. \A i \in 0 .. n : f[i] \in Interval BY <1>3 DEF n
<1>6. 0 \in K
  <2>1. f[0] = Unbounded BY <1>2, <1>3 DEF n
  <2>2. \A h \in BoundedHand : Within(h[a], Unbounded)
    BY Ends DEF BoundedHand, Inner
  <2>3. QED BY <2>1, <2>2, Ends
<1>7. ASSUME NEW i \in K PROVE i + 1 \in K
  <2>1. SUFFICES ASSUME i + 1 <= n PROVE Right(i + 1) OBVIOUS
  <2>2. i + 1 \in 0 .. n /\ i + 1 \in 1 .. n /\ i \in 0 .. n /\ i + 1 # 0 /\ (i + 1) - 1 = i
    BY <1>2, <2>1
  <2> DEFINE c == conjuncts[i + 1]
  <2>3. f[i + 1] = Meets(f[i], c, a) BY <1>3, <2>2 DEF n
  <2>4. f[i] \in Interval /\ c \in AnyTree BY <1>2, <1>5, <2>2
  <2>5. Right(i) BY <1>2, <2>1, <1>7, <2>2
  <2>6. \A j : j \in 1 .. (i + 1) <=> j \in 1 .. i \/ j = i + 1 BY <2>2
  <2>7. ASSUME conjuncts \in Seq(SafeTree)
        PROVE  /\ f[i + 1] \in ClearInterval
               /\ f[i + 1] = Unbounded <=> \A j \in 1 .. (i + 1) : ~ Bounds(conjuncts[j], a)
    <3>1. c \in SafeTree /\ f[i] \in ClearInterval BY <1>4, <2>2, <2>5, <2>7
    <3>2. /\ f[i + 1] \in ClearInterval
          /\ f[i + 1] = Unbounded <=> f[i] = Unbounded /\ ~ Bounds(c, a)
      BY <2>3, <2>4, <3>1, MeetsIs DEF Bounds
    <3>3. QED BY <2>5, <2>6, <2>7, <3>2
  <2>8. ASSUME NEW h \in BoundedHand
        PROVE  Within(h[a], f[i + 1]) <=>
                 \A j \in 1 .. (i + 1) : Bounds(conjuncts[j], a) => Holds(conjuncts[j], h)
    <3>1. Within(h[a], f[i + 1]) <=> Within(h[a], f[i]) /\ (Bounds(c, a) => Holds(c, h))
      BY <2>3, <2>4, MeetsIs DEF Bounds
    <3>2. QED BY <2>5, <2>6, <3>1
  <2>9. QED BY <2>7, <2>8
<1> HIDE DEF K
<1>8. n \in K BY <1>2, <1>6, <1>7, EveryNumber DEF K
<1>9. Right(n) BY <1>2, <1>8 DEF K
<1>10. Folded(conjuncts, a) = f[n] /\ f[n] \in Interval BY <1>2, <1>3, <1>5 DEF n
<1>11. QED BY <1>2, <1>9, <1>10

-----------------------------------------------------------------------------
(* NOT pushed down one level.                                              *)

(* The complementary comparison holds where the comparison does not.       *)
LEMMA NegatedIs ==
  ASSUME NEW n, n.t \in Comparisons
  PROVE  \E u \in Comparisons :
           /\ negateComparison(n) = Cmp(u, n.left, n.right)
           /\ \A x, y \in Int : Compare(u, x, y) <=> ~ Compare(n.t, x, y)
           /\ \A v : Clear(n.t, v) => Clear(u, v)
           /\ \A v : Clear(Mirrored(n.t), v) => Clear(Mirrored(u), v)
<1>1. CASE n.t = "TGEQ"
  <2>1. negateComparison(n) = Cmp("TLT", n.left, n.right) BY <1>1 DEF negateComparison
  <2>2. QED BY <1>1, <2>1 DEF Compare, Clear, Mirrored, Comparisons
<1>2. CASE n.t = "TLEQ"
  <2>1. negateComparison(n) = Cmp("TGT", n.left, n.right) BY <1>2 DEF negateComparison
  <2>2. QED BY <1>2, <2>1 DEF Compare, Clear, Mirrored, Comparisons
<1>3. CASE n.t = "TGT"
  <2>1. negateComparison(n) = Cmp("TLEQ", n.left, n.right) BY <1>3 DEF negateComparison
  <2>2. QED BY <1>3, <2>1 DEF Compare, Clear, Mirrored, Comparisons
<1>4. CASE n.t = "TLT"
  <2>1. negateComparison(n) = Cmp("TGEQ", n.left, n.right) BY <1>4 DEF negateComparison
  <2>2. QED BY <1>4, <2>1 DEF Compare, Clear, Mirrored, Comparisons
<1>5. CASE n.t = "TEQU"
  <2>1. negateComparison(n) = Cmp("TNEQ", n.left, n.right) BY <1>5 DEF negateComparison
  <2>2. QED BY <1>5, <2>1 DEF Compare, Clear, Mirrored, Comparisons
<1>6. CASE n.t = "TNEQ"
  <2>1. negateComparison(n) = Cmp("TEQU", n.left, n.right) BY <1>6 DEF negateComparison
  <2>2. QED BY <1>6, <2>1 DEF Compare, Clear, Mirrored, Comparisons
<1>7. QED BY <1>1, <1>2, <1>3, <1>4, <1>5, <1>6 DEF Comparisons

(* What the simplifier descends by: a NOT above what it is pushed into.    *)
Rank(n) == 2 * Height(n) + (IF n.t = "TNOT" THEN 1 ELSE 0)

LEMMA RankIs ==
  /\ \A n \in AnyTree : Rank(n) \in Nat
  /\ \A m, n \in AnyTree : Height(m) < Height(n) => Rank(m) < Rank(n)
<1>1. ASSUME NEW n \in AnyTree PROVE Rank(n) \in Nat
  BY HeightIs DEF Rank
<1>2. ASSUME NEW m \in AnyTree, NEW n \in AnyTree, Height(m) < Height(n) PROVE Rank(m) < Rank(n)
  <2>1. Height(m) \in Nat /\ Height(n) \in Nat BY HeightIs
  <2>2. QED BY <1>2, <2>1 DEF Rank
<1>3. QED BY <1>1, <1>2

LEMMA SafeParts ==
  ASSUME NEW l \in SafeTree, NEW r \in SafeTree
  PROVE  /\ And(l, r) \in SafeTree /\ Or(l, r) \in SafeTree /\ Not(r) \in SafeTree
<1>1. l \in AnyTree /\ r \in AnyTree BY SafeTreeIs
<1>2. ASSUME NEW n \in {And(l, r), Or(l, r)} PROVE n \in SafeTree
  <2>1. n.t \in {"TAND", "TOR"} /\ n.left = l /\ n.right = r BY <1>2 DEF And, Or
  <2>2. n \in AnyTree BY <1>1, Built
  <2>3. Operands(n) = {l, r} BY <2>1 DEF Operands, Binary
  <2>4. SafeNode(n) BY <2>1 DEF SafeNode, Comparisons
  <2>5. QED BY <2>2, <2>3, <2>4, SafeTreeIs
<1>3. Not(r) \in SafeTree
  <2>1. Not(r).t = "TNOT" /\ Not(r).right = r BY DEF Not
  <2>2. Not(r) \in AnyTree BY <1>1, Built
  <2>3. Operands(Not(r)) = {r} BY <2>1 DEF Operands, Binary, Comparisons
  <2>4. SafeNode(Not(r)) BY <2>1 DEF SafeNode, Comparisons
  <2>5. QED BY <2>2, <2>3, <2>4, SafeTreeIs
<1>4. QED BY <1>2, <1>3

(* NOT pushed down means NOT, has a lower rank and clear literals.         *)
LEMMA PushedIs ==
  ASSUME NEW n \in AnyTree, n.t = "TNOT", n.right.t \notin {"TINT", "TKWORD"}
  PROVE  /\ Pushed(n.right) \in AnyTree
         /\ Height(Pushed(n.right)) <= Height(n) /\ Rank(Pushed(n.right)) < Rank(n)
         /\ n \in SafeTree => Pushed(n.right) \in SafeTree
         /\ \A h \in [Atom -> Int] : Holds(Pushed(n.right), h) <=> Holds(n, h)
         /\ IsTrue(Pushed(n.right), TRUE) <=> IsTrue(n, TRUE)
<1> DEFINE i == n.right
           p == Pushed(i)
<1>1. i \in AnyTree /\ i.t \in Binary \cup {"TNOT"} BY Kinds
<1>2. Height(n) \in Nat /\ Height(i) \in Nat /\ Height(i) < Height(n)
  BY <1>1, HeightIs, AnyTreeShaped, OperandsAre
<1>3. n \in SafeTree => i \in SafeTree BY SafeTreeIs, OperandsAre
<1>4. \A h \in [Atom -> Int] : Holds(n, h) <=> ~ Holds(i, h) BY HoldsRule
<1>5. IsTrue(n, TRUE) <=> IsTrue(i, FALSE) BY IsTrueRule
<1>6. Rank(n) = 2 * Height(n) + 1 BY DEF Rank
<1> HIDE DEF i
<1>7. CASE i.t \in Comparisons
  <2>1. PICK u \in Comparisons :
             /\ negateComparison(i) = Cmp(u, i.left, i.right)
             /\ \A x, y \in Int : Compare(u, x, y) <=> ~ Compare(i.t, x, y)
             /\ \A v : Clear(i.t, v) => Clear(u, v)
             /\ \A v : Clear(Mirrored(i.t), v) => Clear(Mirrored(u), v)
    BY <1>7, NegatedIs
  <2>2. p = Cmp(u, i.left, i.right) BY <1>7, <2>1 DEF Pushed, Comparisons
  <2>3. p.t = u /\ p.left = i.left /\ p.right = i.right BY <2>2 DEF Cmp
  <2> HIDE DEF p
  <2>4. i.t \in Binary /\ u \in Binary BY <1>7 DEF Binary
  <2>5. i.left \in AnyTree /\ i.right \in AnyTree BY <1>1, <2>4, Kinds
  <2>6. Height(i.left) < Height(i) /\ Height(i.right) < Height(i)
        /\ Height(i.left) \in Nat /\ Height(i.right) \in Nat
    BY <1>1, <2>4, <2>5, AnyTreeShaped, OperandsAre, HeightIs
  <2>7. p \in AnyTree /\ Height(p) <= Height(i)
    <3> DEFINE k == Height(i) - 1
    <3>1. k \in Nat /\ Height(i.left) <= k /\ Height(i.right) <= k /\ k + 1 = Height(i)
      BY <1>2, <2>6
    <3> HIDE DEF k
    <3>2. Cmp(u, i.left, i.right) \in AnyTree /\ Height(Cmp(u, i.left, i.right)) <= k + 1
      BY <2>4, <2>5, <3>1, TreesBuilt
    <3>3. QED BY <2>2, <3>1, <3>2
  <2>8. Height(p) \in Nat BY <2>7, HeightIs
  <2>9. Height(p) < Height(n) BY <1>2, <2>7, <2>8
  <2>10. Height(p) <= Height(n) /\ Rank(p) < Rank(n) BY <1>2, <2>7, <2>8, <2>9, RankIs
  <2>11. n \in SafeTree => p \in SafeTree
    <3> SUFFICES ASSUME n \in SafeTree PROVE p \in SafeTree OBVIOUS
    <3>1. SafeNode(i) /\ i.left \in SafeTree /\ i.right \in SafeTree
      BY <1>3, <2>4, SafeTreeIs, OperandsAre
    <3>2. u # "TINT" BY DEF Comparisons
    <3>3. SafeNode(p) BY <1>7, <2>1, <2>3, <3>1, <3>2 DEF SafeNode
    <3>4. Operands(p) = {i.left, i.right} BY <2>3, <2>4, OperandsAre
    <3>5. QED BY <2>7, <3>1, <3>3, <3>4, SafeTreeIs
  <2>12. ASSUME NEW h \in [Atom -> Int] PROVE Holds(p, h) <=> Holds(n, h)
    <3>1. Values(h)[i.left] \in Int /\ Values(h)[i.right] \in Int BY <2>5, HoldsRule
    <3>2. Holds(p, h) <=> Compare(u, Values(h)[i.left], Values(h)[i.right])
      BY <2>3, <2>7, HoldsRule
    <3>3. Holds(i, h) <=> Compare(i.t, Values(h)[i.left], Values(h)[i.right])
      BY <1>1, <1>7, HoldsRule
    <3>4. QED BY <1>4, <2>1, <3>1, <3>2, <3>3
  <2>13. ~ IsTrue(p, TRUE) /\ ~ IsTrue(i, FALSE) BY <1>1, <1>7, <2>3, <2>7, IsTrueRule
  <2>14. QED BY <1>5, <2>7, <2>10, <2>11, <2>12, <2>13 DEF p, i
<1>8. CASE i.t \in {"TAND", "TOR"}
  <2> DEFINE l == Not(i.left)
             r == Not(i.right)
  <2>1. p = (IF i.t = "TAND" THEN Or(l, r) ELSE And(l, r)) BY <1>8 DEF Pushed, Comparisons
  <2>2. i.t \in Binary BY <1>8 DEF Binary
  <2>3. i.left \in AnyTree /\ i.right \in AnyTree BY <1>1, <2>2, Kinds
  <2>4. Height(i.left) < Height(i) /\ Height(i.right) < Height(i)
        /\ Height(i.left) \in Nat /\ Height(i.right) \in Nat
    BY <1>1, <2>2, <2>3, AnyTreeShaped, OperandsAre, HeightIs
  <2>5. l \in AnyTree /\ r \in AnyTree /\ Height(l) <= Height(i) /\ Height(r) <= Height(i)
    <3>1. l \in AnyTree /\ r \in AnyTree /\ Height(l) <= Height(i.left) + 1
          /\ Height(r) <= Height(i.right) + 1
      BY <2>3, TreesBuilt
    <3>2. Height(l) \in Nat /\ Height(r) \in Nat BY <3>1, HeightIs
    <3> HIDE DEF l, r
    <3>3. QED BY <1>2, <2>4, <3>1, <3>2
  <2>6. l.t = "TNOT" /\ r.t = "TNOT" /\ l.right = i.left /\ r.right = i.right BY DEF Not
  <2> HIDE DEF p
  <2>7. n \in SafeTree => l \in SafeTree /\ r \in SafeTree
    BY <1>3, <2>2, SafeTreeIs, OperandsAre, SafeParts
  <2> HIDE DEF l, r
  <2>8. /\ i.t = "TAND" => p.t = "TOR" /\ p = Cmp("TOR", l, r)
        /\ i.t = "TOR" => p.t = "TAND" /\ p = Cmp("TAND", l, r)
        /\ p.left = l /\ p.right = r
    BY <1>8, <2>1 DEF And, Or, Cmp
  <2>9. p \in AnyTree /\ Height(p) <= Height(i) + 1
    <3> DEFINE k == Height(i)
    <3>1. k \in Nat BY <1>2
    <3>2. Height(l) <= k /\ Height(r) <= k BY <2>5
    <3> HIDE DEF k
    <3>3. ASSUME NEW t \in Binary PROVE Cmp(t, l, r) \in AnyTree /\ Height(Cmp(t, l, r)) <= k + 1
      BY <2>5, <3>1, <3>2, TreesBuilt
    <3>4. PICK t \in Binary : p = Cmp(t, l, r) BY <1>8, <2>8 DEF Binary
    <3>5. QED BY <3>3, <3>4 DEF k
  <2>10. Height(p) \in Nat BY <2>9, HeightIs
  <2>11. Height(p) <= Height(n) BY <1>2, <2>9, <2>10
  <2>12. Rank(p) = 2 * Height(p) BY <1>8, <2>8, <2>10 DEF Rank
  <2>13. Rank(p) < Rank(n) BY <1>2, <1>6, <2>10, <2>11, <2>12
  <2>14. n \in SafeTree => p \in SafeTree BY <1>8, <2>1, <2>7, SafeParts
  <2>15. ASSUME NEW h \in [Atom -> Int] PROVE Holds(p, h) <=> Holds(n, h)
    <3>1. (Holds(l, h) <=> ~ Holds(i.left, h)) /\ (Holds(r, h) <=> ~ Holds(i.right, h))
      BY <2>5, <2>6, HoldsRule
    <3>2. CASE i.t = "TAND"
      <4>1. Holds(p, h) <=> Holds(l, h) \/ Holds(r, h) BY <2>8, <2>9, <3>2, HoldsRule
      <4>2. Holds(i, h) <=> Holds(i.left, h) /\ Holds(i.right, h) BY <1>1, <3>2, HoldsRule
      <4>3. QED BY <1>4, <3>1, <4>1, <4>2
    <3>3. CASE i.t = "TOR"
      <4>1. Holds(p, h) <=> Holds(l, h) /\ Holds(r, h) BY <2>8, <2>9, <3>3, HoldsRule
      <4>2. Holds(i, h) <=> Holds(i.left, h) \/ Holds(i.right, h) BY <1>1, <3>3, HoldsRule
      <4>3. QED BY <1>4, <3>1, <4>1, <4>2
    <3>4. QED BY <1>8, <3>2, <3>3
  <2>16. IsTrue(p, TRUE) <=> IsTrue(i, FALSE)
    <3>1. (IsTrue(l, TRUE) <=> IsTrue(i.left, FALSE)) /\ (IsTrue(r, TRUE) <=> IsTrue(i.right, FALSE))
      BY <2>5, <2>6, IsTrueRule
    <3>2. CASE i.t = "TAND"
      <4>1. IsTrue(p, TRUE) <=> IsTrue(l, TRUE) \/ IsTrue(r, TRUE) BY <2>8, <2>9, <3>2, IsTrueRule
      <4>2. IsTrue(i, FALSE) <=> IsTrue(i.left, FALSE) \/ IsTrue(i.right, FALSE)
        BY <1>1, <3>2, IsTrueRule
      <4>3. QED BY <3>1, <4>1, <4>2
    <3>3. CASE i.t = "TOR"
      <4>1. IsTrue(p, TRUE) <=> IsTrue(l, TRUE) /\ IsTrue(r, TRUE) BY <2>8, <2>9, <3>3, IsTrueRule
      <4>2. IsTrue(i, FALSE) <=> IsTrue(i.left, FALSE) /\ IsTrue(i.right, FALSE)
        BY <1>1, <3>3, IsTrueRule
      <4>3. QED BY <3>1, <4>1, <4>2
    <3>4. QED BY <1>8, <3>2, <3>3
  <2>17. QED BY <1>5, <2>9, <2>11, <2>13, <2>14, <2>15, <2>16 DEF p, i
<1>9. CASE i.t = "TNOT"
  <2>1. p = i.right BY <1>9 DEF Pushed, Comparisons
  <2> HIDE DEF p
  <2>2. p \in AnyTree BY <1>1, <1>9, <2>1, Kinds
  <2>3. Height(p) < Height(i) /\ Height(p) \in Nat
    BY <1>1, <1>9, <2>1, <2>2, AnyTreeShaped, OperandsAre, HeightIs
  <2>4. Height(p) < Height(n) BY <1>2, <2>3
  <2>5. Height(p) <= Height(n) /\ Rank(p) < Rank(n) BY <1>2, <2>2, <2>3, <2>4, RankIs
  <2>6. n \in SafeTree => p \in SafeTree BY <1>3, <1>9, <2>1, SafeTreeIs, OperandsAre
  <2>7. \A h \in [Atom -> Int] : Holds(p, h) <=> Holds(n, h) BY <1>1, <1>4, <1>9, <2>1, HoldsRule
  <2>8. IsTrue(p, TRUE) <=> IsTrue(i, FALSE) BY <1>1, <1>9, <2>1, IsTrueRule
  <2>9. QED BY <1>5, <2>2, <2>5, <2>6, <2>7, <2>8 DEF p, i
<1>10. QED BY <1>1, <1>7, <1>8, <1>9 DEF Binary

-----------------------------------------------------------------------------
(* The simplifier, as a function.                                          *)

Ordered ==
  order \in {s \in [1 .. Cardinality(Atom) -> Atom] : {s[i] : i \in DOMAIN s} = Atom}

LEMMA OrderedIs ==
  ASSUME Ordered
  PROVE  /\ order \in Seq(Atom) /\ \A i \in DOMAIN order : order[i] \in Atom
         /\ \A a \in Atom : \E i \in DOMAIN order : order[i] = a
<1>1. Cardinality(Atom) \in Nat BY SimplifyAssumption, FS_CardinalityType
<1> DEFINE n == Cardinality(Atom)
<1>2. order \in [1 .. n -> Atom] /\ {order[i] : i \in DOMAIN order} = Atom BY DEF Ordered
<1> HIDE DEF n
<1>3. order \in Seq(Atom) BY <1>1, <1>2 DEF n
<1>4. \A a \in Atom : \E i \in DOMAIN order : order[i] = a BY <1>2
<1>5. QED BY <1>2, <1>3, <1>4

PartsOf(conjuncts, f, m) ==
  [i \in DOMAIN conjuncts |->
     IF Foldable(conjuncts[i]) THEN trueLeaf ELSE f[conjuncts[i]][m]]

BranchesOf(branches, f, c) == [i \in DOMAIN branches |-> f[branches[i]][c]]

SimplifiedOf(n, f, c) ==
  CASE n.t = "TAND" ->
         simplifyAnd(Flattened(n, "TAND"), c,
                     PartsOf(Flattened(n, "TAND"), f, Established(Flattened(n, "TAND"), c)))
    [] n.t = "TOR"  -> orOfAll(BranchesOf(Flattened(n, "TOR"), f, c))
    [] n.t = "TNOT" -> IF n.right.t \in {"TINT", "TKWORD"} THEN n ELSE f[Pushed(n.right)][c]
    [] Foldable(n)  -> simplifyComparison(n, c)
    [] OTHER        -> n

LEMMA SimplifiedIs ==
  ASSUME NEW n, NEW f, NEW c
  PROVE  /\ n.t = "TAND" =>
              SimplifiedOf(n, f, c) =
                simplifyAnd(Flattened(n, "TAND"), c,
                     PartsOf(Flattened(n, "TAND"), f, Established(Flattened(n, "TAND"), c)))
         /\ n.t = "TOR" => SimplifiedOf(n, f, c) = orOfAll(BranchesOf(Flattened(n, "TOR"), f, c))
         /\ n.t = "TNOT" => SimplifiedOf(n, f, c) =
              IF n.right.t \in {"TINT", "TKWORD"} THEN n ELSE f[Pushed(n.right)][c]
         /\ Foldable(n) => SimplifiedOf(n, f, c) = simplifyComparison(n, c)
         /\ n.t \notin {"TAND", "TOR", "TNOT"} /\ ~ Foldable(n) => SimplifiedOf(n, f, c) = n
<1>1. Foldable(n) => n.t \in Comparisons BY DEF Foldable
<1>2. "TAND" \notin Comparisons /\ "TOR" \notin Comparisons /\ "TNOT" \notin Comparisons
  BY DEF Comparisons
<1>3. CASE n.t = "TAND" BY <1>1, <1>2, <1>3 DEF SimplifiedOf
<1>4. CASE n.t = "TOR" BY <1>1, <1>2, <1>4 DEF SimplifiedOf
<1>5. CASE n.t = "TNOT" BY <1>1, <1>2, <1>5 DEF SimplifiedOf
<1>6. CASE n.t \notin {"TAND", "TOR", "TNOT"} BY <1>1, <1>6 DEF SimplifiedOf
<1>7. QED BY <1>3, <1>4, <1>5, <1>6

LEMMA EstablishedIs ==
  ASSUME NEW conjuncts \in Seq(AnyTree), NEW c \in Context
  PROVE  Established(conjuncts, c) \in Context
<1>1. ASSUME NEW a \in Atom PROVE intersect(c[a], Folded(conjuncts, a)) \in Interval
  <2>1. c[a] \in Interval BY DEF Context, Interval
  <2>2. QED BY <2>1, FoldedIs, IntersectIs
<1>2. QED BY <1>1 DEF Established, Context, Interval

(* What the operands of an AND or OR are. *)
LEMMA FlattenedParts ==
  ASSUME NEW n \in Tree, n.t \in {"TAND", "TOR"}
  PROVE  LET s == Flattened(n, n.t) IN
         /\ s \in Seq(Tree) /\ s \in Seq(AnyTree)
         /\ \A i \in DOMAIN s : s[i] \in Tree /\ Rank(s[i]) < Rank(n)
<1> DEFINE s == Flattened(n, n.t)
<1>1. s \in Seq(Tree) /\ \A x \in Elements(s) : x \in Tree /\ Height(x) < Height(n)
  BY FlattenedIs
<1> HIDE DEF s
<1>2. s \in Seq(AnyTree) BY <1>1, TreeIs
<1>3. ASSUME NEW i \in DOMAIN s PROVE s[i] \in Tree /\ Rank(s[i]) < Rank(n)
  <2>1. s[i] \in Elements(s) BY DEF Elements
  <2>2. s[i] \in Tree /\ Height(s[i]) < Height(n) BY <1>1, <2>1
  <2>3. s[i] \in AnyTree /\ n \in AnyTree BY <2>2, TreeIs
  <2>4. QED BY <2>2, <2>3, RankIs
<1>4. QED BY <1>1, <1>2, <1>3 DEF s

LEMMA PushedInTree ==
  ASSUME NEW n \in Tree, n.t = "TNOT", n.right.t \notin {"TINT", "TKWORD"}
  PROVE  Pushed(n.right) \in Tree /\ Rank(Pushed(n.right)) < Rank(n)
<1>1. n \in AnyTree /\ Height(n) <= MaxHeight BY TreeIs
<1>2. Pushed(n.right) \in AnyTree /\ Height(Pushed(n.right)) <= Height(n)
      /\ Rank(Pushed(n.right)) < Rank(n)
  BY <1>1, PushedIs
<1>3. Height(n) \in Nat /\ Height(Pushed(n.right)) \in Nat /\ MaxHeight \in Nat
  BY <1>1, <1>2, HeightIs, SimplifyAssumption
<1>4. Height(Pushed(n.right)) <= MaxHeight BY <1>1, <1>2, <1>3
<1>5. QED BY <1>2, <1>4, TreeIs

Simplifiers == [Tree -> [Context -> AnyTree]]

LEMMA SimplifiedIsLocal ==
  ASSUME NEW n \in Tree, NEW f, NEW g, NEW c,
         \A m \in Tree : Rank(m) < Rank(n) => f[m] = g[m]
  PROVE  SimplifiedOf(n, f, c) = SimplifiedOf(n, g, c)
<1>1. CASE n.t = "TAND"
  <2> DEFINE s == Flattened(n, "TAND")
             m == Established(s, c)
  <2>1. \A i \in DOMAIN s : f[s[i]] = g[s[i]] BY <1>1, FlattenedParts
  <2> HIDE DEF s, m
  <2>2. PartsOf(s, f, m) = PartsOf(s, g, m) BY <2>1 DEF PartsOf
  <2>3. QED BY <1>1, <2>2, SimplifiedIs DEF s, m
<1>2. CASE n.t = "TOR"
  <2> DEFINE s == Flattened(n, "TOR")
  <2>1. \A i \in DOMAIN s : f[s[i]] = g[s[i]] BY <1>2, FlattenedParts
  <2> HIDE DEF s
  <2>2. BranchesOf(s, f, c) = BranchesOf(s, g, c) BY <2>1 DEF BranchesOf
  <2>3. QED BY <1>2, <2>2, SimplifiedIs DEF s
<1>3. CASE n.t = "TNOT"
  <2>1. n.right.t \notin {"TINT", "TKWORD"} => f[Pushed(n.right)] = g[Pushed(n.right)]
    BY <1>3, PushedInTree
  <2>2. QED BY <1>3, <2>1, SimplifiedIs
<1>4. CASE n.t \notin {"TAND", "TOR", "TNOT"} BY <1>4, SimplifiedIs
<1>5. QED BY <1>1, <1>2, <1>3, <1>4

(* The bounds an AND is rewritten to, one per atom in order. *)
BoundsOf(conjuncts, c) ==
  [i \in DOMAIN order |->
     buildIntervalNode(order[i], nonRedundantPart(Folded(conjuncts, order[i]), c[order[i]]))]

Excluded(conjuncts, c) ==
  \E i \in DOMAIN conjuncts :
     Foldable(conjuncts[i]) /\ empty(Established(conjuncts, c)[AtomOf(conjuncts[i])])

LEMMA SimplifyAndIs ==
  ASSUME NEW conjuncts, NEW c, NEW parts
  PROVE  simplifyAnd(conjuncts, c, parts) =
           IF Excluded(conjuncts, c) THEN falseLeaf ELSE andOfAll(BoundsOf(conjuncts, c) \o parts)
BY DEF simplifyAnd, Excluded, BoundsOf

LEMMA BoundsOfIs ==
  ASSUME Ordered, NEW conjuncts \in Seq(AnyTree), NEW c \in Context
  PROVE  /\ BoundsOf(conjuncts, c) \in Seq(AnyTree)
         /\ DOMAIN BoundsOf(conjuncts, c) = DOMAIN order
<1>1. ASSUME NEW i \in DOMAIN order
      PROVE  buildIntervalNode(order[i], nonRedundantPart(Folded(conjuncts, order[i]), c[order[i]]))
               \in AnyTree
  <2>1. order[i] \in Atom BY OrderedIs
  <2>2. c[order[i]] \in Interval BY <2>1 DEF Context, Interval
  <2>3. QED BY <2>1, <2>2, FoldedIs, NonRedundantIs, BuildIs
<1>2. BoundsOf(conjuncts, c) \in [DOMAIN order -> AnyTree] BY <1>1 DEF BoundsOf
<1>3. DOMAIN order = 1 .. Len(order) /\ Len(order) \in Nat BY OrderedIs
<1>4. QED BY <1>2, <1>3

LEMMA SimplifiedIsTree ==
  ASSUME Ordered, NEW n \in Tree, NEW f \in Simplifiers, NEW c \in Context
  PROVE  SimplifiedOf(n, f, c) \in AnyTree
<1>0. n \in AnyTree BY TreeIs
<1>1. CASE n.t = "TAND"
  <2> DEFINE s == Flattened(n, "TAND")
             m == Established(s, c)
             r == PartsOf(s, f, m)
  <2>1. s \in Seq(Tree) /\ s \in Seq(AnyTree) /\ \A i \in DOMAIN s : s[i] \in Tree
    BY <1>1, FlattenedParts
  <2> HIDE DEF s
  <2>2. m \in Context BY <2>1, EstablishedIs
  <2> HIDE DEF m
  <2>3. \A i \in DOMAIN s : f[s[i]][m] \in AnyTree BY <2>1, <2>2 DEF Simplifiers
  <2>4. r \in [DOMAIN s -> AnyTree] BY <2>3, LeavesAre DEF PartsOf
  <2> HIDE DEF r
  <2>5. DOMAIN s = 1 .. Len(s) /\ Len(s) \in Nat BY <2>1
  <2>6. r \in Seq(AnyTree) BY <2>4, <2>5
  <2>7. BoundsOf(s, c) \o r \in Seq(AnyTree) BY <2>1, <2>6, BoundsOfIs
  <2>8. simplifyAnd(s, c, r) \in AnyTree BY <2>7, SimplifyAndIs, LeavesAre, AndOfAllIs
  <2>9. QED BY <1>1, <2>8, SimplifiedIs DEF s, m, r
<1>2. CASE n.t = "TOR"
  <2> DEFINE s == Flattened(n, "TOR")
             r == BranchesOf(s, f, c)
  <2>1. s \in Seq(Tree) /\ \A i \in DOMAIN s : s[i] \in Tree BY <1>2, FlattenedParts
  <2> HIDE DEF s
  <2>2. \A i \in DOMAIN s : f[s[i]][c] \in AnyTree BY <2>1 DEF Simplifiers
  <2>3. r \in [DOMAIN s -> AnyTree] BY <2>2 DEF BranchesOf
  <2> HIDE DEF r
  <2>4. DOMAIN s = 1 .. Len(s) /\ Len(s) \in Nat BY <2>1
  <2>5. r \in Seq(AnyTree) BY <2>3, <2>4
  <2>6. orOfAll(r) \in AnyTree BY <2>5, OrOfAllIs
  <2>7. QED BY <1>2, <2>6, SimplifiedIs DEF s, r
<1>3. CASE n.t = "TNOT"
  <2>1. n.right.t \notin {"TINT", "TKWORD"} => f[Pushed(n.right)][c] \in AnyTree
    BY <1>3, PushedInTree DEF Simplifiers
  <2>2. QED BY <1>0, <1>3, <2>1, SimplifiedIs
<1>4. CASE Foldable(n)
  <2>1. AtomOf(n) \in Atom /\ IntervalOf(n) \in Interval BY <1>0, <1>4, FoldableIs
  <2>2. c[AtomOf(n)] \in Interval BY <2>1 DEF Context, Interval
  <2>3. simplifyComparison(n, c) \in AnyTree
    BY <2>1, <2>2, NonRedundantIs, BuildIs, LeavesAre DEF simplifyComparison
  <2>4. QED BY <1>4, <2>3, SimplifiedIs
<1>5. CASE n.t \notin {"TAND", "TOR", "TNOT"} /\ ~ Foldable(n) BY <1>0, <1>5, SimplifiedIs
<1>6. QED BY <1>1, <1>2, <1>3, <1>4, <1>5

(* simplifyNode() exists, and reads as the cases of the code.              *)
LEMMA SimplifyNodeIs ==
  ASSUME Ordered
  PROVE  /\ simplifyNode \in Simplifiers
         /\ \A n \in Tree : \A c \in Context :
              simplifyNode[n][c] = SimplifiedOf(n, simplifyNode, c)
<1> DEFINE S == Tree
           V == [Context -> AnyTree]
           F == [S -> V]
           rank == [n \in S |-> Rank(n)]
           step == [x \in S \X F |-> [c \in Context |-> SimplifiedOf(x[1], x[2], c)]]
           v == [c \in Context |-> trueLeaf]
           Is(f) == f = [n \in S |-> [c \in Context |-> SimplifiedOf(n, f, c)]]
           w == CHOOSE f : Is(f)
<1>0. v \in V BY LeavesAre
<1>1. rank \in [S -> Nat] BY RankIs, TreeIs
<1>2. \A n \in S : \A f \in F : step[<<n, f>>] = [c \in Context |-> SimplifiedOf(n, f, c)]
  OBVIOUS
<1>3. ASSUME NEW n \in S, NEW f \in F PROVE [c \in Context |-> SimplifiedOf(n, f, c)] \in V
  <2>1. f \in Simplifiers BY DEF Simplifiers
  <2>2. QED BY <2>1, SimplifiedIsTree
<1>4. step \in [S \X F -> V]
  <2> HIDE DEF V, S, F
  <2>1. QED BY <1>3
<1>5. ASSUME NEW n \in S, NEW f \in F, NEW g \in F,
             \A m \in S : rank[m] < rank[n] => f[m] = g[m]
      PROVE  step[<<n, f>>] = step[<<n, g>>]
  <2>1. \A m \in Tree : Rank(m) < Rank(n) => f[m] = g[m] BY <1>5
  <2>2. \A c \in Context : SimplifiedOf(n, f, c) = SimplifiedOf(n, g, c)
    BY <2>1, SimplifiedIsLocal
  <2>3. [c \in Context |-> SimplifiedOf(n, f, c)] = [c \in Context |-> SimplifiedOf(n, g, c)]
    BY <2>2
  <2> HIDE DEF step
  <2>4. QED BY <1>2, <2>3
<1>6. simplifyNode = w BY DEF simplifyNode, SimplifiedOf, PartsOf, BranchesOf
<1> HIDE DEF rank, step, V, S, v
<1>7. LocalStep(S, V, rank, step) BY <1>1, <1>4, <1>5 DEF LocalStep
<1>8. PICK f : DefinedBy(f, S, V, step) BY <1>0, <1>7, RecursionExists
<1>9. f \in F /\ \A n \in S : f[n] = step[<<n, f>>] BY <1>8 DEF DefinedBy
<1>10. \A n \in S : f[n] = [c \in Context |-> SimplifiedOf(n, f, c)] BY <1>2, <1>9
<1>11. Is(f) BY <1>9, <1>10
<1>12. Is(w) BY <1>11
<1> HIDE DEF w
<1> DEFINE G == {n \in S : w[n] = f[n]}
<1>13. ASSUME NEW n \in S, \A m \in S : rank[m] < rank[n] => m \in G PROVE n \in G
  <2>1. \A m \in Tree : Rank(m) < Rank(n) => w[m] = f[m] BY <1>13 DEF S, rank
  <2>2. \A c \in Context : SimplifiedOf(n, w, c) = SimplifiedOf(n, f, c)
    BY <2>1, SimplifiedIsLocal DEF S
  <2>3. w[n] = [c \in Context |-> SimplifiedOf(n, w, c)] BY <1>12
  <2>4. QED BY <2>2, <2>3, <1>10
<1> HIDE DEF G
<1>14. S \subseteq G BY <1>1, <1>13, RankInduction
<1>15. \A n \in S : w[n] = f[n] BY <1>14 DEF G
<1>16. w = f
  <2>1. w = [n \in S |-> w[n]] BY <1>12
  <2>2. f = [n \in S |-> f[n]] BY <1>9
  <2>3. QED BY <1>15, <2>1, <2>2
<1>17. w \in Simplifiers BY <1>9, <1>16 DEF Simplifiers, S, V
<1>18. \A n \in S : \A c \in Context : w[n][c] = SimplifiedOf(n, w, c) BY <1>10, <1>16
<1>19. QED BY <1>6, <1>17, <1>18 DEF S

LEMMA AndOfBoth ==
  ASSUME NEW b \in Seq(AnyTree), NEW r \in Seq(AnyTree)
  PROVE  /\ b \in Seq(FineTree) /\ r \in Seq(FineTree) => andOfAll(b \o r) \in FineTree
         /\ isTrueLeaf(andOfAll(b \o r)) <=> /\ \A i \in DOMAIN b : isTrueLeaf(b[i])
                                             /\ \A i \in DOMAIN r : isTrueLeaf(r[i])
         /\ \A h \in [Atom -> Int] :
              Holds(andOfAll(b \o r), h) <=> /\ \A i \in DOMAIN b : Holds(b[i], h)
                                             /\ \A i \in DOMAIN r : Holds(r[i], h)
<1> DEFINE w == b \o r
<1>1. w \in Seq(AnyTree) OBVIOUS
<1>2. Elements(w) = Elements(b) \cup Elements(r) BY ElementsOf
<1>3. b \in Seq(FineTree) /\ r \in Seq(FineTree) => w \in Seq(FineTree)
  <2> DEFINE F == FineTree
  <2> HIDE DEF F
  <2>1. b \in Seq(F) /\ r \in Seq(F) => b \o r \in Seq(F) OBVIOUS
  <2>2. QED BY <2>1 DEF F
<1> HIDE DEF w
<1>4. isTrueLeaf(andOfAll(w)) <=> \A x \in Elements(w) : isTrueLeaf(x)
  <2>1. isTrueLeaf(andOfAll(w)) <=> \A i \in DOMAIN w : isTrueLeaf(w[i]) BY <1>1, AndOfAllIs
  <2>2. QED BY <2>1 DEF Elements
<1>5. \A h \in [Atom -> Int] : Holds(andOfAll(w), h) <=> \A x \in Elements(w) : Holds(x, h)
  <2> TAKE h \in [Atom -> Int]
  <2>1. Holds(andOfAll(w), h) <=> \A i \in DOMAIN w : Holds(w[i], h) BY <1>1, AndOfAllIs
  <2>2. QED BY <2>1 DEF Elements
<1>6. andOfAll(w) \in FineTree \/ ~ (w \in Seq(FineTree)) BY <1>1, AndOfAllIs
<1>7. isTrueLeaf(andOfAll(w)) <=> /\ \A i \in DOMAIN b : isTrueLeaf(b[i])
                                  /\ \A i \in DOMAIN r : isTrueLeaf(r[i])
  BY <1>2, <1>4 DEF Elements
<1>8. ASSUME NEW h \in [Atom -> Int]
      PROVE  Holds(andOfAll(w), h) <=> /\ \A i \in DOMAIN b : Holds(b[i], h)
                                       /\ \A i \in DOMAIN r : Holds(r[i], h)
  <2>1. Holds(andOfAll(w), h) <=> \A x \in Elements(w) : Holds(x, h) BY <1>5
  <2>2. QED BY <1>2, <2>1 DEF Elements
<1>9. QED BY <1>3, <1>6, <1>7, <1>8 DEF w

-----------------------------------------------------------------------------
(* Contexts that say nothing about bounds beyond "none", and the hands they*)
(* admit.                                                                  *)

Fitting == {c \in Context : \A a \in Atom : LLONG_MIN <= c[a].lo /\ c[a].hi <= LLONG_MAX}

Fits(h, c) == \A a \in Atom : Within(h[a], c[a])

LEMMA FittingIs ==
  /\ \A c \in Fitting : c \in Context /\ \A a \in Atom :
       c[a] \in Interval /\ LLONG_MIN <= c[a].lo /\ c[a].hi <= LLONG_MAX
  /\ emptyContext \in Fitting
  /\ \A h \in BoundedHand : Fits(h, emptyContext)
<1>1. \A c \in Fitting : c \in Context /\ \A a \in Atom :
        c[a] \in Interval /\ LLONG_MIN <= c[a].lo /\ c[a].hi <= LLONG_MAX
  BY DEF Fitting, Context, Interval
<1>2. emptyContext \in Context BY Ends DEF emptyContext, Context, Interval
<1>3. emptyContext \in Fitting BY <1>2, Ends DEF emptyContext, Fitting
<1>4. ASSUME NEW h \in BoundedHand, NEW a \in Atom PROVE Within(h[a], emptyContext[a])
  <2>1. h[a] \in Inner BY DEF BoundedHand, Inner
  <2>2. QED BY <2>1, Ends DEF emptyContext
<1>5. QED BY <1>1, <1>3, <1>4 DEF Fits

(* What an AND establishes fits, and admits the hands on which the foldable*)
(* conjuncts hold.                                                         *)
LEMMA EstablishedFits ==
  ASSUME NEW s \in Seq(SafeTree), s \in Seq(AnyTree), NEW c \in Fitting
  PROVE  LET m == Established(s, c) IN
         /\ m \in Fitting
         /\ (\A i \in DOMAIN s : ~ Foldable(s[i])) /\ c = emptyContext => m = emptyContext
         /\ \A h \in BoundedHand : Fits(h, c) =>
              (Fits(h, m) <=> \A i \in DOMAIN s : Foldable(s[i]) => Holds(s[i], h))
<1> DEFINE m == Established(s, c)
           k(a) == Folded(s, a)
<1>1. c \in Context /\ \A a \in Atom :
        c[a] \in Interval /\ LLONG_MIN <= c[a].lo /\ c[a].hi <= LLONG_MAX
  BY FittingIs
<1>2. \A a \in Atom : m[a] = intersect(c[a], k(a)) BY DEF Established
<1>3. m \in Context BY <1>1, EstablishedIs
<1>4. ASSUME NEW a \in Atom
      PROVE  /\ k(a) \in Interval /\ k(a) \in ClearInterval
             /\ k(a) = Unbounded <=> \A i \in DOMAIN s : ~ Bounds(s[i], a)
             /\ \A h \in BoundedHand :
                  Within(h[a], k(a)) <=> \A i \in DOMAIN s : Bounds(s[i], a) => Holds(s[i], h)
  BY <1>4, FoldedIs
<1>5. m = [a \in Atom |-> m[a]] BY DEF Established
<1> HIDE DEF m, k
<1>6. m \in Fitting
  <2>1. ASSUME NEW a \in Atom PROVE LLONG_MIN <= m[a].lo /\ m[a].hi <= LLONG_MAX
    <3>1. LLONG_MIN <= k(a).lo /\ k(a).hi <= LLONG_MAX BY <1>4, Ends
    <3>2. QED BY <1>1, <1>2, <1>4, <3>1, IntersectIs
  <2>2. QED BY <1>3, <2>1 DEF Fitting
<1>7. ASSUME \A i \in DOMAIN s : ~ Foldable(s[i]), c = emptyContext PROVE m = emptyContext
  <2>1. ASSUME NEW a \in Atom PROVE m[a] = Unbounded
    <3>1. k(a) = Unbounded BY <1>4, <1>7 DEF Bounds
    <3>2. c[a] = Unbounded BY <1>7 DEF emptyContext
    <3>3. intersect(Unbounded, Unbounded) = Unbounded BY Ends, IntersectIs
    <3>4. QED BY <1>2, <3>1, <3>2, <3>3
  <2>2. QED BY <1>5, <2>1 DEF emptyContext
<1>8. ASSUME NEW h \in BoundedHand, Fits(h, c)
      PROVE  Fits(h, m) <=> \A i \in DOMAIN s : Foldable(s[i]) => Holds(s[i], h)
  <2>1. ASSUME NEW a \in Atom
        PROVE  Within(h[a], m[a]) <=> \A i \in DOMAIN s : Bounds(s[i], a) => Holds(s[i], h)
    <3>1. h[a] \in Int BY BoundedHandIs
    <3>2. Within(h[a], c[a]) BY <1>8 DEF Fits
    <3>3. Within(h[a], m[a]) <=> Within(h[a], k(a)) BY <1>1, <1>2, <1>4, <3>1, <3>2, IntersectIs
    <3>4. QED BY <1>4, <3>3
  <2>2. \A i \in DOMAIN s : Foldable(s[i]) => AtomOf(s[i]) \in Atom
    <3>1. \A i \in DOMAIN s : s[i] \in AnyTree OBVIOUS
    <3>2. QED BY <3>1, FoldableIs
  <2>3. (\A i \in DOMAIN s : Foldable(s[i]) => Holds(s[i], h)) <=>
          \A a \in Atom : \A i \in DOMAIN s : Bounds(s[i], a) => Holds(s[i], h)
    BY <2>2 DEF Bounds
  <2>4. Fits(h, m) <=> \A a \in Atom : \A i \in DOMAIN s : Bounds(s[i], a) => Holds(s[i], h)
    BY <2>1 DEF Fits
  <2>5. QED BY <2>3, <2>4
<1>9. QED BY <1>6, <1>7, <1>8 DEF m

(* What is emitted for the atoms holds where the conjuncts do.             *)
LEMMA BoundsAre ==
  ASSUME Ordered, NEW s \in Seq(SafeTree), s \in Seq(AnyTree), NEW c \in Fitting
  PROVE  LET b == BoundsOf(s, c) IN
         /\ b \in Seq(FineTree)
         /\ (\A i \in DOMAIN s : ~ Foldable(s[i])) => \A i \in DOMAIN b : isTrueLeaf(b[i])
         /\ c = emptyContext /\ (\A i \in DOMAIN b : isTrueLeaf(b[i]))
              => \A i \in DOMAIN s : ~ Foldable(s[i])
         /\ \A h \in BoundedHand : Fits(h, c) =>
              ((\A i \in DOMAIN b : Holds(b[i], h))
                 <=> \A i \in DOMAIN s : Foldable(s[i]) => Holds(s[i], h))
<1> DEFINE b == BoundsOf(s, c)
           k(a) == Folded(s, a)
           u(a) == nonRedundantPart(k(a), c[a])
<1>1. c \in Context /\ \A a \in Atom :
        c[a] \in Interval /\ LLONG_MIN <= c[a].lo /\ c[a].hi <= LLONG_MAX
  BY FittingIs
<1>2. /\ b = [i \in DOMAIN order |-> buildIntervalNode(order[i], u(order[i]))]
      /\ DOMAIN b = DOMAIN order
  BY DEF BoundsOf
<1>3. ASSUME NEW a \in Atom
      PROVE  /\ k(a) \in Interval /\ k(a) \in ClearInterval
             /\ k(a) = Unbounded <=> \A i \in DOMAIN s : ~ Bounds(s[i], a)
             /\ \A h \in BoundedHand :
                  Within(h[a], k(a)) <=> \A i \in DOMAIN s : Bounds(s[i], a) => Holds(s[i], h)
  BY <1>3, FoldedIs
<1> HIDE DEF b, k
<1>4. ASSUME NEW a \in Atom
      PROVE  /\ u(a) \in Interval /\ u(a) \in ClearInterval
             /\ k(a) = Unbounded => u(a) = Unbounded
             /\ c = emptyContext => u(a) = k(a)
             /\ \A h \in BoundedHand : Fits(h, c) => (Within(h[a], u(a)) <=> Within(h[a], k(a)))
  <2>1. u(a) \in Interval /\ u(a) \in ClearInterval BY <1>1, <1>3, NonRedundantIs
  <2>2. k(a) = Unbounded => u(a) = Unbounded BY <1>1, <1>3, NonRedundantIs
  <2>3. c = emptyContext => u(a) = k(a)
    <3>1. c = emptyContext => c[a] = Unbounded BY DEF emptyContext
    <3>2. QED BY <1>1, <1>3, <3>1, NonRedundantIs
  <2>4. ASSUME NEW h \in BoundedHand, Fits(h, c)
        PROVE  Within(h[a], u(a)) <=> Within(h[a], k(a))
    <3>1. h[a] \in Inner BY DEF BoundedHand, Inner
    <3>2. Within(h[a], c[a]) BY <2>4 DEF Fits
    <3>3. QED BY <1>1, <1>3, <3>1, <3>2, NonRedundantIs
  <2>5. QED BY <2>1, <2>2, <2>3, <2>4
<1> HIDE DEF u
<1>5. /\ \A i \in DOMAIN order : order[i] \in Atom
      /\ \A a \in Atom : \E i \in DOMAIN order : order[i] = a
      /\ DOMAIN order = 1 .. Len(order) /\ Len(order) \in Nat
  BY OrderedIs
<1>6. ASSUME NEW i \in DOMAIN order
      PROVE  /\ b[i] \in FineTree
             /\ isTrueLeaf(b[i]) <=> u(order[i]) = Unbounded
             /\ \A h \in BoundedHand : Holds(b[i], h) <=> Within(h[order[i]], u(order[i]))
  <2>1. b[i] = buildIntervalNode(order[i], u(order[i])) BY <1>2
  <2>2. order[i] \in Atom BY <1>5
  <2>3. u(order[i]) \in Interval /\ u(order[i]) \in ClearInterval BY <1>4, <2>2
  <2>4. QED BY <2>1, <2>2, <2>3, BuildIs
<1>7. b \in Seq(FineTree)
  <2>1. b \in [DOMAIN order -> FineTree] BY <1>2, <1>6
  <2>2. QED BY <1>5, <2>1
<1>8. ASSUME \A i \in DOMAIN s : ~ Foldable(s[i]), NEW i \in DOMAIN b PROVE isTrueLeaf(b[i])
  <2>1. i \in DOMAIN order /\ order[i] \in Atom BY <1>2, <1>5
  <2>2. k(order[i]) = Unbounded BY <1>3, <1>8, <2>1 DEF Bounds
  <2>3. QED BY <1>4, <1>6, <2>1, <2>2
<1>9. ASSUME c = emptyContext, \A i \in DOMAIN b : isTrueLeaf(b[i]), NEW i \in DOMAIN s,
             Foldable(s[i])
      PROVE  FALSE
  <2> DEFINE a == AtomOf(s[i])
  <2>1. s[i] \in AnyTree OBVIOUS
  <2>2. a \in Atom BY <1>9, <2>1, FoldableIs
  <2>3. Bounds(s[i], a) BY <1>9 DEF Bounds
  <2> HIDE DEF a
  <2>4. PICK j \in DOMAIN order : order[j] = a BY <1>5, <2>2
  <2>5. isTrueLeaf(b[j]) BY <1>2, <1>9
  <2>6. u(a) = Unbounded BY <1>6, <2>4, <2>5
  <2>7. k(a) = Unbounded BY <1>4, <1>9, <2>2, <2>6
  <2>8. QED BY <1>3, <2>2, <2>3, <2>7
<1>10. ASSUME NEW h \in BoundedHand, Fits(h, c)
       PROVE  (\A i \in DOMAIN b : Holds(b[i], h))
                <=> \A i \in DOMAIN s : Foldable(s[i]) => Holds(s[i], h)
  <2>1. ASSUME NEW a \in Atom
        PROVE  Within(h[a], u(a)) <=> \A i \in DOMAIN s : Bounds(s[i], a) => Holds(s[i], h)
    BY <1>3, <1>4, <1>10
  <2>2. (\A i \in DOMAIN b : Holds(b[i], h)) <=> \A a \in Atom : Within(h[a], u(a))
    BY <1>2, <1>5, <1>6
  <2>3. \A i \in DOMAIN s : Foldable(s[i]) => AtomOf(s[i]) \in Atom
    <3>1. \A i \in DOMAIN s : s[i] \in AnyTree OBVIOUS
    <3>2. QED BY <3>1, FoldableIs
  <2>4. (\A i \in DOMAIN s : Foldable(s[i]) => Holds(s[i], h)) <=>
          \A a \in Atom : \A i \in DOMAIN s : Bounds(s[i], a) => Holds(s[i], h)
    BY <2>3 DEF Bounds
  <2>5. QED BY <2>1, <2>2, <2>4
<1>11. QED BY <1>7, <1>8, <1>9, <1>10 DEF b

-----------------------------------------------------------------------------
(* What simplification promises of a tree in a context.                    *)

Kept(n, s, c) == \A h \in BoundedHand : Fits(h, c) => (Holds(s, h) <=> Holds(n, h))

Good(n, c) ==
  /\ simplifyNode[n][c] \in FineTree
  /\ Kept(n, simplifyNode[n][c], c)
  /\ IsTrue(n, TRUE) => isTrueLeaf(simplifyNode[n][c])
  /\ c = emptyContext /\ isTrueLeaf(simplifyNode[n][c]) => IsTrue(n, TRUE)

GoodBelow(n) ==
  \A m \in Tree : Rank(m) < Rank(n) /\ m \in SafeTree => \A c \in Fitting : Good(m, c)

(* A conjunct may lose what its siblings say: they are emitted beside it.  *)
LEMMA GoodAnd ==
  ASSUME Ordered, NEW n \in Tree, n \in SafeTree, n.t = "TAND", GoodBelow(n), NEW c \in Fitting
  PROVE  Good(n, c)
<1> DEFINE s == Flattened(n, "TAND")
           m == Established(s, c)
           r == PartsOf(s, simplifyNode, m)
           b == BoundsOf(s, c)
           x == simplifyNode[n][c]
<1>1. /\ s \in Seq(Tree) /\ s \in Seq(AnyTree)
      /\ \A i \in DOMAIN s : s[i] \in Tree /\ Rank(s[i]) < Rank(n)
  BY FlattenedParts
<1>2. \A i \in DOMAIN s : s[i] \in SafeTree
  <2>1. \A e \in Elements(s) : e \in SafeTree BY FlattenedIs
  <2>2. QED BY <2>1 DEF Elements
<1>3. /\ \A h \in BoundedHand : Holds(n, h) <=> \A i \in DOMAIN s : Holds(s[i], h)
      /\ IsTrue(n, TRUE) <=> \A i \in DOMAIN s : IsTrue(s[i], TRUE)
  <2>1. \A h \in [Atom -> Int] : Holds(n, h) <=> \A e \in Elements(s) : Holds(e, h)
    BY FlattenedIs
  <2>2. IsTrue(n, TRUE) <=> \A e \in Elements(s) : IsTrue(e, TRUE) BY FlattenedIs
  <2> HIDE DEF s
  <2>3. QED BY <2>1, <2>2, BoundedHandIs DEF Elements
<1>4. x = IF Excluded(s, c) THEN falseLeaf ELSE andOfAll(b \o r)
  <2>1. c \in Context BY FittingIs
  <2>2. x = SimplifiedOf(n, simplifyNode, c) BY <2>1, SimplifyNodeIs
  <2>3. QED BY <2>2, SimplifiedIs, SimplifyAndIs
<1> HIDE DEF s, x
<1>5. s \in Seq(SafeTree) /\ DOMAIN s = 1 .. Len(s) /\ Len(s) \in Nat BY <1>1, <1>2
<1>6. /\ m \in Fitting
      /\ (\A i \in DOMAIN s : ~ Foldable(s[i])) /\ c = emptyContext => m = emptyContext
      /\ \A h \in BoundedHand : Fits(h, c) =>
           (Fits(h, m) <=> \A i \in DOMAIN s : Foldable(s[i]) => Holds(s[i], h))
  BY <1>1, <1>5, EstablishedFits
<1>7. /\ b \in Seq(FineTree)
      /\ (\A i \in DOMAIN s : ~ Foldable(s[i])) => \A i \in DOMAIN b : isTrueLeaf(b[i])
      /\ c = emptyContext /\ (\A i \in DOMAIN b : isTrueLeaf(b[i]))
           => \A i \in DOMAIN s : ~ Foldable(s[i])
      /\ \A h \in BoundedHand : Fits(h, c) =>
           ((\A i \in DOMAIN b : Holds(b[i], h))
              <=> \A i \in DOMAIN s : Foldable(s[i]) => Holds(s[i], h))
  BY <1>1, <1>5, BoundsAre
<1>8. /\ DOMAIN r = DOMAIN s
      /\ \A i \in DOMAIN s : r[i] = IF Foldable(s[i]) THEN trueLeaf ELSE simplifyNode[s[i]][m]
  BY DEF PartsOf
<1>9. \A i \in DOMAIN s : Foldable(s[i]) => ~ IsTrue(s[i], TRUE)
  <2>1. \A i \in DOMAIN s : s[i] \in AnyTree BY <1>1
  <2>2. QED BY <2>1, IsTrueRule DEF Foldable
<1>10. \A i \in DOMAIN s : Foldable(s[i]) => AtomOf(s[i]) \in Atom
  <2>1. \A i \in DOMAIN s : s[i] \in AnyTree BY <1>1
  <2>2. QED BY <2>1, FoldableIs
<1>11. Excluded(s, c) <=> \E i \in DOMAIN s : Foldable(s[i]) /\ empty(m[AtomOf(s[i])])
  BY DEF Excluded
<1> HIDE DEF m, r, b
<1>12. \A i \in DOMAIN s : Good(s[i], m) BY <1>1, <1>2, <1>6 DEF GoodBelow
<1>13. r \in Seq(FineTree)
  <2>1. \A i \in DOMAIN s : r[i] \in FineTree BY <1>8, <1>12, LeavesFine DEF Good
  <2>2. DOMAIN r = 1 .. Len(s) BY <1>5, <1>8
  <2>3. r \in [1 .. Len(s) -> FineTree]
    <3>1. r = [i \in DOMAIN s |-> r[i]] BY <1>8 DEF r, PartsOf
    <3>2. QED BY <1>5, <2>1, <3>1
  <2>4. QED BY <1>5, <2>3
<1>14. b \in Seq(AnyTree) /\ r \in Seq(AnyTree) BY <1>7, <1>13, FineAreTrees
<1>15. x \in FineTree BY <1>4, <1>7, <1>13, <1>14, AndOfBoth, LeavesFine
<1>16. ASSUME NEW h \in BoundedHand, Fits(h, c) PROVE Holds(x, h) <=> Holds(n, h)
  <2> DEFINE Rest == \A i \in DOMAIN s : Foldable(s[i]) => Holds(s[i], h)
  <2>1. h \in [Atom -> Int] BY BoundedHandIs
  <2>2. CASE Excluded(s, c)
    <3>1. PICK i \in DOMAIN s : Foldable(s[i]) /\ empty(m[AtomOf(s[i])]) BY <1>11, <2>2
    <3> DEFINE a == AtomOf(s[i])
    <3>2. a \in Atom /\ m[a] \in Interval /\ h[a] \in Int
      BY <1>6, <1>10, <2>1, <3>1, FittingIs
    <3>3. ~ Within(h[a], m[a]) BY <3>1, <3>2 DEF empty, Within, Interval
    <3>4. ~ Fits(h, m) BY <3>2, <3>3 DEF Fits
    <3>5. ~ Holds(n, h) BY <1>3, <1>6, <1>16, <3>4
    <3>6. x = falseLeaf BY <1>4, <2>2
    <3>7. QED BY <2>1, <3>5, <3>6, LeavesAre
  <2>3. CASE ~ Excluded(s, c)
    <3>1. x = andOfAll(b \o r) BY <1>4, <2>3
    <3>2. Holds(x, h) <=> /\ \A i \in DOMAIN b : Holds(b[i], h)
                          /\ \A i \in DOMAIN r : Holds(r[i], h)
      BY <1>14, <2>1, <3>1, AndOfBoth
    <3>3. Rest <=> \A i \in DOMAIN b : Holds(b[i], h) BY <1>7, <1>16
    <3>4. Rest <=> Fits(h, m) BY <1>6, <1>16
    <3>5. ASSUME Fits(h, m), NEW i \in DOMAIN s, ~ Foldable(s[i])
          PROVE  Holds(r[i], h) <=> Holds(s[i], h)
      BY <1>8, <1>12, <3>5 DEF Good, Kept
    <3>6. \A i \in DOMAIN s : Foldable(s[i]) => Holds(r[i], h) BY <1>8, <2>1, LeavesAre
    <3>7. Rest => ((\A i \in DOMAIN r : Holds(r[i], h)) <=> \A i \in DOMAIN s : Holds(s[i], h))
      BY <1>8, <3>4, <3>5, <3>6
    <3>8. (\A i \in DOMAIN s : Holds(s[i], h)) => Rest OBVIOUS
    <3> HIDE DEF Rest
    <3>9. QED BY <1>3, <3>2, <3>3, <3>7, <3>8
  <2>4. QED BY <2>2, <2>3
<1>17. ASSUME IsTrue(n, TRUE) PROVE isTrueLeaf(x)
  <2>1. \A i \in DOMAIN s : IsTrue(s[i], TRUE) /\ ~ Foldable(s[i]) BY <1>3, <1>9, <1>17
  <2>2. ~ Excluded(s, c) BY <1>11, <2>1
  <2>3. \A i \in DOMAIN r : isTrueLeaf(r[i]) BY <1>8, <1>12, <2>1 DEF Good
  <2>4. \A i \in DOMAIN b : isTrueLeaf(b[i]) BY <1>7, <2>1
  <2>5. QED BY <1>4, <1>14, <2>2, <2>3, <2>4, AndOfBoth
<1>18. ASSUME c = emptyContext, isTrueLeaf(x) PROVE IsTrue(n, TRUE)
  <2>1. ~ Excluded(s, c) BY <1>4, <1>18, LeavesAre
  <2>2. isTrueLeaf(andOfAll(b \o r)) BY <1>4, <1>18, <2>1
  <2>3. (\A i \in DOMAIN b : isTrueLeaf(b[i])) /\ (\A i \in DOMAIN r : isTrueLeaf(r[i]))
    BY <1>14, <2>2, AndOfBoth
  <2>4. \A i \in DOMAIN s : ~ Foldable(s[i]) BY <1>7, <1>18, <2>3
  <2>5. m = emptyContext BY <1>6, <1>18, <2>4
  <2>6. \A i \in DOMAIN s : IsTrue(s[i], TRUE) BY <1>8, <1>12, <2>3, <2>4, <2>5 DEF Good
  <2>7. QED BY <1>3, <2>6
<1>19. QED BY <1>15, <1>16, <1>17, <1>18 DEF Good, Kept, x

(* Each branch of an OR is simplified in the context of the OR.            *)
LEMMA GoodOr ==
  ASSUME Ordered, NEW n \in Tree, n \in SafeTree, n.t = "TOR", GoodBelow(n), NEW c \in Fitting
  PROVE  Good(n, c)
<1> DEFINE s == Flattened(n, "TOR")
           r == BranchesOf(s, simplifyNode, c)
           x == simplifyNode[n][c]
<1>1. /\ s \in Seq(Tree) /\ s \in Seq(AnyTree)
      /\ \A i \in DOMAIN s : s[i] \in Tree /\ Rank(s[i]) < Rank(n)
  BY FlattenedParts
<1>2. \A i \in DOMAIN s : s[i] \in SafeTree
  <2>1. \A e \in Elements(s) : e \in SafeTree BY FlattenedIs
  <2>2. QED BY <2>1 DEF Elements
<1>3. /\ \A h \in BoundedHand : Holds(n, h) <=> \E i \in DOMAIN s : Holds(s[i], h)
      /\ IsTrue(n, TRUE) <=> \E i \in DOMAIN s : IsTrue(s[i], TRUE)
  <2>1. \A h \in [Atom -> Int] : Holds(n, h) <=> \E e \in Elements(s) : Holds(e, h)
    BY FlattenedIs
  <2>2. IsTrue(n, TRUE) <=> \E e \in Elements(s) : IsTrue(e, TRUE) BY FlattenedIs
  <2> HIDE DEF s
  <2>3. QED BY <2>1, <2>2, BoundedHandIs DEF Elements
<1>4. x = orOfAll(r)
  <2>1. c \in Context BY FittingIs
  <2>2. x = SimplifiedOf(n, simplifyNode, c) BY <2>1, SimplifyNodeIs
  <2>3. QED BY <2>2, SimplifiedIs
<1> HIDE DEF s, x
<1>5. /\ r = [i \in DOMAIN s |-> r[i]] /\ DOMAIN r = DOMAIN s
      /\ \A i \in DOMAIN s : r[i] = simplifyNode[s[i]][c]
  BY DEF BranchesOf
<1> HIDE DEF r
<1>6. \A i \in DOMAIN s : Good(s[i], c) BY <1>1, <1>2 DEF GoodBelow
<1>7. r \in Seq(FineTree) /\ r \in Seq(AnyTree)
  <2>1. \A i \in DOMAIN s : r[i] \in FineTree BY <1>5, <1>6 DEF Good
  <2>2. DOMAIN s = 1 .. Len(s) /\ Len(s) \in Nat BY <1>1
  <2>3. r \in [1 .. Len(s) -> FineTree] BY <1>5, <2>1, <2>2
  <2>4. r \in Seq(FineTree) BY <2>2, <2>3
  <2>5. QED BY <2>4, FineAreTrees
<1>8. x \in FineTree BY <1>4, <1>7, OrOfAllIs
<1>9. ASSUME NEW h \in BoundedHand, Fits(h, c) PROVE Holds(x, h) <=> Holds(n, h)
  <2>1. h \in [Atom -> Int] BY BoundedHandIs
  <2>2. Holds(x, h) <=> \E i \in DOMAIN r : Holds(r[i], h) BY <1>4, <1>7, <2>1, OrOfAllIs
  <2>3. \A i \in DOMAIN s : Holds(r[i], h) <=> Holds(s[i], h)
    BY <1>5, <1>6, <1>9 DEF Good, Kept
  <2>4. QED BY <1>3, <1>5, <2>2, <2>3
<1>10. isTrueLeaf(x) <=> \E i \in DOMAIN r : isTrueLeaf(r[i]) BY <1>4, <1>7, OrOfAllIs
<1>11. ASSUME IsTrue(n, TRUE) PROVE isTrueLeaf(x) BY <1>3, <1>5, <1>6, <1>10, <1>11 DEF Good
<1>12. ASSUME c = emptyContext, isTrueLeaf(x) PROVE IsTrue(n, TRUE)
  BY <1>3, <1>5, <1>6, <1>10, <1>12 DEF Good
<1>13. QED BY <1>8, <1>9, <1>11, <1>12 DEF Good, Kept, x

(* A comparison loses only what the context says.                          *)
LEMMA GoodComparison ==
  ASSUME Ordered, NEW n \in Tree, n \in SafeTree, Foldable(n), NEW c \in Fitting
  PROVE  Good(n, c)
<1> DEFINE a == AtomOf(n)
           iv == IntervalOf(n)
           u == nonRedundantPart(iv, c[a])
           x == simplifyNode[n][c]
<1>1. n \in AnyTree BY TreeIs
<1>2. a \in Atom /\ iv \in Interval /\ iv \in ClearInterval /\ iv # Unbounded
      /\ \A h \in BoundedHand : Holds(n, h) <=> Within(h[a], iv)
  BY <1>1, FoldableIs
<1>3. x = IF empty(intersect(iv, c[a])) THEN falseLeaf ELSE buildIntervalNode(a, u)
  <2>1. c \in Context BY FittingIs
  <2>2. x = SimplifiedOf(n, simplifyNode, c) BY <2>1, SimplifyNodeIs
  <2>3. QED BY <2>2, SimplifiedIs DEF simplifyComparison
<1>4. ~ IsTrue(n, TRUE) BY <1>1, IsTrueRule DEF Foldable
<1> HIDE DEF a, iv, x
<1>5. c[a] \in Interval BY <1>2, FittingIs
<1>6. u \in Interval /\ u \in ClearInterval BY <1>2, <1>5, NonRedundantIs
<1>7. c = emptyContext => u # Unbounded
  <2>1. c = emptyContext => c[a] = Unbounded BY <1>2 DEF emptyContext
  <2>2. QED BY <1>2, <1>5, <2>1, NonRedundantIs
<1>8. x \in FineTree BY <1>2, <1>3, <1>6, BuildIs, LeavesFine
<1>9. ASSUME NEW h \in BoundedHand, Fits(h, c) PROVE Holds(x, h) <=> Holds(n, h)
  <2>1. h \in [Atom -> Int] /\ h[a] \in Int /\ h[a] \in Inner
    BY <1>2, BoundedHandIs DEF BoundedHand, Inner
  <2>2. Within(h[a], c[a]) BY <1>2, <1>9 DEF Fits
  <2>3. CASE empty(intersect(iv, c[a]))
    <3>1. intersect(iv, c[a]) \in Interval BY <1>2, <1>5, IntersectIs
    <3>2. ~ Within(h[a], intersect(iv, c[a])) BY <2>1, <2>3, <3>1 DEF empty, Within, Interval
    <3>3. ~ Within(h[a], iv) BY <1>2, <1>5, <2>1, <2>2, <3>2, IntersectIs
    <3>4. QED BY <1>2, <1>3, <2>1, <2>3, <3>3, LeavesAre
  <2>4. CASE ~ empty(intersect(iv, c[a]))
    <3>1. x = buildIntervalNode(a, u) BY <1>3, <2>4
    <3>2. Holds(x, h) <=> Within(h[a], u) BY <1>2, <1>6, <3>1, BuildIs
    <3>3. Within(h[a], u) <=> Within(h[a], iv) BY <1>2, <1>5, <2>1, <2>2, NonRedundantIs
    <3>4. QED BY <1>2, <3>2, <3>3
  <2>5. QED BY <2>3, <2>4
<1>10. c = emptyContext => ~ isTrueLeaf(x) BY <1>2, <1>3, <1>6, <1>7, BuildIs, LeavesAre
<1>11. QED BY <1>4, <1>8, <1>9, <1>10 DEF Good, Kept, x

(* Whatever is left as it stands. *)
LEMMA GoodAsIs ==
  ASSUME NEW n \in Tree, n \in SafeTree, NEW c \in Fitting, simplifyNode[n][c] = n,
         \/ n.t \in {"TINT", "TKWORD"} \cup Comparisons
         \/ n.t = "TNOT" /\ n.right.t \in {"TINT", "TKWORD"}
  PROVE  Good(n, c)
<1>1. n \in AnyTree BY TreeIs
<1>2. n.t \notin {"TAND", "TOR"} BY DEF Comparisons
<1>3. ~ Inside[n] BY <1>1, <1>2, InsideRule
<1>4. n.t = "TINT" => (IsTrue(n, TRUE) <=> isTrueLeaf(n)) BY <1>1, IsTrueRule DEF isTrueLeaf
<1>5. n.t # "TINT" => ~ IsTrue(n, TRUE) /\ ~ isTrueLeaf(n)
  <2>1. CASE n.t \in Comparisons \cup {"TKWORD"} BY <1>1, <2>1, IsTrueRule DEF isTrueLeaf
  <2>2. CASE n.t = "TNOT" /\ n.right.t \in {"TINT", "TKWORD"}
    <3>1. n.right \in AnyTree BY <1>1, <2>2, Kinds
    <3>2. ~ IsTrue(n.right, FALSE) BY <2>2, <3>1, IsTrueRule
    <3>3. ~ IsTrue(n, TRUE) BY <1>1, <2>2, <3>2, IsTrueRule
    <3>4. QED BY <2>2, <3>3 DEF isTrueLeaf
  <2>3. QED BY <2>1, <2>2
<1>6. n \in FineTree BY <1>3, <1>5 DEF FineTree
<1>7. QED BY <1>4, <1>5, <1>6 DEF Good, Kept

(* NOT of a tree is what it is pushed into, or left as it stands.          *)
LEMMA GoodNot ==
  ASSUME Ordered, NEW n \in Tree, n \in SafeTree, n.t = "TNOT", GoodBelow(n), NEW c \in Fitting
  PROVE  Good(n, c)
<1>1. n \in AnyTree /\ c \in Context BY TreeIs, FittingIs
<1>2. simplifyNode[n][c] = IF n.right.t \in {"TINT", "TKWORD"} THEN n
                                                        ELSE simplifyNode[Pushed(n.right)][c]
  <2>1. simplifyNode[n][c] = SimplifiedOf(n, simplifyNode, c) BY <1>1, SimplifyNodeIs
  <2>2. QED BY <2>1, SimplifiedIs
<1>3. CASE n.right.t \in {"TINT", "TKWORD"} BY <1>2, <1>3, GoodAsIs
<1>4. CASE n.right.t \notin {"TINT", "TKWORD"}
  <2> DEFINE p == Pushed(n.right)
  <2>1. p \in Tree /\ Rank(p) < Rank(n) BY <1>4, PushedInTree
  <2>2. /\ p \in SafeTree
        /\ \A h \in [Atom -> Int] : Holds(p, h) <=> Holds(n, h)
        /\ IsTrue(p, TRUE) <=> IsTrue(n, TRUE)
    BY <1>1, <1>4, PushedIs
  <2>3. simplifyNode[n][c] = simplifyNode[p][c] BY <1>2, <1>4
  <2> HIDE DEF p
  <2>4. Good(p, c) BY <2>1, <2>2 DEF GoodBelow
  <2>5. \A h \in BoundedHand : Holds(p, h) <=> Holds(n, h) BY <2>2, BoundedHandIs
  <2>6. QED BY <2>2, <2>3, <2>4, <2>5 DEF Good, Kept
<1>5. QED BY <1>3, <1>4

(* Simplification keeps its promise for every tree and context.            *)
LEMMA AllGood ==
  ASSUME Ordered
  PROVE  \A n \in Tree : n \in SafeTree => \A c \in Fitting : Good(n, c)
<1> DEFINE S == Tree
           rank == [n \in S |-> Rank(n)]
           G == {n \in S : n \in SafeTree => \A c \in Fitting : Good(n, c)}
<1>1. rank \in [S -> Nat] BY RankIs, TreeIs
<1>2. ASSUME NEW n \in S, \A m \in S : rank[m] < rank[n] => m \in G PROVE n \in G
  <2>1. SUFFICES ASSUME n \in SafeTree, NEW c \in Fitting PROVE Good(n, c) OBVIOUS
  <2>2. GoodBelow(n) BY <1>2 DEF GoodBelow
  <2>3. n \in AnyTree /\ c \in Context BY TreeIs, FittingIs
  <2>4. n.t \in {"TINT", "TKWORD", "TNOT"} \cup Binary BY <2>3, Kinds
  <2>5. CASE n.t = "TAND" BY <2>1, <2>2, <2>5, GoodAnd
  <2>6. CASE n.t = "TOR" BY <2>1, <2>2, <2>6, GoodOr
  <2>7. CASE n.t = "TNOT" BY <2>1, <2>2, <2>7, GoodNot
  <2>8. CASE Foldable(n) BY <2>1, <2>8, GoodComparison
  <2>9. CASE n.t \in {"TINT", "TKWORD"} \cup Comparisons /\ ~ Foldable(n)
    <3>1. simplifyNode[n][c] = SimplifiedOf(n, simplifyNode, c) BY <2>3, SimplifyNodeIs
    <3>2. n.t \notin {"TAND", "TOR", "TNOT"} BY <2>9 DEF Comparisons
    <3>3. simplifyNode[n][c] = n BY <2>9, <3>1, <3>2, SimplifiedIs
    <3>4. QED BY <2>1, <2>9, <3>3, GoodAsIs
  <2>10. QED BY <2>4, <2>5, <2>6, <2>7, <2>8, <2>9 DEF Binary
<1> HIDE DEF rank, S, G
<1>3. S \subseteq G BY <1>1, <1>2, RankInduction
<1>4. QED BY <1>3 DEF S, G

-----------------------------------------------------------------------------
(* Clear literals, by height.                                              *)

RuleLiterals == (LLONG_MIN + 2) .. (LLONG_MAX - 2)

(* The rules of the system have clear literals.                            *)
LEMMA RulesAreSafe ==
  \A r \in Rules : r \in Tree /\ r \in SafeTree
<1> DEFINE L == RuleLiterals
           Fine(n) == n \in SafeTree /\ (n.t = "TINT" => n.val \in L)
           K == {k \in Nat : \A n \in Trees(L, k) : Fine(n)}
<1>1. L \subseteq Int /\ L \subseteq Inner BY Ends DEF RuleLiterals, Inner
<1>2. \A op, v : v \in L => Clear(op, v) BY Ends DEF Clear, RuleLiterals
<1>3. ASSUME NEW n \in AnyTree, n.t = "TINT" => n.val \in L, \A o \in Operands(n) : Fine(o)
      PROVE  Fine(n)
  <2>1. n.t = "TINT" => n.val \in (LLONG_MIN + 1) .. (LLONG_MAX - 1) BY <1>1, <1>3 DEF Inner
  <2>2. n.t \in Comparisons => Fine(n.left) /\ Fine(n.right)
    BY <1>3, OperandsAre DEF Binary
  <2>3. SafeNode(n) BY <1>2, <2>1, <2>2 DEF SafeNode
  <2>4. QED BY <1>3, <2>3, SafeTreeIs
<1> HIDE DEF L
<1>4. ASSUME NEW k \in Nat, NEW lower, lower \subseteq AnyTree, \A o \in lower : Fine(o),
             NEW n, n \in AnyTree, Shaped(n, L, lower)
      PROVE  Fine(n)
  <2> HIDE DEF Fine
  <2>1. n.t = "TINT" => n.val \in L
    BY <1>4 DEF Shaped, Lit, Qty, Cmp, Not, Binary, Comparisons
  <2>2. Operands(n) \subseteq lower
    BY <1>4 DEF Shaped, Lit, Qty, Cmp, Not, Operands, Binary, Comparisons
  <2>3. QED BY <1>3, <1>4, <2>1, <2>2
<1>5. \A k \in Nat : Trees(L, k) \subseteq AnyTree
  <2> DEFINE Z == Int
  <2>1. L \subseteq Z BY <1>1
  <2> HIDE DEF Z
  <2>2. \A k \in Nat : k <= k => Trees(L, k) \subseteq Trees(Z, k) BY <2>1, TreesGrow
  <2>3. \A k \in Nat : Trees(L, k) \subseteq Trees(Z, k) BY <2>2
  <2>4. QED BY <2>3 DEF AnyTree, Z
<1> HIDE DEF Fine
<1>6. 0 \in K
  <2>1. ASSUME NEW n \in Trees(L, 0) PROVE Fine(n)
    <3>1. Shaped(n, L, {}) BY TreesRule, NodesShaped
    <3>2. n \in AnyTree BY <1>5
    <3>3. QED BY <1>4, <3>1, <3>2
  <2>2. QED BY <2>1
<1>7. ASSUME NEW k \in K PROVE k + 1 \in K
  <2>1. ASSUME NEW n \in Trees(L, k + 1) PROVE Fine(n)
    <3>1. Shaped(n, L, Trees(L, k)) BY TreesRule, NodesShaped
    <3>2. n \in AnyTree /\ Trees(L, k) \subseteq AnyTree BY <1>5
    <3>3. \A o \in Trees(L, k) : Fine(o) BY <1>7
    <3>4. QED BY <1>4, <3>1, <3>2, <3>3
  <2>2. QED BY <2>1
<1> HIDE DEF K
<1>8. MaxHeight \in K BY <1>6, <1>7, EveryNumber, SimplifyAssumption DEF K
<1>9. \A n \in Trees(L, MaxHeight) : Fine(n) BY <1>8 DEF K
<1>10. Trees(L, MaxHeight) \subseteq Tree
  <2> DEFINE Z == Int
  <2>1. L \subseteq Z BY <1>1
  <2>2. MaxHeight \in Nat /\ MaxHeight <= MaxHeight BY SimplifyAssumption
  <2> HIDE DEF Z
  <2>3. Trees(L, MaxHeight) \subseteq Trees(Z, MaxHeight) BY <2>1, <2>2, TreesGrow
  <2>4. QED BY <2>3 DEF Tree, Z
<1>11. Rules \subseteq Trees(L, MaxHeight) BY RulesAssumption DEF L, RuleLiterals
<1>12. QED BY <1>9, <1>10, <1>11 DEF Fine

(* Clear trees of the bounded height are those of the type invariant.      *)
LEMMA SafeByHeight ==
  ASSUME NEW n \in Tree, n \in SafeTree
  PROVE  n \in Trees((LLONG_MIN + 1) .. (LLONG_MAX - 1), MaxHeight)
<1> DEFINE L == Inner
           K == {k \in Nat : \A m \in SafeTree : Height(m) <= k => m \in Trees(L, k)}
<1>1. ASSUME NEW m \in SafeTree, NEW lower, Operands(m) \subseteq lower
      PROVE  m \in Nodes(L, lower)
  <2>1. m \in AnyTree /\ SafeNode(m) BY SafeTreeIs
  <2>2. m.t = "TINT" => m.val \in L BY <2>1 DEF SafeNode, Inner
  <2>3. /\ m.t \in Binary => m.left \in lower /\ m.right \in lower
        /\ m.t = "TNOT" => m.right \in lower
    BY <1>1, OperandsAre
  <2> HIDE DEF L
  <2>4. Shaped(m, L, lower) BY <2>1, <2>2, <2>3, Kinds DEF Shaped
  <2>5. QED BY <2>4, NodesShaped
<1> HIDE DEF L
<1>2. \A m \in SafeTree : m \in AnyTree /\ Height(m) \in Nat BY SafeTreeIs, HeightIs
<1>3. \A m \in SafeTree : \A o \in Operands(m) :
        o \in SafeTree /\ Height(o) \in Nat /\ Height(o) < Height(m)
  BY <1>2, SafeTreeIs, AnyTreeShaped
<1>4. 0 \in K
  <2>1. ASSUME NEW m \in SafeTree, Height(m) <= 0 PROVE m \in Trees(L, 0)
    <3>1. \A o \in Operands(m) : FALSE BY <1>2, <1>3, <2>1
    <3>2. Operands(m) \subseteq {} BY <3>1
    <3>3. m \in Nodes(L, {}) BY <1>1, <3>2
    <3>4. QED BY <3>3, TreesRule
  <2>2. QED BY <2>1
<1>5. ASSUME NEW k \in K PROVE k + 1 \in K
  <2>1. ASSUME NEW m \in SafeTree, Height(m) <= k + 1 PROVE m \in Trees(L, k + 1)
    <3>1. ASSUME NEW o \in Operands(m) PROVE o \in Trees(L, k)
      <4>1. o \in SafeTree /\ Height(o) <= k BY <1>2, <1>3, <2>1
      <4>2. QED BY <1>5, <4>1
    <3>2. m \in Nodes(L, Trees(L, k)) BY <1>1, <3>1
    <3>3. QED BY <3>2, TreesRule
  <2>2. QED BY <2>1
<1> HIDE DEF K
<1>6. MaxHeight \in K BY <1>4, <1>5, EveryNumber, SimplifyAssumption DEF K
<1>7. Height(n) <= MaxHeight BY TreeIs
<1>8. n \in Trees(L, MaxHeight) BY <1>6, <1>7 DEF K
<1>9. QED BY <1>8 DEF L, Inner

-----------------------------------------------------------------------------
(* The bound on heights.                                                   *)

(* Some operand of a tree of a height has the height below.                *)
LEMMA HighestOperand ==
  ASSUME NEW n \in AnyTree, NEW k \in Nat, k < Height(n)
  PROVE  \E o \in Operands(n) : k <= Height(o)
<1>1. SUFFICES ASSUME \A o \in Operands(n) : ~ (k <= Height(o)) PROVE FALSE OBVIOUS
<1>2. \A o \in Operands(n) : o \in AnyTree /\ Height(o) \in Nat BY AnyTreeShaped, HeightIs
<1>3. Height(n) \in Nat BY HeightIs
<1>4. PICK lower : /\ \A o \in Operands(n) : o \in lower
                   /\ Nodes(Int, lower) \subseteq Trees(Int, k)
  <2>1. CASE k = 0
    <3>1. \A o \in Operands(n) : FALSE BY <1>1, <1>2, <2>1
    <3>2. Nodes(Int, {}) = Trees(Int, 0) BY TreesRule
    <3>3. QED BY <2>1, <3>1, <3>2
  <2>2. CASE k # 0
    <3>1. k - 1 \in Nat /\ (k - 1) + 1 = k BY <2>2
    <3>2. Trees(Int, k) = Nodes(Int, Trees(Int, k - 1)) BY <3>1, TreesRule
    <3>3. ASSUME NEW o \in Operands(n) PROVE o \in Trees(Int, k - 1)
      <4>1. Height(o) <= k - 1 BY <1>1, <1>2
      <4>2. QED BY <1>2, <3>1, <4>1, HeightIs
    <3>4. QED BY <3>2, <3>3
  <2>3. QED BY <2>1, <2>2
<1>5. Shaped(n, Int, lower)
  <2>1. /\ n.t \in Binary => n.left \in lower /\ n.right \in lower
        /\ n.t = "TNOT" => n.right \in lower
    BY <1>4, OperandsAre
  <2>2. QED BY <2>1, Kinds DEF Shaped
<1>6. n \in Trees(Int, k) BY <1>4, <1>5, NodesShaped
<1>7. Height(n) <= k BY <1>6, HeightIs
<1>8. QED BY <1>3, <1>7

(* A tree that is not high is among the trees of the bound.                *)
LEMMA HighIs ==
  ASSUME NEW n \in AnyTree, ~ High(n)
  PROVE  n \in Tree
<1> DEFINE N == MaxHeight + 1
           G == SUBSET AnyTree
           step == [x \in (1 .. N) \X G |-> UNION {Operands(m) : m \in x[2]}]
           Is(f) == f = [k \in 0 .. N |-> IF k = 0 THEN {n}
                                          ELSE UNION {Operands(m) : m \in f[k - 1]}]
           w == CHOOSE f : Is(f)
           v == {n}
<1>1. N \in Nat /\ MaxHeight \in Nat BY SimplifyAssumption
<1>2. w[N] = {} BY DEF High
<1>3. v \in G OBVIOUS
<1>4. \A x \in (1 .. N) \X G : UNION {Operands(m) : m \in x[2]} \in G BY AnyTreeShaped
<1>5. step \in [(1 .. N) \X G -> G] BY <1>4
<1>6. \A i \in 1 .. N : \A l \in G : step[<<i, l>>] = UNION {Operands(m) : m \in l} OBVIOUS
<1> HIDE DEF step, G, v, N
<1>7. PICK f : FoldsWith(f, N, G, v, step) BY <1>1, <1>3, <1>5, PrefixExists
<1>8. /\ f \in [0 .. N -> G]
      /\ \A i \in 0 .. N : f[i] = IF i = 0 THEN v ELSE step[<<i, f[i - 1]>>]
  BY <1>7 DEF FoldsWith
<1>9. \A i \in 0 .. N : f[i] = IF i = 0 THEN {n} ELSE UNION {Operands(m) : m \in f[i - 1]}
  <2> TAKE i \in 0 .. N
  <2>1. i # 0 => i \in 1 .. N /\ i - 1 \in 0 .. N BY <1>1
  <2>2. i # 0 => f[i - 1] \in G BY <1>8, <2>1
  <2>3. QED BY <1>6, <1>8, <2>1, <2>2 DEF v
<1>10. Is(f) BY <1>8, <1>9
<1>11. Is(w) BY <1>10
<1> HIDE DEF w
<1>12. \A i \in 0 .. N : w[i] = IF i = 0 THEN {n} ELSE UNION {Operands(m) : m \in w[i - 1]}
  BY <1>11
<1>13. SUFFICES ASSUME ~ (Height(n) <= MaxHeight) PROVE FALSE BY TreeIs
<1>14. Height(n) \in Nat /\ N <= Height(n) BY <1>1, <1>13, HeightIs DEF N
<1> DEFINE K == {k \in Nat : k <= N => \E m \in w[k] : m \in AnyTree /\ N - k <= Height(m)}
<1>15. 0 \in K
  <2>0. 0 \in 0 .. N BY <1>1
  <2> HIDE DEF K
  <2>1. w[0] = {n} BY <1>12, <2>0
  <2>2. N - 0 = N BY <1>1
  <2>3. QED BY <1>14, <2>1, <2>2 DEF K
<1>16. ASSUME NEW k \in K PROVE k + 1 \in K
  <2>1. SUFFICES ASSUME k + 1 <= N
                 PROVE  \E m \in w[k + 1] : m \in AnyTree /\ N - (k + 1) <= Height(m)
    OBVIOUS
  <2>2. k + 1 \in 0 .. N /\ k + 1 # 0 /\ (k + 1) - 1 = k /\ k <= N BY <1>1, <2>1
  <2>3. PICK m \in w[k] : m \in AnyTree /\ N - k <= Height(m) BY <1>16, <2>2
  <2> DEFINE j == N - (k + 1)
  <2>4. j \in Nat /\ j < Height(m) /\ Height(m) \in Nat
    <3>1. Height(m) \in Nat BY <2>3, HeightIs
    <3>2. QED BY <1>1, <2>1, <2>3, <3>1
  <2> HIDE DEF j
  <2>5. PICK o \in Operands(m) : j <= Height(o) BY <2>3, <2>4, HighestOperand
  <2>6. o \in AnyTree BY <2>3, AnyTreeShaped
  <2>7. w[k + 1] = UNION {Operands(x) : x \in w[k]} BY <1>12, <2>2
  <2>8. o \in w[k + 1] BY <2>3, <2>5, <2>7
  <2>9. QED BY <2>5, <2>6, <2>8 DEF j
<1> HIDE DEF K
<1>17. N \in K BY <1>1, <1>15, <1>16, EveryNumber DEF K
<1>18. \E m \in w[N] : m \in AnyTree BY <1>1, <1>17 DEF K
<1>19. QED BY <1>2, <1>18

-----------------------------------------------------------------------------
(* Rules, as the algebra sees them.                                        *)

SafeRule == {n \in Tree : n \in SafeTree} \cup {NULL}

LEMMA NullIs ==
  /\ \A n \in AnyTree : n # NULL
  /\ \A n : n # NULL => Abs(n) # NULL
  /\ Abs(NULL) = NULL
<1>1. \A n \in AnyTree : n # NULL
  <2> TAKE n \in AnyTree
  <2>1. n.t \in {"TINT", "TKWORD", "TNOT"} \cup Binary BY Kinds
  <2>2. NULL.t = "NULL" BY DEF NULL
  <2>3. QED BY <2>1, <2>2 DEF Binary, Comparisons
<1>2. ASSUME NEW n, n # NULL PROVE Abs(n) # NULL
  <2> DEFINE x == {h \in Hand : checkHand(h, n)}
             y == FoldsToTrue(n, TRUE)
  <2>1. Abs(n) = [ext |-> x, top |-> y] BY <1>2 DEF Abs
  <2> HIDE DEF x, y
  <2>2. DOMAIN Abs(n) = {"ext", "top"} BY <2>1
  <2>3. DOMAIN NULL = {"t"} BY DEF NULL
  <2>4. QED BY <2>2, <2>3
<1>3. Abs(NULL) = NULL BY DEF Abs
<1>4. QED BY <1>1, <1>2, <1>3

(* A rule, as the algebra sees it, by the hands it holds on.               *)
LEMMA AbsIs ==
  ASSUME NEW n \in Tree
  PROVE  /\ Abs(n) = [ext |-> {h \in Hand : Holds(n, h)}, top |-> IsTrue(n, TRUE)]
         /\ Hand \subseteq BoundedHand
<1>1. n \in AnyTree /\ n # NULL BY TreeIs, NullIs
<1>2. Hand \subseteq BoundedHand BY SimplifyAssumption DEF BoundedHand
<1>3. \A h \in Hand : checkHand(h, n) <=> Holds(n, h)
  <2> TAKE h \in Hand
  <2>1. h \in [Atom -> Int] BY <1>2, BoundedHandIs
  <2>2. Eval(n, h) = Values(h)[n] BY <2>1, EvalIs
  <2>3. QED BY <1>1, <2>2 DEF checkHand, Holds
<1>4. {h \in Hand : checkHand(h, n)} = {h \in Hand : Holds(n, h)} BY <1>3
<1>5. FoldsToTrue(n, TRUE) = IsTrue(n, TRUE) BY FoldsToTrueIs DEF IsTrue
<1>6. Abs(n) = [ext |-> {h \in Hand : checkHand(h, n)}, top |-> FoldsToTrue(n, TRUE)]
  BY <1>1 DEF Abs
<1>7. QED BY <1>2, <1>4, <1>5, <1>6

(* Two rules conjoined and simplified. *)
LEMMA SimplifiedTogether ==
  ASSUME Ordered, NEW l \in Tree, l \in SafeTree, NEW r \in Tree, r \in SafeTree,
         And(l, r) \in Tree
  PROVE  LET s == simplifyNode[And(l, r)][emptyContext] IN
         /\ s \in FineTree /\ s \in AnyTree
         /\ \A h \in BoundedHand : Holds(s, h) <=> Holds(l, h) /\ Holds(r, h)
         /\ isTrueLeaf(s) <=> IsTrue(l, TRUE) /\ IsTrue(r, TRUE)
<1> DEFINE n == And(l, r)
           s == simplifyNode[n][emptyContext]
<1>1. n \in SafeTree /\ n \in AnyTree BY SafeParts, TreeIs
<1>2. n.t = "TAND" /\ n.left = l /\ n.right = r BY DEF And
<1>3. emptyContext \in Fitting /\ \A h \in BoundedHand : Fits(h, emptyContext) BY FittingIs
<1> HIDE DEF n
<1>4. Good(n, emptyContext) BY <1>1, <1>3, AllGood DEF n
<1>5. s \in FineTree BY <1>4 DEF Good
<1>6. \A h \in BoundedHand : Holds(s, h) <=> Holds(n, h) BY <1>3, <1>4 DEF Good, Kept
<1>7. isTrueLeaf(s) <=> IsTrue(n, TRUE) BY <1>4 DEF Good
<1>8. \A h \in BoundedHand : Holds(n, h) <=> Holds(l, h) /\ Holds(r, h)
  BY <1>1, <1>2, BoundedHandIs, HoldsRule
<1>9. IsTrue(n, TRUE) <=> IsTrue(l, TRUE) /\ IsTrue(r, TRUE) BY <1>1, <1>2, IsTrueRule
<1>10. s \in AnyTree BY <1>5, FineAreTrees
<1> HIDE DEF s
<1>11. QED BY <1>5, <1>6, <1>7, <1>8, <1>9, <1>10 DEF s, n

(* combineRule() on trees is that of the algebra.                          *)
LEMMA CombineIs ==
  ASSUME Ordered, NEW l \in SafeRule, NEW r \in SafeRule, Conjoinable(l, r),
         ~ High(combineRule(l, r))
  PROVE  /\ combineRule(l, r) \in SafeRule
         /\ l # NULL /\ r # NULL /\ combineRule(l, r) # NULL =>
              ~ LiteralOperand(combineRule(l, r))
         /\ Abs(combineRule(l, r)) = Knowledge!combineRule(Abs(l), Abs(r))
<1>1. CASE l = NULL
  <2>1. combineRule(l, r) = r BY <1>1 DEF combineRule
  <2>2. Knowledge!combineRule(Abs(l), Abs(r)) = Abs(r)
    <3>1. Abs(l) = NULL /\ (r # NULL => Abs(r) # NULL) /\ (r = NULL => Abs(r) = NULL)
      BY <1>1, NullIs
    <3>2. CASE Abs(r) # NULL BY <3>1, <3>2 DEF Knowledge!combineRule
    <3>3. CASE Abs(r) = NULL BY <3>1, <3>3 DEF Knowledge!combineRule
    <3>4. QED BY <3>2, <3>3
  <2>3. QED BY <1>1, <2>1, <2>2
<1>2. CASE l # NULL /\ r = NULL
  <2>1. combineRule(l, r) = l BY <1>2 DEF combineRule
  <2>2. Abs(r) = NULL /\ Abs(l) # NULL BY <1>2, NullIs
  <2>3. Knowledge!combineRule(Abs(l), Abs(r)) = Abs(l) BY <2>2 DEF Knowledge!combineRule
  <2>4. QED BY <1>2, <2>1, <2>3
<1>3. CASE l # NULL /\ r # NULL
  <2> DEFINE s == simplifyNode[And(l, r)][emptyContext]
  <2>1. l \in Tree /\ l \in SafeTree /\ r \in Tree /\ r \in SafeTree BY <1>3 DEF SafeRule
  <2>2. And(l, r) \in Tree
    <3>1. And(l, r) \in AnyTree BY <2>1, Built, TreeIs
    <3>2. ~ High(And(l, r)) BY <1>3 DEF Conjoinable
    <3>3. QED BY <3>1, <3>2, HighIs
  <2>3. /\ s \in FineTree /\ s \in AnyTree
        /\ \A h \in BoundedHand : Holds(s, h) <=> Holds(l, h) /\ Holds(r, h)
        /\ isTrueLeaf(s) <=> IsTrue(l, TRUE) /\ IsTrue(r, TRUE)
    BY <2>1, <2>2, SimplifiedTogether
  <2>4. combineRule(l, r) = IF isTrueLeaf(s) THEN NULL ELSE s
    BY <1>3 DEF combineRule, simplifyRule
  <2> HIDE DEF s
  <2>5. /\ Abs(l) = [ext |-> {h \in Hand : Holds(l, h)}, top |-> IsTrue(l, TRUE)]
        /\ Abs(r) = [ext |-> {h \in Hand : Holds(r, h)}, top |-> IsTrue(r, TRUE)]
        /\ Abs(l) # NULL /\ Abs(r) # NULL
    BY <1>3, <2>1, AbsIs, NullIs
  <2>6. /\ Abs(l).top = IsTrue(l, TRUE) /\ Abs(r).top = IsTrue(r, TRUE)
        /\ Abs(l).ext = {h \in Hand : Holds(l, h)} /\ Abs(r).ext = {h \in Hand : Holds(r, h)}
    BY <2>5
  <2>7. Knowledge!combineRule(Abs(l), Abs(r)) =
          IF Abs(l).top /\ Abs(r).top THEN NULL
          ELSE [ext |-> Abs(l).ext \cap Abs(r).ext, top |-> FALSE]
    BY <2>5 DEF Knowledge!combineRule
  <2>8. CASE isTrueLeaf(s)
    <3>1. combineRule(l, r) = NULL BY <2>4, <2>8
    <3>2. Knowledge!combineRule(Abs(l), Abs(r)) = NULL BY <2>3, <2>6, <2>7, <2>8
    <3>3. QED BY <3>1, <3>2, NullIs DEF SafeRule
  <2>9. CASE ~ isTrueLeaf(s)
    <3>1. combineRule(l, r) = s /\ s # NULL BY <2>3, <2>4, <2>9, NullIs
    <3>2. s \in Tree BY <2>3, <3>1, HighIs
    <3>3. s \in SafeRule BY <2>3, <3>2 DEF SafeRule, FineTree
    <3>4. ~ Inside[s] /\ ~ IsTrue(s, TRUE)
      <4>1. CASE s.t = "TINT"
        <5>1. ~ Inside[s] BY <2>3, <4>1, InsideRule
        <5>2. ~ IsTrue(s, TRUE) BY <2>3, <2>9, <4>1, IsTrueRule DEF isTrueLeaf
        <5>3. QED BY <5>1, <5>2
      <4>2. CASE s.t # "TINT" BY <2>3, <4>2 DEF FineTree
      <4>3. QED BY <4>1, <4>2
    <3>5. ~ LiteralOperand(s) BY <3>2, <3>4, LiteralOperandIs
    <3>6. {h \in Hand : Holds(s, h)} = {h \in Hand : Holds(l, h)} \cap {h \in Hand : Holds(r, h)}
      BY <2>1, <2>3, AbsIs
    <3>7. IsTrue(s, TRUE) = FALSE BY <2>3, <3>4, IsTrueRule
    <3>8. Abs(s) = [ext |-> {h \in Hand : Holds(l, h)} \cap {h \in Hand : Holds(r, h)},
                    top |-> FALSE]
      BY <3>2, <3>6, <3>7, AbsIs
    <3>9. ~ (Abs(l).top /\ Abs(r).top) BY <2>3, <2>6, <2>9
    <3>10. Knowledge!combineRule(Abs(l), Abs(r)) = Abs(s) BY <2>6, <2>7, <3>8, <3>9
    <3>11. QED BY <3>1, <3>3, <3>5, <3>10
  <2>10. QED BY <2>8, <2>9
<1>4. QED BY <1>1, <1>2, <1>3

(* negateRule() on trees is that of the algebra.                           *)
LEMMA NegateIs ==
  ASSUME NEW r \in Rules, Not(r) \in Tree
  PROVE  /\ negateRule(r) = Not(r) /\ negateRule(r) \in SafeRule /\ negateRule(r) # NULL
         /\ Abs(negateRule(r)) = Knowledge!negateRule(Abs(r))
<1>1. r \in Tree /\ r \in SafeTree /\ r \in AnyTree /\ r # NULL
  BY RulesAreSafe, TreeIs, NullIs
<1>2. negateRule(r) = Not(r) BY <1>1 DEF negateRule
<1>3. Not(r) \in SafeTree /\ Not(r) \in AnyTree /\ Not(r).t = "TNOT" /\ Not(r).right = r
  BY <1>1, SafeParts, TreeIs DEF Not
<1>4. Not(r) \in SafeRule /\ Not(r) # NULL BY <1>3, NullIs DEF SafeRule
<1>5. ~ FoldsToTrue(r, FALSE) BY RulesAssumption
<1>6. IsTrue(Not(r), TRUE) = FALSE
  <2>1. ~ IsTrue(r, FALSE) BY <1>1, <1>5, FoldsToTrueIs DEF IsTrue
  <2>2. ~ IsTrue(Not(r), TRUE)
    <3> DEFINE n == Not(r)
    <3>1. n \in AnyTree /\ n.t = "TNOT" /\ n.right = r BY <1>3
    <3> HIDE DEF n
    <3>2. IsTrue(n, TRUE) <=> IsTrue(n.right, FALSE) BY <3>1, IsTrueRule
    <3>3. QED BY <2>1, <3>1, <3>2 DEF n
  <2>3. IsTrue(Not(r), TRUE) \in BOOLEAN BY <1>3, IsTrueRule
  <2>4. QED BY <2>2, <2>3
<1>7. \A h \in Hand : Holds(Not(r), h) <=> ~ Holds(r, h)
  <2> TAKE h \in Hand
  <2>1. h \in [Atom -> Int] BY <1>1, AbsIs, BoundedHandIs
  <2>2. QED BY <1>3, <2>1, HoldsRule
<1>8. {h \in Hand : Holds(Not(r), h)} = Hand \ {h \in Hand : Holds(r, h)} BY <1>7
<1>9. Abs(Not(r)) = [ext |-> Hand \ {h \in Hand : Holds(r, h)}, top |-> FALSE]
  BY <1>6, <1>8, AbsIs
<1>10. Abs(r) # NULL /\ Abs(r).ext = {h \in Hand : Holds(r, h)}
  <2>1. Abs(r) = [ext |-> {h \in Hand : Holds(r, h)}, top |-> IsTrue(r, TRUE)] BY <1>1, AbsIs
  <2>2. Abs(r).ext = {h \in Hand : Holds(r, h)} BY <2>1
  <2>3. QED BY <1>1, <2>2, NullIs
<1>11. Knowledge!negateRule(Abs(r)) = [ext |-> Hand \ {h \in Hand : Holds(r, h)}, top |-> FALSE]
  BY <1>10 DEF Knowledge!negateRule, Knowledge!Ext
<1>12. QED BY <1>2, <1>4, <1>9, <1>11

-----------------------------------------------------------------------------
(* The invariant: what is accumulated stays clear of what stands for no    *)
(* bound, also after a comparison is negated, and atoms are iterated in    *)
(* some order.                                                             *)
IInv ==
  /\ acc \in SafeRule
  /\ neg \in SafeRule
  /\ count \in 0 .. MaxRules
  /\ Ordered

LEMMA InitIInv == Init => IInv
BY SimplifyAssumption DEF Init, IInv, SafeRule, Ordered

(* What one action does to the trees, and what the algebra says of it.     *)
LEMMA StepIs ==
  ASSUME IInv, Next
  PROVE  /\ acc' \in SafeRule /\ neg' \in SafeRule
         /\ neg # NULL /\ neg' \notin {NULL, neg} => ~ LiteralOperand(neg')
         /\ acc # NULL /\ acc' \notin {NULL, acc} => ~ LiteralOperand(acc')
         /\ count' \in 0 .. MaxRules /\ order' = order
         /\ \/ /\ \E r \in Rules : Abs(neg') = Knowledge!combineRule(Abs(neg), Knowledge!negateRule(Abs(r)))
               /\ acc' = acc
            \/ /\ Abs(acc') = Knowledge!combineRule(Abs(acc), Abs(neg))
               /\ neg' = NULL
            \/ /\ \E r \in Rules : Abs(acc') = Knowledge!combineRule(Abs(acc), Abs(r))
               /\ neg' = neg
<1>1. acc \in SafeRule /\ neg \in SafeRule /\ count \in 0 .. MaxRules /\ Ordered BY DEF IInv
<1>2. MaxRules \in Nat BY SimplifyAssumption
<1>3. \A r \in Rules : r \in SafeRule /\ r # NULL
  BY RulesAreSafe, TreeIs, NullIs DEF SafeRule
<1>4. NULL \in SafeRule BY DEF SafeRule
<1>5. CASE Reject
  <2>1. PICK r \in Rules : /\ Conjoinable(neg, negateRule(r))
                           /\ neg' = combineRule(neg, negateRule(r))
    BY <1>5 DEF Reject
  <2>2. ~ High(neg') /\ count < MaxRules /\ count' = count + 1
        /\ acc' = acc /\ order' = order
    BY <1>5 DEF Reject
  <2>3. negateRule(r) = Not(r) BY <1>3 DEF negateRule
  <2>4. Not(r) \in Tree
    <3>1. Not(r) \in AnyTree /\ Not(r) # NULL
      <4>1. r \in AnyTree BY RulesAreSafe, TreeIs
      <4>2. QED BY <4>1, Built, NullIs
    <3>2. CASE neg = NULL
      <4>1. neg' = Not(r) BY <2>1, <2>3, <3>2 DEF combineRule
      <4>2. QED BY <2>2, <3>1, <4>1, HighIs
    <3>3. CASE neg # NULL
      <4>1. ~ High(And(neg, Not(r))) BY <2>1, <2>3, <3>1, <3>3 DEF Conjoinable
      <4>2. neg \in AnyTree BY <1>1, <3>3, TreeIs DEF SafeRule
      <4>3. And(neg, Not(r)) \in Tree BY <3>1, <4>1, <4>2, Built, HighIs
      <4>4. And(neg, Not(r)).t = "TAND" /\ And(neg, Not(r)).right = Not(r) BY DEF And
      <4>5. QED BY <4>3, <4>4, TreeIs, OperandsAre DEF Binary
    <3>4. QED BY <3>2, <3>3
  <2>5. /\ negateRule(r) \in SafeRule /\ negateRule(r) # NULL
        /\ Abs(negateRule(r)) = Knowledge!negateRule(Abs(r))
    BY <2>4, NegateIs
  <2>6. /\ neg' \in SafeRule
        /\ neg # NULL /\ neg' # NULL => ~ LiteralOperand(neg')
        /\ Abs(neg') = Knowledge!combineRule(Abs(neg), Knowledge!negateRule(Abs(r)))
    BY <1>1, <2>1, <2>2, <2>5, CombineIs
  <2>7. count' \in 0 .. MaxRules BY <1>1, <1>2, <2>2
  <2>8. QED BY <1>1, <2>2, <2>6, <2>7
<1>6. CASE Infer
  <2>1. /\ Conjoinable(acc, neg) /\ acc' = combineRule(acc, neg) /\ ~ High(acc')
        /\ neg' = NULL /\ count' = count /\ order' = order
    BY <1>6 DEF Infer
  <2>2. /\ acc' \in SafeRule
        /\ acc # NULL /\ neg # NULL /\ acc' # NULL => ~ LiteralOperand(acc')
        /\ Abs(acc') = Knowledge!combineRule(Abs(acc), Abs(neg))
    BY <1>1, <2>1, CombineIs
  <2>3. acc # NULL /\ neg = NULL => acc' = acc BY <2>1 DEF combineRule
  <2>4. QED BY <1>1, <1>4, <2>1, <2>2, <2>3
<1>7. CASE Match
  <2>1. PICK r \in Rules : Conjoinable(acc, r) /\ acc' = combineRule(acc, r)
    BY <1>7 DEF Match
  <2>2. ~ High(acc') /\ count < MaxRules /\ count' = count + 1
        /\ neg' = neg /\ order' = order
    BY <1>7 DEF Match
  <2>3. /\ acc' \in SafeRule
        /\ acc # NULL /\ acc' # NULL => ~ LiteralOperand(acc')
        /\ Abs(acc') = Knowledge!combineRule(Abs(acc), Abs(r))
    BY <1>1, <1>3, <2>1, <2>2, CombineIs
  <2>4. count' \in 0 .. MaxRules BY <1>1, <1>2, <2>2
  <2>5. QED BY <1>1, <2>2, <2>3, <2>4
<1>8. QED BY <1>5, <1>6, <1>7 DEF Next

LEMMA StepIInv == IInv /\ [Next]_vars => IInv'
<1> SUFFICES ASSUME IInv, [Next]_vars PROVE IInv' OBVIOUS
<1>1. CASE UNCHANGED vars BY <1>1 DEF vars, IInv, Ordered
<1>2. CASE Next
  <2>1. acc' \in SafeRule /\ neg' \in SafeRule /\ count' \in 0 .. MaxRules /\ order' = order
    BY <1>2, StepIs
  <2>2. Ordered' BY <2>1 DEF IInv, Ordered
  <2>3. QED BY <2>1, <2>2 DEF IInv
<1>3. QED BY <1>1, <1>2

LEMMA AlwaysIInv == Spec => []IInv
BY InitIInv, StepIInv, PTL DEF Spec

(* Whatever rules are combined, in whatever order atoms are iterated, what *)
(* combineRule() leaves is no rule or a complete tree, and no bound that is*)
(* missing is written out as a literal.                                    *)
THEOREM SimplifierTypeCorrect == Spec => []TypeOK
<1>1. IInv => TypeOK
  <2>1. \A r \in SafeRule :
          r \in Trees((LLONG_MIN + 1) .. (LLONG_MAX - 1), MaxHeight) \cup {NULL}
    BY SafeByHeight DEF SafeRule
  <2>2. QED BY <2>1 DEF IInv, TypeOK
<1>2. QED BY <1>1, AlwaysIInv, PTL

(* Whatever simplifyRule() returns has no literal for an operand of an AND *)
(* or OR, at any depth.                                                    *)
THEOREM LiteralsAreFolded == Spec => NoLiteralInside
<1>1. IInv /\ [Next]_vars =>
        [/\ neg # NULL /\ neg' \notin {NULL, neg} => ~ LiteralOperand(neg')
         /\ acc # NULL /\ acc' \notin {NULL, acc} => ~ LiteralOperand(acc')]_vars
  BY StepIs
<1>2. QED BY <1>1, AlwaysIInv, PTL DEF Spec, NoLiteralInside

(* The simplifier on trees implements the algebra of sets of hands on      *)
(* which the auction's theorems rest.                                      *)
THEOREM SimplifierIsTheAlgebra == Spec => ImplementsAlgebra
<1>1. Init => Knowledge!Init BY NullIs DEF Init, Knowledge!Init, AbsNeg, AbsAcc
<1>2. IInv /\ [Next]_vars => [Knowledge!Next]_<<AbsNeg, AbsAcc>>
  <2> SUFFICES ASSUME IInv, [Next]_vars PROVE [Knowledge!Next]_<<AbsNeg, AbsAcc>> OBVIOUS
  <2>1. CASE UNCHANGED vars BY <2>1 DEF vars, AbsNeg, AbsAcc, Abs
  <2>2. CASE Next
    <3>1. \A r \in Rules : Abs(r) \in AbsRules BY DEF AbsRules
    <3>2. AbsNeg = Abs(neg) /\ AbsAcc = Abs(acc) /\ AbsNeg' = Abs(neg') /\ AbsAcc' = Abs(acc')
      BY DEF AbsNeg, AbsAcc
    <3>3. CASE /\ \E r \in Rules : Abs(neg') = Knowledge!combineRule(Abs(neg), Knowledge!negateRule(Abs(r)))
               /\ acc' = acc
      <4>1. AbsAcc' = AbsAcc BY <3>2, <3>3
      <4>2. \E R \in AbsRules : AbsNeg' = Knowledge!combineRule(AbsNeg, Knowledge!negateRule(R))
        BY <3>1, <3>2, <3>3
      <4>3. Knowledge!Reject BY <4>1, <4>2 DEF Knowledge!Reject
      <4>4. QED BY <4>3 DEF Knowledge!Next
    <3>4. CASE /\ Abs(acc') = Knowledge!combineRule(Abs(acc), Abs(neg))
               /\ neg' = NULL
      <4>1. AbsNeg' = NULL BY <3>2, <3>4, NullIs
      <4>2. AbsAcc' = Knowledge!combineRule(AbsAcc, AbsNeg) BY <3>2, <3>4
      <4>3. Knowledge!Infer BY <4>1, <4>2 DEF Knowledge!Infer
      <4>4. QED BY <4>3 DEF Knowledge!Next
    <3>5. CASE /\ \E r \in Rules : Abs(acc') = Knowledge!combineRule(Abs(acc), Abs(r))
               /\ neg' = neg
      <4>1. AbsNeg' = AbsNeg BY <3>2, <3>5
      <4>2. \E R \in AbsRules : AbsAcc' = Knowledge!combineRule(AbsAcc, R) BY <3>1, <3>2, <3>5
      <4>3. Knowledge!Match BY <4>1, <4>2 DEF Knowledge!Match
      <4>4. QED BY <4>3 DEF Knowledge!Next
    <3>6. QED BY <2>2, <3>3, <3>4, <3>5, StepIs
  <2>3. QED BY <2>1, <2>2
<1>3. QED BY <1>1, <1>2, AlwaysIInv, PTL DEF Spec, ImplementsAlgebra, Knowledge!Spec
=============================================================================
