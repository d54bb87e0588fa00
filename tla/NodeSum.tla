------------------------------ MODULE NodeSum -------------------------------
(***************************************************************************)
(* Sums over the nodes, which the proofs about counting need, and the      *)
(* facts about them.  Nothing here models code.                            *)
(***************************************************************************)
EXTENDS Tree, WellFoundedInduction, TLAPS

\* PartialSum(f)[k] adds f[0] .. f[k-1].
PartialSum(f) ==
  LET part[k \in 0 .. NumNodes] == IF k = 0 THEN 0 ELSE part[k - 1] + f[k - 1]
  IN part

NodeSum(f) == PartialSum(f)[NumNodes]

-----------------------------------------------------------------------------
\* A non-empty set of naturals has a least element.
LEMMA LeastNat ==
  ASSUME NEW T \in SUBSET Nat, T # {}
  PROVE  \E x \in T : \A y \in T : x <= y
<1>1. \E x \in T : \A y \in T : ~(<<y, x>> \in OpToRel(<, Nat))
  BY Zenon, NatLessThanWellFounded, WFMin
<1>2. PICK x \in T : \A y \in T : ~(<<y, x>> \in OpToRel(<, Nat))
  BY Zenon, <1>1
<1>3. \A y \in T : <<y, x>> \in Nat \X Nat
  BY Zenon
<1>4. ASSUME NEW y \in T, y < x PROVE FALSE
  <2>1. <<y, x>>[1] < <<y, x>>[2]
    BY Zenon, <1>4
  <2>2. <<y, x>> \in {ss \in Nat \X Nat : ss[1] < ss[2]}
    BY Zenon, <2>1, <1>3
  <2>3. {ss \in Nat \X Nat : ss[1] < ss[2]} = OpToRel(<, Nat)
    BY Zenon DEF OpToRel
  <2> QED BY Zenon, <2>2, <2>3, <1>2
<1>5. \A y \in T : x <= y
  BY <1>4
<1> QED BY Zenon, <1>5

\* The recursive definition of PartialSum defines a function.
LEMMA PartialSumDef ==
  ASSUME NEW f
  PROVE  PartialSum(f) =
           [k \in 0 .. NumNodes |-> IF k = 0 THEN 0 ELSE PartialSum(f)[k - 1] + f[k - 1]]
<1> DEFINE Is(g, m) == g = [k \in 0 .. m |-> IF k = 0 THEN 0 ELSE g[k - 1] + f[k - 1]]
           T == {m \in Nat : ~ \E g : Is(g, m)}
<1>1. T = {}
  <2> SUFFICES ASSUME T # {} PROVE FALSE
    BY Zenon
  <2>1. PICK m \in T : \A y \in T : m <= y
    BY Zenon, LeastNat
  <2>2. m # 0
    <3> DEFINE g == [k \in 0 .. 0 |-> 0]
    <3>1. Is(g, 0)
      OBVIOUS
    <3> QED BY Zenon, <3>1
  <2>3. PICK g : Is(g, m - 1)
    BY <2>1, <2>2
  <2> DEFINE h == [k \in 0 .. m |-> IF k = m THEN g[m - 1] + f[m - 1] ELSE g[k]]
  <2>4. Is(h, m)
    <3>1. ASSUME NEW k \in 0 .. m
          PROVE  h[k] = IF k = 0 THEN 0 ELSE h[k - 1] + f[k - 1]
      BY <2>2, <2>3, <2>1
    <3> QED BY Zenon, <3>1
  <2> QED BY Zenon, <2>1, <2>4
<1>2. \E g : Is(g, NumNodes)
  BY Zenon, <1>1, NumNodesAssumption
<1> QED BY Zenon, <1>2 DEF PartialSum

\* Where the summands are integers so are the partial sums.
LEMMA PartialSumStep ==
  ASSUME NEW f \in [Node -> Int]
  PROVE  /\ PartialSum(f)[0] = 0
         /\ \A k \in 0 .. NumNodes : PartialSum(f)[k] \in Int
         /\ \A k \in Node : PartialSum(f)[k + 1] = PartialSum(f)[k] + f[k]
<1>1. PartialSum(f)[0] = 0
  BY PartialSumDef, NumNodesAssumption
<1>2. \A k \in Node : PartialSum(f)[k + 1] = PartialSum(f)[k] + f[k]
  <2> TAKE k \in Node
  <2>1. k + 1 \in 0 .. NumNodes /\ k + 1 # 0 /\ (k + 1) - 1 = k
    BY NumNodesAssumption DEF Node
  <2> QED BY ZenonT(30), <2>1, PartialSumDef
<1> DEFINE T == {k \in 0 .. NumNodes : PartialSum(f)[k] \notin Int}
<1>3. T = {}
  <2> SUFFICES ASSUME T # {} PROVE FALSE
    BY Zenon
  <2>0. T \in SUBSET Nat
    BY NumNodesAssumption
  <2>1. PICK m \in T : \A y \in T : m <= y
    BY Zenon, <2>0, LeastNat
  <2>2. m # 0
    BY <1>1
  <2>3. m - 1 \in Node /\ (m - 1) + 1 = m /\ m - 1 \in 0 .. NumNodes
    BY <2>2, NumNodesAssumption DEF Node
  <2>4. PartialSum(f)[m - 1] \in Int
    BY <2>1, <2>3
  <2>5. PartialSum(f)[m] = PartialSum(f)[m - 1] + f[m - 1]
    BY Zenon, <1>2, <2>3
  <2> QED BY <2>3, <2>4, <2>5
<1> QED BY Zenon, <1>1, <1>2, <1>3

\* A sum of integers is an integer.
LEMMA NodeSumInt ==
  ASSUME NEW f \in [Node -> Int]
  PROVE  NodeSum(f) \in Int
BY PartialSumStep, NumNodesAssumption DEF NodeSum

\* Sums add up point by point.
LEMMA NodeSumAdd ==
  ASSUME NEW f \in [Node -> Int], NEW g \in [Node -> Int], NEW h \in [Node -> Int],
         \A n \in Node : h[n] = f[n] + g[n]
  PROVE  NodeSum(h) = NodeSum(f) + NodeSum(g)
<1> DEFINE T == {k \in 0 .. NumNodes :
                   PartialSum(h)[k] # PartialSum(f)[k] + PartialSum(g)[k]}
<1>1. T = {}
  <2> SUFFICES ASSUME T # {} PROVE FALSE
    BY Zenon
  <2>0. T \in SUBSET Nat
    BY NumNodesAssumption
  <2>1. PICK m \in T : \A y \in T : m <= y
    BY Zenon, <2>0, LeastNat
  <2>2. m # 0
    BY PartialSumStep
  <2>3. m - 1 \in Node /\ (m - 1) + 1 = m /\ m - 1 \in 0 .. NumNodes
    BY <2>2, NumNodesAssumption DEF Node
  <2>4. PartialSum(h)[m - 1] = PartialSum(f)[m - 1] + PartialSum(g)[m - 1]
    BY <2>1, <2>3
  <2>5. /\ PartialSum(f)[m] = PartialSum(f)[m - 1] + f[m - 1]
        /\ PartialSum(g)[m] = PartialSum(g)[m - 1] + g[m - 1]
        /\ PartialSum(h)[m] = PartialSum(h)[m - 1] + h[m - 1]
        /\ PartialSum(f)[m - 1] \in Int
        /\ PartialSum(g)[m - 1] \in Int
    BY PartialSumStep, <2>3
  <2> QED BY <2>3, <2>4, <2>5
<1> QED BY <1>1, NumNodesAssumption DEF NodeSum

\* A sum of naturals is a natural, at least as large as each summand.
LEMMA NodeSumNat ==
  ASSUME NEW f \in [Node -> Int], \A n \in Node : f[n] >= 0
  PROVE  NodeSum(f) >= 0 /\ \A n \in Node : NodeSum(f) >= f[n]
<1> DEFINE B(k) == PartialSum(f)[k] >= 0 /\ \A n \in Node : n < k => PartialSum(f)[k] >= f[n]
           T == {k \in 0 .. NumNodes : ~B(k)}
<1>1. T = {}
  <2> SUFFICES ASSUME T # {} PROVE FALSE
    BY Zenon
  <2>0. T \in SUBSET Nat
    BY NumNodesAssumption
  <2>1. PICK m \in T : \A y \in T : m <= y
    BY Zenon, <2>0, LeastNat
  <2>2. m # 0
    BY PartialSumStep DEF Node
  <2>3. m - 1 \in Node /\ (m - 1) + 1 = m /\ m - 1 \in 0 .. NumNodes
    BY <2>2, NumNodesAssumption DEF Node
  <2>4. B(m - 1)
    BY <2>1, <2>3
  <2>5. /\ PartialSum(f)[m] = PartialSum(f)[m - 1] + f[m - 1]
        /\ PartialSum(f)[m - 1] \in Int
    BY Zenon, PartialSumStep, <2>3
  <2>6. ASSUME NEW n \in Node, n < m PROVE PartialSum(f)[m] >= f[n]
    <3>1. CASE n = m - 1
      BY <3>1, <2>3, <2>4, <2>5
    <3>2. CASE n < m - 1
      BY <3>2, <2>3, <2>4, <2>5
    <3> QED BY <3>1, <3>2, <2>6, <2>3 DEF Node
  <2> QED BY <2>3, <2>4, <2>5, <2>6
<1>2. B(NumNodes)
  BY <1>1, NumNodesAssumption
<1> QED BY <1>2, NumNodesAssumption DEF NodeSum, Node

\* Adding d to one summand adds d to the sum.
LEMMA NodeSumUpdate ==
  ASSUME NEW f \in [Node -> Int], NEW g \in [Node -> Int], NEW n \in Node,
         \A m \in Node \ {n} : g[m] = f[m]
  PROVE  NodeSum(g) = NodeSum(f) + g[n] - f[n]
<1> DEFINE T == {k \in 0 .. NumNodes :
                   PartialSum(g)[k] # PartialSum(f)[k] + (IF n < k THEN g[n] - f[n] ELSE 0)}
<1>1. T = {}
  <2> SUFFICES ASSUME T # {} PROVE FALSE
    BY Zenon
  <2>0. T \in SUBSET Nat
    BY NumNodesAssumption
  <2>1. PICK m \in T : \A y \in T : m <= y
    BY Zenon, <2>0, LeastNat
  <2>2. m # 0
    <3>1. PartialSum(g)[0] = 0 /\ PartialSum(f)[0] = 0
      BY Zenon, PartialSumStep
    <3>2. ~(n < 0)
      BY NumNodesAssumption DEF Node
    <3> QED BY <3>1, <3>2
  <2>3. m - 1 \in Node /\ (m - 1) + 1 = m /\ m - 1 \in 0 .. NumNodes
    BY <2>2, NumNodesAssumption DEF Node
  <2>4. PartialSum(g)[m - 1] = PartialSum(f)[m - 1] + (IF n < m - 1 THEN g[n] - f[n] ELSE 0)
    BY <2>1, <2>3
  <2>5. /\ PartialSum(f)[m] = PartialSum(f)[m - 1] + f[m - 1]
        /\ PartialSum(g)[m] = PartialSum(g)[m - 1] + g[m - 1]
        /\ PartialSum(f)[m - 1] \in Int
    BY Zenon, PartialSumStep, <2>3
  <2>6. n \in Int /\ m \in Int
    BY NumNodesAssumption DEF Node
  <2>7. f[n] \in Int /\ g[n] \in Int
    BY Zenon
  <2>8. CASE n = m - 1
    BY <2>8, <2>3, <2>4, <2>5, <2>6, <2>7
  <2>9. CASE n # m - 1
    <3>1. g[m - 1] = f[m - 1] /\ f[m - 1] \in Int
      BY Zenon, <2>9, <2>3
    <3>2. (n < m - 1) <=> (n < m)
      BY <2>9, <2>6
    <3> QED BY <3>1, <3>2, <2>4, <2>5, <2>6, <2>7
  <2> QED BY Zenon, <2>8, <2>9
<1>2. n < NumNodes
  BY NumNodesAssumption DEF Node
<1> QED BY <1>1, <1>2, NumNodesAssumption, PartialSumStep DEF NodeSum

\* The sum of a function that is zero everywhere is zero.
LEMMA NodeSumZero ==
  ASSUME NEW f \in [Node -> Int], \A n \in Node : f[n] = 0
  PROVE  NodeSum(f) = 0
<1>1. NodeSum(f) = NodeSum(f) + NodeSum(f)
  BY NodeSumAdd
<1>2. NodeSum(f) \in Int
  BY Zenon, NodeSumInt
<1>3. \A x \in Int : x = x + x => x = 0
  OBVIOUS
<1> QED BY Zenon, <1>1, <1>2, <1>3
=============================================================================
