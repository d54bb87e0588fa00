------------------------- MODULE EpochWindowProofs -------------------------
(***************************************************************************)
(* For any range of sequence numbers, nodes and numbers of epochs:         *)
(*   - insert and erase keep an interval set exact: intervals that do not  *)
(*     touch, their bounds and the count (what IntegralSetBase promises);  *)
(*   - a window holds exactly the epochs that are not live, and all nodes  *)
(*     give the k-th collective epoch the same identifier (EpochWindow);   *)
(*   - a node that adds its first action to a rooted epoch once the epoch  *)
(*     is set up is told the truth, until an assertion fails (EpochStatus).*)
(*                                                                         *)
(* That nodes agree needs no message: each takes its epochs in turn, and   *)
(* waits at one that is live rather than skip it (InTurn).                 *)
(***************************************************************************)
EXTENDS EpochWindow, EpochStatus, FiniteSetTheorems, WellFoundedInduction, TLAPS

-----------------------------------------------------------------------------
(***************************************************************************)
(* The interval sets.                                                      *)
(***************************************************************************)
IsInterval(i) == i \in [lower : Int, upper : Int] /\ i.lower <= i.upper

Apart(i, j) == i.upper + 1 < j.lower \/ j.upper + 1 < i.lower

Members(T) == UNION {j.lower .. j.upper : j \in T}

\* Intervals in a set as InsertSet and Erase keep them.
Separate(T) ==
  /\ \A j \in T : IsInterval(j)
  /\ \A i, j \in T : i # j => Apart(i, j)

SetType == [set : SUBSET [lower : Int, upper : Int], lb : Int, ub : Int,
            hint : [lower : Int, upper : Int], elms : Int]

\* The intervals, with bounds that lie around the elements and a count that is
\* not too low.  This is so also when an element that is there is inserted again.
Holds(s, S) ==
  /\ s \in SetType
  /\ Separate(s.set)
  /\ S = Members(s.set)
  /\ \A x \in S : s.lb <= x /\ x <= s.ub
  /\ IsFiniteSet(S) /\ s.elms >= Cardinality(S)
  /\ s.hint \in s.set \cup {NoInterval}

\* A set of naturals that is not empty has a least element.
LEMMA Least ==
  ASSUME NEW T \in SUBSET Nat, T # {}
  PROVE  \E x \in T : \A y \in T : x <= y
<1>1. PICK x \in T : \A y \in T : ~ (<<y, x>> \in OpToRel(<, Nat))
  BY Zenon, NatLessThanWellFounded, WFMin
<1>2. ASSUME NEW y \in T, y < x PROVE FALSE
  <2>1. <<y, x>> \in {p \in Nat \X Nat : p[1] < p[2]}
    BY Zenon, <1>2
  <2>2. {p \in Nat \X Nat : p[1] < p[2]} = OpToRel(<, Nat)
    BY Zenon DEF OpToRel
  <2> QED BY Zenon, <1>1, <2>1, <2>2
<1> QED BY <1>2

\* There is a lowest and a highest interval.
LEMMA Lowest ==
  ASSUME NEW T \in SUBSET [lower : Int, upper : Int], T # {},
         NEW b \in Int, \A j \in T : b <= j.lower
  PROVE  \E j \in T : \A k \in T : j.lower <= k.lower
<1> DEFINE D == {j.lower - b : j \in T}
<1>1. D \in SUBSET Nat /\ D # {}
  OBVIOUS
<1>2. PICK x \in D : \A y \in D : x <= y
  BY Zenon, <1>1, Least
<1>3. PICK j \in T : x = j.lower - b
  BY Zenon
<1>4. ASSUME NEW k \in T PROVE j.lower <= k.lower
  <2>1. k.lower - b \in D
    BY Zenon
  <2> QED BY <1>2, <1>3, <2>1
<1> QED BY Zenon, <1>4

LEMMA Highest ==
  ASSUME NEW T \in SUBSET [lower : Int, upper : Int], T # {},
         NEW b \in Int, \A j \in T : j.upper <= b
  PROVE  \E j \in T : \A k \in T : j.upper >= k.upper
<1> DEFINE D == {b - j.upper : j \in T}
<1>1. D \in SUBSET Nat /\ D # {}
  OBVIOUS
<1>2. PICK x \in D : \A y \in D : x <= y
  BY Zenon, <1>1, Least
<1>3. PICK j \in T : x = b - j.upper
  BY Zenon
<1>4. ASSUME NEW k \in T PROVE j.upper >= k.upper
  <2>1. b - k.upper \in D
    BY Zenon
  <2> QED BY <1>2, <1>3, <2>1
<1> QED BY Zenon, <1>4

LEMMA MembersIs ==
  ASSUME NEW T, Separate(T)
  PROVE  /\ Members(T) \subseteq Int
         /\ \A x \in Int : x \in Members(T) <=> \E j \in T : j.lower <= x /\ x <= j.upper
BY DEF Members, Separate, IsInterval

\* Found is empty exactly for what is not an element.
LEMMA FoundIs ==
  ASSUME NEW s, Separate(s.set), NEW v \in Int
  PROVE  /\ Found(s, Interval(v, v)) = {j \in s.set : j.lower <= v /\ v <= j.upper}
         /\ Found(s, Interval(v, v)) # {} <=> v \in Members(s.set)
BY Zenon, MembersIs DEF Found, Intersects, Interval, Separate, IsInterval

\* contains tells what is in the set.
LEMMA ContainsIs ==
  ASSUME NEW s, NEW S, Holds(s, S), NEW v \in Int
  PROVE  Contains(s, v) <=> v \in S
BY Zenon, FoundIs DEF Contains, Holds

\* The assertion of insertSet holds for what is not an element: no interval meets
\* it, least of all the one the hint points at.
LEMMA NewIsValid ==
  ASSUME NEW s, NEW S, Holds(s, S), NEW v \in Int \ S
  PROVE  ~ InsertFails(s, Interval(v, v))
BY Zenon, FoundIs DEF InsertFails, Holds

\* A new interval i is joined with the one that ends before it and the one that
\* begins after it, to reach from a to b.
Before(T, i) == {j \in T : i.lower = j.upper + 1}
After(T, i) == {j \in T : i.upper = j.lower - 1}

Clear(T, i) == \A j \in T : ~ Intersects(i, j)

Reach(T, i, a, b) ==
  /\ IF Before(T, i) = {} THEN a = i.lower ELSE \E j \in Before(T, i) : a = j.lower
  /\ IF After(T, i) = {} THEN b = i.upper ELSE \E j \in After(T, i) : b = j.upper

Join(T, i, a, b) ==
  (T \ (Before(T, i) \cup After(T, i))) \cup {[lower |-> a, upper |-> b]}

LEMMA JoinSeparate ==
  ASSUME NEW T, Separate(T), NEW i, IsInterval(i), Clear(T, i),
         NEW a, NEW b, Reach(T, i, a, b)
  PROVE  /\ Separate(Join(T, i, a, b))
         /\ Members(Join(T, i, a, b)) = Members(T) \cup (i.lower .. i.upper)
<1> DEFINE left == Before(T, i)
           right == After(T, i)
           U == Join(T, i, a, b)
           new == [lower |-> a, upper |-> b]
<1>1. \A j \in T : /\ j.lower \in Int /\ j.upper \in Int /\ j.lower <= j.upper
                   /\ (j.upper < i.lower \/ i.upper < j.lower)
  BY DEF Separate, IsInterval, Intersects, Clear
<1>2. i.lower \in Int /\ i.upper \in Int /\ i.lower <= i.upper
  BY Zenon DEF IsInterval
<1>3. \A j, k \in T : j # k => Apart(j, k)
  BY Zenon DEF Separate
<1>4. \A j, k \in left : j = k
  BY <1>1, <1>3 DEF Apart, Before
<1>5. \A j, k \in right : j = k
  BY <1>1, <1>2, <1>3 DEF Apart, After
<1>6. /\ left = {} => a = i.lower
      /\ \A j \in left : a = j.lower
  BY Zenon, <1>4 DEF Reach
<1>7. /\ right = {} => b = i.upper
      /\ \A j \in right : b = j.upper
  BY Zenon, <1>5 DEF Reach
<1>0. /\ left = {j \in T : i.lower = j.upper + 1}
      /\ right = {j \in T : i.upper = j.lower - 1}
      /\ U = (T \ (left \cup right)) \cup {new}
  BY Zenon DEF Before, After, Join
<1> HIDE DEF new, left, right, U
<1>8. new.lower = a /\ new.upper = b /\ new \in [lower : Int, upper : Int]
      /\ a <= i.lower /\ i.upper <= b
  BY <1>0, <1>1, <1>2, <1>6, <1>7 DEF new
<1>9. ASSUME NEW j \in T \ (left \cup right) PROVE Apart(j, new)
  <2>1. CASE j.upper < i.lower
    <3>1. j.upper + 1 < i.lower
      BY <1>0, <1>1, <1>2, <2>1
    <3>2. CASE left = {}
      BY Zenon, <1>6, <1>8, <3>1, <3>2 DEF Apart
    <3>3. ASSUME NEW k \in left PROVE Apart(j, new)
      <4>1. k \in T /\ k # j /\ Apart(j, k) /\ a = k.lower /\ k.upper + 1 = i.lower
        BY Zenon, <1>0, <1>3, <1>6, <3>3
      <4> QED BY <1>1, <1>2, <1>8, <3>1, <4>1 DEF Apart
    <3> QED BY Zenon, <3>2, <3>3
  <2>2. CASE i.upper < j.lower
    <3>1. i.upper + 1 < j.lower
      BY <1>0, <1>1, <1>2, <2>2
    <3>2. CASE right = {}
      BY Zenon, <1>7, <1>8, <3>1, <3>2 DEF Apart
    <3>3. ASSUME NEW k \in right PROVE Apart(j, new)
      <4>1. k \in T /\ k # j /\ Apart(j, k) /\ b = k.upper /\ i.upper = k.lower - 1
        BY Zenon, <1>0, <1>3, <1>7, <3>3
      <4> QED BY <1>1, <1>2, <1>8, <3>1, <4>1 DEF Apart
    <3> QED BY Zenon, <3>2, <3>3
  <2> QED BY Zenon, <1>1, <2>1, <2>2
<1>10. U = (T \ (left \cup right)) \cup {new}
  BY Zenon, <1>0
<1>11. Separate(U)
  <2>1. \A j \in U : IsInterval(j)
    BY <1>2, <1>8, <1>10 DEF Separate, IsInterval
  <2>2. \A j, k : Apart(j, k) <=> Apart(k, j)
    BY Zenon DEF Apart
  <2> QED BY <1>3, <1>9, <1>10, <2>1, <2>2 DEF Separate
<1>12. ASSUME NEW x \in Int
       PROVE  x \in Members(U) <=> x \in Members(T) \/ x \in i.lower .. i.upper
  <2>1. x \in Members(U) => x \in Members(T) \/ x \in i.lower .. i.upper
    <3> SUFFICES ASSUME x \in Members(U) PROVE x \in Members(T) \/ x \in i.lower .. i.upper
      BY Zenon
    <3>1. PICK j \in U : j.lower <= x /\ x <= j.upper
      BY Zenon, <1>11, MembersIs
    <3>2. CASE j \in T
      BY Zenon, <3>1, <3>2, MembersIs
    <3>3. CASE j = new
      <4>1. CASE x < i.lower
        <5>0. a # i.lower
          BY <1>2, <1>8, <3>1, <3>3, <4>1
        <5>1. PICK k \in left : a = k.lower
          BY Zenon, <1>6, <5>0
        <5>2. k \in T /\ k.lower <= x /\ x <= k.upper
          BY <1>0, <1>1, <1>2, <1>8, <3>1, <3>3, <4>1, <5>1
        <5> QED BY Zenon, <5>2, MembersIs
      <4>2. CASE x > i.upper
        <5>0. b # i.upper
          BY <1>2, <1>8, <3>1, <3>3, <4>2
        <5>1. PICK k \in right : b = k.upper
          BY Zenon, <1>7, <5>0
        <5>2. k \in T /\ k.lower <= x /\ x <= k.upper
          BY <1>0, <1>1, <1>2, <1>8, <3>1, <3>3, <4>2, <5>1
        <5> QED BY Zenon, <5>2, MembersIs
      <4> QED BY <1>2, <4>1, <4>2
    <3> QED BY Zenon, <1>10, <3>2, <3>3
  <2>2. x \in i.lower .. i.upper => x \in Members(U)
    <3>1. x \in i.lower .. i.upper => new.lower <= x /\ x <= new.upper
      BY <1>2, <1>8
    <3> QED BY Zenon, <1>10, <1>11, <3>1, MembersIs
  <2>3. x \in Members(T) => x \in Members(U)
    <3> SUFFICES ASSUME x \in Members(T) PROVE x \in Members(U)
      BY Zenon
    <3>1. PICK j \in T : j.lower <= x /\ x <= j.upper
      BY Zenon, MembersIs
    <3>2. CASE j \in left
      <4>1. new.lower <= x /\ x <= new.upper
        BY <1>0, <1>1, <1>2, <1>6, <1>8, <3>1, <3>2
      <4> QED BY Zenon, <1>10, <1>11, <4>1, MembersIs
    <3>3. CASE j \in right
      <4>1. new.lower <= x /\ x <= new.upper
        BY <1>0, <1>1, <1>2, <1>7, <1>8, <3>1, <3>3
      <4> QED BY Zenon, <1>10, <1>11, <4>1, MembersIs
    <3>4. CASE j \in U
      BY Zenon, <1>11, <3>1, <3>4, MembersIs
    <3> QED BY Zenon, <1>10, <3>2, <3>3, <3>4
  <2> QED BY Zenon, <2>1, <2>2, <2>3
<1>13. Members(T) \subseteq Int /\ Members(U) \subseteq Int
  BY Zenon, <1>11, MembersIs
<1>14. i.lower .. i.upper \subseteq Int
  BY <1>2
<1> QED BY Zenon, <1>11, <1>12, <1>13, <1>14 DEF U

LEMMA InsertSetNew ==
  ASSUME NEW s \in SetType, Separate(s.set), NEW i, IsInterval(i), Found(s, i) = {}
  PROVE  LET r == InsertSet(s, i)
         IN /\ r \in SetType /\ Separate(r.set)
            /\ Members(r.set) = Members(s.set) \cup (i.lower .. i.upper)
            /\ r.lb = s.lb /\ r.ub = s.ub /\ r.elms = s.elms /\ r.hint \in r.set
<1> DEFINE left == Before(s.set, i)
           right == After(s.set, i)
           a == IF left = {} THEN i.lower ELSE (CHOOSE j \in left : TRUE).lower
           b == IF right = {} THEN i.upper ELSE (CHOOSE j \in right : TRUE).upper
           new == [lower |-> a, upper |-> b]
           U == Join(s.set, i, a, b)
           r == InsertSet(s, i)
<1>1. r = [s EXCEPT !.set = U, !.hint = new]
  BY Zenon DEF InsertSet, Join, Before, After
<1>2. Clear(s.set, i) /\ Reach(s.set, i, a, b)
  BY Zenon DEF Found, Clear, Reach
<1> HIDE DEF left, right, a, b, r
<1>3. Separate(U) /\ Members(U) = Members(s.set) \cup (i.lower .. i.upper)
  BY Zenon, <1>2, JoinSeparate
<1>4. new \in U /\ U \in SUBSET [lower : Int, upper : Int]
  BY Zenon, <1>3 DEF Separate, IsInterval, Join
<1> HIDE DEF new, U
<1>5. r \in SetType /\ r.set = U /\ r.hint = new /\ r.lb = s.lb /\ r.ub = s.ub /\ r.elms = s.elms
  BY Zenon, <1>1, <1>4 DEF SetType
<1> QED BY Zenon, <1>3, <1>4, <1>5 DEF r

\* insertGlobal keeps the bounds around the elements.
LEMMA InsertGlobalIs ==
  ASSUME NEW s \in SetType, NEW i, IsInterval(i)
  PROVE  LET r == InsertGlobal(s, i)
         IN /\ r \in SetType /\ r.set = s.set /\ r.hint = s.hint
            /\ r.elms = s.elms + i.upper - i.lower + 1
            /\ r.lb = IF s.elms = 0 \/ i.lower < s.lb THEN i.lower ELSE s.lb
            /\ r.ub = IF s.elms = 0 \/ i.upper > s.ub THEN i.upper ELSE s.ub
<1> DEFINE r == InsertGlobal(s, i)
           lb == IF s.elms = 0 \/ i.lower < s.lb THEN i.lower ELSE s.lb
           ub == IF s.elms = 0 \/ i.upper > s.ub THEN i.upper ELSE s.ub
           w == i.upper - i.lower + 1
<1>1. lb \in Int /\ ub \in Int /\ w \in Int /\ s.elms + w = s.elms + i.upper - i.lower + 1
  BY DEF SetType, IsInterval
<1>2. r = [s EXCEPT !.lb = lb, !.ub = ub, !.elms = @ + w]
  BY Zenon DEF InsertGlobal, Width
<1> HIDE DEF lb, ub, w, r
<1>3. /\ r \in SetType /\ r.set = s.set /\ r.hint = s.hint /\ r.elms = s.elms + w
      /\ r.lb = lb /\ r.ub = ub
  <2>1. s.elms \in Int /\ s.elms + w \in Int
    BY <1>1 DEF SetType
  <2>2. r = [set |-> s.set, lb |-> lb, ub |-> ub, hint |-> s.hint, elms |-> s.elms + w]
    BY Zenon, <1>2 DEF SetType
  <2> QED BY Zenon, <1>1, <2>1, <2>2 DEF SetType
<1> QED BY Zenon, <1>1, <1>3 DEF lb, ub, r

\* insert adds the element; one that is there may be inserted again.
LEMMA InsertHolds ==
  ASSUME NEW s, NEW S, Holds(s, S), NEW v \in Int
  PROVE  LET r == Insert(s, v)
         IN /\ Holds(r, S \cup {v}) /\ r.elms = s.elms + 1
            /\ v \notin S => /\ r.lb = IF s.elms = 0 \/ v < s.lb THEN v ELSE s.lb
                             /\ r.ub = IF s.elms = 0 \/ v > s.ub THEN v ELSE s.ub
<1> DEFINE i == Interval(v, v)
           g == InsertGlobal(s, i)
           r == InsertSet(g, i)
<1>1. IsInterval(i) /\ i.lower = v /\ i.upper = v /\ v .. v = {v}
  BY DEF IsInterval, Interval
<1>2. s \in SetType /\ Separate(s.set) /\ S = Members(s.set) /\ S \subseteq Int
  BY Zenon, MembersIs DEF Holds
<1>3. Insert(s, v) = r
  BY Zenon DEF Insert, InsertInterval
<1>4. /\ g \in SetType /\ g.set = s.set /\ g.hint = s.hint /\ g.elms = s.elms + 1
      /\ g.lb = IF s.elms = 0 \/ v < s.lb THEN v ELSE s.lb
      /\ g.ub = IF s.elms = 0 \/ v > s.ub THEN v ELSE s.ub
  <2> HIDE DEF i
  <2>1. s.elms \in Int
    BY Zenon, <1>2 DEF SetType
  <2> QED BY <1>1, <1>2, <2>1, InsertGlobalIs
<1>5. \A x \in S \cup {v} : g.lb <= x /\ x <= g.ub
  <2>1. s.lb \in Int /\ s.ub \in Int /\ s.elms \in Int
    BY Zenon, <1>2 DEF SetType
  <2>2. s.elms = 0 => S = {}
    BY <2>1, FS_EmptySet, FS_CardinalityType DEF Holds
  <2> QED BY <1>2, <1>4, <2>1, <2>2 DEF Holds
<1>6. IsFiniteSet(S \cup {v}) /\ g.elms >= Cardinality(S \cup {v})
  <2>1. IsFiniteSet(S) /\ s.elms >= Cardinality(S) /\ s.elms \in Int /\ g.elms = s.elms + 1
    BY Zenon, <1>2, <1>4 DEF Holds, SetType
  <2>2. /\ IsFiniteSet(S \cup {v})
        /\ Cardinality(S \cup {v}) = IF v \in S THEN Cardinality(S) ELSE Cardinality(S) + 1
    BY Zenon, <2>1, FS_AddElement
  <2>3. Cardinality(S) \in Nat
    BY Zenon, <2>1, FS_CardinalityType
  <2> QED BY <2>1, <2>2, <2>3
<1> HIDE DEF g, i
<1>7. CASE Found(g, i) = {}
  <2>1. /\ r \in SetType /\ Separate(r.set) /\ Members(r.set) = S \cup {v}
        /\ r.lb = g.lb /\ r.ub = g.ub /\ r.elms = g.elms /\ r.hint \in r.set
    BY <1>1, <1>2, <1>4, <1>7, InsertSetNew
  <2> QED BY Zenon, <1>3, <1>4, <1>5, <1>6, <2>1 DEF Holds
<1>8. CASE Found(g, i) # {}
  <2> DEFINE j == CHOOSE k \in Found(g, i) : TRUE
  <2>1. j \in g.set /\ r = [g EXCEPT !.hint = j]
    BY Zenon, <1>8 DEF InsertSet, Found
  <2> HIDE DEF j
  <2>2. /\ r \in SetType /\ r.set = s.set /\ r.lb = g.lb /\ r.ub = g.ub /\ r.elms = g.elms
        /\ r.hint \in s.set
    BY Zenon, <1>4, <2>1 DEF SetType
  <2>3. v \in S
    BY Zenon, <1>2, <1>4, <1>8, FoundIs DEF i
  <2>4. S \cup {v} = S
    BY Zenon, <2>3
  <2> QED BY Zenon, <1>2, <1>3, <1>4, <1>5, <1>6, <2>2, <2>3, <2>4 DEF Holds
<1> QED BY Zenon, <1>7, <1>8

\* An interval is cut short, or taken out.
LEMMA ResizeSeparate ==
  ASSUME NEW T, Separate(T), NEW i \in T, NEW j, IsInterval(j),
         i.lower <= j.lower, j.upper <= i.upper
  PROVE  /\ Separate((T \ {i}) \cup {j})
         /\ \A x \in Int : x \in Members((T \ {i}) \cup {j}) <=>
              \/ x \in Members(T) /\ ~ (i.lower <= x /\ x <= i.upper)
              \/ j.lower <= x /\ x <= j.upper
<1> DEFINE U == (T \ {i}) \cup {j}
<1>1. /\ i.lower \in Int /\ i.upper \in Int /\ j.lower \in Int /\ j.upper \in Int
      /\ \A k \in T : k.lower \in Int /\ k.upper \in Int /\ k.lower <= k.upper
  BY Zenon DEF Separate, IsInterval
<1>2. \A k \in T \ {i} : Apart(k, i)
  BY Zenon DEF Separate
<1>3. \A k \in T \ {i} : Apart(k, j) /\ Apart(j, k)
  BY <1>1, <1>2 DEF Apart
<1>4. Separate(U)
  BY Zenon, <1>3 DEF Separate
<1>5. ASSUME NEW x \in Int
      PROVE  x \in Members(U) <=> \/ x \in Members(T) /\ ~ (i.lower <= x /\ x <= i.upper)
                                  \/ j.lower <= x /\ x <= j.upper
  <2>1. x \in Members(U) <=> \E k \in U : k.lower <= x /\ x <= k.upper
    BY Zenon, <1>4, MembersIs
  <2>2. x \in Members(T) <=> \E k \in T : k.lower <= x /\ x <= k.upper
    BY Zenon, MembersIs
  <2>3. \A k \in T \ {i} : k.lower <= x /\ x <= k.upper => ~ (i.lower <= x /\ x <= i.upper)
    BY <1>1, <1>2 DEF Apart
  <2> QED BY Zenon, <2>1, <2>2, <2>3
<1> QED BY Zenon, <1>4, <1>5

LEMMA RemoveSeparate ==
  ASSUME NEW T, Separate(T), NEW i \in T
  PROVE  /\ Separate(T \ {i})
         /\ \A x \in Int : x \in Members(T \ {i}) <=>
              x \in Members(T) /\ ~ (i.lower <= x /\ x <= i.upper)
<1>1. \A k \in T : k.lower \in Int /\ k.upper \in Int /\ k.lower <= k.upper
  BY Zenon DEF Separate, IsInterval
<1>2. \A k \in T \ {i} : Apart(k, i)
  BY Zenon DEF Separate
<1>3. Separate(T \ {i})
  BY Zenon DEF Separate
<1>4. ASSUME NEW x \in Int
      PROVE  x \in Members(T \ {i}) <=> x \in Members(T) /\ ~ (i.lower <= x /\ x <= i.upper)
  <2>1. x \in Members(T \ {i}) <=> \E k \in T \ {i} : k.lower <= x /\ x <= k.upper
    BY Zenon, <1>3, MembersIs
  <2>2. x \in Members(T) <=> \E k \in T : k.lower <= x /\ x <= k.upper
    BY Zenon, MembersIs
  <2>3. \A k \in T \ {i} : k.lower <= x /\ x <= k.upper => ~ (i.lower <= x /\ x <= i.upper)
    BY <1>1, <1>2 DEF Apart
  <2> QED BY Zenon, <2>1, <2>2, <2>3
<1> QED BY Zenon, <1>3, <1>4

\* The same of the structure, whose hint stays on an interval of it.
LEMMA ResizeIs ==
  ASSUME NEW s \in SetType, Separate(s.set), s.hint \in s.set \cup {NoInterval},
         NEW i \in s.set, NEW j, IsInterval(j), i.lower <= j.lower, j.upper <= i.upper
  PROVE  LET r == Resize(s, i, j)
         IN /\ r \in SetType /\ Separate(r.set) /\ r.hint \in r.set \cup {NoInterval}
            /\ r.set = (s.set \ {i}) \cup {j}
            /\ r.lb = s.lb /\ r.ub = s.ub /\ r.elms = s.elms
<1> DEFINE r == Resize(s, i, j)
           U == (s.set \ {i}) \cup {j}
           h == IF s.hint = i THEN j ELSE s.hint
<1>1. Separate(U)
  BY Zenon, ResizeSeparate
<1>2. r = [s EXCEPT !.set = U, !.hint = h]
  BY Zenon DEF Resize
<1>3. h \in U \cup {NoInterval} /\ j \in [lower : Int, upper : Int]
  BY Zenon DEF IsInterval
<1>4. U \in SUBSET [lower : Int, upper : Int] /\ h \in [lower : Int, upper : Int]
  BY Zenon, <1>3 DEF SetType
<1> HIDE DEF U, h, r
<1>5. /\ r \in SetType /\ r.set = U /\ r.hint = h
      /\ r.lb = s.lb /\ r.ub = s.ub /\ r.elms = s.elms
  BY Zenon, <1>2, <1>4 DEF SetType
<1> QED BY Zenon, <1>1, <1>3, <1>5 DEF U, r

LEMMA RemoveIs ==
  ASSUME NEW s \in SetType, Separate(s.set), s.hint \in s.set \cup {NoInterval},
         NEW i \in s.set
  PROVE  LET r == Remove(s, i)
         IN /\ r \in SetType /\ Separate(r.set) /\ r.hint \in r.set \cup {NoInterval}
            /\ r.set = s.set \ {i}
            /\ r.lb = s.lb /\ r.ub = s.ub /\ r.elms = s.elms
<1> DEFINE r == Remove(s, i)
           U == s.set \ {i}
           above == {j \in s.set : j.lower > i.upper}
           succ == IF above = {} THEN NoInterval
                   ELSE CHOOSE j \in above : \A k \in above : j.lower <= k.lower
           h == IF s.hint = i THEN succ ELSE s.hint
<1>1. Separate(U)
  BY Zenon, RemoveSeparate
<1>2. r = [s EXCEPT !.set = U, !.hint = h]
  BY Zenon DEF Remove
<1>3. succ \in U \cup {NoInterval}
  <2>1. CASE above = {}
    BY Zenon, <2>1
  <2>2. CASE above # {}
    <3>1. /\ above \in SUBSET [lower : Int, upper : Int] /\ i.upper \in Int
          /\ \A j \in above : i.upper <= j.lower
      BY DEF SetType
    <3>2. \E j \in above : \A k \in above : j.lower <= k.lower
      <4> HIDE DEF above
      <4> QED BY Zenon, <2>2, <3>1, Lowest
    <3>3. succ \in above
      BY Zenon, <2>2, <3>2
    <3>4. i \notin above
      BY DEF Separate, IsInterval
    <3> QED BY Zenon, <3>3, <3>4
  <2> QED BY Zenon, <2>1, <2>2
<1>4. NoInterval \in [lower : Int, upper : Int]
  BY DEF NoInterval, Interval
<1> HIDE DEF succ
<1>5. /\ h \in U \cup {NoInterval} /\ h \in [lower : Int, upper : Int]
      /\ U \in SUBSET [lower : Int, upper : Int]
  BY Zenon, <1>3, <1>4 DEF SetType
<1> HIDE DEF U, h, r
<1>6. /\ r \in SetType /\ r.set = U /\ r.hint = h
      /\ r.lb = s.lb /\ r.ub = s.ub /\ r.elms = s.elms
  BY Zenon, <1>2, <1>5 DEF SetType
<1> QED BY Zenon, <1>1, <1>5, <1>6 DEF U, r

\* eraseGlobal, once the element is gone from the intervals.
LEMMA EraseGlobalIs ==
  ASSUME NEW s \in SetType, Separate(s.set), NEW v \in Int,
         \A x \in Members(s.set) : s.lb <= x /\ x <= s.ub
  PROVE  LET r == EraseGlobal(s, v)
         IN /\ r \in SetType /\ r.set = s.set /\ r.hint = s.hint /\ r.elms = s.elms - 1
            /\ \A x \in Members(s.set) : r.lb <= x /\ x <= r.ub
            /\ Members(s.set) # {} => /\ r.lb \in Members(s.set) \cup ({s.lb} \ {v})
                                      /\ r.ub \in Members(s.set) \cup ({s.ub} \ {v})
<1> DEFINE T == s.set
           low == CHOOSE j \in T : \A k \in T : j.lower <= k.lower
           high == CHOOSE j \in T : \A k \in T : j.upper >= k.upper
           lb == IF s.lb # v THEN s.lb ELSE IF T = {} THEN 0 ELSE low.lower
           ub == IF s.ub # v THEN s.ub ELSE IF T = {} THEN 0 ELSE high.upper
           r == EraseGlobal(s, v)
<1>1. r = [s EXCEPT !.lb = lb, !.ub = ub, !.elms = @ - 1]
  BY Zenon DEF EraseGlobal
<1>2. /\ T \in SUBSET [lower : Int, upper : Int] /\ s.lb \in Int /\ s.ub \in Int
      /\ s.elms \in Int /\ \A j \in T : IsInterval(j)
  BY Zenon DEF SetType, Separate
<1>3. \A j \in T : j.lower \in Members(T) /\ j.upper \in Members(T)
  BY <1>2 DEF Members, IsInterval
<1>4. \A x \in Members(T) : x \in Int /\ \E j \in T : j.lower <= x /\ x <= j.upper
  BY Zenon, MembersIs
<1>5. \A j \in T : s.lb <= j.lower /\ j.upper <= s.ub
  BY Zenon, <1>3
<1>6. T # {} => low \in T /\ \A k \in T : low.lower <= k.lower
  <2> SUFFICES ASSUME T # {} PROVE \E j \in T : \A k \in T : j.lower <= k.lower
    BY Zenon
  <2> HIDE DEF T
  <2> QED BY Zenon, <1>2, <1>5, Lowest
<1>7. T # {} => high \in T /\ \A k \in T : high.upper >= k.upper
  <2> SUFFICES ASSUME T # {} PROVE \E j \in T : \A k \in T : j.upper >= k.upper
    BY Zenon
  <2> HIDE DEF T
  <2> QED BY Zenon, <1>2, <1>5, Highest
<1> HIDE DEF low, high
<1>8. /\ lb \in Int /\ ub \in Int
      /\ T # {} => lb \in Members(T) \cup ({s.lb} \ {v}) /\ ub \in Members(T) \cup ({s.ub} \ {v})
  BY <1>2, <1>3, <1>6, <1>7
<1>9. \A x \in Members(T) : lb <= x /\ x <= ub
  <2> TAKE x \in Members(T)
  <2>1. PICK j \in T : j.lower <= x /\ x <= j.upper /\ j.lower \in Int /\ j.upper \in Int /\ x \in Int
    BY Zenon, <1>2, <1>4
  <2>2. low.lower <= j.lower /\ j.upper <= high.upper /\ low.lower \in Int /\ high.upper \in Int
    BY Zenon, <1>2, <1>6, <1>7, <2>1
  <2> QED BY <1>2, <2>1, <2>2
<1>10. Members(T) # {} => T # {}
  BY Zenon DEF Members
<1> HIDE DEF T, lb, ub, r
<1>11. /\ r \in SetType /\ r.set = s.set /\ r.hint = s.hint /\ r.elms = s.elms - 1
       /\ r.lb = lb /\ r.ub = ub
  <2>1. r = [set |-> s.set, lb |-> lb, ub |-> ub, hint |-> s.hint, elms |-> s.elms - 1]
    BY Zenon, <1>1 DEF SetType
  <2>2. s.elms - 1 \in Int
    BY <1>2
  <2> QED BY Zenon, <1>8, <2>1, <2>2 DEF SetType
<1> QED BY Zenon, <1>8, <1>9, <1>10, <1>11 DEF r, T

\* erase takes the element out, also from the middle of an interval.
LEMMA EraseHolds ==
  ASSUME NEW s, NEW S, Holds(s, S), NEW v \in S
  PROVE  LET r == Erase(s, v)
         IN /\ Holds(r, S \ {v}) /\ r.elms = s.elms - 1
            /\ S \ {v} # {} => /\ r.lb \in (S \cup {s.lb}) \ {v}
                               /\ r.ub \in (S \cup {s.ub}) \ {v}
<1> DEFINE i == CHOOSE j \in Found(s, Interval(v, v)) : TRUE
           low == Interval(i.lower, v - 1)
           high == Interval(v + 1, i.upper)
           below == Resize(s, i, low)
           cut == IF Width(i) = 1 THEN Remove(s, i)
                  ELSE IF i.upper = v THEN below
                  ELSE IF i.lower = v THEN Resize(s, i, high)
                  ELSE InsertSet(below, high)
           U == S \ {v}
           T == s.set
<1>1. /\ s \in SetType /\ Separate(T) /\ S = Members(T) /\ S \subseteq Int /\ v \in Int
      /\ s.hint \in T \cup {NoInterval} /\ \A x \in S : s.lb <= x /\ x <= s.ub
      /\ IsFiniteSet(S) /\ s.elms >= Cardinality(S) /\ s.elms \in Int
  BY Zenon, MembersIs DEF Holds, SetType
<1>2. Erase(s, v) = EraseGlobal(cut, v)
  BY Zenon DEF Erase
<1>3. i \in T /\ i.lower <= v /\ v <= i.upper
  <2>1. Found(s, Interval(v, v)) # {} /\ Found(s, Interval(v, v)) = {j \in T : j.lower <= v /\ v <= j.upper}
    BY Zenon, <1>1, FoundIs
  <2> QED BY Zenon, <2>1
<1> HIDE DEF i
<1>4. IsInterval(i) /\ i.lower \in Int /\ i.upper \in Int /\ Width(i) = i.upper - i.lower + 1
  BY Zenon, <1>1, <1>3 DEF Separate, IsInterval, Width
<1>5. /\ low.lower = i.lower /\ low.upper = v - 1 /\ high.lower = v + 1 /\ high.upper = i.upper
      /\ i.lower < v => IsInterval(low)
      /\ v < i.upper => IsInterval(high)
  BY <1>1, <1>4 DEF Interval, IsInterval
<1> HIDE DEF low, high, T
<1>6. \A x \in Int : i.lower <= x /\ x <= i.upper => x \in S
  BY Zenon, <1>1, <1>3, MembersIs
<1>7. /\ cut \in SetType /\ Separate(cut.set) /\ cut.hint \in cut.set \cup {NoInterval}
      /\ Members(cut.set) = U /\ cut.lb = s.lb /\ cut.ub = s.ub /\ cut.elms = s.elms
  <2>1. CASE Width(i) = 1
    <3>1. cut = Remove(s, i) /\ i.lower = v /\ i.upper = v
      <4>1. cut = Remove(s, i)
        BY Zenon, <2>1
      <4>2. v \in Int
        BY Zenon, <1>1
      <4>3. i.lower = v /\ i.upper = v
        BY <1>3, <1>4, <2>1, <4>2
      <4> QED
        BY Zenon, <4>1, <4>3
    <3> HIDE DEF cut
    <3>2. /\ cut \in SetType /\ Separate(cut.set) /\ cut.hint \in cut.set \cup {NoInterval}
          /\ cut.set = T \ {i} /\ cut.lb = s.lb /\ cut.ub = s.ub /\ cut.elms = s.elms
      BY Zenon, <1>1, <1>3, <3>1, RemoveIs DEF T
    <3>3. \A x \in Int : x \in Members(T \ {i}) <=> x \in S /\ ~ (i.lower <= x /\ x <= i.upper)
      BY Zenon, <1>1, <1>3, RemoveSeparate
    <3>4. Members(cut.set) \subseteq Int
      BY Zenon, <3>2, MembersIs
    <3>5. Members(cut.set) = U
      BY <1>1, <3>1, <3>2, <3>3, <3>4
    <3> QED BY Zenon, <3>2, <3>5
  <2>2. CASE Width(i) # 1 /\ i.upper = v
    <3>1. cut = Resize(s, i, low) /\ i.lower < v
      BY <1>1, <1>3, <1>4, <2>2
    <3>2. IsInterval(low) /\ i.lower <= low.lower /\ low.upper <= i.upper
      BY <1>1, <1>4, <1>5, <2>2, <3>1
    <3> HIDE DEF cut
    <3>3. /\ cut \in SetType /\ Separate(cut.set) /\ cut.hint \in cut.set \cup {NoInterval}
          /\ cut.set = (T \ {i}) \cup {low} /\ cut.lb = s.lb /\ cut.ub = s.ub /\ cut.elms = s.elms
      BY SMTT(30), <1>1, <1>3, <3>1, <3>2, ResizeIs DEF T
    <3>4. \A x \in Int : x \in Members(cut.set) <=>
             \/ x \in S /\ ~ (i.lower <= x /\ x <= i.upper)
             \/ low.lower <= x /\ x <= low.upper
      BY <1>1, <1>3, <3>2, <3>3, ResizeSeparate
    <3>5. Members(cut.set) \subseteq Int
      BY Zenon, <3>3, MembersIs
    <3>6. Members(cut.set) = U
      BY <1>1, <1>3, <1>4, <1>5, <1>6, <2>2, <3>4, <3>5
    <3> QED BY Zenon, <3>3, <3>6
  <2>3. CASE Width(i) # 1 /\ i.upper # v /\ i.lower = v
    <3>1. cut = Resize(s, i, high) /\ v < i.upper
      BY <1>1, <1>3, <1>4, <2>3
    <3>2. IsInterval(high) /\ i.lower <= high.lower /\ high.upper <= i.upper
      BY <1>1, <1>4, <1>5, <2>3, <3>1
    <3> HIDE DEF cut
    <3>3. /\ cut \in SetType /\ Separate(cut.set) /\ cut.hint \in cut.set \cup {NoInterval}
          /\ cut.set = (T \ {i}) \cup {high} /\ cut.lb = s.lb /\ cut.ub = s.ub /\ cut.elms = s.elms
      BY SMTT(30), <1>1, <1>3, <3>1, <3>2, ResizeIs DEF T
    <3>4. \A x \in Int : x \in Members(cut.set) <=>
             \/ x \in S /\ ~ (i.lower <= x /\ x <= i.upper)
             \/ high.lower <= x /\ x <= high.upper
      BY <1>1, <1>3, <3>2, <3>3, ResizeSeparate
    <3>5. Members(cut.set) \subseteq Int
      BY Zenon, <3>3, MembersIs
    <3>6. Members(cut.set) = U
      BY <1>1, <1>3, <1>4, <1>5, <1>6, <2>3, <3>4, <3>5
    <3> QED BY Zenon, <3>3, <3>6
  <2>4. CASE Width(i) # 1 /\ i.upper # v /\ i.lower # v
    <3>1. cut = InsertSet(below, high) /\ i.lower < v /\ v < i.upper
      BY <1>1, <1>3, <1>4, <2>4
    <3>2. /\ IsInterval(low) /\ i.lower <= low.lower /\ low.upper <= i.upper
          /\ IsInterval(high)
      BY <1>1, <1>4, <1>5, <3>1
    <3> HIDE DEF cut, below
    <3>3. /\ below \in SetType /\ Separate(below.set)
          /\ below.set = (T \ {i}) \cup {low}
          /\ below.lb = s.lb /\ below.ub = s.ub /\ below.elms = s.elms
      BY SMTT(30), <1>1, <1>3, <3>2, ResizeIs DEF T, below
    <3>4. \A x \in Int : x \in Members(below.set) <=>
             \/ x \in S /\ ~ (i.lower <= x /\ x <= i.upper)
             \/ low.lower <= x /\ x <= low.upper
      BY <1>1, <1>3, <3>2, <3>3, ResizeSeparate
    <3>5. Found(below, high) = {}
      <4> SUFFICES ASSUME NEW j \in below.set, Intersects(high, j) PROVE FALSE
        BY Zenon DEF Found
      <4>1. CASE j = low
        BY <1>1, <1>4, <1>5, <3>2, <4>1 DEF Intersects
      <4>2. CASE j \in T \ {i}
        <5>1. IsInterval(j) /\ Apart(j, i)
          BY Zenon, <1>1, <1>3, <4>2 DEF Separate
        <5> QED BY <1>1, <1>3, <1>4, <1>5, <5>1 DEF Apart, Intersects, IsInterval
      <4> QED BY Zenon, <3>3, <4>1, <4>2
    <3>6. /\ cut \in SetType /\ Separate(cut.set) /\ cut.hint \in cut.set
          /\ Members(cut.set) = Members(below.set) \cup (high.lower .. high.upper)
          /\ cut.lb = s.lb /\ cut.ub = s.ub /\ cut.elms = s.elms
      BY Zenon, <3>1, <3>2, <3>3, <3>5, InsertSetNew
    <3>7. Members(cut.set) \subseteq Int
      BY Zenon, <3>6, MembersIs
    <3>8. \A x \in Int : x \in Members(cut.set) <=> x \in S /\ x # v
      BY <1>1, <1>3, <1>4, <1>5, <1>6, <3>1, <3>4, <3>6
    <3>9. Members(cut.set) = U
      BY Zenon, <1>1, <3>7, <3>8
    <3> QED BY Zenon, <3>6, <3>9
  <2> QED BY Zenon, <2>1, <2>2, <2>3, <2>4
<1> HIDE DEF cut
<1> DEFINE r == EraseGlobal(cut, v)
<1>8. /\ r \in SetType /\ r.set = cut.set /\ r.hint = cut.hint /\ r.elms = s.elms - 1
      /\ \A x \in U : r.lb <= x /\ x <= r.ub
      /\ U # {} => r.lb \in U \cup ({s.lb} \ {v}) /\ r.ub \in U \cup ({s.ub} \ {v})
  <2>1. \A x \in Members(cut.set) : cut.lb <= x /\ x <= cut.ub
    BY Zenon, <1>1, <1>7
  <2>2. cut \in SetType /\ Separate(cut.set) /\ v \in Int
    BY Zenon, <1>1, <1>7
  <2>3. /\ r \in SetType /\ r.set = cut.set /\ r.hint = cut.hint /\ r.elms = cut.elms - 1
        /\ \A x \in Members(cut.set) : r.lb <= x /\ x <= r.ub
        /\ Members(cut.set) # {} => /\ r.lb \in Members(cut.set) \cup ({cut.lb} \ {v})
                                    /\ r.ub \in Members(cut.set) \cup ({cut.ub} \ {v})
    BY Zenon, <2>1, <2>2, EraseGlobalIs
  <2> HIDE DEF r, U
  <2> QED BY Zenon, <1>7, <2>3
<1>9. IsFiniteSet(U) /\ Cardinality(U) = Cardinality(S) - 1 /\ Cardinality(S) \in Nat
  BY Zenon, <1>1, FS_RemoveElement, FS_CardinalityType
<1> HIDE DEF r
<1>10. Holds(r, U)
  BY <1>1, <1>7, <1>8, <1>9 DEF Holds
<1> QED BY Zenon, <1>2, <1>8, <1>10 DEF r

\* What WindowExact says of one window, with types.
Exact(s, S) ==
  /\ Holds(s, S)
  /\ s.elms = Cardinality(S)
  /\ S # {} => s.lb \in S /\ s.ub \in S

LEMMA ExactRepresents ==
  ASSUME NEW s, NEW S, Exact(s, S)
  PROVE  Represents(s, S)
<1>1. \A j \in s.set : j.lower <= j.upper
  BY Zenon DEF Exact, Holds, Separate, IsInterval
<1>2. \A i, j \in s.set : i # j => i.upper + 1 < j.lower \/ j.upper + 1 < i.lower
  BY Zenon DEF Exact, Holds, Separate, Apart
<1>3. S = UNION {j.lower .. j.upper : j \in s.set}
  BY Zenon DEF Exact, Holds, Members
<1> QED BY Zenon, <1>1, <1>2, <1>3 DEF Represents, Exact, Holds

\* insert and erase keep the bounds and the count exact.
LEMMA InsertExact ==
  ASSUME NEW s, NEW S, Exact(s, S), NEW v \in Int \ S
  PROVE  Exact(Insert(s, v), S \cup {v})
<1> DEFINE r == Insert(s, v)
<1>1. /\ Holds(r, S \cup {v}) /\ r.elms = s.elms + 1
      /\ r.lb = IF s.elms = 0 \/ v < s.lb THEN v ELSE s.lb
      /\ r.ub = IF s.elms = 0 \/ v > s.ub THEN v ELSE s.ub
  BY Zenon, InsertHolds DEF Exact
<1>2. IsFiniteSet(S) /\ s.elms = Cardinality(S)
  BY Zenon DEF Exact, Holds
<1>3. Cardinality(S \cup {v}) = Cardinality(S) + 1
  BY Zenon, <1>2, FS_AddElement
<1>4. S = {} => s.elms = 0
  BY Zenon, <1>2, FS_EmptySet
<1> HIDE DEF r
<1>5. r.lb \in S \cup {v} /\ r.ub \in S \cup {v}
  BY Zenon, <1>1, <1>4 DEF Exact
<1> QED BY Zenon, <1>1, <1>2, <1>3, <1>5 DEF Exact, r

LEMMA EraseExact ==
  ASSUME NEW s, NEW S, Exact(s, S), NEW v \in S
  PROVE  Exact(Erase(s, v), S \ {v})
<1> DEFINE r == Erase(s, v)
<1>1. /\ Holds(r, S \ {v}) /\ r.elms = s.elms - 1
      /\ S \ {v} # {} => /\ r.lb \in (S \cup {s.lb}) \ {v}
                         /\ r.ub \in (S \cup {s.ub}) \ {v}
  BY Zenon, EraseHolds DEF Exact
<1>2. IsFiniteSet(S) /\ s.elms = Cardinality(S) /\ s.lb \in S /\ s.ub \in S
  BY Zenon DEF Exact, Holds
<1>3. Cardinality(S \ {v}) = Cardinality(S) - 1
  BY Zenon, <1>2, FS_RemoveElement
<1> HIDE DEF r
<1> QED BY Zenon, <1>1, <1>2, <1>3 DEF Exact, r

\* The set of all the epochs a window starts with.
LEMMA FullExact ==
  ASSUME NEW M \in Nat \ {0}
  PROVE  Exact(InsertInterval(Empty, Interval(1, M)), 1 .. M)
<1> DEFINE i == Interval(1, M)
           g == InsertGlobal(Empty, i)
           r == InsertSet(g, i)
<1>1. IsInterval(i) /\ i.lower = 1 /\ i.upper = M
  BY DEF IsInterval, Interval
<1>2. Empty \in SetType /\ Empty.set = {} /\ Empty.elms = 0
  BY DEF Empty, SetType, NoInterval, Interval
<1> HIDE DEF i
<1>3. g \in SetType /\ g.set = {} /\ g.elms = M /\ g.lb = 1 /\ g.ub = M
  BY <1>1, <1>2, InsertGlobalIs
<1> HIDE DEF g
<1>4. Separate(g.set) /\ Found(g, i) = {} /\ Members(g.set) = {}
  BY Zenon, <1>3 DEF Separate, Found, Members
<1>5. /\ r \in SetType /\ Separate(r.set) /\ Members(r.set) = 1 .. M
      /\ r.lb = 1 /\ r.ub = M /\ r.elms = M /\ r.hint \in r.set
  <2>1. /\ r \in SetType /\ Separate(r.set)
        /\ Members(r.set) = Members(g.set) \cup (i.lower .. i.upper)
        /\ r.lb = g.lb /\ r.ub = g.ub /\ r.elms = g.elms /\ r.hint \in r.set
    BY Zenon, <1>1, <1>3, <1>4, InsertSetNew
  <2> HIDE DEF r
  <2>2. {} \cup (1 .. M) = 1 .. M
    BY Zenon
  <2> QED BY Zenon, <1>1, <1>3, <1>4, <2>1, <2>2
<1>6. IsFiniteSet(1 .. M) /\ Cardinality(1 .. M) = M
  BY FS_Interval
<1> HIDE DEF r
<1>7. Exact(r, 1 .. M)
  BY <1>5, <1>6 DEF Exact, Holds
<1> QED BY Zenon, <1>7 DEF InsertInterval, r, g, i

-----------------------------------------------------------------------------
(***************************************************************************)
(* The windows.                                                            *)
(***************************************************************************)
\* The k-th epoch of node n: made, or the next to be made.
Nth(n, k) == IF k <= Len(made[n]) THEN made[n][k] ELSE next_epoch[n]

\* A node takes the epochs in turn from 1 on.
InTurn(n) ==
  /\ Nth(n, 1) = 1
  /\ \A k \in 1 .. Len(made[n]) : Nth(n, k + 1) = Increment(Nth(n, k))

\* No epoch is live twice.
LiveOnce(n) ==
  \A i, j \in DOMAIN made[n] \ told[n] : made[n][i] = made[n][j] => i = j

WinInv ==
  /\ made \in [Node -> Seq(Epoch)]
  /\ told \in [Node -> SUBSET Nat]
  /\ next_epoch \in [Node -> Epoch]
  /\ terminated_epochs \in [Node -> SetType]
  /\ \A n \in Node : /\ told[n] \subseteq DOMAIN made[n]
                     /\ InTurn(n) /\ LiveOnce(n)
                     /\ Exact(terminated_epochs[n], Epoch \ Live(n))

LEMMA InitWin ==
  ASSUME Init PROVE WinInv
<1> DEFINE full == InsertInterval(Empty, Interval(1, MaxSeq))
<1>1. Exact(full, Epoch) /\ full \in SetType
  BY Zenon, FullExact, WindowAssumption DEF Epoch, Exact, Holds
<1>2. 1 \in Epoch
  BY WindowAssumption DEF Epoch
<1> HIDE DEF full
<1>3. /\ made = [n \in Node |-> << >>] /\ told = [n \in Node |-> {}]
      /\ next_epoch = [n \in Node |-> 1] /\ terminated_epochs = [n \in Node |-> full]
  BY Zenon DEF Init, full
<1>4. ASSUME NEW n \in Node
      PROVE  /\ told[n] \subseteq DOMAIN made[n] /\ InTurn(n) /\ LiveOnce(n)
             /\ Live(n) = {}
  BY <1>3 DEF InTurn, Nth, LiveOnce, Live
<1>5. \A n \in Node : Exact(terminated_epochs[n], Epoch \ Live(n))
  <2> TAKE n \in Node
  <2>1. terminated_epochs[n] = full /\ Epoch \ Live(n) = Epoch
    BY Zenon, <1>3, <1>4
  <2> QED BY Zenon, <1>1, <2>1
<1>6. made \in [Node -> Seq(Epoch)]
  BY <1>3
<1> QED BY Zenon, <1>1, <1>2, <1>3, <1>4, <1>5, <1>6 DEF WinInv

LEMMA AllocateWin ==
  ASSUME WinInv, NEW n \in Node, AllocateNewEpoch(n)
  PROVE  WinInv'
<1> DEFINE e == next_epoch[n]
           N == Len(made[n])
<1>1. /\ Contains(terminated_epochs[n], e)
      /\ next_epoch' = [next_epoch EXCEPT ![n] = Increment(e)]
      /\ terminated_epochs' = [terminated_epochs EXCEPT ![n] = Erase(@, e)]
      /\ made' = [made EXCEPT ![n] = Append(@, e)]
      /\ told' = told
  BY Zenon DEF AllocateNewEpoch, Activate
<1>2. /\ e \in Epoch /\ Increment(e) \in Epoch /\ e \in Int
      /\ made[n] \in Seq(Epoch) /\ N \in Nat /\ DOMAIN made[n] = 1 .. N
      /\ told[n] \subseteq 1 .. N
  <2>1. e \in Epoch /\ made[n] \in Seq(Epoch) /\ told[n] \subseteq DOMAIN made[n]
    BY Zenon DEF WinInv
  <2>2. Increment(e) \in Epoch /\ e \in Int
    BY <2>1, WindowAssumption DEF Epoch, Increment
  <2> QED BY <2>1, <2>2
<1>3. Exact(terminated_epochs[n], Epoch \ Live(n))
  BY Zenon DEF WinInv
<1>4. e \in Epoch \ Live(n)
  BY Zenon, <1>1, <1>2, <1>3, ContainsIs DEF Exact
<1>5. /\ made'[n] = Append(made[n], e) /\ made'[n] \in Seq(Epoch) /\ Len(made'[n]) = N + 1
      /\ DOMAIN made'[n] = 1 .. (N + 1) /\ made'[n][N + 1] = e
      /\ \A k \in 1 .. N : made'[n][k] = made[n][k]
      /\ next_epoch'[n] = Increment(e)
      /\ terminated_epochs'[n] = Erase(terminated_epochs[n], e)
  BY SMTT(30), <1>1, <1>2 DEF WinInv
<1>6. Live(n)' = Live(n) \cup {e}
  <2>1. (1 .. (N + 1)) \ told[n] = ((1 .. N) \ told[n]) \cup {N + 1}
    BY SMTT(30), <1>2
  <2> QED BY SMTT(30), <1>1, <1>2, <1>5, <2>1 DEF Live
<1>7. Exact(terminated_epochs'[n], Epoch \ Live(n)')
  <2>1. (Epoch \ Live(n)) \ {e} = Epoch \ Live(n)'
    BY Zenon, <1>6
  <2> QED BY SMTT(30), <1>3, <1>4, <1>5, <2>1, EraseExact
<1>8. LiveOnce(n)'
  <2>1. \A k \in (1 .. N) \ told[n] : made[n][k] # e
    BY Zenon, <1>2, <1>4 DEF Live
  <2>2. LiveOnce(n)
    BY Zenon DEF WinInv
  <2> SUFFICES ASSUME NEW i \in (1 .. (N + 1)) \ told[n], NEW j \in (1 .. (N + 1)) \ told[n],
                      made'[n][i] = made'[n][j]
               PROVE  i = j
    BY Zenon, <1>1, <1>5 DEF LiveOnce
  <2>3. i \in 1 .. N \/ i = N + 1
    BY SMTT(30), <1>2
  <2>4. j \in 1 .. N \/ j = N + 1
    BY <1>2
  <2> QED BY Zenon, <1>2, <1>5, <2>1, <2>2, <2>3, <2>4 DEF LiveOnce
<1>9. InTurn(n)'
  <2>1. InTurn(n)
    BY Zenon DEF WinInv
  <2>2. \A k \in 1 .. (N + 1) : Nth(n, k)' = Nth(n, k)
    <3> TAKE k \in 1 .. (N + 1)
    <3>1. Nth(n, k)' = made'[n][k]
      BY <1>5 DEF Nth
    <3>2. CASE k \in 1 .. N
      BY SMTT(30), <1>2, <1>5, <3>1, <3>2 DEF Nth
    <3>3. CASE k = N + 1
      BY <1>2, <1>5, <3>1, <3>3 DEF Nth
    <3> QED BY <1>2, <3>2, <3>3
  <2>3. Nth(n, N + 1) = e /\ \A k \in Nat : k > N + 1 => Nth(n, k)' = Increment(e)
    BY SMTT(30), <1>2, <1>5 DEF Nth
  <2>4. Nth(n, 1)' = 1
    BY <1>2, <2>1, <2>2 DEF InTurn
  <2>5. ASSUME NEW k \in 1 .. (N + 1) PROVE Nth(n, k + 1)' = Increment(Nth(n, k)')
    <3>1. CASE k \in 1 .. N
      <4>1. k + 1 \in 1 .. (N + 1) /\ k \in 1 .. (N + 1)
        BY <1>2, <3>1
      <4> QED BY Zenon, <2>1, <2>2, <3>1, <4>1 DEF InTurn
    <3>2. CASE k = N + 1
      <4>1. k + 1 \in Nat /\ k + 1 > N + 1 /\ Nth(n, k)' = e
        BY <1>2, <2>2, <2>3, <3>2
      <4> QED BY Zenon, <2>3, <4>1
    <3> QED BY <1>2, <3>1, <3>2
  <2>6. \A k \in 1 .. Len(made'[n]) : Nth(n, k + 1)' = Increment(Nth(n, k)')
    BY Zenon, <1>5, <2>5
  <2> QED BY Zenon, <2>4, <2>6 DEF InTurn, Increment
<1>10. ASSUME NEW m \in Node, m # n
       PROVE  /\ told'[m] \subseteq DOMAIN made'[m] /\ InTurn(m)' /\ LiveOnce(m)'
              /\ Exact(terminated_epochs'[m], Epoch \ Live(m)')
  <2>1. /\ made'[m] = made[m] /\ told'[m] = told[m] /\ next_epoch'[m] = next_epoch[m]
        /\ terminated_epochs'[m] = terminated_epochs[m]
    BY Zenon, <1>1, <1>10 DEF WinInv
  <2>2. InTurn(m) /\ LiveOnce(m) /\ Exact(terminated_epochs[m], Epoch \ Live(m))
        /\ told[m] \subseteq DOMAIN made[m]
    BY Zenon DEF WinInv
  <2>3. Live(m)' = Live(m)
    BY Zenon, <2>1 DEF Live
  <2>4. InTurn(m)' /\ LiveOnce(m)'
    BY Zenon, <2>1, <2>2 DEF InTurn, Nth, LiveOnce
  <2> QED BY Zenon, <2>1, <2>2, <2>3, <2>4
<1>11. /\ made' \in [Node -> Seq(Epoch)] /\ told' \in [Node -> SUBSET Nat]
       /\ next_epoch' \in [Node -> Epoch] /\ terminated_epochs' \in [Node -> SetType]
  <2>1. terminated_epochs'[n] \in SetType
    BY Zenon, <1>7 DEF Exact, Holds
  <2> QED BY Zenon, <1>1, <1>2, <1>5, <2>1 DEF WinInv
<1>12. told'[n] \subseteq DOMAIN made'[n]
  BY SMTT(30), <1>1, <1>2, <1>5
<1>13. \A m \in Node : /\ told'[m] \subseteq DOMAIN made'[m] /\ InTurn(m)' /\ LiveOnce(m)'
                       /\ Exact(terminated_epochs'[m], Epoch \ Live(m)')
  BY Zenon, <1>7, <1>8, <1>9, <1>10, <1>12
<1> QED BY Zenon, <1>11, <1>13 DEF WinInv, Epoch

LEMMA TerminatedWin ==
  ASSUME WinInv, NEW n \in Node, NEW k \in Nat \ {0}, SetEpochTerminated(n, k)
  PROVE  WinInv'
<1> DEFINE e == made[n][k]
           N == Len(made[n])
<1>1. /\ k <= N /\ k \notin told[n] /\ told' = [told EXCEPT ![n] = @ \cup {k}]
      /\ terminated_epochs' = [terminated_epochs EXCEPT ![n] = Insert(@, e)]
      /\ UNCHANGED <<next_epoch, made>>
  BY Zenon DEF SetEpochTerminated
<1>2. /\ made[n] \in Seq(Epoch) /\ N \in Nat /\ DOMAIN made[n] = 1 .. N /\ k \in 1 .. N
      /\ told[n] \subseteq 1 .. N /\ e \in Epoch /\ e \in Int
  <2>1. made[n] \in Seq(Epoch) /\ told[n] \subseteq DOMAIN made[n]
    BY Zenon DEF WinInv
  <2>2. N \in Nat /\ DOMAIN made[n] = 1 .. N /\ k \in 1 .. N
    BY <1>1, <2>1
  <2>3. e \in Epoch
    BY <2>1, <2>2
  <2> QED BY <2>1, <2>2, <2>3 DEF Epoch
<1>3. Exact(terminated_epochs[n], Epoch \ Live(n)) /\ LiveOnce(n)
  BY Zenon DEF WinInv
<1>4. e \in Live(n)
  BY Zenon, <1>1, <1>2 DEF Live
<1>5. /\ told'[n] = told[n] \cup {k} /\ made' = made /\ next_epoch' = next_epoch
      /\ terminated_epochs'[n] = Insert(terminated_epochs[n], e)
  BY Zenon, <1>1 DEF WinInv
<1>6. Live(n)' = Live(n) \ {e}
  <2>1. \A j \in DOMAIN made[n] \ told[n] : made[n][j] = e => j = k
    BY Zenon, <1>1, <1>2, <1>3 DEF LiveOnce
  <2> QED BY Zenon, <1>1, <1>2, <1>5, <2>1 DEF Live
<1>7. Exact(terminated_epochs'[n], Epoch \ Live(n)')
  <2>1. (Epoch \ Live(n)) \cup {e} = Epoch \ Live(n)' /\ e \in Int \ (Epoch \ Live(n))
    BY Zenon, <1>2, <1>4, <1>6
  <2> QED BY SMTT(30), <1>3, <1>5, <2>1, InsertExact
<1>8. ASSUME NEW m \in Node
      PROVE  /\ told'[m] \subseteq DOMAIN made'[m] /\ InTurn(m)' /\ LiveOnce(m)'
             /\ Exact(terminated_epochs'[m], Epoch \ Live(m)')
  <2>1. InTurn(m) /\ LiveOnce(m) /\ Exact(terminated_epochs[m], Epoch \ Live(m))
        /\ told[m] \subseteq DOMAIN made[m]
    BY Zenon DEF WinInv
  <2>2. told'[m] \subseteq DOMAIN made'[m] /\ told[m] \subseteq told'[m]
    BY Zenon, <1>1, <1>2, <1>5, <2>1 DEF WinInv
  <2>3. InTurn(m)' /\ LiveOnce(m)'
    BY Zenon, <1>5, <2>1, <2>2 DEF InTurn, Nth, LiveOnce
  <2>4. m # n => Live(m)' = Live(m) /\ terminated_epochs'[m] = terminated_epochs[m]
    BY Zenon, <1>1 DEF Live, WinInv
  <2> QED BY Zenon, <1>7, <2>1, <2>2, <2>3, <2>4
<1>9. told' \in [Node -> SUBSET Nat] /\ terminated_epochs' \in [Node -> SetType]
  <2>1. terminated_epochs'[n] \in SetType
    BY Zenon, <1>7 DEF Exact, Holds
  <2> QED BY Zenon, <1>1, <2>1 DEF WinInv
<1> QED BY Zenon, <1>5, <1>8, <1>9 DEF WinInv, Epoch

LEMMA WinInvHolds == Spec => []WinInv
<1>1. Init => WinInv
  BY Zenon, InitWin
<1>2. WinInv /\ [Next]_vars => WinInv'
  <2> SUFFICES ASSUME WinInv, [Next]_vars PROVE WinInv'
    BY Zenon
  <2>1. CASE UNCHANGED <<terminated_epochs, next_epoch, made, told>>
    <3>1. ASSUME NEW n \in Node
          PROVE  InTurn(n)' = InTurn(n) /\ LiveOnce(n)' = LiveOnce(n) /\ Live(n)' = Live(n)
      BY Zenon, <2>1 DEF InTurn, Nth, LiveOnce, Live
    <3> QED BY Zenon, <2>1, <3>1 DEF WinInv, Epoch
  <2>2. ASSUME NEW n \in Node, BeginAllocate(n) PROVE WinInv'
    BY Zenon, <2>1, <2>2 DEF BeginAllocate
  <2>3. ASSUME NEW n \in Node, NEW k \in 1 .. MaxMade, SetEpochTerminated(n, k) PROVE WinInv'
    BY <2>3, TerminatedWin, WindowAssumption
  <2> QED BY Zenon, <2>1, <2>2, <2>3, AllocateWin DEF Next, vars
<1> QED BY <1>1, <1>2, PTL DEF Spec

\* For every number of nodes and epochs, and through any order of allocations
\* and terminations, also after the counter has wrapped around: the intervals,
\* bounds and count of a window represent exactly the epochs that are not live.
THEOREM WindowAlwaysExact == Spec => []WindowExact
<1>1. WinInv => WindowExact
  <2> SUFFICES ASSUME WinInv, NEW n \in Node
               PROVE  /\ Represents(terminated_epochs[n], Epoch \ Live(n))
                      /\ \A e \in Live(n) : ~ InsertFails(terminated_epochs[n], Interval(e, e))
    BY Zenon DEF WindowExact
  <2>1. Exact(terminated_epochs[n], Epoch \ Live(n)) /\ Live(n) \subseteq Epoch
    <3>1. made[n] \in Seq(Epoch) /\ Exact(terminated_epochs[n], Epoch \ Live(n))
      BY Zenon DEF WinInv
    <3> QED BY <3>1 DEF Live
  <2>2. Represents(terminated_epochs[n], Epoch \ Live(n))
    BY Zenon, <2>1, ExactRepresents
  <2>3. ASSUME NEW e \in Live(n) PROVE ~ InsertFails(terminated_epochs[n], Interval(e, e))
    <3>1. Holds(terminated_epochs[n], Epoch \ Live(n)) /\ e \in Int \ (Epoch \ Live(n))
      BY <2>1 DEF Epoch, Exact
    <3> QED BY Zenon, <3>1, NewIsValid
  <2> QED BY Zenon, <2>2, <2>3
<1> QED BY <1>1, WinInvHolds, PTL

\* The k-th collective epoch has the same identifier on every node, although no
\* node asks another and terminations reach them in different orders.
THEOREM AlwaysAgree == Spec => []CollectiveAgree
<1>1. WinInv => CollectiveAgree
  <2> SUFFICES ASSUME WinInv, NEW n \in Node, NEW m \in Node
               PROVE  \A k \in DOMAIN made[n] \cap DOMAIN made[m] : made[n][k] = made[m][k]
    BY Zenon DEF CollectiveAgree
  <2> DEFINE D == {k \in DOMAIN made[n] \cap DOMAIN made[m] : made[n][k] # made[m][k]}
  <2>1. /\ made[n] \in Seq(Epoch) /\ made[m] \in Seq(Epoch)
        /\ DOMAIN made[n] = 1 .. Len(made[n]) /\ DOMAIN made[m] = 1 .. Len(made[m])
        /\ Len(made[n]) \in Nat /\ Len(made[m]) \in Nat
        /\ InTurn(n) /\ InTurn(m)
    <3>1. made[n] \in Seq(Epoch) /\ made[m] \in Seq(Epoch) /\ InTurn(n) /\ InTurn(m)
      BY Zenon DEF WinInv
    <3> QED BY <3>1
  <2>2. SUFFICES ASSUME D # {} PROVE FALSE
    BY Zenon
  <2>3. PICK k \in D : \A j \in D : k <= j
    <3>1. D \in SUBSET Nat
      BY <2>1
    <3> HIDE DEF D
    <3> QED BY Zenon, <2>2, <3>1, Least
  <2>4. k # 1
    BY <2>1 DEF InTurn, Nth
  <2>5. /\ k - 1 \in 1 .. Len(made[n]) /\ k - 1 \in 1 .. Len(made[m]) /\ (k - 1) + 1 = k
        /\ k \in 1 .. Len(made[n]) /\ k \in 1 .. Len(made[m])
    BY <2>1, <2>4
  <2>6. made[n][k - 1] = made[m][k - 1]
    BY <2>1, <2>3, <2>5
  <2>7. Nth(n, k) = Increment(Nth(n, k - 1)) /\ Nth(m, k) = Increment(Nth(m, k - 1))
    BY Zenon, <2>1, <2>5 DEF InTurn
  <2>8. made[n][k] = Increment(made[n][k - 1]) /\ made[m][k] = Increment(made[m][k - 1])
    BY <2>1, <2>5, <2>7 DEF Nth
  <2> QED BY Zenon, <2>6, <2>8
<1> QED BY <1>1, WinInvHolds, PTL

-----------------------------------------------------------------------------
(***************************************************************************)
(* A node that asks whether a rooted epoch terminated (EpochStatus).  Its  *)
(* window holds the epochs that are not set up or known to have            *)
(* terminated, although an epoch may be inserted twice.                    *)
(***************************************************************************)
\* What the node takes for terminated was found to be by the detector.
Sound ==
  /\ rooted_made \in 0 .. MaxRooted
  /\ started \subseteq 1 .. rooted_made /\ rooteds \subseteq 1 .. rooted_made
  /\ rooteds \cap started = {}
  /\ detected \subseteq started
  /\ root_terminated \subseteq detected
  /\ terms \subseteq detected /\ replies \subseteq detected
  /\ runnables \in [1 .. MaxRooted -> Nat]
  /\ \A e \in 1 .. MaxRooted : runnables[e] > 0 => e \in detected \cup early

WindowSound ==
  \E S \in SUBSET Int : Holds(window, S) /\ S \cap started \subseteq detected

\* Every question is in one place.
Questions ==
  /\ inquiries \cup root_actions \cup replies = epoch_wait_status
  /\ inquiries \cap root_actions = {} /\ inquiries \cap replies = {}
  /\ root_actions \cap replies = {}

StatusInv == Sound /\ WindowSound /\ Questions

LEMMA InitStatus ==
  ASSUME StatusInit PROVE StatusInv
<1>1. Sound
  BY StatusAssumption DEF StatusInit, Sound, RootedEpoch
<1>2. Questions
  BY Zenon DEF StatusInit, Questions
<1>3. Holds(window, 1 .. MaxRootedSeq)
  <2>1. window = InsertInterval(Empty, Interval(1, MaxRootedSeq))
    BY Zenon DEF StatusInit
  <2>2. MaxRootedSeq \in Nat \ {0}
    BY StatusAssumption
  <2> QED BY Zenon, <2>1, <2>2, FullExact DEF Exact
<1>4. WindowSound
  <2>1. 1 .. MaxRootedSeq \in SUBSET Int /\ (1 .. MaxRootedSeq) \cap started \subseteq detected
    BY StatusAssumption DEF StatusInit
  <2> QED BY Zenon, <1>3, <2>1 DEF WindowSound
<1> QED BY Zenon, <1>1, <1>2, <1>4 DEF StatusInv

\* What only the root does.
LEMMA RootStatus ==
  ASSUME StatusInv, NEW e \in 1 .. MaxRooted,
         \/ MakeEpochRooted \/ Detect(e) \/ RootEpochTerminated(e)
         \/ InquireTerminated(e) \/ RootRunActions(e)
  PROVE  StatusInv'
<1>1. window' = window /\ started' = started /\ detected \subseteq detected'
  BY Zenon DEF MakeEpochRooted, Detect, RootEpochTerminated,
         InquireTerminated, RootRunActions, node
<1>2. WindowSound'
  BY Zenon, <1>1 DEF StatusInv, WindowSound
<1>3. Questions'
  BY DEF StatusInv, Questions, MakeEpochRooted, Detect,
         RootEpochTerminated, InquireTerminated, RootRunActions, node
<1>4. CASE MakeEpochRooted
  <2>1. /\ rooted_made < MaxRooted /\ rooted_made' = rooted_made + 1 /\ rooteds' = rooteds \cup {rooted_made + 1}
        /\ UNCHANGED <<started, detected, root_terminated, terms, replies, runnables, early>>
    BY Zenon, <1>4 DEF MakeEpochRooted, node
  <2>2. Sound'
    BY <2>1, StatusAssumption DEF StatusInv, Sound
  <2> QED BY Zenon, <1>2, <1>3, <2>2 DEF StatusInv
<1>5. CASE ~ MakeEpochRooted
  <2>1. Sound'
    BY Zenon, <1>5 DEF StatusInv, Sound, Detect, RootEpochTerminated,
                InquireTerminated, RootRunActions, node
  <2> QED BY Zenon, <1>2, <1>3, <2>1 DEF StatusInv
<1> QED BY Zenon, <1>4, <1>5

LEMMA MakeRootedStatus ==
  ASSUME StatusInv, NEW e \in 1 .. MaxRooted, MakeRootedHan(e)
  PROVE  StatusInv'
<1>1. /\ e \in rooteds /\ rooteds' = rooteds \ {e} /\ started' = started \cup {e}
      /\ window' = IF Contains(window, e) THEN Erase(window, e) ELSE window
      /\ UNCHANGED <<rooted_made, detected, root_terminated, root_actions, epoch_wait_status,
                     runnables, early, terms, inquiries, replies>>
  BY Zenon DEF MakeRootedHan, root
<1>2. Sound' /\ Questions'
  BY Zenon, <1>1 DEF StatusInv, Sound, Questions
<1>3. PICK S \in SUBSET Int : Holds(window, S) /\ S \cap started \subseteq detected
  BY Zenon DEF StatusInv, WindowSound
<1>4. Contains(window, e) <=> e \in S
  BY <1>3, ContainsIs
<1>5. Holds(window', S \ {e})
  <2>1. CASE e \in S
    BY Zenon, <1>1, <1>3, <1>4, <2>1, EraseHolds
  <2>2. CASE e \notin S
    <3>1. S \ {e} = S
      BY Zenon, <2>2
    <3> QED BY Zenon, <1>1, <1>3, <1>4, <2>2, <3>1
  <2> QED BY Zenon, <2>1, <2>2
<1>6. S \ {e} \in SUBSET Int /\ (S \ {e}) \cap started' \subseteq detected'
  BY Zenon, <1>1, <1>3
<1>7. WindowSound'
  BY Zenon, <1>5, <1>6 DEF WindowSound
<1> QED BY Zenon, <1>2, <1>7 DEF StatusInv

\* The node learns of the termination, by the broadcast or by an answer.
LEMMA TerminatedStatus ==
  ASSUME StatusInv, NEW e \in 1 .. MaxRooted,
         EpochTerminatedHandler(e) \/ ReplyTerminated(e)
  PROVE  StatusInv'
<1>1. /\ e \in terms \/ e \in replies
      /\ window' = Insert(window, e)
      /\ runnables' = IF epoch_actions[e] > 0 THEN [runnables EXCEPT ![e] = @ + 1] ELSE runnables
      /\ terms' \subseteq terms /\ replies' \subseteq replies
      /\ UNCHANGED <<rooted_made, detected, root_terminated, root_actions, started,
                     early, rooteds, inquiries>>
  BY Zenon DEF EpochTerminatedHandler, ReplyTerminated, EpochTerminated,
                  root
<1>2. Questions'
  BY Zenon DEF StatusInv, Questions, EpochTerminatedHandler, ReplyTerminated, root
<1>3. e \in detected
  BY Zenon, <1>1 DEF StatusInv, Sound
<1>4. Sound'
  BY SMTT(30), <1>1, <1>3 DEF StatusInv, Sound
<1>5. PICK S \in SUBSET Int : Holds(window, S) /\ S \cap started \subseteq detected
  BY Zenon DEF StatusInv, WindowSound
<1>6. Holds(window', S \cup {e})
  BY <1>1, <1>5, InsertHolds
<1>7. S \cup {e} \in SUBSET Int /\ (S \cup {e}) \cap started' \subseteq detected'
  BY <1>1, <1>3, <1>5
<1>8. WindowSound'
  BY Zenon, <1>6, <1>7 DEF WindowSound
<1> QED BY Zenon, <1>2, <1>4, <1>8 DEF StatusInv

\* The node runs actions, adds one, or asks.
LEMMA ActionStatus ==
  ASSUME StatusInv, NEW e \in 1 .. MaxRooted,
         \/ RunActions(e) \/ IsEpochTerminated(e) \/ AddActionEpoch(e)
  PROVE  StatusInv'
<1>1. UNCHANGED <<rooted_made, detected, root_terminated, root_actions, started, window,
                  rooteds, terms, replies>>
  BY Zenon DEF RunActions, IsEpochTerminated, AddActionEpoch, root
<1>2. WindowSound'
  BY Zenon, <1>1 DEF StatusInv, WindowSound
<1>3. \/ UNCHANGED <<epoch_wait_status, inquiries>>
      \/ /\ e \notin epoch_wait_status
         /\ epoch_wait_status' = epoch_wait_status \cup {e} /\ inquiries' = inquiries \cup {e}
  BY Zenon DEF RunActions, IsEpochTerminated, AddActionEpoch,
         AfterAddEpochAction, TestEpochTerminated
<1>4. Questions'
  BY Zenon, <1>1, <1>3 DEF StatusInv, Questions
<1>5. PICK S \in SUBSET Int : Holds(window, S) /\ S \cap started \subseteq detected
  BY Zenon DEF StatusInv, WindowSound
<1>6. e \in started /\ Contains(window, e) => e \in detected
  BY <1>5, ContainsIs
<1>11. early \subseteq early' /\ (AddActionEpoch(e) => e \in started \/ e \in early')
  BY Zenon DEF RunActions, IsEpochTerminated, AddActionEpoch
<1>7. \/ UNCHANGED runnables
      \/ runnables[e] > 0 /\ runnables' = [runnables EXCEPT ![e] = @ - 1]
      \/ e \in detected \cup early' /\ runnables' = [runnables EXCEPT ![e] = @ + 1]
  BY Zenon, <1>6, <1>11 DEF RunActions, IsEpochTerminated, AddActionEpoch,
                        AfterAddEpochAction
<1>8. runnables \in [1 .. MaxRooted -> Nat]
  BY Zenon DEF StatusInv, Sound
<1>9. /\ runnables' \in [1 .. MaxRooted -> Nat]
      /\ \A d \in 1 .. MaxRooted : runnables'[d] > 0 => runnables[d] > 0 \/ d \in detected \cup early'
  <2>1. CASE UNCHANGED runnables
    BY Zenon, <1>8, <2>1
  <2>2. CASE runnables[e] > 0 /\ runnables' = [runnables EXCEPT ![e] = @ - 1]
    BY <1>8, <2>2
  <2>3. CASE e \in detected \cup early' /\ runnables' = [runnables EXCEPT ![e] = @ + 1]
    BY <1>8, <2>3
  <2> QED BY Zenon, <1>7, <2>1, <2>2, <2>3
<1>10. Sound'
  BY Zenon, <1>1, <1>9, <1>11 DEF StatusInv, Sound
<1> QED BY Zenon, <1>2, <1>4, <1>10 DEF StatusInv

LEMMA StatusInvHolds == StatusSpec => []StatusInv
<1>1. StatusInit => StatusInv
  BY Zenon, InitStatus
<1>2. StatusInv /\ [StatusNext]_statusVars => StatusInv'
  <2> SUFFICES ASSUME StatusInv, [StatusNext]_statusVars PROVE StatusInv'
    BY Zenon
  <2>1. CASE UNCHANGED statusVars
    BY Zenon, <2>1 DEF statusVars, root, node, StatusInv, Sound, WindowSound, Questions
  <2>2. 1 \in 1 .. MaxRooted
    BY StatusAssumption
  <2>3. CASE StatusNext
    BY Zenon, <2>2, <2>3, RootStatus, MakeRootedStatus, TerminatedStatus, ActionStatus
       DEF StatusNext, Progress, UserStep, RootedEpoch
  <2> QED BY Zenon, <2>1, <2>3
<1> QED BY <1>1, <1>2, PTL DEF StatusSpec

\* However questions, answers and broadcasts cross, the node takes an epoch it
\* has set up for terminated only if the detector found it to be, and enqueues
\* its actions only then, or if one was added before the set-up.
THEOREM StatusAlwaysSound == StatusSpec => []StatusSound
<1>1. StatusInv => StatusSound
  <2> SUFFICES ASSUME StatusInv, NEW e \in started
               PROVE  /\ Contains(window, e) => e \in detected
                      /\ runnables[e] > 0 => e \in detected \cup early
    BY Zenon DEF StatusSound
  <2>1. PICK S \in SUBSET Int : Holds(window, S) /\ S \cap started \subseteq detected
    BY Zenon DEF StatusInv, WindowSound
  <2>2. CASE Contains(window, e)
    BY <2>1, <2>2, ContainsIs DEF StatusInv, Sound
  <2>3. e \in 1 .. MaxRooted
    BY StatusAssumption DEF StatusInv, Sound
  <2>4. runnables[e] > 0 => e \in detected \cup early
    BY Zenon, <2>3 DEF StatusInv, Sound
  <2> QED BY Zenon, <2>2, <2>4
<1> QED BY <1>1, StatusInvHolds, PTL

\* testEpochTerminated asks once: while the node waits there is one question,
\* registered action or answer, and otherwise none.
THEOREM AlwaysOneAnswer == StatusSpec => []OneAnswer
<1>1. StatusInv => OneAnswer
  <2> SUFFICES ASSUME StatusInv, NEW e \in 1 .. MaxRooted
               PROVE  Cardinality(inquiries \cap {e}) + Cardinality(root_actions \cap {e})
                        + Cardinality(replies \cap {e}) = Cardinality(epoch_wait_status \cap {e})
    BY Zenon DEF OneAnswer, RootedEpoch
  <2>1. ASSUME NEW X PROVE Cardinality(X \cap {e}) = IF e \in X THEN 1 ELSE 0
    <3>1. X \cap {e} = IF e \in X THEN {e} ELSE {}
      BY Zenon
    <3> QED BY Zenon, <3>1, FS_Singleton, FS_EmptySet
  <2>2. /\ Cardinality(inquiries \cap {e}) = IF e \in inquiries THEN 1 ELSE 0
        /\ Cardinality(root_actions \cap {e}) = IF e \in root_actions THEN 1 ELSE 0
        /\ Cardinality(replies \cap {e}) = IF e \in replies THEN 1 ELSE 0
        /\ Cardinality(epoch_wait_status \cap {e}) = IF e \in epoch_wait_status THEN 1 ELSE 0
    BY Zenon, <2>1
  <2> QED BY <2>2 DEF StatusInv, Questions
<1> QED BY <1>1, StatusInvHolds, PTL
=============================================================================
