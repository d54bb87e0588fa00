---------------------------- MODULE IntegralSet -----------------------------
(***************************************************************************)
(* A set of integers kept as disjoint intervals                            *)
(* (vt::term::interval::IntegralSetBase).  The ordered tree of intervals   *)
(* is a set here, since what std::set::find and insert return follows from *)
(* the intervals alone; an iterator is the interval it points at.  A set   *)
(* keeps bounds and a count beside the intervals, so that the answers of   *)
(* contains and size rest on all of them agreeing.                         *)
(***************************************************************************)
EXTENDS Integers, FiniteSets

Interval(lo, hi) == [lower |-> lo, upper |-> hi]

\* The iterator past the last interval.
NoInterval == Interval(0, -1)

Width(i) == i.upper - i.lower + 1

\* What IntervalCompare takes for equivalent: neither lies below the other.
Intersects(i, j) == i.lower <= j.upper /\ j.lower <= i.upper

Found(s, i) == {j \in s.set : Intersects(i, j)}

Contains(s, val) ==
  /\ s.lb <= val /\ val <= s.ub
  /\ Found(s, Interval(val, val)) # {}

InsertGlobal(s, i) ==
  [s EXCEPT !.lb = IF s.elms = 0 \/ i.lower < s.lb THEN i.lower ELSE s.lb,
            !.ub = IF s.elms = 0 \/ i.upper > s.ub THEN i.upper ELSE s.ub,
            !.elms = @ + Width(i)]

\* insertSet asserts that std::set::insert does not return the hint ("Should be a
\* valid insert"): it does when the interval meets the one the hint points at.
\* In a build without assertions nothing comes of it.
InsertFails(s, i) == s.elms # 0 /\ s.hint \in Found(s, i)

\* insertSet: an interval that meets another is not inserted; a new one is
\* joined with its tangent neighbours.
InsertSet(s, i) ==
  LET left == {j \in s.set : i.lower = j.upper + 1}
      right == {j \in s.set : i.upper = j.lower - 1}
      joined == [lower |-> IF left = {} THEN i.lower ELSE (CHOOSE j \in left : TRUE).lower,
                 upper |-> IF right = {} THEN i.upper ELSE (CHOOSE j \in right : TRUE).upper]
  IN IF Found(s, i) # {}
     THEN [s EXCEPT !.hint = CHOOSE j \in Found(s, i) : TRUE]
     ELSE [s EXCEPT !.set = (@ \ (left \cup right)) \cup {joined}, !.hint = joined]

InsertInterval(s, i) == InsertSet(InsertGlobal(s, i), i)

Insert(s, val) == InsertInterval(s, Interval(val, val))

\* Shrinking an interval in place keeps iterators to it.
Resize(s, i, j) ==
  [s EXCEPT !.set = (@ \ {i}) \cup {j}, !.hint = IF @ = i THEN j ELSE @]

\* Erasing an interval moves a hint at it to the next one.
Remove(s, i) ==
  LET above == {j \in s.set : j.lower > i.upper}
      succ == IF above = {} THEN NoInterval
              ELSE CHOOSE j \in above : \A k \in above : j.lower <= k.lower
  IN [s EXCEPT !.set = @ \ {i}, !.hint = IF @ = i THEN succ ELSE @]

\* eraseGlobal: bounds that were the element move to what is left.
EraseGlobal(s, val) ==
  [s EXCEPT !.lb = IF s.lb # val THEN @
                   ELSE IF s.set = {} THEN 0
                   ELSE (CHOOSE j \in s.set : \A k \in s.set : j.lower <= k.lower).lower,
            !.ub = IF s.ub # val THEN @
                   ELSE IF s.set = {} THEN 0
                   ELSE (CHOOSE j \in s.set : \A k \in s.set : j.upper >= k.upper).upper,
            !.elms = @ - 1]

\* Mutant: erasing from the middle of an interval drops what is above.
EraseNoSplit(s, val) ==
  LET i == CHOOSE j \in Found(s, Interval(val, val)) : TRUE
      cut == IF Width(i) = 1 THEN Remove(s, i)
             ELSE IF i.lower = val THEN Resize(s, i, Interval(val + 1, i.upper))
             ELSE Resize(s, i, Interval(i.lower, val - 1))
  IN EraseGlobal(cut, val)

\* erase of an element of the set.
Erase(s, val) ==
  LET i == CHOOSE j \in Found(s, Interval(val, val)) : TRUE
      below == Resize(s, i, Interval(i.lower, val - 1))
      cut == IF Width(i) = 1 THEN Remove(s, i)
             ELSE IF i.upper = val THEN below
             ELSE IF i.lower = val THEN Resize(s, i, Interval(val + 1, i.upper))
             ELSE InsertSet(below, Interval(val + 1, i.upper))
  IN EraseGlobal(cut, val)

Empty == [set |-> {}, lb |-> 0, ub |-> 0, hint |-> NoInterval, elms |-> 0]

-----------------------------------------------------------------------------
\* What the structure is to represent: the elements, held in as few intervals as
\* possible, under exact bounds and with an exact count.
Represents(s, S) ==
  /\ S = UNION {j.lower .. j.upper : j \in s.set}
  /\ \A j \in s.set : j.lower <= j.upper
  /\ \A i, j \in s.set : i # j => i.upper + 1 < j.lower \/ j.upper + 1 < i.lower
  /\ s.elms = Cardinality(S)
  /\ S # {} => /\ s.lb \in S /\ s.ub \in S
               /\ \A x \in S : s.lb <= x /\ x <= s.ub
  /\ s.hint \in s.set \cup {NoInterval}
=============================================================================
