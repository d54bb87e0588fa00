---------------------------- MODULE TermDSProofs ----------------------------
(***************************************************************************)
(* Proofs that IndInv is inductive and that rooted detection implements    *)
(* the promise of termination detection, for any number of nodes, any root *)
(* and any amount of work.  The first half is about what the operations of *)
(* a detector record do to the record itself, the debts between nodes and  *)
(* the tree of parents; the second has a lemma for every action.           *)
(***************************************************************************)
EXTENDS TermDSInv, SequenceTheorems

Effects == [s : DSStates, acked : [Node -> Nat], disengaged : BOOLEAN, term : BOOLEAN]

\* Everything but what a handler's sender or local work may change.
SameButLocal(s, t) ==
  /\ t.outstanding = s.outstanding
  /\ t.parent = s.parent
  /\ t.C = s.C
  /\ t.ackedArbitrary = s.ackedArbitrary
  /\ t.ackedParent = s.ackedParent
  /\ t.reqedParent = s.reqedParent
  /\ t.processedSum = s.processedSum
  /\ t.engagementMessageCount = s.engagementMessageCount

-----------------------------------------------------------------------------
\* Records.

\* A new record is idle, or the root's.
LEMMA NewDSFacts ==
  ASSUME NEW n \in Node
  PROVE  /\ NewDS(n, FALSE) \in DSStates
         /\ Idle(NewDS(n, FALSE))
         /\ LocalLeft(NewDS(n, FALSE)) = 0
         /\ NewDS(n, TRUE) \in DSStates
         /\ NewDS(n, TRUE).lC = 0 /\ NewDS(n, TRUE).lD = 0
         /\ NewDS(n, TRUE).D = 0
         /\ n = RootNode => Rooting(n, NewDS(n, TRUE))
<1>1. << >> \in Seq(AckRequest)
  OBVIOUS
<1>2. [pred |-> n, count |-> 0] \in AckRequest
  BY Zenon DEF AckRequest
<1>3. <<[pred |-> n, count |-> 0]>> \in Seq(AckRequest)
  BY <1>2
<1> QED BY <1>1, <1>3 DEF NewDS, DSStates, Idle, Rooting, NoParent, LocalLeft

\* msgSent touches one of the two debts.
LEMMA MsgSentFacts ==
  ASSUME NEW n \in Node, NEW s \in DSStates, NEW m \in Node
  PROVE  /\ MsgSent(n, s, m) \in DSStates
         /\ SameButLocal(s, MsgSent(n, s, m))
         /\ MsgSent(n, s, m).lC = s.lC
         /\ m = n => MsgSent(n, s, m).lD = s.lD + 1 /\ MsgSent(n, s, m).D = s.D
         /\ m # n => MsgSent(n, s, m).lD = s.lD /\ MsgSent(n, s, m).D = s.D + 1
<1>1. CASE m = n
  <2> DEFINE t == [s EXCEPT !.lD = @ + 1]
  <2>1. MsgSent(n, s, m) = t
    BY Zenon, <1>1 DEF MsgSent
  <2>2. s.lD + 1 \in Nat
    BY DEF DSStates
  <2>3. t \in DSStates
    BY Zenon, <2>2 DEF DSStates
  <2>4. t.lC = s.lC /\ t.lD = s.lD + 1 /\ t.D = s.D /\ SameButLocal(s, t)
    BY Zenon DEF DSStates, SameButLocal
  <2> QED BY Zenon, <1>1, <2>1, <2>3, <2>4
<1>2. CASE m # n
  <2> DEFINE t == [s EXCEPT !.D = @ + 1]
  <2>1. MsgSent(n, s, m) = t
    BY Zenon, <1>2 DEF MsgSent
  <2>2. s.D + 1 \in Int
    BY DEF DSStates
  <2>3. t \in DSStates
    BY Zenon, <2>2 DEF DSStates
  <2>4. t.lC = s.lC /\ t.D = s.D + 1 /\ t.lD = s.lD /\ SameButLocal(s, t)
    BY Zenon DEF DSStates, SameButLocal
  <2> QED BY Zenon, <1>2, <2>1, <2>3, <2>4
<1> QED BY Zenon, <1>1, <1>2

\* An effect that has done nothing else.
LEMMA EffectFacts ==
  ASSUME NEW s \in DSStates
  PROVE  /\ Effect(s) \in Effects
         /\ Effect(s).s = s
         /\ Effect(s).disengaged = FALSE
         /\ Effect(s).term = FALSE
         /\ Effect(s).acked = [m \in Node |-> 0]
BY Zenon DEF Effect, Effects

\* The shape of a record does not depend on its debts.
LEMMA SameShape ==
  ASSUME NEW n \in Node, NEW s, NEW t, SameButLocal(s, t)
  PROVE  /\ Engaged(n, s) => Engaged(n, t)
         /\ Idle(s) /\ t.D = 0 => Idle(t)
BY Zenon DEF SameButLocal, Engaged, Rooting, Joined, Idle

\* tryLast does nothing unless its test holds.
LEMMA TryLastWaits ==
  ASSUME NEW n \in Node, NEW e, ~IsLast(e.s)
  PROVE  TryLast(n, e) = e
BY Zenon DEF TryLast

\* For an engaged record the test is that there is neither local work nor debt.
LEMMA IsLastMeans ==
  ASSUME NEW n \in Node, NEW s \in DSStates, Engaged(n, s)
  PROVE  IsLast(s) <=> s.lC = s.lD /\ s.D = 0
<1>1. Len(s.outstanding) = 1
  BY DEF Engaged, Rooting, Joined
<1>2. s.C = s.engagementMessageCount
  BY Zenon DEF Engaged, Rooting, Joined
<1>3. s.reqedParent \in Nat /\ s.ackedParent \in Nat
  BY Zenon DEF DSStates
<1>4. s.reqedParent - s.ackedParent = s.engagementMessageCount
  BY <1>3 DEF Engaged, Rooting, Joined
<1> QED BY Zenon, <1>1, <1>2, <1>4 DEF IsLast

\* Where it holds the node disengages: the root detects termination, another
\* node acknowledges its parent.
LEMMA TryLastDone ==
  ASSUME NEW n \in Node, NEW s \in DSStates, Engaged(n, s), IsLast(s)
  PROVE  /\ TryLast(n, Effect(s)) \in Effects
         /\ Idle(TryLast(n, Effect(s)).s)
         /\ TryLast(n, Effect(s)).s.lC = s.lC
         /\ TryLast(n, Effect(s)).s.lD = s.lD
         /\ TryLast(n, Effect(s)).disengaged = TRUE
         /\ TryLast(n, Effect(s)).term = (n = RootNode)
         /\ TryLast(n, Effect(s)).acked = [m \in Node |-> IF m = s.parent THEN 1 ELSE 0]
<1> DEFINE e == Effect(s)
           new == NewDS(n, FALSE)
           reset == [new EXCEPT !.D = s.D, !.lC = s.lC, !.lD = s.lD]
           done == [e EXCEPT !.s = reset, !.disengaged = TRUE]
<1>1. reset \in DSStates /\ Idle(reset) /\ reset.lC = s.lC /\ reset.lD = s.lD
  <2>1. s.D = 0
    BY Zenon DEF IsLast
  <2>2. s.lC \in Nat /\ s.lD \in Nat /\ s.D \in Int
    BY Zenon DEF DSStates
  <2>3. new \in DSStates /\ Idle(new)
    BY Zenon, NewDSFacts
  <2> HIDE DEF new
  <2>4. reset \in DSStates
    BY Zenon, <2>2, <2>3 DEF DSStates
  <2>5. reset.lC = s.lC /\ reset.lD = s.lD /\ Idle(reset)
    BY Zenon, <2>1, <2>3 DEF DSStates, Idle
  <2> QED BY Zenon, <2>4, <2>5
<1>2. /\ e \in Effects /\ e.s = s /\ e.disengaged = FALSE /\ e.term = FALSE
      /\ e.acked = [m \in Node |-> 0]
  BY Zenon, EffectFacts
<1>3. TryLast(n, e) = IF s.outstanding[1].pred = n THEN [done EXCEPT !.term = TRUE]
                      ELSE Acknowledge(done, s.parent, s.engagementMessageCount)
  <2>1. e.s = s /\ IsLast(s)
    BY Zenon, <1>2
  <2> HIDE DEF e
  <2> QED BY Zenon, <2>1 DEF TryLast
<1> HIDE DEF reset, e, new
<1>4. /\ done \in Effects /\ done.s = reset /\ done.disengaged = TRUE /\ done.term = FALSE
      /\ done.acked = [m \in Node |-> 0]
  BY Zenon, <1>1, <1>2 DEF Effects
<1> HIDE DEF done
<1>5. CASE Rooting(n, s)
  <2>1. s.outstanding[1].pred = n /\ n = RootNode
    BY <1>5 DEF Rooting
  <2>2. TryLast(n, e) = [done EXCEPT !.term = TRUE]
    BY Zenon, <2>1, <1>3
  <2>3. \A m \in Node : m # s.parent
    BY <1>5, NumNodesAssumption DEF Rooting, NoParent, Node
  <2>4. [m \in Node |-> 0] = [m \in Node |-> IF m = s.parent THEN 1 ELSE 0]
    BY Zenon, <2>3
  <2>5. /\ TryLast(n, e) \in Effects
        /\ TryLast(n, e).s = reset
        /\ TryLast(n, e).disengaged = TRUE
        /\ TryLast(n, e).term = TRUE
        /\ TryLast(n, e).acked = [m \in Node |-> 0]
    BY Zenon, <2>2, <1>4 DEF Effects
  <2> QED BY Zenon, <1>1, <2>1, <2>4, <2>5 DEF e
<1>6. CASE Joined(n, s)
  <2>1. s.outstanding[1].pred = s.parent /\ s.parent \in Node \ {n} /\ n # RootNode
    BY <1>6 DEF Joined
  <2>2. s.engagementMessageCount = 1
    BY Zenon, <1>6 DEF Joined
  <2> DEFINE more == [done.acked EXCEPT ![s.parent] = done.acked[s.parent] + 1]
  <2>3. TryLast(n, e) = Acknowledge(done, s.parent, 1)
    BY Zenon, <2>1, <2>2, <1>3
  <2>4. more = [m \in Node |-> IF m = s.parent THEN 1 ELSE 0]
    BY <2>1, <1>4
  <2>5. more \in [Node -> Nat]
    <3> HIDE DEF more
    <3> QED BY Zenon, <2>4
  <2>6. /\ TryLast(n, e) \in Effects
        /\ TryLast(n, e).s = reset
        /\ TryLast(n, e).disengaged = TRUE
        /\ TryLast(n, e).term = FALSE
        /\ TryLast(n, e).acked = more
    BY Zenon, <2>3, <2>5, <1>4 DEF Effects, Acknowledge
  <2> QED BY Zenon, <1>1, <2>1, <2>4, <2>6 DEF e
<1> QED BY Zenon, <1>5, <1>6 DEF Engaged

-----------------------------------------------------------------------------
\* What consuming does, by who sent and whether the node is engaged.

\* Appending to a list of one element and removing the last again.
LEMMA ListFacts ==
  ASSUME NEW T, NEW o \in Seq(T), NEW b \in T, Len(o) = 1
  PROVE  /\ Append(o, b) \in Seq(T)
         /\ Len(Append(o, b)) = 2
         /\ Append(o, b)[2] = b
         /\ SubSeq(Append(o, b), 1, 1) = o
<1> DEFINE p == Append(o, b)
<1>1. p \in Seq(T) /\ Len(p) = 2 /\ p[2] = b /\ p[1] = o[1]
  OBVIOUS
<1>2. o[1] \in T
  <2>1. 1 \in 1 .. Len(o)
    OBVIOUS
  <2> QED BY Zenon, <2>1, ElementOfSeq
<1> HIDE DEF p
<1>3. \A i \in 1 .. 1 : p[i] \in T
  BY <1>1, <1>2
<1>4. SubSeq(p, 1, 1) \in Seq(T) /\ Len(SubSeq(p, 1, 1)) = 1 /\ SubSeq(p, 1, 1)[1] = p[1]
  BY <1>3, SubSeqProperties
<1>5. SubSeq(p, 1, 1) = o
  BY <1>1, <1>4, SeqEqual
<1> QED BY Zenon, <1>1, <1>5 DEF p

\* An engaged record has its first entry.
LEMMA EngagedHas ==
  ASSUME NEW n \in Node, NEW s, Engaged(n, s)
  PROVE  Len(s.outstanding) = 1 /\ s.outstanding # << >>
<1>1. \A x : Len(<<x>>) = 1 /\ <<x>> # << >>
  BY Zenon
<1>2. \E x : s.outstanding = <<x>>
  BY Zenon DEF Engaged, Rooting, Joined
<1> QED BY Zenon, <1>1, <1>2

\* A node is never its own parent.
LEMMA NotOwnParent ==
  ASSUME NEW n \in Node, NEW s, Engaged(n, s)
  PROVE  n # s.parent
BY NumNodesAssumption DEF Engaged, Rooting, Joined, NoParent, Node

\* The end of a local unit on an engaged node counts it and tries to disengage.
LEMMA ProcessedLocal ==
  ASSUME NEW n \in Node, NEW s \in DSStates, Engaged(n, s)
  PROVE  \E t \in DSStates :
           /\ MsgProcessed(n, s, n) = TryLast(n, Effect(t))
           /\ SameButLocal(s, t)
           /\ t.lC = s.lC + 1
           /\ t.lD = s.lD
           /\ t.D = s.D
<1> DEFINE t == [s EXCEPT !.lC = @ + 1]
<1>1. s.lC + 1 \in Nat
  BY DEF DSStates
<1>2. t \in DSStates
  BY Zenon, <1>1 DEF DSStates
<1>3. t.lD = s.lD /\ t.lC = s.lC + 1 /\ t.D = s.D /\ SameButLocal(s, t)
  BY Zenon DEF DSStates, SameButLocal
<1>4. n # t.parent
  BY Zenon, <1>3, NotOwnParent DEF SameButLocal
<1>5. Len(t.outstanding) = 1
  BY <1>3 DEF SameButLocal, Engaged, Rooting, Joined
<1>6. MsgProcessed(n, s, n) = TryLast(n, TryAck(t))
  BY Zenon, <1>4 DEF MsgProcessed
<1> HIDE DEF t
<1>7. TryAck(t) = Effect(t)
  BY <1>5 DEF TryAck
<1> QED BY Zenon, <1>2, <1>3, <1>6, <1>7

\* An acknowledgement on an engaged node pays a debt and tries to disengage.
LEMMA AckPays ==
  ASSUME NEW n \in Node, NEW s \in DSStates, Engaged(n, s)
  PROVE  \E t \in DSStates :
           /\ GotAck(n, s) = TryLast(n, Effect(t))
           /\ SameButLocal(s, t)
           /\ t.lC = s.lC
           /\ t.lD = s.lD
           /\ t.D = s.D - 1
<1> DEFINE t == [s EXCEPT !.D = @ - 1]
<1>1. s.D - 1 \in Int
  BY DEF DSStates
<1>2. t \in DSStates
  BY Zenon, <1>1 DEF DSStates
<1>3. t.lD = s.lD /\ t.lC = s.lC /\ t.D = s.D - 1 /\ SameButLocal(s, t)
  BY Zenon DEF DSStates, SameButLocal
<1> QED BY Zenon, <1>2, <1>3 DEF GotAck

\* A message that reaches a node with no engagement, which has just enqueued its
\* runnable: the node engages with the sender and acknowledges nothing yet.
Fresh(n, s, a) == a # n /\ n # RootNode /\ Idle(s) /\ s.lC < s.lD

Engages(n, s, a, e) ==
  /\ e \in Effects
  /\ Joined(n, e.s)
  /\ e.s.parent = a
  /\ e.s.lC = s.lC /\ e.s.lD = s.lD /\ e.s.D = s.D
  /\ e.acked = [m \in Node |-> 0]
  /\ e.disengaged = FALSE /\ e.term = FALSE

LEMMA ProcessedFirst ==
  ASSUME NEW n \in Node, NEW s \in DSStates, NEW a \in Node, Fresh(n, s, a)
  PROVE  Engages(n, s, a, MsgProcessed(n, s, a))
<1> DEFINE req == [pred |-> a, count |-> 1]
           s1 == [s EXCEPT !.C = @ + 1, !.processedSum = @ + 1]
           s2 == [s1 EXCEPT !.parent = a, !.engagementMessageCount = 1, !.outstanding = <<req>>]
           s3 == [s2 EXCEPT !.reqedParent = @ + 1]
<1>0. a # n /\ n # RootNode /\ Idle(s) /\ s.lC < s.lD
  BY Zenon DEF Fresh
<1>1. req \in AckRequest /\ <<req>> \in Seq(AckRequest)
  BY DEF AckRequest
<1>2. s.C = 0 /\ s.processedSum = 0 /\ s.reqedParent = 0
  BY Zenon, <1>0 DEF Idle
<1>3. s1 \in DSStates /\ s1.outstanding = << >> /\ s1.C = 1 /\ s1.processedSum = 1
  <2>1. s.C + 1 \in Int /\ s.processedSum + 1 \in Nat
    BY <1>2
  <2>2. s1 \in DSStates
    BY Zenon, <1>0, <2>1 DEF DSStates
  <2>3. s1.outstanding = << >> /\ s1.C = s.C + 1 /\ s1.processedSum = s.processedSum + 1
    BY Zenon, <1>0 DEF DSStates, Idle
  <2>4. s.C + 1 = 1 /\ s.processedSum + 1 = 1
    BY <1>2
  <2> QED BY Zenon, <2>2, <2>3, <2>4
<1>4. /\ s1.ackedArbitrary = 0 /\ s1.ackedParent = 0 /\ s1.reqedParent = 0
      /\ s1.lC = s.lC /\ s1.lD = s.lD /\ s1.D = s.D
  BY Zenon, <1>0 DEF DSStates, Idle
<1>5. Requested(s1, a) = s2
  BY Zenon, <1>3 DEF Requested
<1>6. MsgProcessed(n, s, a)
        = TryLast(n, TryAck(IF a = s2.parent THEN s3 ELSE s2))
  BY Zenon, <1>0, <1>5 DEF MsgProcessed
<1> HIDE DEF s1, req
<1>7. s2 \in DSStates
  BY Zenon, <1>1, <1>3 DEF DSStates
<1>8. /\ s2.parent = a /\ s2.engagementMessageCount = 1 /\ s2.outstanding = <<req>>
      /\ s2.C = 1 /\ s2.processedSum = 1
      /\ s2.ackedArbitrary = 0 /\ s2.ackedParent = 0 /\ s2.reqedParent = 0
      /\ s2.lC = s.lC /\ s2.lD = s.lD /\ s2.D = s.D
  BY Zenon, <1>3, <1>4 DEF DSStates
<1> HIDE DEF s2
<1>9. s3 \in DSStates
  BY SMTT(30), <1>7, <1>8 DEF DSStates
<1>10. /\ s3.parent = a /\ s3.engagementMessageCount = 1 /\ s3.outstanding = <<req>>
       /\ s3.C = 1 /\ s3.processedSum = 1
       /\ s3.ackedArbitrary = 0 /\ s3.ackedParent = 0 /\ s3.reqedParent = 1
       /\ s3.lC = s.lC /\ s3.lD = s.lD /\ s3.D = s.D
  BY <1>7, <1>8 DEF DSStates
<1> HIDE DEF s3
<1>11. TryAck(s3) = Effect(s3)
  BY <1>10 DEF TryAck
<1>12. s.lC \in Nat /\ s.lD \in Nat
  BY Zenon, <1>0 DEF DSStates
<1>13. ~IsLast(s3)
  BY <1>0, <1>10, <1>12 DEF IsLast
<1>14. MsgProcessed(n, s, a) = Effect(s3)
  <2>1. Effect(s3).s = s3
    BY Zenon, <1>9, EffectFacts
  <2>2. TryLast(n, Effect(s3)) = Effect(s3)
    BY Zenon, <1>13, <2>1, TryLastWaits
  <2> QED BY Zenon, <1>6, <1>8, <1>11, <2>2
<1>15. Joined(n, s3)
  BY <1>0, <1>10 DEF Joined, req
<1>16. /\ Effect(s3) \in Effects /\ Effect(s3).s = s3 /\ Effect(s3).disengaged = FALSE
       /\ Effect(s3).term = FALSE /\ Effect(s3).acked = [m \in Node |-> 0]
  BY Zenon, <1>9, EffectFacts
<1> QED BY Zenon, <1>10, <1>14, <1>15, <1>16 DEF Engages

\* A further message to an engaged node is acknowledged at once, and changes
\* nothing else that matters.
Acknowledges(n, s, a, e) ==
  /\ e \in Effects
  /\ Engaged(n, e.s)
  /\ e.s.parent = s.parent
  /\ e.s.outstanding = s.outstanding
  /\ e.s.lC = s.lC /\ e.s.lD = s.lD /\ e.s.D = s.D
  /\ e.acked = [m \in Node |-> IF m = a THEN 1 ELSE 0]
  /\ e.disengaged = FALSE /\ e.term = FALSE

LEMMA ProcessedFurther ==
  ASSUME NEW n \in Node, NEW s \in DSStates, NEW a \in Node, a # n,
         Engaged(n, s), s.lC < s.lD
  PROVE  Acknowledges(n, s, a, MsgProcessed(n, s, a))
<1> DEFINE req == [pred |-> a, count |-> 1]
           o == s.outstanding
           asks == a = s.parent
           s1 == [s EXCEPT !.C = @ + 1, !.processedSum = @ + 1]
           s2 == [s1 EXCEPT !.outstanding = Append(o, req)]
           s3 == IF asks THEN [s2 EXCEPT !.reqedParent = @ + 1] ELSE s2
           popped == [s3 EXCEPT !.C = @ - 1, !.outstanding = o]
           s4 == IF asks THEN [popped EXCEPT !.ackedParent = @ + 1]
                 ELSE [popped EXCEPT !.ackedArbitrary = @ + 1]
<1>1. req \in AckRequest /\ req.pred = a /\ req.count = 1
  BY Zenon DEF AckRequest
<1>2. o \in Seq(AckRequest) /\ Len(o) = 1 /\ o # << >>
  BY Zenon, EngagedHas DEF DSStates
<1>3. /\ s.C \in Nat /\ s.processedSum \in Nat /\ s.reqedParent \in Nat
      /\ s.ackedParent \in Nat /\ s.ackedArbitrary \in Nat /\ s.lC \in Nat /\ s.lD \in Nat
  BY Zenon DEF DSStates, Engaged, Rooting, Joined
<1>4. s1 \in DSStates
  <2>1. s.C + 1 \in Int /\ s.processedSum + 1 \in Nat
    BY <1>3
  <2> QED BY Zenon, <2>1 DEF DSStates
<1>5. /\ s1.outstanding = o /\ s1.C = s.C + 1 /\ s1.processedSum = s.processedSum + 1
      /\ s1.parent = s.parent /\ s1.engagementMessageCount = s.engagementMessageCount
      /\ s1.reqedParent = s.reqedParent /\ s1.ackedParent = s.ackedParent
      /\ s1.ackedArbitrary = s.ackedArbitrary
      /\ s1.lC = s.lC /\ s1.lD = s.lD /\ s1.D = s.D
  BY Zenon DEF DSStates
<1>6. Requested(s1, a) = s2
  <2>1. {i \in 2 .. Len(o) : o[i].pred = a} = {}
    BY <1>2
  <2> HIDE DEF s1, o
  <2> QED BY Zenon, <2>1, <1>2, <1>5 DEF Requested
<1>7. MsgProcessed(n, s, a)
        = TryLast(n, TryAck(IF a = s2.parent THEN [s2 EXCEPT !.reqedParent = @ + 1] ELSE s2))
  <2> HIDE DEF s2
  <2> QED BY Zenon, <1>6 DEF MsgProcessed
<1>8. /\ Append(o, req) \in Seq(AckRequest) /\ Len(Append(o, req)) = 2
      /\ Append(o, req)[2] = req /\ SubSeq(Append(o, req), 1, 1) = o
  BY <1>1, <1>2, ListFacts
<1> HIDE DEF s1, req, o
<1>9. s2 \in DSStates
  BY Zenon, <1>4, <1>8 DEF DSStates
<1>10. /\ s2.outstanding = Append(o, req) /\ s2.C = s.C + 1
       /\ s2.processedSum = s.processedSum + 1
       /\ s2.parent = s.parent /\ s2.engagementMessageCount = s.engagementMessageCount
       /\ s2.reqedParent = s.reqedParent /\ s2.ackedParent = s.ackedParent
       /\ s2.ackedArbitrary = s.ackedArbitrary
       /\ s2.lC = s.lC /\ s2.lD = s.lD /\ s2.D = s.D
  BY Zenon, <1>4, <1>5 DEF DSStates
<1> HIDE DEF s2
<1>11. s3 \in DSStates
  <2>1. s.reqedParent + 1 \in Nat
    BY <1>3
  <2> QED BY Zenon, <1>9, <1>10, <2>1 DEF DSStates
<1>12. /\ s3.outstanding = Append(o, req) /\ s3.C = s.C + 1
       /\ s3.processedSum = s.processedSum + 1
       /\ s3.parent = s.parent /\ s3.engagementMessageCount = s.engagementMessageCount
       /\ s3.reqedParent = s.reqedParent + (IF asks THEN 1 ELSE 0)
       /\ s3.ackedParent = s.ackedParent
       /\ s3.ackedArbitrary = s.ackedArbitrary
       /\ s3.lC = s.lC /\ s3.lD = s.lD /\ s3.D = s.D
  BY SMTT(30), <1>3, <1>9, <1>10 DEF DSStates
<1>13. MsgProcessed(n, s, a) = TryLast(n, TryAck(s3))
  BY Zenon, <1>7, <1>10
<1> HIDE DEF s3
<1>14. popped \in DSStates
  <2>1. s3.C - 1 \in Int
    BY <1>3, <1>12
  <2> QED BY Zenon, <1>2, <1>11, <2>1 DEF DSStates
<1>15. /\ popped.outstanding = o /\ popped.C = s.C
       /\ popped.processedSum = s.processedSum + 1
       /\ popped.parent = s.parent
       /\ popped.engagementMessageCount = s.engagementMessageCount
       /\ popped.reqedParent = s.reqedParent + (IF asks THEN 1 ELSE 0)
       /\ popped.ackedParent = s.ackedParent
       /\ popped.ackedArbitrary = s.ackedArbitrary
       /\ popped.lC = s.lC /\ popped.lD = s.lD /\ popped.D = s.D
  <2>1. s3.C - 1 = s.C
    BY <1>3, <1>12
  <2> QED BY Zenon, <1>11, <1>12, <2>1 DEF DSStates
<1>16. TryAck(s3) = Acknowledge(Effect(s4), a, 1)
  <2>1. Len(s3.outstanding) = 2 /\ s3.outstanding[2] = req
    BY Zenon, <1>8, <1>12
  <2>2. ~(s3.C < 1)
    BY <1>3, <1>12
  <2> DEFINE last == s3.outstanding[Len(s3.outstanding)]
             pop == [s3 EXCEPT !.C = @ - last.count,
                               !.outstanding = SubSeq(@, 1, Len(@) - 1)]
  <2>3. last = req /\ SubSeq(s3.outstanding, 1, Len(s3.outstanding) - 1) = o
    BY <1>8, <1>12, <2>1
  <2>4. ~(Len(s3.outstanding) <= 1 \/ s3.C < last.count)
    BY <1>1, <2>1, <2>2, <2>3
  <2>5. TryAck(s3) = Acknowledge(Effect(IF last.pred = s3.parent
                                        THEN [pop EXCEPT !.ackedParent = @ + last.count]
                                        ELSE [pop EXCEPT !.ackedArbitrary = @ + last.count]),
                                 last.pred, last.count)
    BY Zenon, <2>4 DEF TryAck
  <2>6. pop = popped
    BY Zenon, <1>1, <2>3
  <2>7. last.pred = a /\ last.count = 1 /\ (a = s3.parent <=> asks)
    BY Zenon, <1>1, <1>12, <2>3
  <2> HIDE DEF pop, popped, last, asks
  <2> QED BY Zenon, <2>5, <2>6, <2>7
<1> HIDE DEF popped
<1>17. s4 \in DSStates
  <2>1. s.ackedParent + 1 \in Nat /\ s.ackedArbitrary + 1 \in Nat
    BY <1>3
  <2> QED BY Zenon, <1>14, <1>15, <2>1 DEF DSStates
<1>18. /\ s4.outstanding = o /\ s4.C = s.C
       /\ s4.processedSum = s.processedSum + 1
       /\ s4.parent = s.parent
       /\ s4.engagementMessageCount = s.engagementMessageCount
       /\ s4.reqedParent = s.reqedParent + (IF asks THEN 1 ELSE 0)
       /\ s4.ackedParent = s.ackedParent + (IF asks THEN 1 ELSE 0)
       /\ s4.ackedArbitrary = s.ackedArbitrary + (IF asks THEN 0 ELSE 1)
       /\ s4.lC = s.lC /\ s4.lD = s.lD /\ s4.D = s.D
  BY <1>3, <1>14, <1>15 DEF DSStates
<1> HIDE DEF s4
<1>19. Engaged(n, s4)
  <2>1. CASE Rooting(n, s)
    <3>1. ~asks
      BY <2>1, NumNodesAssumption DEF Rooting, NoParent, Node
    <3> QED BY <2>1, <3>1, <1>3, <1>18 DEF Rooting, Engaged, o
  <2>2. CASE Joined(n, s)
    <3>1. s4.outstanding = <<[pred |-> s4.parent, count |-> 1]>>
      BY Zenon, <2>2, <1>18 DEF Joined, o
    <3>2. s4.reqedParent = s4.ackedParent + 1
      BY <2>2, <1>3, <1>18 DEF Joined
    <3>3. s4.processedSum = s4.ackedArbitrary + s4.ackedParent + 1
      BY <2>2, <1>3, <1>18 DEF Joined
    <3> QED BY Zenon, <2>2, <3>1, <3>2, <3>3, <1>18 DEF Joined, Engaged
  <2> QED BY Zenon, <2>1, <2>2 DEF Engaged
<1> DEFINE e == Effect(s4)
           e2 == Acknowledge(e, a, 1)
           more == [e.acked EXCEPT ![a] = e.acked[a] + 1]
<1>20. /\ e \in Effects /\ e.s = s4 /\ e.disengaged = FALSE /\ e.term = FALSE
       /\ e.acked = [m \in Node |-> 0]
  BY Zenon, <1>17, EffectFacts
<1> HIDE DEF e
<1>21. more = [m \in Node |-> IF m = a THEN 1 ELSE 0]
  BY <1>20
<1>22. more \in [Node -> Nat]
  <2> HIDE DEF more
  <2> QED BY Zenon, <1>21
<1>23. /\ e2 \in Effects /\ e2.s = s4 /\ e2.disengaged = FALSE /\ e2.term = FALSE
       /\ e2.acked = more
  BY Zenon, <1>20, <1>22 DEF Effects, Acknowledge
<1> HIDE DEF e2, more
<1>24. ~IsLast(e2.s)
  BY <1>23, <1>18, <1>3 DEF IsLast
<1>25. MsgProcessed(n, s, a) = e2
  BY Zenon, <1>13, <1>16, <1>24, TryLastWaits DEF e, e2
<1> QED BY Zenon, <1>18, <1>19, <1>21, <1>23, <1>25 DEF o, Acknowledges

\* How handlers that consume a local unit or an acknowledgement end.
Ends(n, e) ==
  /\ n = RootNode => (e.term <=> e.disengaged) /\ (e.term <=> e.s.outstanding = << >>)
  /\ n # RootNode => ~e.term

\* After tryLast an engaged record either waits on, as it was, or is idle.
LEMMA TryLastFacts ==
  ASSUME NEW n \in Node, NEW t \in DSStates, Engaged(n, t), t.lC <= t.lD
  PROVE  LET e == TryLast(n, Effect(t))
         IN /\ e \in Effects
            /\ Ends(n, e)
            /\ Shape(n, e.s)
            /\ e.s.lC = t.lC /\ e.s.lD = t.lD /\ e.s.D = t.D
            /\ \/ e.s.parent = t.parent /\ e.acked = [m \in Node |-> 0]
               \/ /\ e.s.parent = NoParent
                  /\ e.acked = [m \in Node |-> IF m = t.parent THEN 1 ELSE 0]
<1> DEFINE e == TryLast(n, Effect(t))
<1>1. t.lC \in Nat /\ t.lD \in Nat /\ t.D \in Int
  BY Zenon DEF DSStates
<1>2. CASE IsLast(t)
  <2>1. /\ e \in Effects /\ Idle(e.s) /\ e.s.lC = t.lC /\ e.s.lD = t.lD
        /\ e.disengaged = TRUE /\ e.term = (n = RootNode)
        /\ e.acked = [m \in Node |-> IF m = t.parent THEN 1 ELSE 0]
    BY Zenon, <1>2, TryLastDone
  <2>2. t.lC = t.lD /\ t.D = 0
    BY Zenon, <1>2, IsLastMeans
  <2> HIDE DEF e
  <2>4. LocalLeft(e.s) = 0
    BY <1>1, <2>1, <2>2 DEF LocalLeft
  <2>5. Shape(n, e.s)
    BY Zenon, <2>1, <2>4 DEF Shape
  <2>6. Ends(n, e)
    BY Zenon, <2>1 DEF Ends, Idle
  <2>7. e.s.D = t.D /\ e.s.parent = NoParent
    BY Zenon, <2>1, <2>2 DEF Idle
  <2> QED BY Zenon, <2>1, <2>5, <2>6, <2>7 DEF e
<1>3. CASE ~IsLast(t)
  <2>1. Effect(t).s = t
    BY Zenon, EffectFacts
  <2>2. e = Effect(t)
    BY Zenon, <1>3, <2>1, TryLastWaits
  <2>3. /\ e \in Effects /\ e.s = t /\ e.disengaged = FALSE /\ e.term = FALSE
        /\ e.acked = [m \in Node |-> 0]
    BY Zenon, <2>2, EffectFacts
  <2>4. ~(t.lC = t.lD /\ t.D = 0)
    BY Zenon, <1>3, IsLastMeans
  <2>5. LocalLeft(t) > 0 \/ (LocalLeft(t) = 0 /\ t.D # 0)
    BY <1>1, <2>4 DEF LocalLeft
  <2> HIDE DEF e
  <2>6. t.outstanding # << >>
    BY Zenon, EngagedHas
  <2>7. Ends(n, e)
    BY Zenon, <2>3, <2>6 DEF Ends
  <2>8. Shape(n, e.s)
    BY Zenon, <2>3, <2>5 DEF Shape
  <2> QED BY Zenon, <2>3, <2>7, <2>8 DEF e
<1> QED BY Zenon, <1>2, <1>3

-----------------------------------------------------------------------------
\* Debts and the engagement tree.

\* What a node waits for from each node is a natural number.
LEMMA OwedByType ==
  ASSUME TypeOK, NEW k \in Node
  PROVE  /\ OwedBy(net, ds, k) \in [Node -> Int]
         /\ \A m \in Node : OwedBy(net, ds, k)[m] >= 0
         /\ \A m \in Node : OwedBy(net, ds, k)[m]
                              = net[k][m] + (IF ds[m].parent = k THEN 1 ELSE 0)
         /\ NodeSum(OwedBy(net, ds, k)) \in Int
         /\ acks[k] \in Nat
<1>1. \A m \in Node : net[k][m] \in Nat
  BY Zenon DEF TypeOK
<1>2. OwedBy(net, ds, k) \in [Node -> Int]
  BY <1>1 DEF OwedBy
<1>3. \A m \in Node : OwedBy(net, ds, k)[m] = net[k][m] + (IF ds[m].parent = k THEN 1 ELSE 0)
  BY Zenon DEF OwedBy
<1>4. \A m \in Node : OwedBy(net, ds, k)[m] >= 0
  BY <1>1, <1>3
<1>5. NodeSum(OwedBy(net, ds, k)) \in Int
  BY Zenon, <1>2, NodeSumInt
<1>6. acks[k] \in Nat
  BY Zenon DEF TypeOK
<1> QED BY Zenon, <1>2, <1>3, <1>4, <1>5, <1>6

\* A debt covers each thing it stands for.
LEMMA DebtCovers ==
  ASSUME TypeOK, Debts, NEW k \in Node
  PROVE  /\ ds[k].D \in Nat
         /\ ds[k].D >= acks[k]
         /\ \A m \in Node : ds[k].D >= net[k][m]
         /\ \A m \in Node : ds[m].parent = k => ds[k].D >= 1
<1> DEFINE f == OwedBy(net, ds, k)
<1>1. ds[k].D = acks[k] + NodeSum(f)
  BY Zenon DEF Debts, Owed
<1>2. f \in [Node -> Int] /\ \A m \in Node : f[m] >= 0
  BY Zenon, OwedByType
<1>3. \A m \in Node : f[m] = net[k][m] + (IF ds[m].parent = k THEN 1 ELSE 0)
  BY Zenon, OwedByType
<1>4. acks[k] \in Nat /\ NodeSum(f) \in Int
  BY Zenon, OwedByType
<1> HIDE DEF f
<1>5. NodeSum(f) >= 0 /\ \A m \in Node : NodeSum(f) >= f[m]
  BY Zenon, <1>2, NodeSumNat
<1>6. \A m \in Node : net[k][m] \in Nat
  BY Zenon DEF TypeOK
<1>7. \A m \in Node : NodeSum(f) >= net[k][m] /\ (ds[m].parent = k => NodeSum(f) >= 1)
  <2> TAKE m \in Node
  <2>1. NodeSum(f) >= f[m] /\ f[m] = net[k][m] + (IF ds[m].parent = k THEN 1 ELSE 0)
    BY Zenon, <1>3, <1>5
  <2>2. net[k][m] \in Nat
    BY Zenon, <1>6
  <2> QED BY <2>1, <2>2, <1>4
<1> QED
  <2>1. ds[k].D \in Nat /\ ds[k].D >= acks[k] /\ ds[k].D >= NodeSum(f)
    BY <1>1, <1>4, <1>5
  <2>2. \A m \in Node : ds[k].D >= net[k][m]
    BY <2>1, <1>4, <1>6, <1>7
  <2>3. \A m \in Node : ds[m].parent = k => ds[k].D >= 1
    BY <2>1, <1>4, <1>7
  <2> QED BY Zenon, <2>1, <2>2, <2>3

\* A debt that nothing touches stays.
LEMMA OwedSame ==
  ASSUME NEW k \in Node, acks'[k] = acks[k],
         \A m \in Node : net'[k][m] = net[k][m] /\ (ds'[m].parent = k <=> ds[m].parent = k)
  PROVE  Owed(net', ds', acks', k) = Owed(net, ds, acks, k)
<1>1. OwedBy(net', ds', k) = OwedBy(net, ds, k)
  BY Zenon DEF OwedBy
<1> QED BY Zenon, <1>1 DEF Owed

\* A debt changes by what changes of one node's share and of acknowledgements.
LEMMA OwedChange ==
  ASSUME TypeOK, TypeOK', NEW k \in Node, NEW i \in Node,
         \A m \in Node \ {i} :
           net'[k][m] = net[k][m] /\ (ds'[m].parent = k <=> ds[m].parent = k)
  PROVE  Owed(net', ds', acks', k)
           = Owed(net, ds, acks, k)
             + (acks'[k] + net'[k][i] + (IF ds'[i].parent = k THEN 1 ELSE 0))
             - (acks[k] + net[k][i] + (IF ds[i].parent = k THEN 1 ELSE 0))
<1> DEFINE f == OwedBy(net, ds, k)
           g == OwedBy(net', ds', k)
<1>1. f \in [Node -> Int] /\ NodeSum(f) \in Int
  BY Zenon, OwedByType
<1>2. acks[k] \in Nat /\ acks'[k] \in Nat /\ net[k][i] \in Nat /\ net'[k][i] \in Nat
  BY DEF TypeOK
<1>3. g \in [Node -> Int]
  <2>1. \A m \in Node : net'[k][m] \in Nat
    BY DEF TypeOK
  <2> QED BY <2>1 DEF OwedBy
<1>4. \A m \in Node \ {i} : g[m] = f[m]
  BY Zenon DEF OwedBy
<1>5. /\ f[i] = net[k][i] + (IF ds[i].parent = k THEN 1 ELSE 0)
      /\ g[i] = net'[k][i] + (IF ds'[i].parent = k THEN 1 ELSE 0)
  BY Zenon DEF OwedBy
<1>6. /\ Owed(net, ds, acks, k) = acks[k] + NodeSum(f)
      /\ Owed(net', ds', acks', k) = acks'[k] + NodeSum(g)
  BY Zenon DEF Owed
<1> HIDE DEF f, g
<1>7. NodeSum(g) = NodeSum(f) + g[i] - f[i]
  BY Zenon, <1>1, <1>3, <1>4, NodeSumUpdate
<1> QED BY <1>1, <1>2, <1>5, <1>6, <1>7

\* Work or a debt keeps a node engaged.
LEMMA BusyEngaged ==
  ASSUME IndInv, NEW n \in Node, Local(n) > 0 \/ ds[n].D > 0
  PROVE  Engaged(n, ds[n])
<1>1. LocalLeft(ds[n]) = Local(n) /\ Shape(n, ds[n])
  BY Zenon DEF IndInv, LocalWork, Shapes
<1>2. ~(Idle(ds[n]) /\ LocalLeft(ds[n]) = 0)
  BY <1>1 DEF Idle
<1> QED BY Zenon, <1>1, <1>2 DEF Shape

\* If the root is not engaged then no node is, and the epoch has no work: the
\* engaged nodes have one whose parent is not among them, and the debt of that
\* parent would keep it engaged.
LEMMA RootIdle ==
  ASSUME IndInv, ds[RootNode].outstanding = << >>
  PROVE  \A n \in Node : /\ Idle(ds[n])
                         /\ Local(n) = 0
                         /\ acks[n] = 0
                         /\ \A m \in Node : net[n][m] = 0
<1>1. TypeOK /\ Debts /\ Hanging(ds) /\ Shapes /\ LocalWork
  BY Zenon DEF IndInv
<1> DEFINE S == {n \in Node : Engaged(n, ds[n])}
<1>2. RootNode \notin S
  BY Zenon, EngagedHas
<1>3. \A n \in S : Joined(n, ds[n]) /\ ds[n].parent \in Node
  BY Zenon, <1>2 DEF Engaged, Rooting, Joined
<1>4. \A n \in S : ds[n].parent # NoParent
  BY <1>3, NumNodesAssumption DEF NoParent, Node
<1>5. \A n \in S : ds[n].parent \in S
  <2> TAKE n \in S
  <2> DEFINE p == ds[n].parent
  <2>1. p \in Node /\ n \in Node
    BY Zenon, <1>3
  <2>2. ds[p].D >= 1 /\ ds[p].D \in Nat
    BY Zenon, <1>1, <2>1, DebtCovers
  <2>3. ds[p].D > 0
    BY <2>2
  <2> QED BY Zenon, <2>1, <2>3, BusyEngaged
<1>6. S = {}
  BY Zenon, <1>1, <1>4, <1>5 DEF Hanging
<1> TAKE n \in Node
<1>7. Idle(ds[n]) /\ LocalLeft(ds[n]) = 0
  BY Zenon, <1>1, <1>6 DEF Shapes, Shape
<1>8. ds[n].D = 0
  BY Zenon, <1>7 DEF Idle
<1>9. acks[n] \in Nat /\ \A m \in Node : net[n][m] \in Nat
  BY Zenon, <1>1 DEF TypeOK
<1>10. ds[n].D >= acks[n] /\ \A m \in Node : ds[n].D >= net[n][m]
  BY Zenon, <1>1, DebtCovers
<1>11. acks[n] = 0 /\ \A m \in Node : net[n][m] = 0
  BY <1>8, <1>9, <1>10
<1>12. Local(n) = 0
  BY Zenon, <1>1, <1>7 DEF LocalWork
<1> QED BY Zenon, <1>7, <1>11, <1>12

\* The tree loses a leaf or changes nowhere.
LEMMA HangingLess ==
  ASSUME Hanging(ds), \A m \in Node : ds'[m].parent = ds[m].parent \/ ds'[m].parent = NoParent
  PROVE  Hanging(ds')
BY Zenon DEF Hanging

\* A node nobody engaged with may engage with another node.
LEMMA HangingMore ==
  ASSUME Hanging(ds), NEW n \in Node, NEW a \in Node, a # n, ds'[n].parent = a,
         \A m \in Node \ {n} : ds'[m].parent = ds[m].parent,
         \A m \in Node : ds[m].parent # n
  PROVE  Hanging(ds')
<1> SUFFICES ASSUME NEW S \in SUBSET Node, S # {},
                    \A m \in S : ds'[m].parent # NoParent
             PROVE  \E m \in S : ds'[m].parent \notin S
  BY Zenon DEF Hanging
<1> DEFINE T == S \ {n}
<1>1. CASE T = {}
  <2>1. n \in S /\ a \notin S
    BY Zenon, <1>1
  <2> QED BY Zenon, <2>1
<1>2. CASE T # {}
  <2>1. T \in SUBSET Node /\ \A m \in T : ds[m].parent # NoParent
    BY Zenon
  <2>2. \E m \in T : ds[m].parent \notin T
    BY Zenon, <1>2, <2>1 DEF Hanging
  <2>3. PICK m \in T : ds[m].parent \notin T
    BY Zenon, <2>2
  <2>4. ds'[m].parent = ds[m].parent /\ ds[m].parent # n
    BY Zenon, <2>3
  <2> QED BY Zenon, <2>3, <2>4
<1> QED BY Zenon, <1>1, <1>2

-----------------------------------------------------------------------------
\* Handlers.

\* The record a handler finds is the node's record.
LEMMA Finds ==
  ASSUME IndInv, NEW n \in Node
  PROVE  GetDSTerm(n) = ds[n] /\ ds[n] \in DSStates
BY Zenon DEF GetDSTerm, IndInv, LifeCycle, TypeOK

\* What a handler on n leaves, if it leaves that node's record in shape.
LEMMA CommitType ==
  ASSUME TypeOK, NEW n \in Node, NEW e \in Effects, NEW r \in {0, 1}, acks[n] >= r,
         Commit(n, e, r)
  PROVE  /\ known' \subseteq Node
         /\ ds' \in [Node -> DSStates]
         /\ acks' \in [Node -> Nat]
         /\ checks' \in [Node -> Nat]
         /\ terminated' \in BOOLEAN
         /\ cleanup' \in BOOLEAN
         /\ ds'[n] = e.s
         /\ \A m \in Node \ {n} : ds'[m] = ds[m]
         /\ \A m \in Node : acks'[m] = acks[m] + e.acked[m] - (IF m = n THEN r ELSE 0)
         /\ \A m \in Node \ {n} : checks'[m] = checks[m]
<1>1. e.s \in DSStates /\ e.acked \in [Node -> Nat] /\ e.disengaged \in BOOLEAN /\ e.term \in BOOLEAN
  BY Zenon DEF Effects
<1>2. known' \subseteq Node
  BY Zenon DEF Commit, TypeOK
<1>3. ds' \in [Node -> DSStates] /\ ds'[n] = e.s /\ \A m \in Node \ {n} : ds'[m] = ds[m]
  BY Zenon, <1>1 DEF Commit, TypeOK
<1>4. acks' = [m \in Node |-> acks[m] + e.acked[m] - (IF m = n THEN r ELSE 0)]
  BY Zenon DEF Commit
<1>5. \A m \in Node : acks[m] + e.acked[m] - (IF m = n THEN r ELSE 0) \in Nat
  <2> TAKE m \in Node
  <2>1. acks[m] \in Nat /\ e.acked[m] \in Nat
    BY Zenon, <1>1 DEF TypeOK
  <2>2. CASE m = n
    BY <2>1, <2>2
  <2>3. CASE m # n
    BY <2>1, <2>3
  <2> QED BY Zenon, <2>2, <2>3
<1>6. acks' \in [Node -> Nat]
  BY Zenon, <1>4, <1>5
<1>7. checks' \in [Node -> Nat] /\ \A m \in Node \ {n} : checks'[m] = checks[m]
  <2>1. checks' = [checks EXCEPT ![n] = @ + (IF e.disengaged THEN 1 ELSE 0)]
    BY Zenon DEF Commit
  <2>2. checks[n] + (IF e.disengaged THEN 1 ELSE 0) \in Nat
    BY DEF TypeOK
  <2> QED BY Zenon, <2>1, <2>2 DEF TypeOK
<1>8. terminated' \in BOOLEAN /\ cleanup' \in BOOLEAN
  BY Zenon, <1>1 DEF Commit, TypeOK
<1> QED BY Zenon, <1>2, <1>3, <1>4, <1>6, <1>7, <1>8

\* A handler on n that leaves that node's record in shape keeps every record in
\* shape and the life cycle in order.
LEMMA CommitLife ==
  ASSUME IndInv, NEW n \in Node, NEW e \in Effects, NEW r \in {0, 1}, acks[n] >= r,
         Commit(n, e, r), Shape(n, e.s), Ends(n, e),
         ~terminated, made', finished => finished', n # RootNode => made
  PROVE  Shapes' /\ LifeCycle'
<1>1. /\ ds'[n] = e.s /\ \A m \in Node \ {n} : ds'[m] = ds[m]
      /\ \A m \in Node \ {n} : checks'[m] = checks[m]
  BY CommitType DEF IndInv
<1>2. Shapes'
  <2>1. \A m \in Node : Shape(m, ds[m])
    BY Zenon DEF IndInv, Shapes
  <2>2. \A m \in Node : Shape(m, ds'[m])
    BY Zenon, <1>1, <2>1
  <2> QED BY Zenon, <2>2 DEF Shapes
<1>3. known' = known \cup {n} /\ terminated' = e.term /\ cleanup' = (cleanup \/ e.term)
  BY Zenon DEF Commit, Effects, IndInv, TypeOK
<1>4. ~cleanup /\ ~(checks[RootNode] > 0)
  BY Zenon DEF IndInv, LifeCycle
<1>5. \A m \in Node \ known' : ds'[m] = NewDS(m, FALSE)
  BY Zenon, <1>1, <1>3 DEF IndInv, LifeCycle
<1>6. CASE n = RootNode
  <2>1. (e.term <=> e.disengaged) /\ (e.term <=> e.s.outstanding = << >>)
    BY Zenon, <1>6 DEF Ends
  <2>2. ds'[RootNode].outstanding # << >> <=> ~e.term
    BY Zenon, <1>1, <1>6, <2>1
  <2>3. ~e.disengaged => checks'[RootNode] = checks[RootNode]
    BY <1>6 DEF Commit, IndInv, TypeOK
  <2> QED BY Zenon, <1>2, <1>3, <1>4, <1>5, <2>1, <2>2, <2>3 DEF LifeCycle
<1>7. CASE n # RootNode
  <2>1. ~e.term
    BY Zenon, <1>7 DEF Ends
  <2>2. RootNode \in Node
    BY Zenon, DSAssumption
  <2>3. ds'[RootNode] = ds[RootNode] /\ checks'[RootNode] = checks[RootNode]
    BY Zenon, <1>1, <1>7, <2>2
  <2>4. ds[RootNode].outstanding # << >>
    BY Zenon, <1>7 DEF IndInv, LifeCycle
  <2> QED BY Zenon, <1>2, <1>3, <1>4, <1>5, <2>1, <2>3, <2>4 DEF LifeCycle
<1> QED BY Zenon, <1>6, <1>7

\* A live epoch: the root is engaged.
LEMMA Live ==
  ASSUME IndInv,
         \E n \in Node : Local(n) > 0 \/ acks[n] > 0 \/ \E m \in Node : net[n][m] > 0
  PROVE  made /\ ~terminated
<1>1. ds[RootNode].outstanding # << >>
  <2> SUFFICES ASSUME ds[RootNode].outstanding = << >> PROVE FALSE
    BY Zenon
  <2> QED BY RootIdle
<1> QED BY Zenon, <1>1 DEF IndInv, LifeCycle

-----------------------------------------------------------------------------
\* Every action preserves the invariant.

\* A handler that took local work or an acknowledgement and tried to disengage
\* preserves the invariant.
LEMMA EndsInv ==
  ASSUME IndInv, NEW n \in Node, NEW t \in DSStates, NEW r \in {0, 1}, acks[n] >= r,
         Engaged(n, ds[n]), SameButLocal(ds[n], t), t.lC <= t.lD, t.D = ds[n].D - r,
         Commit(n, TryLast(n, Effect(t)), r),
         t.lD - t.lC = Local(n)', \A m \in Node \ {n} : Local(m)' = Local(m),
         net' = net, made' = made, made, ~terminated, finished => finished',
         finished' \in BOOLEAN, queue' \in [Node -> Nat], ops' = ops
  PROVE  IndInv'
<1> DEFINE e == TryLast(n, Effect(t))
<1>1. Engaged(n, t)
  BY Zenon, SameShape
<1>2. /\ e \in Effects /\ Ends(n, e) /\ Shape(n, e.s)
      /\ e.s.lC = t.lC /\ e.s.lD = t.lD /\ e.s.D = t.D
      /\ \/ e.s.parent = t.parent /\ e.acked = [m \in Node |-> 0]
         \/ /\ e.s.parent = NoParent
            /\ e.acked = [m \in Node |-> IF m = t.parent THEN 1 ELSE 0]
  BY SMTT(30), <1>1, TryLastFacts
<1>3. Commit(n, e, r)
  BY Zenon
<1> HIDE DEF e
<1>4. /\ known' \subseteq Node /\ ds' \in [Node -> DSStates] /\ acks' \in [Node -> Nat]
      /\ checks' \in [Node -> Nat] /\ terminated' \in BOOLEAN /\ cleanup' \in BOOLEAN
      /\ ds'[n] = e.s /\ \A m \in Node \ {n} : ds'[m] = ds[m]
      /\ \A m \in Node : acks'[m] = acks[m] + e.acked[m] - (IF m = n THEN r ELSE 0)
  BY SMTT(30), <1>2, <1>3, CommitType DEF IndInv
<1>5. TypeOK'
  BY Zenon, <1>4 DEF IndInv, TypeOK
<1>6. Shapes' /\ LifeCycle'
  BY Zenon, <1>2, <1>3, CommitLife
<1>7. LocalWork'
  <2>1. \A m \in Node : LocalLeft(ds'[m]) = Local(m)'
    BY Zenon, <1>2, <1>4 DEF IndInv, LocalWork, LocalLeft
  <2> QED BY Zenon, <2>1 DEF LocalWork, LocalLeft
<1>8. t.parent = ds[n].parent /\ t.parent # n
  BY Zenon, <1>1, NotOwnParent DEF SameButLocal
<1>9. Hanging(ds')
  <2>1. \A m \in Node : ds'[m].parent = ds[m].parent \/ ds'[m].parent = NoParent
    BY Zenon, <1>2, <1>4, <1>8
  <2> QED BY Zenon, <2>1, HangingLess DEF IndInv
<1>10. Debts'
  <2> SUFFICES ASSUME NEW k \in Node PROVE ds'[k].D = Owed(net', ds', acks', k)
    BY Zenon DEF Debts
  <2>1. ds[k].D = Owed(net, ds, acks, k)
    BY Zenon DEF IndInv, Debts
  <2>2. TypeOK /\ TypeOK'
    BY Zenon, <1>5 DEF IndInv
  <2>3. Owed(net', ds', acks', k)
           = Owed(net, ds, acks, k)
             + (acks'[k] + net'[k][n] + (IF ds'[n].parent = k THEN 1 ELSE 0))
             - (acks[k] + net[k][n] + (IF ds[n].parent = k THEN 1 ELSE 0))
    BY <2>2, <1>4, OwedChange
  <2>4. acks[k] \in Nat /\ net[k][n] \in Nat /\ ds[k].D \in Int
    BY Zenon, <2>2 DEF TypeOK, DSStates
  <2>5. NoParent # k
    BY NumNodesAssumption DEF NoParent, Node
  <2>6. e.acked[k] = (IF ds[n].parent = k THEN 1 ELSE 0) - (IF ds'[n].parent = k THEN 1 ELSE 0)
    <3>1. CASE e.s.parent = t.parent /\ e.acked = [m \in Node |-> 0]
      <4>1. ds'[n].parent = ds[n].parent /\ e.acked[k] = 0
        BY Zenon, <1>4, <1>8, <3>1
      <4> QED BY SMTT(30), <4>1
    <3>2. CASE e.s.parent = NoParent /\ e.acked = [m \in Node |-> IF m = t.parent THEN 1 ELSE 0]
      <4>1. ds'[n].parent = NoParent /\ e.acked[k] = (IF k = ds[n].parent THEN 1 ELSE 0)
        BY <1>4, <1>8, <3>2
      <4> QED BY <2>5, <4>1
    <3> QED BY Zenon, <1>2, <3>1, <3>2
  <2>7. ds'[k].D = ds[k].D - (IF k = n THEN r ELSE 0)
    BY <1>2, <1>4, <2>4
  <2>8. acks'[k] = acks[k] + e.acked[k] - (IF k = n THEN r ELSE 0)
    BY Zenon, <1>4
  <2> QED BY SMTT(30), <2>1, <2>3, <2>4, <2>6, <2>7, <2>8
<1> QED BY Zenon, <1>5, <1>6, <1>7, <1>9, <1>10 DEF IndInv

LEMMA FinishLocalInv ==
  ASSUME IndInv, NEW n \in Node, FinishLocal(n)
  PROVE  IndInv'
<1> USE DEF FinishLocal
<1>1. queue[n] \in Nat /\ queue \in [Node -> Nat] /\ Local(n) > 0
  BY DEF IndInv, TypeOK, Local
<1>2. Engaged(n, ds[n]) /\ GetDSTerm(n) = ds[n] /\ ds[n] \in DSStates
  BY Zenon, <1>1, BusyEngaged, Finds
<1>3. made /\ ~terminated
  BY Zenon, <1>1, Live
<1>4. PICK t \in DSStates : /\ MsgProcessed(n, ds[n], n) = TryLast(n, Effect(t))
                            /\ SameButLocal(ds[n], t)
                            /\ t.lC = ds[n].lC + 1
                            /\ t.lD = ds[n].lD
                            /\ t.D = ds[n].D
  BY Zenon, <1>2, ProcessedLocal
<1>5. Commit(n, TryLast(n, Effect(t)), 0)
  BY Zenon, <1>2, <1>4
<1>6. ds[n].lD - ds[n].lC = Local(n) /\ ds[n].lC \in Nat /\ ds[n].lD \in Nat /\ ds[n].D \in Int
  BY Zenon, <1>2 DEF IndInv, LocalWork, LocalLeft, DSStates
<1>7. Local(n)' = Local(n) - 1
  BY <1>1 DEF Local
<1>8. Local(n) \in Nat
  BY <1>1 DEF Local
<1>9. t.lC <= t.lD /\ t.lD - t.lC = Local(n)' /\ t.D = ds[n].D - 0
  BY <1>1, <1>4, <1>6, <1>7, <1>8
<1>10. \A m \in Node \ {n} : Local(m)' = Local(m)
  BY Zenon, <1>1 DEF Local
<1>11. queue' \in [Node -> Nat] /\ acks[n] >= 0
  BY <1>1 DEF IndInv, TypeOK
<1>12. finished' \in BOOLEAN /\ finished' = finished /\ made' = made /\ net' = net /\ ops' = ops
  BY Zenon DEF IndInv, TypeOK
<1> QED BY SMTT(30), <1>2, <1>3, <1>4, <1>5, <1>9, <1>10, <1>11, <1>12, EndsInv

LEMMA FinishedEpochInv ==
  ASSUME IndInv, FinishedEpoch
  PROVE  IndInv'
<1> USE DEF FinishedEpoch
<1> DEFINE n == RootNode
<1>1. n \in Node /\ queue[n] \in Nat /\ Local(n) = queue[n] + 1
  BY Zenon, DSAssumption DEF IndInv, TypeOK, Local
<1> HIDE DEF n
<1>2. Local(n) > 0 /\ Local(n) \in Nat
  BY <1>1
<1>3. Engaged(n, ds[n]) /\ GetDSTerm(n) = ds[n] /\ ds[n] \in DSStates
  BY Zenon, <1>1, <1>2, BusyEngaged, Finds
<1>4. made /\ ~terminated
  BY Zenon, <1>1, <1>2, Live
<1>5. PICK t \in DSStates : /\ MsgProcessed(n, ds[n], n) = TryLast(n, Effect(t))
                            /\ SameButLocal(ds[n], t)
                            /\ t.lC = ds[n].lC + 1
                            /\ t.lD = ds[n].lD
                            /\ t.D = ds[n].D
  BY Zenon, <1>1, <1>3, ProcessedLocal
<1>6. Commit(n, TryLast(n, Effect(t)), 0)
  BY Zenon, <1>3, <1>5 DEF n
<1>7. ds[n].lD - ds[n].lC = Local(n) /\ ds[n].lC \in Nat /\ ds[n].lD \in Nat /\ ds[n].D \in Int
  BY Zenon, <1>1, <1>3 DEF IndInv, LocalWork, LocalLeft, DSStates
<1>8. Local(n)' = queue[n]
  BY <1>1 DEF Local
<1>9. t.lC <= t.lD /\ t.lD - t.lC = Local(n)' /\ t.D = ds[n].D - 0
  BY <1>1, <1>5, <1>7, <1>8
<1>10. \A m \in Node \ {n} : Local(m)' = Local(m)
  BY Zenon DEF Local, n
<1>11. queue' \in [Node -> Nat] /\ acks[n] >= 0
  BY <1>1 DEF IndInv, TypeOK
<1>12. finished' \in BOOLEAN /\ finished' = TRUE /\ made' = made /\ net' = net /\ ops' = ops
  BY Zenon
<1> QED BY Zenon, <1>1, <1>3, <1>4, <1>5, <1>6, <1>9, <1>10, <1>11, <1>12, EndsInv

LEMMA AcknowledgeHanInv ==
  ASSUME IndInv, NEW n \in Node, AcknowledgeHan(n)
  PROVE  IndInv'
<1> USE DEF AcknowledgeHan
<1>1. acks[n] \in Nat /\ acks[n] > 0
  BY Zenon DEF IndInv, TypeOK
<1>2. ds[n].D >= acks[n] /\ ds[n].D \in Nat
  BY Zenon, DebtCovers DEF IndInv
<1>3. ds[n].D > 0
  BY <1>1, <1>2
<1>4. Engaged(n, ds[n]) /\ GetDSTerm(n) = ds[n] /\ ds[n] \in DSStates
  BY Zenon, <1>3, BusyEngaged, Finds
<1>5. made /\ ~terminated
  BY Zenon, <1>1, Live
<1>6. PICK t \in DSStates : /\ GotAck(n, ds[n]) = TryLast(n, Effect(t))
                            /\ SameButLocal(ds[n], t)
                            /\ t.lC = ds[n].lC
                            /\ t.lD = ds[n].lD
                            /\ t.D = ds[n].D - 1
  BY Zenon, <1>4, AckPays
<1>7. Commit(n, TryLast(n, Effect(t)), 1)
  BY Zenon, <1>4, <1>6
<1>8. ds[n].lD - ds[n].lC = Local(n) /\ ds[n].lC \in Nat /\ ds[n].lD \in Nat
  BY Zenon, <1>4 DEF IndInv, LocalWork, LocalLeft, DSStates
<1>9. \A m \in Node : Local(m)' = Local(m) /\ Local(m) \in Nat
  BY DEF Local, IndInv, TypeOK
<1>10. t.lC <= t.lD /\ t.lD - t.lC = Local(n)'
  BY <1>6, <1>8, <1>9
<1>11. queue' \in [Node -> Nat] /\ acks[n] >= 1
  BY <1>1 DEF IndInv, TypeOK
<1>12. finished' \in BOOLEAN /\ finished' = finished /\ made' = made /\ net' = net /\ ops' = ops
  BY Zenon DEF IndInv, TypeOK
<1> QED BY SMTT(30), <1>4, <1>5, <1>6, <1>7, <1>9, <1>10, <1>11, <1>12, EndsInv

\* User code runs only under an engaged record.
LEMMA ScopeEngaged ==
  ASSUME IndInv, NEW n \in Node, InScope(n)
  PROVE  /\ Engaged(n, ds[n])
         /\ GetDSTerm(n) = ds[n]
         /\ ds[n] \in DSStates
         /\ made /\ ~terminated
         /\ Local(n) > 0 /\ Local(n) \in Nat
         /\ LocalLeft(ds[n]) = Local(n)
<1>1. queue[n] \in Nat
  BY Zenon DEF IndInv, TypeOK
<1>2. Local(n) > 0 /\ Local(n) \in Nat
  BY <1>1 DEF InScope, Local
<1>3. Engaged(n, ds[n]) /\ GetDSTerm(n) = ds[n] /\ ds[n] \in DSStates
  BY Zenon, <1>2, BusyEngaged, Finds
<1>4. made /\ ~terminated
  BY Zenon, <1>2, Live
<1>5. LocalLeft(ds[n]) = Local(n)
  BY Zenon DEF IndInv, LocalWork
<1> QED BY Zenon, <1>2, <1>3, <1>4, <1>5

\* What producing a unit under the epoch leaves.
LEMMA ProduceFacts ==
  ASSUME IndInv, NEW n \in Node, NEW m \in Node, InScope(n),
         Commit(n, Effect(MsgSent(n, GetDSTerm(n), m)), 0)
  PROVE  LET t == MsgSent(n, ds[n], m)
         IN /\ Effect(t) \in Effects
            /\ t \in DSStates
            /\ SameButLocal(ds[n], t)
            /\ t.lC = ds[n].lC
            /\ m = n => t.lD = ds[n].lD + 1 /\ t.D = ds[n].D
            /\ m # n => t.lD = ds[n].lD /\ t.D = ds[n].D + 1
            /\ Shape(n, t)
            /\ Ends(n, Effect(t))
            /\ Effect(t).s = t
            /\ Effect(t).acked = [k \in Node |-> 0]
            /\ Commit(n, Effect(t), 0)
<1> DEFINE t == MsgSent(n, ds[n], m)
<1>1. /\ Engaged(n, ds[n]) /\ GetDSTerm(n) = ds[n] /\ ds[n] \in DSStates
      /\ Local(n) > 0 /\ Local(n) \in Nat /\ LocalLeft(ds[n]) = Local(n)
  BY Zenon, ScopeEngaged
<1>2. /\ t \in DSStates /\ SameButLocal(ds[n], t) /\ t.lC = ds[n].lC
      /\ m = n => t.lD = ds[n].lD + 1 /\ t.D = ds[n].D
      /\ m # n => t.lD = ds[n].lD /\ t.D = ds[n].D + 1
  BY Zenon, <1>1, MsgSentFacts
<1>3. Commit(n, Effect(t), 0)
  BY Zenon, <1>1
<1> HIDE DEF t
<1>4. Engaged(n, t) /\ t.outstanding # << >>
  BY Zenon, <1>1, <1>2, SameShape, EngagedHas
<1>5. ds[n].lC \in Nat /\ ds[n].lD \in Nat
  BY Zenon, <1>1 DEF DSStates
<1>6. LocalLeft(t) > 0
  BY <1>1, <1>2, <1>5 DEF LocalLeft
<1>7. /\ Effect(t) \in Effects /\ Effect(t).s = t /\ Effect(t).disengaged = FALSE
      /\ Effect(t).term = FALSE /\ Effect(t).acked = [k \in Node |-> 0]
  BY Zenon, <1>2, EffectFacts
<1>8. Shape(n, t) /\ Ends(n, Effect(t))
  BY Zenon, <1>4, <1>6, <1>7 DEF Shape, Ends
<1> QED BY Zenon, <1>2, <1>3, <1>7, <1>8 DEF t

LEMMA StartLocalInv ==
  ASSUME IndInv, NEW n \in Node, StartLocal(n)
  PROVE  IndInv'
<1> USE DEF StartLocal
<1> DEFINE t == MsgSent(n, ds[n], n)
           e == Effect(t)
<1>1. /\ e \in Effects /\ t \in DSStates /\ SameButLocal(ds[n], t) /\ t.lC = ds[n].lC
      /\ t.lD = ds[n].lD + 1 /\ t.D = ds[n].D /\ Shape(n, t) /\ Ends(n, e)
      /\ e.s = t /\ e.acked = [k \in Node |-> 0] /\ Commit(n, e, 0)
  BY Zenon, ProduceFacts
<1>2. made /\ ~terminated /\ LocalLeft(ds[n]) = Local(n) /\ Local(n) \in Nat /\ ds[n] \in DSStates
  BY Zenon, ScopeEngaged
<1> HIDE DEF t, e
<1>3. acks[n] >= 0 /\ acks \in [Node -> Nat] /\ queue \in [Node -> Nat] /\ ops \in Nat
  BY DEF IndInv, TypeOK
<1>4. /\ known' \subseteq Node /\ ds' \in [Node -> DSStates] /\ acks' \in [Node -> Nat]
      /\ checks' \in [Node -> Nat] /\ terminated' \in BOOLEAN /\ cleanup' \in BOOLEAN
      /\ ds'[n] = t /\ \A m \in Node \ {n} : ds'[m] = ds[m]
      /\ \A m \in Node : acks'[m] = acks[m] + e.acked[m] - (IF m = n THEN 0 ELSE 0)
  BY Zenon, <1>1, <1>3, CommitType DEF IndInv
<1>5. TypeOK'
  <2>1. queue' \in [Node -> Nat] /\ ops' \in Nat
    BY <1>3
  <2> QED BY Zenon, <1>4, <2>1 DEF IndInv, TypeOK
<1>6. Shapes' /\ LifeCycle'
  BY Zenon, <1>1, <1>2, <1>3, CommitLife
<1>7. LocalWork'
  <2>1. Local(n)' = Local(n) + 1 /\ \A m \in Node \ {n} : Local(m)' = Local(m)
    BY <1>3 DEF Local
  <2>2. LocalLeft(t) = LocalLeft(ds[n]) + 1
    <3>1. ds[n].lC \in Nat /\ ds[n].lD \in Nat
      BY Zenon, <1>2 DEF DSStates
    <3> QED BY <1>1, <3>1 DEF LocalLeft
  <2>3. \A m \in Node : LocalLeft(ds'[m]) = Local(m)'
    BY Zenon, <1>2, <1>4, <2>1, <2>2 DEF IndInv, LocalWork
  <2> QED BY Zenon, <2>3 DEF LocalWork, LocalLeft
<1>8. \A m \in Node : ds'[m].parent = ds[m].parent /\ ds'[m].D = ds[m].D /\ acks'[m] = acks[m]
  <2> TAKE m \in Node
  <2>1. ds'[m].parent = ds[m].parent /\ ds'[m].D = ds[m].D
    BY Zenon, <1>1, <1>4 DEF SameButLocal
  <2>2. acks'[m] = acks[m] + 0 - 0 /\ acks[m] \in Nat
    BY Zenon, <1>1, <1>3, <1>4
  <2> QED BY <2>1, <2>2
<1>9. Hanging(ds')
  BY Zenon, <1>8, HangingLess DEF IndInv
<1>10. Debts'
  <2> SUFFICES ASSUME NEW k \in Node PROVE ds'[k].D = Owed(net', ds', acks', k)
    BY Zenon DEF Debts
  <2> QED BY Zenon, <1>8, OwedSame DEF IndInv, Debts
<1> QED BY Zenon, <1>5, <1>6, <1>7, <1>9, <1>10 DEF IndInv

LEMMA SendMsgInv ==
  ASSUME IndInv, NEW n \in Node, NEW m \in Node, SendMsg(n, m)
  PROVE  IndInv'
<1> USE DEF SendMsg
<1> DEFINE t == MsgSent(n, ds[n], m)
           e == Effect(t)
<1>1. /\ e \in Effects /\ t \in DSStates /\ SameButLocal(ds[n], t) /\ t.lC = ds[n].lC
      /\ t.lD = ds[n].lD /\ t.D = ds[n].D + 1 /\ Shape(n, t) /\ Ends(n, e)
      /\ e.s = t /\ e.acked = [k \in Node |-> 0] /\ Commit(n, e, 0)
  BY Zenon, ProduceFacts
<1>2. made /\ ~terminated /\ ds[n] \in DSStates
  BY Zenon, ScopeEngaged
<1> HIDE DEF t, e
<1>3. acks[n] >= 0 /\ acks \in [Node -> Nat] /\ net \in [Node -> [Node -> Nat]] /\ ops \in Nat
  BY DEF IndInv, TypeOK
<1>4. /\ known' \subseteq Node /\ ds' \in [Node -> DSStates] /\ acks' \in [Node -> Nat]
      /\ checks' \in [Node -> Nat] /\ terminated' \in BOOLEAN /\ cleanup' \in BOOLEAN
      /\ ds'[n] = t /\ \A k \in Node \ {n} : ds'[k] = ds[k]
      /\ \A k \in Node : acks'[k] = acks[k] + e.acked[k] - (IF k = n THEN 0 ELSE 0)
  BY Zenon, <1>1, <1>3, CommitType DEF IndInv
<1>5. net' \in [Node -> [Node -> Nat]] /\ ops' \in Nat
  BY <1>3
<1>6. TypeOK'
  BY Zenon, <1>4, <1>5 DEF IndInv, TypeOK
<1>7. Shapes' /\ LifeCycle'
  BY Zenon, <1>1, <1>2, <1>3, CommitLife
<1>8. LocalWork'
  <2>1. \A k \in Node : Local(k)' = Local(k)
    BY Zenon DEF Local
  <2>2. \A k \in Node : LocalLeft(ds'[k]) = LocalLeft(ds[k])
    BY Zenon, <1>1, <1>4 DEF LocalLeft
  <2>3. \A k \in Node : LocalLeft(ds'[k]) = Local(k)'
    BY Zenon, <2>1, <2>2 DEF IndInv, LocalWork
  <2> QED BY Zenon, <2>3 DEF LocalWork, LocalLeft
<1>9. \A k \in Node : ds'[k].parent = ds[k].parent /\ acks'[k] = acks[k]
  <2> TAKE k \in Node
  <2>1. ds'[k].parent = ds[k].parent
    BY Zenon, <1>1, <1>4 DEF SameButLocal
  <2>2. acks'[k] = acks[k] + 0 - 0 /\ acks[k] \in Nat
    BY SMTT(30), <1>1, <1>3, <1>4
  <2> QED BY <2>1, <2>2
<1>10. Hanging(ds')
  BY Zenon, <1>9, HangingLess DEF IndInv
<1>11. Debts'
  <2> SUFFICES ASSUME NEW k \in Node PROVE ds'[k].D = Owed(net', ds', acks', k)
    BY Zenon DEF Debts
  <2>1. ds[k].D = Owed(net, ds, acks, k)
    BY Zenon DEF IndInv, Debts
  <2>2. CASE k # n
    <3>1. ds'[k].D = ds[k].D /\ \A i \in Node : net'[k][i] = net[k][i]
      BY Zenon, <2>2, <1>3, <1>4
    <3> QED BY Zenon, <2>1, <3>1, <1>9, OwedSame
  <2>3. CASE k = n
    <3>1. \A i \in Node \ {m} :
             net'[k][i] = net[k][i] /\ (ds'[i].parent = k <=> ds[i].parent = k)
      BY Zenon, <2>3, <1>3, <1>9
    <3>2. TypeOK /\ TypeOK'
      BY Zenon, <1>6 DEF IndInv
    <3>3. Owed(net', ds', acks', k)
           = Owed(net, ds, acks, k)
             + (acks'[k] + net'[k][m] + (IF ds'[m].parent = k THEN 1 ELSE 0))
             - (acks[k] + net[k][m] + (IF ds[m].parent = k THEN 1 ELSE 0))
      BY Zenon, <3>1, <3>2, OwedChange
    <3>4. net'[k][m] = net[k][m] + 1 /\ net[k][m] \in Nat /\ acks[k] \in Nat
      BY Zenon, <2>3, <1>3
    <3>5. ds'[k].D = ds[k].D + 1 /\ ds[k].D \in Int
      BY Zenon, <2>3, <1>1, <1>2, <1>4 DEF DSStates
    <3>6. acks'[k] = acks[k] /\ ds'[m].parent = ds[m].parent
      BY Zenon, <1>9
    <3> QED BY <2>1, <3>3, <3>4, <3>5, <3>6
  <2> QED BY Zenon, <2>2, <2>3
<1> QED BY Zenon, <1>6, <1>7, <1>8, <1>10, <1>11 DEF IndInv

LEMMA MakeEpochRootedDSInv ==
  ASSUME IndInv, MakeEpochRootedDS
  PROVE  IndInv'
<1> USE DEF MakeEpochRootedDS
<1> DEFINE n == RootNode
           new == NewDS(n, TRUE)
           t == MsgSent(n, new, n)
           e == Effect(t)
<1>1. n \in Node
  BY Zenon, DSAssumption
<1>2. new \in DSStates /\ new.lC = 0 /\ new.lD = 0 /\ new.D = 0 /\ Rooting(n, new)
  BY Zenon, <1>1, NewDSFacts
<1>3. Commit(n, e, 0)
  BY Zenon
<1> HIDE DEF n, new
<1>4. t \in DSStates /\ SameButLocal(new, t) /\ t.lC = 0 /\ t.lD = 0 + 1 /\ t.D = 0
  BY <1>1, <1>2, MsgSentFacts
<1> HIDE DEF t
<1>5. Engaged(n, t) /\ t.outstanding # << >> /\ t.parent = NoParent
  <2>1. Engaged(n, new)
    BY Zenon, <1>2 DEF Engaged
  <2> QED BY Zenon, <1>1, <1>2, <1>4, <2>1, SameShape, EngagedHas DEF SameButLocal, Rooting
<1>6. /\ e \in Effects /\ e.s = t /\ e.disengaged = FALSE /\ e.term = FALSE
      /\ e.acked = [k \in Node |-> 0]
  BY Zenon, <1>4, EffectFacts
<1>7. Shape(n, t) /\ Ends(n, e)
  BY <1>4, <1>5, <1>6 DEF Shape, Ends, LocalLeft
<1> HIDE DEF e
<1>8. acks \in [Node -> Nat] /\ acks[n] >= 0
  BY <1>1 DEF IndInv, TypeOK
<1>9. ~terminated /\ ~finished /\ ds[n].outstanding = << >>
  BY Zenon DEF IndInv, LifeCycle, n
<1>10. /\ known' \subseteq Node /\ ds' \in [Node -> DSStates] /\ acks' \in [Node -> Nat]
       /\ checks' \in [Node -> Nat] /\ terminated' \in BOOLEAN /\ cleanup' \in BOOLEAN
       /\ ds'[n] = t /\ \A k \in Node \ {n} : ds'[k] = ds[k]
       /\ \A k \in Node : acks'[k] = acks[k] + e.acked[k] - (IF k = n THEN 0 ELSE 0)
  BY SMTT(30), <1>1, <1>3, <1>6, <1>8, CommitType DEF IndInv
<1>11. TypeOK'
  BY Zenon, <1>10 DEF IndInv, TypeOK
<1>12. Shapes' /\ LifeCycle'
  <2>1. made' /\ finished' = finished /\ (n # RootNode => made)
    BY Zenon DEF n
  <2> QED BY Zenon, <1>1, <1>3, <1>6, <1>7, <1>8, <1>9, <2>1, CommitLife
<1>13. Idle(ds[n]) /\ Local(n) = 0
  BY Zenon, <1>1, <1>9, RootIdle DEF n
<1>14. LocalWork'
  <2>1. Local(n)' = 1 /\ \A m \in Node \ {n} : Local(m)' = Local(m)
    <3>1. queue[n] \in Nat
      BY Zenon, <1>1 DEF IndInv, TypeOK
    <3> QED BY <1>1, <1>9, <1>13, <3>1 DEF Local, n
  <2>2. LocalLeft(t) = 1
    BY <1>4 DEF LocalLeft
  <2>3. \A m \in Node : LocalLeft(ds'[m]) = Local(m)'
    BY Zenon, <1>10, <2>1, <2>2 DEF IndInv, LocalWork
  <2> QED BY Zenon, <2>3 DEF LocalWork, LocalLeft
<1>15. \A m \in Node : ds'[m].parent = ds[m].parent /\ ds'[m].D = ds[m].D /\ acks'[m] = acks[m]
  <2>1. ds[n].parent = NoParent /\ ds[n].D = 0
    BY Zenon, <1>13 DEF Idle
  <2>2. \A m \in Node : ds'[m].parent = ds[m].parent /\ ds'[m].D = ds[m].D
    BY Zenon, <1>4, <1>5, <1>10, <2>1
  <2>3. \A m \in Node : acks'[m] = acks[m]
    BY <1>6, <1>8, <1>10
  <2> QED BY Zenon, <2>2, <2>3
<1>16. Hanging(ds')
  BY Zenon, <1>15, HangingLess DEF IndInv
<1>17. Debts'
  <2> SUFFICES ASSUME NEW k \in Node PROVE ds'[k].D = Owed(net', ds', acks', k)
    BY Zenon DEF Debts
  <2> QED BY Zenon, <1>15, OwedSame DEF IndInv, Debts
<1> QED BY Zenon, <1>11, <1>12, <1>14, <1>16, <1>17 DEF IndInv

\* A message that reaches a node: what its consumption leaves, whether the node
\* engages with the sender or acknowledges it.
LEMMA DeliverFacts ==
  ASSUME IndInv, NEW a \in Node, NEW n \in Node, a # n, net[a][n] > 0
  PROVE  LET e == MsgProcessed(n, MsgSent(n, GetDSTerm(n), n), a)
         IN /\ e \in Effects
            /\ Shape(n, e.s)
            /\ Ends(n, e)
            /\ e.s.D = ds[n].D
            /\ LocalLeft(e.s) = LocalLeft(ds[n]) + 1
            /\ \/ /\ e.s.parent = ds[n].parent
                  /\ e.acked = [m \in Node |-> IF m = a THEN 1 ELSE 0]
               \/ /\ e.s.parent = a
                  /\ Idle(ds[n])
                  /\ e.acked = [m \in Node |-> 0]
<1> DEFINE t == MsgSent(n, ds[n], n)
           e == MsgProcessed(n, t, a)
<1>1. GetDSTerm(n) = ds[n] /\ ds[n] \in DSStates
  BY Zenon, Finds
<1>2. /\ t \in DSStates /\ SameButLocal(ds[n], t) /\ t.lC = ds[n].lC
      /\ t.lD = ds[n].lD + 1 /\ t.D = ds[n].D
  BY Zenon, <1>1, MsgSentFacts
<1>3. ds[n].lC \in Nat /\ ds[n].lD \in Nat
  BY Zenon, <1>1 DEF DSStates
<1>4. Shape(n, ds[n]) /\ LocalLeft(ds[n]) = Local(n) /\ Local(n) \in Nat
  BY DEF IndInv, Shapes, LocalWork, Local, TypeOK
<1>5. t.lC < t.lD
  BY SMTT(30), <1>2, <1>3, <1>4 DEF LocalLeft
<1>6. MsgProcessed(n, MsgSent(n, GetDSTerm(n), n), a) = e
  BY Zenon, <1>1
<1> HIDE DEF t
<1>7. CASE Engaged(n, ds[n])
  <2>1. Engaged(n, t)
    BY Zenon, <1>2, <1>7, SameShape
  <2>2. /\ e \in Effects /\ Engaged(n, e.s) /\ e.s.parent = t.parent
        /\ e.s.outstanding = t.outstanding
        /\ e.s.lC = t.lC /\ e.s.lD = t.lD /\ e.s.D = t.D
        /\ e.acked = [m \in Node |-> IF m = a THEN 1 ELSE 0]
        /\ e.disengaged = FALSE /\ e.term = FALSE
    <3>1. Acknowledges(n, t, a, e)
      BY Zenon, <1>2, <1>5, <2>1, ProcessedFurther
    <3> HIDE DEF e
    <3> QED BY Zenon, <3>1 DEF Acknowledges
  <2> HIDE DEF e
  <2>3. LocalLeft(e.s) = LocalLeft(ds[n]) + 1 /\ LocalLeft(e.s) > 0
    BY SMTT(30), <1>2, <1>3, <1>4, <2>2 DEF LocalLeft
  <2>4. Shape(n, e.s) /\ Ends(n, e)
    BY Zenon, <2>2, <2>3, EngagedHas DEF Shape, Ends
  <2>5. e.s.D = ds[n].D /\ e.s.parent = ds[n].parent
    BY Zenon, <1>2, <2>2 DEF SameButLocal
  <2> QED BY Zenon, <1>6, <2>2, <2>3, <2>4, <2>5
<1>8. CASE ~Engaged(n, ds[n])
  <2>1. Idle(ds[n])
    BY Zenon, <1>4, <1>8 DEF Shape
  <2>2. Idle(t)
    <3>1. t.D = 0
      BY Zenon, <1>2, <2>1 DEF Idle
    <3> QED BY Zenon, <1>2, <2>1, <3>1, SameShape
  <2>3. n # RootNode
    <3>1. made /\ ~terminated
      BY Zenon, Live
    <3>2. ds[RootNode].outstanding # << >>
      BY Zenon, <3>1 DEF IndInv, LifeCycle
    <3> QED BY Zenon, <2>1, <3>2 DEF Idle
  <2>4. /\ e \in Effects /\ Joined(n, e.s) /\ e.s.parent = a
        /\ e.s.lC = t.lC /\ e.s.lD = t.lD /\ e.s.D = t.D
        /\ e.acked = [m \in Node |-> 0]
        /\ e.disengaged = FALSE /\ e.term = FALSE
    <3>1. Fresh(n, t, a)
      BY Zenon, <1>2, <1>5, <2>2, <2>3 DEF Fresh
    <3>2. t \in DSStates
      BY Zenon, <1>2
    <3>3. Engages(n, t, a, e)
      BY Zenon, <3>1, <3>2, ProcessedFirst
    <3> HIDE DEF e
    <3> QED BY Zenon, <3>3 DEF Engages
  <2> HIDE DEF e
  <2>5. LocalLeft(e.s) = LocalLeft(ds[n]) + 1 /\ LocalLeft(e.s) > 0
    BY SMTT(30), <1>2, <1>3, <1>4, <2>4 DEF LocalLeft
  <2>6. Shape(n, e.s) /\ Ends(n, e)
    BY Zenon, <2>3, <2>4, <2>5 DEF Shape, Ends, Engaged
  <2>7. e.s.D = ds[n].D
    BY Zenon, <1>2, <2>4
  <2> QED BY Zenon, <1>6, <2>1, <2>4, <2>5, <2>6, <2>7
<1> QED BY Zenon, <1>7, <1>8

LEMMA DeliverInv ==
  ASSUME IndInv, NEW n \in Node, NEW a \in Node \ {n}, Deliver(a, n)
  PROVE  IndInv'
<1> USE DEF Deliver
<1> DEFINE e == MsgProcessed(n, MsgSent(n, GetDSTerm(n), n), a)
<1>1. /\ e \in Effects /\ Shape(n, e.s) /\ Ends(n, e) /\ e.s.D = ds[n].D
      /\ LocalLeft(e.s) = LocalLeft(ds[n]) + 1
      /\ \/ e.s.parent = ds[n].parent /\ e.acked = [m \in Node |-> IF m = a THEN 1 ELSE 0]
         \/ e.s.parent = a /\ Idle(ds[n]) /\ e.acked = [m \in Node |-> 0]
  BY SMTT(30), DeliverFacts
<1>2. Commit(n, e, 0)
  BY Zenon
<1> HIDE DEF e
<1>3. made /\ ~terminated
  BY Zenon, Live
<1>4. /\ acks \in [Node -> Nat] /\ acks[n] >= 0 /\ net \in [Node -> [Node -> Nat]]
      /\ queue \in [Node -> Nat]
  BY DEF IndInv, TypeOK
<1>5. /\ known' \subseteq Node /\ ds' \in [Node -> DSStates] /\ acks' \in [Node -> Nat]
      /\ checks' \in [Node -> Nat] /\ terminated' \in BOOLEAN /\ cleanup' \in BOOLEAN
      /\ ds'[n] = e.s /\ \A k \in Node \ {n} : ds'[k] = ds[k]
      /\ \A k \in Node : acks'[k] = acks[k] + e.acked[k] - (IF k = n THEN 0 ELSE 0)
  BY Zenon, <1>1, <1>2, <1>4, CommitType DEF IndInv
<1>6. /\ net' \in [Node -> [Node -> Nat]]
      /\ queue' \in [Node -> Nat]
      /\ net'[a][n] = net[a][n] - 1
      /\ \A k, m \in Node : k # a \/ m # n => net'[k][m] = net[k][m]
  <2>1. net[a][n] - 1 \in Nat /\ queue[n] + 1 \in Nat
    BY <1>4
  <2> QED BY Zenon, <1>4, <2>1
<1>7. TypeOK'
  BY Zenon, <1>5, <1>6 DEF IndInv, TypeOK
<1>8. Shapes' /\ LifeCycle'
  BY Zenon, <1>1, <1>2, <1>3, <1>4, CommitLife
<1>9. LocalWork'
  <2>1. Local(n)' = Local(n) + 1 /\ \A m \in Node \ {n} : Local(m)' = Local(m)
    BY <1>4 DEF Local
  <2>2. \A m \in Node : LocalLeft(ds'[m]) = Local(m)'
    BY Zenon, <1>1, <1>5, <2>1 DEF IndInv, LocalWork
  <2> QED BY Zenon, <2>2 DEF LocalWork, LocalLeft
<1>10. TypeOK /\ Debts /\ Hanging(ds)
  BY Zenon DEF IndInv
<1>11. Hanging(ds')
  <2>1. CASE e.s.parent = ds[n].parent
    BY Zenon, <2>1, <1>5, <1>10, HangingLess
  <2>2. CASE e.s.parent = a /\ Idle(ds[n])
    <3>1. ds[n].D = 0
      BY Zenon, <2>2 DEF Idle
    <3>2. \A m \in Node : ds[m].parent # n
      BY <3>1, <1>10, DebtCovers
    <3> QED BY <2>2, <3>2, <1>5, <1>10, HangingMore
  <2> QED BY Zenon, <2>1, <2>2, <1>1
<1>12. Debts'
  <2> SUFFICES ASSUME NEW k \in Node PROVE ds'[k].D = Owed(net', ds', acks', k)
    BY Zenon DEF Debts
  <2>1. ds[k].D = Owed(net, ds, acks, k)
    BY Zenon, <1>10 DEF Debts
  <2>2. ds'[k].D = ds[k].D
    BY Zenon, <1>1, <1>5
  <2>3. \A i \in Node \ {n} :
           net'[k][i] = net[k][i] /\ (ds'[i].parent = k <=> ds[i].parent = k)
    BY Zenon, <1>5, <1>6
  <2>4. Owed(net', ds', acks', k)
           = Owed(net, ds, acks, k)
             + (acks'[k] + net'[k][n] + (IF ds'[n].parent = k THEN 1 ELSE 0))
             - (acks[k] + net[k][n] + (IF ds[n].parent = k THEN 1 ELSE 0))
    BY Zenon, <2>3, <1>7, <1>10, OwedChange
  <2>5. net[k][n] \in Nat /\ acks[k] \in Nat /\ ds[k].D \in Int
    BY <1>4, <1>10 DEF TypeOK, DSStates
  <2>6. /\ k = a => net'[k][n] = net[k][n] - 1
        /\ k # a => net'[k][n] = net[k][n]
    BY Zenon, <1>6
  <2>7. acks'[k] = acks[k] + e.acked[k]
    <3>1. acks'[k] = acks[k] + e.acked[k] - (IF k = n THEN 0 ELSE 0)
      BY Zenon, <1>5
    <3>2. acks[k] \in Nat /\ e.acked[k] \in Nat
      BY Zenon, <1>1, <1>4 DEF Effects
    <3> QED BY <3>1, <3>2
  <2>8. e.acked[k] + (IF ds'[n].parent = k THEN 1 ELSE 0)
          = (IF ds[n].parent = k THEN 1 ELSE 0) + (IF k = a THEN 1 ELSE 0)
    <3>1. CASE e.s.parent = ds[n].parent /\ e.acked = [m \in Node |-> IF m = a THEN 1 ELSE 0]
      BY <3>1, <1>5
    <3>2. CASE e.s.parent = a /\ Idle(ds[n]) /\ e.acked = [m \in Node |-> 0]
      <4>1. ds[n].parent # k
        BY <3>2, NumNodesAssumption DEF Idle, NoParent, Node
      <4> QED BY Zenon, <3>2, <4>1, <1>5
    <3> QED BY Zenon, <3>1, <3>2, <1>1
  <2>9. e.acked[k] \in Nat
    BY Zenon, <1>1 DEF Effects
  <2> QED BY <2>1, <2>2, <2>4, <2>5, <2>6, <2>7, <2>8, <2>9
<1> QED BY Zenon, <1>7, <1>8, <1>9, <1>11, <1>12 DEF IndInv

\* A step that replaces an idle record by a new one, or changes no record.
LEMMA DropInv ==
  ASSUME IndInv, NEW n \in Node, Idle(ds[n]),
         known' = known \ {n}, ds' = [ds EXCEPT ![n] = NewDS(n, FALSE)],
         UNCHANGED <<made, finished, net, queue, acks>>
  PROVE  /\ ds' \in [Node -> DSStates]
         /\ Shapes' /\ LocalWork' /\ Debts' /\ Hanging(ds')
         /\ \A m \in Node \ known' : ds'[m] = NewDS(m, FALSE)
         /\ ds'[RootNode].outstanding = << >> <=> ds[RootNode].outstanding = << >>
<1>1. ds \in [Node -> DSStates] /\ RootNode \in Node
  BY Zenon, DSAssumption DEF IndInv, TypeOK
<1>2. /\ NewDS(n, FALSE) \in DSStates /\ Idle(NewDS(n, FALSE))
      /\ LocalLeft(NewDS(n, FALSE)) = 0
  BY Zenon, NewDSFacts
<1>3. ds' \in [Node -> DSStates] /\ ds'[n] = NewDS(n, FALSE) /\ \A m \in Node \ {n} : ds'[m] = ds[m]
  BY Zenon, <1>1, <1>2
<1>4. LocalLeft(ds'[n]) = 0 /\ LocalLeft(ds[n]) = 0
  <2>1. ~Engaged(n, ds[n])
    BY Zenon, EngagedHas DEF Idle
  <2>2. LocalLeft(ds[n]) = 0
    BY Zenon, <2>1 DEF IndInv, Shapes, Shape
  <2> QED BY Zenon, <1>2, <1>3, <2>2
<1>5. Shapes'
  <2>1. \A m \in Node : Shape(m, ds[m])
    BY Zenon DEF IndInv, Shapes
  <2>2. Shape(n, ds'[n])
    BY Zenon, <1>2, <1>3, <1>4 DEF Shape
  <2>3. \A m \in Node : Shape(m, ds'[m])
    BY Zenon, <1>3, <2>1, <2>2
  <2> QED BY Zenon, <2>3 DEF Shapes
<1>6. LocalWork'
  <2>1. \A m \in Node : LocalLeft(ds'[m]) = LocalLeft(ds[m])
    BY Zenon, <1>3, <1>4
  <2>2. \A m \in Node : Local(m)' = Local(m)
    BY Zenon DEF Local
  <2>3. \A m \in Node : LocalLeft(ds'[m]) = Local(m)'
    BY Zenon, <2>1, <2>2 DEF IndInv, LocalWork
  <2> QED BY Zenon, <2>3 DEF LocalWork, LocalLeft
<1>7. \A m \in Node : ds'[m].parent = ds[m].parent /\ ds'[m].D = ds[m].D
  BY Zenon, <1>2, <1>3 DEF Idle
<1>8. Hanging(ds')
  BY Zenon, <1>7, HangingLess DEF IndInv
<1>9. Debts'
  <2> SUFFICES ASSUME NEW k \in Node PROVE ds'[k].D = Owed(net', ds', acks', k)
    BY Zenon DEF Debts
  <2> QED BY Zenon, <1>7, OwedSame DEF IndInv, Debts
<1>10. \A m \in Node \ known' : ds'[m] = NewDS(m, FALSE)
  BY Zenon, <1>3 DEF IndInv, LifeCycle
<1>11. ds'[RootNode].outstanding = << >> <=> ds[RootNode].outstanding = << >>
  BY Zenon, <1>1, <1>2, <1>3 DEF Idle
<1> QED BY Zenon, <1>3, <1>5, <1>6, <1>8, <1>9, <1>10, <1>11

LEMMA DisengageInv ==
  ASSUME IndInv, NEW n \in Node, Disengage(n)
  PROVE  IndInv'
<1> USE DEF Disengage
<1>1. GetDSTerm(n) = ds[n] /\ TypeOK
  BY Zenon, Finds DEF IndInv
<1>2. /\ checks' \in [Node -> Nat]
      /\ checks'[RootNode] > 0 => checks[RootNode] > 0
  <2>1. checks[n] - 1 \in Nat /\ RootNode \in Node
    BY <1>1, DSAssumption DEF TypeOK
  <2> QED BY Zenon, <1>1, <2>1 DEF TypeOK
<1>3. CASE IsEngaged(ds[n])
  <2>1. UNCHANGED <<known, ds>>
    BY Zenon, <1>1, <1>3 DEF DropIfDisengaged
  <2>2. TypeOK'
    BY Zenon, <1>1, <1>2, <2>1 DEF TypeOK
  <2>3. LifeCycle'
    BY Zenon, <1>2, <2>1 DEF IndInv, LifeCycle
  <2>4. Shapes' /\ LocalWork' /\ Debts' /\ Hanging(ds')
    BY Zenon, <2>1 DEF IndInv, Shapes, LocalWork, Debts, Local, Owed, OwedBy
  <2> QED BY Zenon, <2>2, <2>3, <2>4 DEF IndInv
<1>4. CASE ~IsEngaged(ds[n])
  <2>1. known' = known \ {n} /\ ds' = [ds EXCEPT ![n] = NewDS(n, FALSE)]
    BY Zenon, <1>1, <1>4 DEF DropIfDisengaged
  <2>2. Idle(ds[n])
    <3>1. CASE n = RootNode
      <4>1. terminated
        BY Zenon, <3>1 DEF IndInv, LifeCycle
      <4>2. ds[RootNode].outstanding = << >>
        BY Zenon, <4>1 DEF IndInv, LifeCycle
      <4> QED BY Zenon, <4>2, RootIdle
    <3>2. CASE n # RootNode
      <4>1. Shape(n, ds[n])
        BY Zenon DEF IndInv, Shapes
      <4>2. ~Engaged(n, ds[n])
        BY <3>2, <1>4 DEF Engaged, Rooting, Joined, IsEngaged
      <4> QED BY Zenon, <4>1, <4>2 DEF Shape
    <3> QED BY Zenon, <3>1, <3>2
  <2>3. /\ ds' \in [Node -> DSStates]
        /\ Shapes' /\ LocalWork' /\ Debts' /\ Hanging(ds')
        /\ \A m \in Node \ known' : ds'[m] = NewDS(m, FALSE)
        /\ ds'[RootNode].outstanding = << >> <=> ds[RootNode].outstanding = << >>
    BY Zenon, <2>1, <2>2, DropInv
  <2>4. TypeOK'
    BY Zenon, <1>1, <1>2, <2>1, <2>3 DEF TypeOK
  <2>5. LifeCycle'
    BY Zenon, <1>2, <2>3 DEF IndInv, LifeCycle
  <2> QED BY Zenon, <2>3, <2>4, <2>5 DEF IndInv
<1> QED BY Zenon, <1>3, <1>4

LEMMA RootCleanupInv ==
  ASSUME IndInv, RootCleanup
  PROVE  IndInv'
<1> USE DEF RootCleanup
<1>1. RootNode \in Node /\ terminated /\ TypeOK
  BY Zenon, DSAssumption DEF IndInv, LifeCycle
<1>2. ds[RootNode].outstanding = << >>
  BY Zenon, <1>1 DEF IndInv, LifeCycle
<1>3. Idle(ds[RootNode])
  BY Zenon, <1>1, <1>2, RootIdle
<1>4. /\ ds' \in [Node -> DSStates]
      /\ Shapes' /\ LocalWork' /\ Debts' /\ Hanging(ds')
      /\ \A m \in Node \ known' : ds'[m] = NewDS(m, FALSE)
      /\ ds'[RootNode].outstanding = << >> <=> ds[RootNode].outstanding = << >>
  BY Zenon, <1>1, <1>3, DropInv
<1>5. TypeOK'
  BY Zenon, <1>1, <1>4 DEF TypeOK
<1>6. LifeCycle'
  BY Zenon, <1>1, <1>4 DEF IndInv, LifeCycle
<1> QED BY Zenon, <1>4, <1>5, <1>6 DEF IndInv

-----------------------------------------------------------------------------
\* The invariant and what follows from it.

LEMMA InitInv ==
  ASSUME Init
  PROVE  IndInv
<1>1. /\ made = FALSE /\ finished = FALSE /\ known = {} /\ ops \in Nat
      /\ cleanup = FALSE /\ terminated = FALSE
  BY Zenon, DSAssumption DEF Init
<1>2. /\ net \in [Node -> [Node -> Nat]] /\ queue \in [Node -> Nat]
      /\ acks \in [Node -> Nat] /\ checks \in [Node -> Nat]
  BY Zenon DEF Init
<1>3. \A n \in Node : /\ queue[n] = 0 /\ acks[n] = 0 /\ checks[n] = 0
                      /\ \A m \in Node : net[n][m] = 0
  BY Zenon DEF Init
<1>4. \A n \in Node : ds[n] = NewDS(n, FALSE)
  BY Zenon DEF Init
<1>5. \A n \in Node : /\ NewDS(n, FALSE) \in DSStates /\ Idle(NewDS(n, FALSE))
                      /\ LocalLeft(NewDS(n, FALSE)) = 0
  BY Zenon, NewDSFacts
<1>6. ds \in [Node -> DSStates]
  BY Zenon, <1>5 DEF Init
<1>7. TypeOK
  BY Zenon, <1>1, <1>2, <1>6 DEF TypeOK
<1>8. \A n \in Node : Idle(ds[n]) /\ LocalLeft(ds[n]) = 0
  BY Zenon, <1>4, <1>5
<1>9. Shapes
  BY Zenon, <1>8 DEF Shapes, Shape
<1>10. LocalWork
  <2>1. \A n \in Node : Local(n) = 0
    BY <1>1, <1>3 DEF Local
  <2> QED BY Zenon, <1>8, <2>1 DEF LocalWork
<1>11. \A n \in Node : ds[n].parent = NoParent /\ ds[n].D = 0
  BY Zenon, <1>8 DEF Idle
<1>12. \A k \in Node : NoParent # k
  BY NumNodesAssumption DEF NoParent, Node
<1>13. Debts
  <2> SUFFICES ASSUME NEW k \in Node PROVE ds[k].D = Owed(net, ds, acks, k)
    BY Zenon DEF Debts
  <2>1. OwedBy(net, ds, k) \in [Node -> Int]
    BY Zenon, <1>7, OwedByType
  <2>2. \A m \in Node : OwedBy(net, ds, k)[m] = net[k][m] + (IF ds[m].parent = k THEN 1 ELSE 0)
    BY Zenon, <1>7, OwedByType
  <2>3. \A m \in Node : OwedBy(net, ds, k)[m] = 0
    BY <1>3, <1>11, <1>12, <2>2
  <2>4. NodeSum(OwedBy(net, ds, k)) = 0
    BY Zenon, <2>1, <2>3, NodeSumZero
  <2>5. ds[k].D = 0 /\ acks[k] = 0
    BY Zenon, <1>3, <1>11
  <2>6. Owed(net, ds, acks, k) = acks[k] + NodeSum(OwedBy(net, ds, k))
    BY Zenon DEF Owed
  <2> QED BY <2>4, <2>5, <2>6
<1>14. Hanging(ds)
  BY Zenon, <1>11 DEF Hanging
<1>15. LifeCycle
  <2>1. ds[RootNode].outstanding = << >> /\ ~(checks[RootNode] > 0)
    BY <1>3, <1>8, DSAssumption DEF Idle
  <2> QED BY Zenon, <1>1, <1>4, <2>1 DEF LifeCycle
<1> QED BY Zenon, <1>7, <1>9, <1>10, <1>13, <1>14, <1>15 DEF IndInv

LEMMA NextInv ==
  ASSUME IndInv, [Next]_vars
  PROVE  IndInv'
<1>1. CASE MakeEpochRootedDS
  BY Zenon, <1>1, MakeEpochRootedDSInv
<1>2. CASE FinishedEpoch
  BY Zenon, <1>2, FinishedEpochInv
<1>3. CASE RootCleanup
  BY Zenon, <1>3, RootCleanupInv
<1>4. CASE \E n \in Node : \E a \in Node \ {n} : Deliver(a, n)
  BY Zenon, <1>4, DeliverInv
<1>5. CASE \E n \in Node : FinishLocal(n)
  BY Zenon, <1>5, FinishLocalInv
<1>6. CASE \E n \in Node : AcknowledgeHan(n)
  BY Zenon, <1>6, AcknowledgeHanInv
<1>7. CASE \E n \in Node : Disengage(n)
  BY Zenon, <1>7, DisengageInv
<1>8. CASE \E n \in Node : StartLocal(n)
  BY Zenon, <1>8, StartLocalInv
<1>9. CASE \E n \in Node : \E m \in Node : SendMsg(n, m)
  BY Zenon, <1>9, SendMsgInv
<1>10. CASE UNCHANGED vars
  BY Zenon, <1>10 DEF vars, IndInv, TypeOK, Shapes, LocalWork, Local, Debts, Owed, OwedBy, LifeCycle
<1> QED BY Zenon, <1>1, <1>2, <1>3, <1>4, <1>5, <1>6, <1>7, <1>8, <1>9, <1>10 DEF Next, Progress

\* The inductive invariant holds in every behaviour of the rooted detector.
THEOREM Invariance == Spec => []IndInv
<1>1. Init => IndInv
  BY Zenon, InitInv
<1>2. IndInv /\ [Next]_vars => IndInv'
  BY Zenon, NextInv
<1> QED BY <1>1, <1>2, PTL DEF Spec

\* Every variable keeps its type, for any number of nodes and any work.
THEOREM TypeCorrectness == Spec => []TypeOK
<1>1. IndInv => TypeOK
  BY Zenon DEF IndInv
<1> QED BY <1>1, Invariance, PTL

\* The assertions of ds.cc hold whenever a handler begins.
THEOREM AssertionsHold == Spec => []DSInvariant
<1>1. IndInv => DSInvariant
  <2> SUFFICES ASSUME IndInv, NEW n \in Node
               PROVE  LET s == ds[n]
                      IN /\ s.C = s.processedSum - (s.ackedArbitrary + s.ackedParent)
                         /\ s.lC <= s.lD
                         /\ s.outstanding # << >> =>
                              /\ s.outstanding[1].count = s.engagementMessageCount
                              /\ s.outstanding[1].pred
                                   = (IF s.parent = NoParent THEN n ELSE s.parent)
    BY Zenon DEF DSInvariant
  <2> DEFINE s == ds[n]
  <2>1. s \in DSStates /\ Shape(n, s) /\ LocalLeft(s) = Local(n) /\ Local(n) \in Nat
    BY DEF IndInv, TypeOK, Shapes, LocalWork, Local
  <2> HIDE DEF s
  <2>2. /\ s.lC \in Nat /\ s.lD \in Nat /\ s.processedSum \in Nat
        /\ s.ackedArbitrary \in Nat /\ s.ackedParent \in Nat
    BY Zenon, <2>1 DEF DSStates
  <2>3. s.lC <= s.lD
    BY <2>1, <2>2 DEF LocalLeft
  <2>4. CASE Idle(s)
    BY <2>3, <2>4 DEF Idle, s
  <2>5. CASE Rooting(n, s)
    BY <2>2, <2>3, <2>5 DEF Rooting, s
  <2>6. CASE Joined(n, s)
    <3>1. s.parent # NoParent
      BY SMTT(30), <2>6, NumNodesAssumption DEF Joined, NoParent, Node
    <3>2. s.C = s.processedSum - (s.ackedArbitrary + s.ackedParent)
      BY <2>2, <2>6 DEF Joined
    <3>3. s.outstanding[1].count = s.engagementMessageCount /\ s.outstanding[1].pred = s.parent
      BY <2>6 DEF Joined
    <3> QED BY Zenon, <2>3, <3>1, <3>2, <3>3 DEF s
  <2> QED BY Zenon, <2>1, <2>4, <2>5, <2>6 DEF Shape, Engaged
<1> QED BY <1>1, Invariance, PTL

\* No order of enqueued actions makes a node forget work or a debt.
THEOREM DebtsKept == Spec => []NoDebtForgotten
<1>1. IndInv => NoDebtForgotten
  <2> SUFFICES ASSUME IndInv, NEW n \in Node, n \notin known
               PROVE  /\ queue[n] = 0
                      /\ acks[n] = 0
                      /\ \A m \in Node : net[n][m] = 0 /\ ds[m].parent # n
    BY Zenon DEF NoDebtForgotten
  <2>1. TypeOK /\ Debts
    BY Zenon DEF IndInv
  <2>2. ds[n] = NewDS(n, FALSE)
    BY Zenon DEF IndInv, LifeCycle
  <2>3. ds[n].D = 0 /\ LocalLeft(ds[n]) = 0
    BY Zenon, <2>2, NewDSFacts DEF Idle
  <2>4. LocalLeft(ds[n]) = Local(n)
    BY Zenon DEF IndInv, LocalWork
  <2>5. queue[n] \in Nat /\ acks[n] \in Nat /\ \A m \in Node : net[n][m] \in Nat
    BY Zenon, <2>1 DEF TypeOK
  <2>6. queue[n] = 0
    BY <2>3, <2>4, <2>5 DEF Local
  <2>7. /\ ds[n].D >= acks[n] /\ \A m \in Node : ds[n].D >= net[n][m]
        /\ \A m \in Node : ds[m].parent = n => ds[n].D >= 1
    BY Zenon, <2>1, DebtCovers
  <2> QED BY <2>3, <2>5, <2>6, <2>7
<1> QED BY <1>1, Invariance, PTL

\* Every node with work or debts is engaged, and waited for by its parent.
THEOREM ResponsibilityHolds == Spec => []Responsible
<1>1. IndInv => Responsible
  <2> SUFFICES ASSUME IndInv, NEW n \in Node
               PROVE  /\ queue[n] > 0 \/ ds[n].D > 0 => ds[n].outstanding # << >>
                      /\ ds[n].parent # NoParent => ds[ds[n].parent].D > 0
    BY Zenon DEF Responsible
  <2>1. TypeOK /\ Debts
    BY Zenon DEF IndInv
  <2>2. queue[n] > 0 => Local(n) > 0
    BY <2>1 DEF TypeOK, Local
  <2>3. queue[n] > 0 \/ ds[n].D > 0 => ds[n].outstanding # << >>
    BY Zenon, <2>2, BusyEngaged, EngagedHas
  <2>4. ASSUME ds[n].parent # NoParent PROVE ds[ds[n].parent].D > 0
    <3> DEFINE p == ds[n].parent
    <3>1. p \in Node
      BY Zenon, <2>1, <2>4 DEF TypeOK, DSStates
    <3> HIDE DEF p
    <3>2. ds[p].D >= 1 /\ ds[p].D \in Nat
      BY Zenon, <2>1, <3>1, DebtCovers DEF p
    <3> QED BY <3>2 DEF p
  <2> QED BY Zenon, <2>3, <2>4
<1> QED BY <1>1, Invariance, PTL

\* When the root has detected termination the epoch is quiet.
LEMMA TerminatedQuiet ==
  ASSUME IndInv, terminated
  PROVE  Quiescent
<1>1. made /\ ds[RootNode].outstanding = << >>
  BY Zenon DEF IndInv, LifeCycle
<1>2. \A n \in Node : Local(n) = 0 /\ \A m \in Node : net[n][m] = 0
  BY Zenon, <1>1, RootIdle
<1>3. \A n \in Node : queue[n] \in Nat
  BY Zenon DEF IndInv, TypeOK
<1>4. \A n \in Node : queue[n] = 0
  BY <1>2, <1>3 DEF Local
<1>5. finished
  BY <1>1, <1>2, <1>3, DSAssumption DEF Local
<1> QED BY Zenon, <1>1, <1>2, <1>4, <1>5 DEF Quiescent

\* A quiet epoch stays quiet, and the root does not change its mind.
LEMMA StaysQuiet ==
  ASSUME IndInv, [Next]_vars
  PROVE  (Quiescent => Quiescent') /\ (terminated => terminated')
<1>1. Quiescent => /\ made /\ finished
                   /\ \A n \in Node : ~(queue[n] > 0) /\ ~InScope(n)
                   /\ \A n, m \in Node : ~(net[n][m] > 0)
  BY DEF Quiescent, InScope
<1>2. CASE MakeEpochRootedDS
  BY Zenon, <1>1, <1>2 DEF MakeEpochRootedDS, Commit
<1>3. CASE FinishedEpoch
  BY Zenon, <1>1, <1>3 DEF FinishedEpoch, Commit
<1>4. CASE RootCleanup
  BY Zenon, <1>4 DEF RootCleanup, Quiescent
<1>5. CASE \E n \in Node : \E a \in Node \ {n} : Deliver(a, n)
  BY Zenon, <1>1, <1>5 DEF Deliver, Commit
<1>6. CASE \E n \in Node : FinishLocal(n)
  BY Zenon, <1>1, <1>6 DEF FinishLocal, Commit
<1>7. CASE \E n \in Node : AcknowledgeHan(n)
  <2>1. UNCHANGED <<made, finished, net, queue>> /\ (terminated => terminated')
    BY Zenon, <1>7 DEF AcknowledgeHan, Commit
  <2> QED BY Zenon, <2>1 DEF Quiescent
<1>8. CASE \E n \in Node : Disengage(n)
  BY <1>8 DEF Disengage, Quiescent
<1>9. CASE \E n \in Node : StartLocal(n)
  BY Zenon, <1>1, <1>9 DEF StartLocal, Commit
<1>10. CASE \E n \in Node : \E m \in Node : SendMsg(n, m)
  BY Zenon, <1>1, <1>10 DEF SendMsg, Commit
<1>11. CASE UNCHANGED vars
  BY Zenon, <1>11 DEF vars, Quiescent
<1> QED BY Zenon, <1>2, <1>3, <1>4, <1>5, <1>6, <1>7, <1>8, <1>9, <1>10, <1>11 DEF Next, Progress

\* The rooted detector implements the promise of termination detection: the root
\* is told once, when the epoch is quiet, and the epoch never becomes busy again.
THEOREM Refinement == Spec => ImplementsTD
<1>1. Init => TD!Init
  BY Zenon DEF Init, Quiescent, TD!Init
<1>2. IndInv /\ IndInv' /\ [Next]_vars => [TD!Next]_(TD!vars)
  <2> SUFFICES ASSUME IndInv, IndInv', [Next]_vars
               PROVE  [TD!Next]_(TD!vars)
    BY Zenon
  <2>1. (Quiescent => Quiescent') /\ (terminated => terminated')
    BY Zenon, StaysQuiet
  <2>2. terminated' => Quiescent'
    BY TerminatedQuiet, PTL
  <2>3. terminated \in BOOLEAN /\ terminated' \in BOOLEAN
    BY Zenon DEF IndInv, TypeOK
  <2>4. CASE terminated = terminated' /\ Quiescent = Quiescent'
    BY Zenon, <2>4 DEF TD!vars
  <2>5. CASE terminated = terminated' /\ ~Quiescent /\ Quiescent'
    BY Zenon, <2>5 DEF TD!Next, TD!Quiesce
  <2>6. CASE ~terminated /\ terminated'
    BY Zenon, <2>2, <2>6 DEF TD!Next, TD!Announce
  <2>7. Quiescent \in BOOLEAN /\ Quiescent' \in BOOLEAN
    BY Zenon DEF Quiescent
  <2> QED BY Zenon, <2>1, <2>3, <2>4, <2>5, <2>6, <2>7
<1> QED BY <1>1, <1>2, Invariance, PTL DEF Spec, ImplementsTD, TD!Spec
=============================================================================
