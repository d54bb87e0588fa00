----------------------------- MODULE TermDSInv ------------------------------
(***************************************************************************)
(* The inductive invariant behind the safety of rooted detection: between  *)
(* handlers a record has one of three shapes, debts are conserved between  *)
(* records and the network, and the engagement edges form a tree that      *)
(* hangs from the root.                                                    *)
(***************************************************************************)
EXTENDS TermDS, NodeSum

\* A record that is not engaged: nothing is counted but finished local work.
Idle(s) ==
  /\ s.outstanding = << >>
  /\ s.parent = NoParent
  /\ s.C = 0
  /\ s.D = 0
  /\ s.ackedArbitrary = 0
  /\ s.ackedParent = 0
  /\ s.reqedParent = 0
  /\ s.processedSum = 0
  /\ s.engagementMessageCount = 0

\* The root's record while the epoch is live: it owes nobody.
Rooting(n, s) ==
  /\ n = RootNode
  /\ s.outstanding = <<[pred |-> n, count |-> 0]>>
  /\ s.parent = NoParent
  /\ s.C = 0
  /\ s.ackedParent = 0
  /\ s.reqedParent = 0
  /\ s.engagementMessageCount = 0
  /\ s.processedSum = s.ackedArbitrary

\* Another node's record while it owes the one message it engaged with.
Joined(n, s) ==
  /\ n # RootNode
  /\ s.parent \in Node \ {n}
  /\ s.outstanding = <<[pred |-> s.parent, count |-> 1]>>
  /\ s.C = 1
  /\ s.reqedParent = s.ackedParent + 1
  /\ s.engagementMessageCount = 1
  /\ s.processedSum = s.ackedArbitrary + s.ackedParent + 1

Engaged(n, s) == Rooting(n, s) \/ Joined(n, s)

\* Local units begun and not ended.
LocalLeft(s) == s.lD - s.lC

\* A node stays engaged only while it has something to wait for.
Shape(n, s) ==
  \/ Idle(s) /\ LocalLeft(s) = 0
  \/ Engaged(n, s) /\ (LocalLeft(s) > 0 \/ (LocalLeft(s) = 0 /\ s.D # 0))

Shapes == \A n \in Node : Shape(n, ds[n])

\* The local units of a node are its runnables and dependencies and, on the
\* root, the unit that finishedEpoch consumes.
Local(n) == queue[n] + (IF n = RootNode /\ made /\ ~finished THEN 1 ELSE 0)

LocalWork == \A n \in Node : LocalLeft(ds[n]) = Local(n)

\* What node n waits for from each node: messages still in flight to it, and
\* the message it engaged with.
OwedBy(nt, st, n) == [m \in Node |-> nt[n][m] + (IF st[m].parent = n THEN 1 ELSE 0)]

Owed(nt, st, ak, n) == ak[n] + NodeSum(OwedBy(nt, st, n))

Debts == \A n \in Node : ds[n].D = Owed(net, ds, acks, n)

\* The engagement edges have no cycle: in any set of nodes with a parent one
\* has its parent outside.
Hanging(st) ==
  \A S \in SUBSET Node :
    S # {} /\ (\A n \in S : st[n].parent # NoParent) => \E n \in S : st[n].parent \notin S

\* The life of the epoch and of the records.
LifeCycle ==
  /\ finished => made
  /\ terminated => made
  /\ ds[RootNode].outstanding # << >> <=> made /\ ~terminated
  /\ cleanup \/ checks[RootNode] > 0 => terminated
  /\ \A n \in Node \ known : ds[n] = NewDS(n, FALSE)

\* The inductive invariant: it holds initially, every handler preserves it, and
\* it implies the safety properties of TermDS.
IndInv ==
  /\ TypeOK
  /\ Shapes
  /\ LocalWork
  /\ Debts
  /\ Hanging(ds)
  /\ LifeCycle
=============================================================================
