------------------------------- MODULE TermDS -------------------------------
(***************************************************************************)
(* Termination detection for a rooted epoch by parental responsibility     *)
(* (vt::term::ds::TermDS, after Dijkstra and Scholten).  A node that takes *)
(* a first message of the epoch engages with its sender and acknowledges   *)
(* that message only when it has nothing left to do and everything it sent *)
(* has been acknowledged; any other message is acknowledged at once.  The  *)
(* root is engaged with itself, and detects termination when it would      *)
(* acknowledge itself.                                                     *)
(*                                                                         *)
(* A node drops its record some time after it disengages, and makes a new  *)
(* one when the epoch comes back to it.  Messages and acknowledgements are *)
(* delivered in any order.  Every unit is counted singly, as all callers   *)
(* of produce and consume do.                                              *)
(***************************************************************************)
EXTENDS Tree, Sequences

CONSTANTS
  RootNode,      \* the node that makes the epoch
  MaxUserOps     \* bound on sends, local work and dependencies

ASSUME DSAssumption == RootNode \in Node /\ MaxUserOps \in Nat

VARIABLES
  made,          \* the root has made the epoch
  finished,      \* and has called finishedEpoch
  known,         \* nodes with an entry in term_
  ds,            \* that entry (a new one where there is none)
  net,           \* net[a][b]: user messages in flight from a to b
  queue,         \* local units on a node: runnables and held dependencies
  ops,           \* user operations left
  acks,          \* acknowledgements in flight to a node
  checks,        \* enqueued actions that drop a disengaged record
  cleanup,       \* the root has enqueued the removal of its record
  terminated     \* epochTerminated has run on the root

vars == <<made, finished, known, ds, net, queue, ops, acks, checks, cleanup, terminated>>

NoParent == -1

AckRequest == [pred : Node, count : Nat]

DSStates ==
  [parent : Node \cup {NoParent}, C : Int, D : Int, lC : Nat, lD : Nat,
   ackedArbitrary : Nat, ackedParent : Nat, reqedParent : Nat, processedSum : Nat,
   engagementMessageCount : Nat, outstanding : Seq(AckRequest)]

\* TermDS's constructor with setRoot.
NewDS(n, is_root) ==
  [parent |-> NoParent, C |-> 0, D |-> 0, lC |-> 0, lD |-> 0,
   ackedArbitrary |-> 0, ackedParent |-> 0, reqedParent |-> 0, processedSum |-> 0,
   engagementMessageCount |-> 0,
   outstanding |-> IF is_root THEN <<[pred |-> n, count |-> 0]>> ELSE << >>]

Init ==
  /\ made = FALSE
  /\ finished = FALSE
  /\ known = {}
  /\ ds = [n \in Node |-> NewDS(n, FALSE)]
  /\ net = [a \in Node |-> [b \in Node |-> 0]]
  /\ queue = [n \in Node |-> 0]
  /\ ops = MaxUserOps
  /\ acks = [n \in Node |-> 0]
  /\ checks = [n \in Node |-> 0]
  /\ cleanup = FALSE
  /\ terminated = FALSE

-----------------------------------------------------------------------------
\* The operations on a record.  An effect is the record, the acknowledgements
\* sent to each node, and whether the node disengaged and detected termination.

Effect(s) == [s |-> s, acked |-> [n \in Node |-> 0], disengaged |-> FALSE, term |-> FALSE]

Acknowledge(e, pred, count) == [e EXCEPT !.acked[pred] = @ + count]

IsEngaged(s) == s.engagementMessageCount > 0

MsgSent(n, s, successor) ==
  IF successor = n THEN [s EXCEPT !.lD = @ + 1] ELSE [s EXCEPT !.D = @ + 1]

\* Mutant: every acknowledgement counts as one to an arbitrary node.
TryAckArbitrary(s) ==
  LET a == s.outstanding[Len(s.outstanding)]
  IN IF Len(s.outstanding) <= 1 \/ s.C < a.count
     THEN Effect(s)
     ELSE Acknowledge(
            Effect([s EXCEPT !.C = @ - a.count, !.ackedArbitrary = @ + a.count,
                             !.outstanding = SubSeq(@, 1, Len(@) - 1)]),
            a.pred, a.count)

TryAck(s) ==
  LET a == s.outstanding[Len(s.outstanding)]
      popped == [s EXCEPT !.C = @ - a.count, !.outstanding = SubSeq(@, 1, Len(@) - 1)]
  IN IF Len(s.outstanding) <= 1 \/ s.C < a.count
     THEN Effect(s)
     ELSE Acknowledge(
            Effect(IF a.pred = s.parent
                   THEN [popped EXCEPT !.ackedParent = @ + a.count]
                   ELSE [popped EXCEPT !.ackedArbitrary = @ + a.count]),
            a.pred, a.count)

\* Mutant: disengages with messages of its own unacknowledged.
IsLastNoDebt(s) ==
  /\ Len(s.outstanding) = 1
  /\ s.lC = s.lD
  /\ s.reqedParent - s.ackedParent = s.engagementMessageCount
  /\ s.C = s.engagementMessageCount

\* The test of tryLast: nothing is left but the message the node engaged with.
IsLast(s) ==
  /\ Len(s.outstanding) = 1
  /\ s.lC = s.lD
  /\ s.reqedParent - s.ackedParent = s.engagementMessageCount
  /\ s.D = 0
  /\ s.C = s.engagementMessageCount

TryLast(n, e) ==
  LET s == e.s
      a == s.outstanding[1]
      reset == [NewDS(n, FALSE) EXCEPT !.D = s.D, !.lC = s.lC, !.lD = s.lD]
      done == [e EXCEPT !.s = reset, !.disengaged = TRUE]
  IN IF ~IsLast(s) THEN e
     ELSE IF a.pred = n THEN [done EXCEPT !.term = TRUE]
     ELSE Acknowledge(done, s.parent, s.engagementMessageCount)

\* A message of another node: engage with it, or add it to what is to be
\* acknowledged (the first entry is the engagement's own).
Requested(s, predecessor) ==
  LET o == s.outstanding
      same == {i \in 2 .. Len(o) : o[i].pred = predecessor}
      req == [pred |-> predecessor, count |-> 1]
  IN IF o = << >>
     THEN [s EXCEPT !.parent = predecessor, !.engagementMessageCount = 1,
                    !.outstanding = <<req>>]
     ELSE IF same = {} THEN [s EXCEPT !.outstanding = Append(o, req)]
     ELSE [s EXCEPT !.outstanding[CHOOSE i \in same : \A j \in same : i <= j].count = @ + 1]

MsgProcessed(n, s, predecessor) ==
  LET counted == IF predecessor = n
                 THEN [s EXCEPT !.lC = @ + 1]
                 ELSE Requested([s EXCEPT !.C = @ + 1, !.processedSum = @ + 1], predecessor)
      asked == IF predecessor = counted.parent
               THEN [counted EXCEPT !.reqedParent = @ + 1]
               ELSE counted
  IN TryLast(n, TryAck(asked))

GotAck(n, s) == TryLast(n, Effect([s EXCEPT !.D = @ - 1]))

\* getDSTerm: the entry of term_, or a new one, not as the root's.
GetDSTerm(n) == IF n \in known THEN ds[n] ELSE NewDS(n, FALSE)

\* Node n ends a handler with effect e; "received" counts the acknowledgements
\* it took from the network.
Commit(n, e, received) ==
  /\ known' = known \cup {n}
  /\ ds' = [ds EXCEPT ![n] = e.s]
  /\ acks' = [m \in Node |-> acks[m] + e.acked[m] - (IF m = n THEN received ELSE 0)]
  /\ checks' = [checks EXCEPT ![n] = @ + (IF e.disengaged THEN 1 ELSE 0)]
  /\ terminated' = (terminated \/ e.term)
  /\ cleanup' = (cleanup \/ e.term)

-----------------------------------------------------------------------------
\* The epoch and its work.

MakeEpochRootedDS ==
  /\ ~made
  /\ made' = TRUE
  /\ Commit(RootNode, Effect(MsgSent(RootNode, NewDS(RootNode, TRUE), RootNode)), 0)
  /\ UNCHANGED <<finished, net, queue, ops>>

FinishedEpoch ==
  /\ made
  /\ ~finished
  /\ finished' = TRUE
  /\ Commit(RootNode, MsgProcessed(RootNode, GetDSTerm(RootNode), RootNode), 0)
  /\ UNCHANGED <<made, net, queue, ops>>

\* User code on n runs under the epoch.
InScope(n) == queue[n] > 0 \/ (n = RootNode /\ made /\ ~finished)

SendMsg(n, m) ==
  /\ InScope(n)
  /\ n # m
  /\ ops > 0
  /\ ops' = ops - 1
  /\ net' = [net EXCEPT ![n][m] = @ + 1]
  /\ Commit(n, Effect(MsgSent(n, GetDSTerm(n), m)), 0)
  /\ UNCHANGED <<made, finished, queue>>

\* A message to the node itself, or addLocalDependency.
StartLocal(n) ==
  /\ InScope(n)
  /\ ops > 0
  /\ ops' = ops - 1
  /\ queue' = [queue EXCEPT ![n] = @ + 1]
  /\ Commit(n, Effect(MsgSent(n, GetDSTerm(n), n)), 0)
  /\ UNCHANGED <<made, finished, net>>

\* The arriving message becomes a runnable before it is consumed itself.
Deliver(a, n) ==
  /\ net[a][n] > 0
  /\ net' = [net EXCEPT ![a][n] = @ - 1]
  /\ queue' = [queue EXCEPT ![n] = @ + 1]
  /\ Commit(n, MsgProcessed(n, MsgSent(n, GetDSTerm(n), n), a), 0)
  /\ UNCHANGED <<made, finished, ops>>

\* The end of a runnable, or releaseLocalDependency.
FinishLocal(n) ==
  /\ queue[n] > 0
  /\ queue' = [queue EXCEPT ![n] = @ - 1]
  /\ Commit(n, MsgProcessed(n, GetDSTerm(n), n), 0)
  /\ UNCHANGED <<made, finished, net, ops>>

AcknowledgeHan(n) ==
  /\ acks[n] > 0
  /\ Commit(n, GotAck(n, GetDSTerm(n)), 1)
  /\ UNCHANGED <<made, finished, net, queue, ops>>

\* Mutant: drops the record although the node may have engaged again.
DropAlways(n) == known' = known \ {n} /\ ds' = [ds EXCEPT ![n] = NewDS(n, FALSE)]

\* What a disengagement's enqueued action does when it runs, later.
DropIfDisengaged(n) ==
  IF IsEngaged(GetDSTerm(n))
  THEN UNCHANGED <<known, ds>>
  ELSE known' = known \ {n} /\ ds' = [ds EXCEPT ![n] = NewDS(n, FALSE)]

Disengage(n) ==
  /\ checks[n] > 0
  /\ checks' = [checks EXCEPT ![n] = @ - 1]
  /\ DropIfDisengaged(n)
  /\ UNCHANGED <<made, finished, net, queue, ops, acks, cleanup, terminated>>

\* cleanupEpoch on the root, enqueued when it detects termination.
RootCleanup ==
  /\ cleanup
  /\ cleanup' = FALSE
  /\ known' = known \ {RootNode}
  /\ ds' = [ds EXCEPT ![RootNode] = NewDS(RootNode, FALSE)]
  /\ UNCHANGED <<made, finished, net, queue, ops, acks, checks, terminated>>

\* The steps the runtime and finishing user code take by themselves.
Progress ==
  \/ MakeEpochRootedDS
  \/ FinishedEpoch
  \/ RootCleanup
  \/ \E n \in Node :
       \/ \E a \in Node \ {n} : Deliver(a, n)
       \/ FinishLocal(n)
       \/ AcknowledgeHan(n)
       \/ Disengage(n)

Next ==
  \/ Progress
  \/ \E n \in Node : StartLocal(n) \/ \E m \in Node : SendMsg(n, m)

Spec == Init /\ [][Next]_vars

\* Some such step is taken whenever one is possible: messages arrive, user code
\* ends, enqueued actions run.  The order among them is left open.
Fairness == WF_vars(Progress)

FairSpec == Spec /\ Fairness

-----------------------------------------------------------------------------
\* Properties.

\* Every variable has its type.
TypeOK ==
  /\ made \in BOOLEAN
  /\ finished \in BOOLEAN
  /\ known \subseteq Node
  /\ ds \in [Node -> DSStates]
  /\ net \in [Node -> [Node -> Nat]]
  /\ queue \in [Node -> Nat]
  /\ ops \in Nat
  /\ acks \in [Node -> Nat]
  /\ checks \in [Node -> Nat]
  /\ cleanup \in BOOLEAN
  /\ terminated \in BOOLEAN

\* No unit of the epoch exists and none can be created.
Quiescent ==
  /\ made
  /\ finished
  /\ \A n \in Node : queue[n] = 0 /\ \A m \in Node : net[n][m] = 0

\* The assertions of msgSent, gotAck, msgProcessed and tryLast ("DS-invariant"):
\* what was processed and not acknowledged is owed, the first entry is the
\* engagement's own, and only the root owes itself.
DSInvariant ==
  \A n \in Node :
    LET s == ds[n]
    IN /\ s.C = s.processedSum - (s.ackedArbitrary + s.ackedParent)
       /\ s.lC <= s.lD
       /\ s.outstanding # << >> =>
            /\ s.outstanding[1].count = s.engagementMessageCount
            /\ s.outstanding[1].pred = (IF s.parent = NoParent THEN n ELSE s.parent)

\* Dropping a record, whenever the enqueued action runs, forgets no debt: a node
\* that has work or waits for an acknowledgement keeps its record, and
\* acknowledgements find it.
NoDebtForgotten ==
  \A n \in Node : n \notin known =>
    /\ queue[n] = 0
    /\ acks[n] = 0
    /\ \A m \in Node : net[n][m] = 0 /\ ds[m].parent # n

\* Responsibility reaches the root: until termination is detected, every node
\* with work or debts is engaged, and whoever it engaged with still waits for it.
Responsible ==
  \A n \in Node :
    /\ queue[n] > 0 \/ ds[n].D > 0 => ds[n].outstanding # << >>
    /\ ds[n].parent # NoParent => ds[ds[n].parent].D > 0

\* The algorithm keeps the promise of termination detection, for its root.
TD == INSTANCE EpochTD WITH Member <- {RootNode}, busy <- ~Quiescent,
                            told <- IF terminated THEN {RootNode} ELSE {}

ImplementsTD == TD!Spec

\* With fair delivery termination is detected, and every record is dropped.
TerminatesAndCleans == <>[](terminated /\ known = {})
=============================================================================
