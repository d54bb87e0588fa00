-------------------------- MODULE EpochDependency --------------------------
(***************************************************************************)
(* Dependencies between epochs: a successor must not terminate before its  *)
(* predecessors.  On the node where the dependency is made the predecessor *)
(* keeps a unit of the successor, which it gives back when that node hears *)
(* that the predecessor terminated; addDependency drops edges it takes to  *)
(* be implied by others.                                                   *)
(*                                                                         *)
(* Detection itself is what EpochTD promises (and TermWave and TermDS      *)
(* implement) for each epoch: an epoch goes quiet when no unit of it is    *)
(* left, and then the nodes are told one by one.  A unit kept by a         *)
(* predecessor is produced and consumed on the same node, so the units of  *)
(* all nodes add up to zero just when each node has none.                  *)
(***************************************************************************)
EXTENDS Naturals, FiniteSets

CONSTANTS
  Node,
  Epoch,
  DS,         \* the epochs detected by parental responsibility
  RootNode    \* the node that made them, the only one told when they end

ASSUME EpochDependencyAssumption ==
  /\ IsFiniteSet(Epoch) /\ DS \subseteq Epoch /\ RootNode \in Node

VARIABLES
  work,       \* epochs with work of their own (messages, finishedEpoch to come)
  quiet,      \* epochs that have no unit left and count as terminated
  told,       \* per node: the epochs it was told of
  successors, \* successors_ of an epoch's record, per node
  units,      \* units of an epoch produced by predecessors, per node
  deps,       \* deps_ of a wave epoch's state, per node
  depend      \* history: the dependencies that were asked for in time

depVars == <<work, quiet, told, successors, units, deps, depend>>

DepInit ==
  /\ work = Epoch
  /\ quiet = {}
  /\ told = [n \in Node |-> {}]
  /\ successors = [n \in Node |-> [e \in Epoch |-> {}]]
  /\ units = [n \in Node |-> [e \in Epoch |-> 0]]
  /\ deps = [n \in Node |-> [e \in Epoch |-> 0]]
  /\ depend = {}

\* Epoch q can be reached from p by the pairs in R: every set that holds p
\* and is closed under R holds q.
Reaches(p, q, R) ==
  \A S \in SUBSET Epoch : (p \in S /\ \A x, y \in Epoch : x \in S /\ <<x, y>> \in R => y \in S)
                             => q \in S

\* One unit more (in up) and one less (in down) for some epochs: produce and
\* consume, with incrementDependency and decrementDependency for wave epochs.
Count(n, up, down) ==
  /\ units' = [units EXCEPT ![n] = [e \in Epoch |->
                 IF e \in up THEN @[e] + 1 ELSE IF e \in down THEN @[e] - 1 ELSE @[e]]]
  /\ deps' = [deps EXCEPT ![n] = [e \in Epoch |->
                 IF e \in up \ DS THEN @[e] + 1 ELSE IF e \in down \ DS THEN @[e] - 1 ELSE @[e]]]

\* Mutant: an edge already there is counted again.
NewSuccessorAlways(n, p, s) == {s}

\* What addSuccessor inserts: the successor, if it is not there yet.
NewSuccessor(n, p, s) == {s} \ successors[n][p]

\* Mutant: the predecessor's edges are dropped in favour of the successor's
\* although the successor does not have them.
ImpliedAll(n, p, s) == successors[n][p] \ {s}

\* removeIntersection: the edges the predecessor shares with the successor.
Implied(n, p, s) == successors[n][s] \cap successors[n][p]

\* The predecessor's list afterwards.
Edges(n, p, s) == (successors[n][p] \ Implied(n, p, s)) \cup {s}

(***************************************************************************)
(* addDependency(p, s) on node n.  The caller runs in s or has just made   *)
(* it, so s has work; users make no cycles.  The record of a DS epoch is   *)
(* dropped when a node that is not its root disengages, so only the root,  *)
(* which is where makeEpochRooted calls it, makes one a predecessor.       *)
(***************************************************************************)
AddDependency(n, p, s) ==
  /\ p # s
  /\ s \in work
  /\ p \in DS => n = RootNode
  /\ ~ Reaches(s, p, depend)
  /\ p \notin told[n]
  /\ Count(n, NewSuccessor(n, p, s), Implied(n, p, s))
  /\ successors' = [successors EXCEPT ![n][p] = Edges(n, p, s)]
  /\ depend' = IF p \in quiet THEN depend ELSE depend \cup {<<p, s>>}
  /\ UNCHANGED <<work, quiet, told>>

\* The epoch's own work is done: finishedEpoch was called and every message
\* of it processed.
FinishWork(e) ==
  /\ e \in work
  /\ work' = work \ {e}
  /\ UNCHANGED <<quiet, told, successors, units, deps, depend>>

\* The detector finds the epoch without units.  A node with deps_ > 0 hands
\* no counts on, so a wave epoch also needs all of them at zero.
Quiesce(e) ==
  /\ e \notin work \cup quiet
  /\ \A n \in Node : units[n][e] = 0 /\ (e \notin DS => deps[n][e] = 0)
  /\ quiet' = quiet \cup {e}
  /\ UNCHANGED <<work, told, successors, units, deps, depend>>

\* Mutant: the successors' units are given back, the dependency is not.
EpochTerminatedKeepsDeps(n, e) ==
  /\ e \in quiet \ told[n]
  /\ e \in DS => n = RootNode
  /\ told' = [told EXCEPT ![n] = @ \cup {e}]
  /\ units' = [units EXCEPT ![n] = [f \in Epoch |->
                 IF f \in successors[n][e] THEN @[f] - 1 ELSE @[f]]]
  /\ successors' = [successors EXCEPT ![n][e] = {}]
  /\ UNCHANGED <<work, quiet, deps, depend>>

\* epochTerminated on a node: clearSuccessors gives every unit back.
EpochTerminated(n, e) ==
  /\ e \in quiet \ told[n]
  /\ e \in DS => n = RootNode
  /\ told' = [told EXCEPT ![n] = @ \cup {e}]
  /\ Count(n, {}, successors[n][e])
  /\ successors' = [successors EXCEPT ![n][e] = {}]
  /\ UNCHANGED <<work, quiet, depend>>

DepNext ==
  \/ \E n \in Node, p, s \in Epoch : AddDependency(n, p, s)
  \/ \E e \in Epoch : FinishWork(e) \/ Quiesce(e)
  \/ \E n \in Node, e \in Epoch : EpochTerminated(n, e)

\* Work ends, detectors detect, and nodes are told.
DepFairness ==
  /\ \A e \in Epoch : WF_depVars(FinishWork(e)) /\ WF_depVars(Quiesce(e))
  /\ \A n \in Node, e \in Epoch : WF_depVars(EpochTerminated(n, e))

DepSpec == DepInit /\ [][DepNext]_depVars /\ DepFairness

(***************************************************************************)
(* Properties.                                                             *)
(***************************************************************************)

TypeOK ==
  /\ work \subseteq Epoch
  /\ quiet \subseteq Epoch
  /\ told \in [Node -> SUBSET Epoch]
  /\ successors \in [Node -> [Epoch -> SUBSET Epoch]]
  /\ units \in [Node -> [Epoch -> Nat]]
  /\ deps \in [Node -> [Epoch -> Nat]]
  /\ depend \subseteq Epoch \X Epoch

\* The predecessors whose records on node n list e as a successor.
Holders(n, e) == {p \in Epoch : e \in successors[n][p]}

\* The units and the deps_ count of an epoch are exactly the edges that end
\* in it: addSuccessor, removeIntersection and clearSuccessors never count an
\* edge twice and never forget one.
UnitPerEdge ==
  \A n \in Node, e \in Epoch :
     /\ units[n][e] = Cardinality(Holders(n, e))
     /\ deps[n][e] = IF e \in DS THEN 0 ELSE Cardinality(Holders(n, e))

\* A successor is never found terminated before its predecessor, although
\* addDependency drops the edges it takes to be implied.
PredecessorFirst == \A d \in depend : d[2] \in quiet => d[1] \in quiet

\* No unit is left behind: when the epochs' own work ends all of them
\* terminate, whatever dependencies were made.
EveryEpochTerminates == <>(quiet = Epoch)
=============================================================================
