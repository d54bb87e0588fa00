------------------------------- MODULE Reduce -------------------------------
(***************************************************************************)
(* Reductions over the tree to its root, each known by a stamp, followed   *)
(* by the broadcast of the callback (what allreduce and the collective     *)
(* scopes use).  The data reduced is who contributed, and how often.       *)
(***************************************************************************)
EXTENDS Scheduler

CONSTANT Stamp     \* the stamps in use

VARIABLES
  nmsgs,           \* state_: how many messages a node holds under a stamp
  value,           \* what they add up to
  result           \* history: what the root got for a stamp

reduceVars == <<nmsgs, value, result>>

NoValue == [n \in Node |-> 0]
Own(n) == [NoValue EXCEPT ![n] = 1]
Plus(v, w) == [n \in Node |-> v[n] + w[n]]

ReduceInit ==
  /\ nmsgs = [n \in Node |-> [s \in Stamp |-> 0]]
  /\ value = [n \in Node |-> [s \in Stamp |-> NoValue]]
  /\ result = [s \in Stamp |-> NoValue]

\* Mutant: ready as soon as the children have sent theirs.
ReduceReadyEarly(n, s) == nmsgs[n][s] + 1 >= NumChildren(n)

\* The test of startReduce, once the message at hand is added.
ReduceReady(n, s) == nmsgs[n][s] + 1 = NumChildren(n) + 1

\* reduceAddMsg, then startReduce: combine when complete, erase the state,
\* and send to the parent or, on the root, run the callback.
AddAndStart(n, s, v, q) ==
  LET sum == Plus(value[n][s], v)
      ready == ReduceReady(n, s)
  IN /\ nmsgs' = [nmsgs EXCEPT ![n][s] = IF ready THEN 0 ELSE @ + 1]
     /\ value' = [value EXCEPT ![n][s] = IF ready THEN NoValue ELSE sum]
     /\ result' = IF ready /\ n = Root THEN [result EXCEPT ![s] = sum] ELSE result
     /\ Post(n, q,
          IF ~ ready THEN Nothing
          ELSE IF n = Root THEN Broadcast([type |-> "callback", stamp |-> s])
          ELSE SendTo(n, Parent(n), [type |-> "reduceUp", stamp |-> s, value |-> sum]))

\* reduceImmediate: the node's own contribution.
reduceImmediate(n, s) == AddAndStart(n, s, Own(n), queue[n])

\* reduceUpHan: a child's.
reduceUpHan(n, w, q) == AddAndStart(n, w.stamp, w.value, q)

\* A reduction ends on the root with the contribution of every node, each
\* exactly once: the stamps keep reductions that run at the same time apart.
ReduceWhole == \A s \in Stamp : result[s] # NoValue => \A n \in Node : result[s][n] = 1
=============================================================================
