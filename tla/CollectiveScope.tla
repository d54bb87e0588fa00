-------------------------- MODULE CollectiveScope --------------------------
(***************************************************************************)
(* Collective scopes: MPI collectives that every node plans in its own     *)
(* time and that must run in the same order everywhere.  A reduction and a *)
(* broadcast tell the nodes that all have planned one; as broadcasts may   *)
(* overtake each other, the root's choice is agreed on with MPI_Ibcast and *)
(* MPI_Ibarrier, under which the scheduler keeps running.                  *)
(*                                                                         *)
(* MPI is external: the k-th MPI_Ibcast, MPI_Ibarrier or blocking          *)
(* collective of a node matches the k-th one of the others.                *)
(***************************************************************************)
EXTENDS Reduce

CONSTANT Scope

VARIABLES
  next_seq,        \* next_seq_ of a scope, per node
  planned,         \* planned_collective_: the pairs of scope and tag
  reenter_counter, \* of runCollective, per node
  postponed,       \* postponed_collectives_, the last one runs first
  chosen,          \* what the root sent with its MPI_Ibcast calls
  ibarriers,       \* MPI_Ibarrier calls made, per node
  ran              \* the actions begun, per node and in order

scopeVars ==
  <<next_seq, planned, reenter_counter, postponed, chosen, ibarriers, ran>>

ScopeInit ==
  /\ next_seq = [n \in Node |-> [s \in Scope |-> 1]]
  /\ planned = [n \in Node |-> {}]
  /\ reenter_counter = [n \in Node |-> 0]
  /\ postponed = [n \in Node |-> << >>]
  /\ chosen = << >>
  /\ ibarriers = [n \in Node |-> 0]
  /\ ran = [n \in Node |-> << >>]

\* mpiCollectiveAsync: plan the next tag of the scope and contribute.
mpiCollectiveAsync(n, s) ==
  LET tag == next_seq[n][s]
  IN /\ next_seq' = [next_seq EXCEPT ![n][s] = @ + 1]
     /\ planned' = [planned EXCEPT ![n] = @ \cup {<<s, tag>>}]
     /\ reduceImmediate(n, <<s, tag>>)
     /\ UNCHANGED <<stack, reenter_counter, postponed, chosen, ibarriers, ran>>

\* waitCollective spins until the tag is no longer planned.
waitCollective(n, c) ==
  /\ Push(n, <<"planned", c>>)
  /\ UNCHANGED <<net, queue, reduceVars, scopeVars>>

isCollectiveDone(n) == Top(n)[2] \notin planned[n]

LeaveWait(n) == Pop(n) /\ UNCHANGED <<net, queue, reduceVars, scopeVars>>

\* runCollective for c above the calls in rest, up to the loop that waits for
\* the root's MPI_Ibcast: it is the node's next one.
BeginConsensus(n, c, rest) ==
  /\ reenter_counter' = [reenter_counter EXCEPT ![n] = 1]
  /\ chosen' = IF n = Root THEN Append(chosen, c) ELSE chosen
  /\ stack' = [stack EXCEPT ![n] = <<<<"ibcast", c, Len(ran[n]) + 1>>>> \o rest]

\* The broadcast handler runCollective: postponed while another is resolving.
runCollective(n, c, q) ==
  /\ IF reenter_counter[n] # 0
       THEN /\ postponed' = [postponed EXCEPT ![n] = Append(@, c)]
            /\ UNCHANGED <<stack, reenter_counter, chosen>>
       ELSE /\ BeginConsensus(n, c, stack[n])
            /\ UNCHANGED postponed
  /\ Post(n, q, Nothing)
  /\ UNCHANGED <<next_seq, planned, ibarriers, ran, reduceVars>>

IbcastDone(n) == n = Root \/ Len(chosen) >= Top(n)[3]

\* MPI_Ibcast completed: enter the MPI_Ibarrier.
CallIbarrier(n) ==
  /\ ibarriers' = [ibarriers EXCEPT ![n] = @ + 1]
  /\ stack' = [stack EXCEPT ![n] = <<<<"ibarrier", Top(n)[2], Top(n)[3]>>>> \o Tail(@)]
  /\ UNCHANGED <<net, queue, reduceVars, next_seq, planned, reenter_counter,
                 postponed, chosen, ran>>

IbarrierDone(n) == \A m \in Node : ibarriers[m] >= Top(n)[3]

\* Mutant: a node runs the collective its own message is about.
OwnChoice(c, k) == c

\* The collective agreed on in the k-th round, where this node's message was
\* about c.
Consensus(c, k) == chosen[k]

\* MPI_Ibarrier completed: enter the action, which blocks in MPI and runs no
\* scheduler.
BeginAction(n) ==
  /\ ran' = [ran EXCEPT ![n] = Append(@, Consensus(Top(n)[2], Top(n)[3]))]
  /\ stack' = [stack EXCEPT ![n] = <<<<"action", Top(n)[2], Top(n)[3]>>>> \o Tail(@)]
  /\ UNCHANGED <<net, queue, reduceVars, next_seq, planned, reenter_counter,
                 postponed, chosen, ibarriers>>

ActionDone(n) == \A m \in Node : Len(ran[m]) >= Top(n)[3]

\* The end of runCollective: the tag that was run is erased, and the last
\* postponed collective is run in its turn.
EndAction(n) ==
  /\ planned' = [planned EXCEPT ![n] = @ \ {ran[n][Top(n)[3]]}]
  /\ IF postponed[n] = << >>
       THEN /\ reenter_counter' = [reenter_counter EXCEPT ![n] = 0]
            /\ Pop(n)
            /\ UNCHANGED <<postponed, chosen>>
       ELSE LET last == Len(postponed[n])
            IN /\ postponed' = [postponed EXCEPT ![n] = SubSeq(@, 1, last - 1)]
               /\ BeginConsensus(n, postponed[n][last], Tail(stack[n]))
  /\ UNCHANGED <<net, queue, reduceVars, next_seq, ibarriers, ran>>

\* All nodes enter the blocking MPI actions in the same order, each action
\* once, and only when they have planned it (the assertion "Planned
\* collective does not exist within scope"), although the broadcasts that
\* trigger them arrive in different orders.
SameOrder ==
  \A n \in Node :
     /\ \A m \in Node, i \in 1 .. Len(ran[n]) : i <= Len(ran[m]) => ran[n][i] = ran[m][i]
     /\ \A i, j \in 1 .. Len(ran[n]) : ran[n][i] = ran[n][j] => i = j
     /\ stack[n] # << >> /\ Top(n)[1] = "action" => ran[n][Top(n)[3]] \in planned[n]
=============================================================================
