----------------------------- MODULE Scheduler -----------------------------
(***************************************************************************)
(* How handlers get to run: a node's work queue, the messages on their way *)
(* to it, broadcasts down the default tree, and the stack of calls that    *)
(* spin in runSchedulerWhile, each running work until its condition holds. *)
(*                                                                         *)
(* Messages between nodes may overtake each other.  The work queue is      *)
(* first in, first out (the build without priorities, the default).  A     *)
(* broadcast is forwarded to the children when it arrives, before the      *)
(* node's own copy is queued and long before that copy runs.               *)
(***************************************************************************)
EXTENDS Tree, Sequences, FiniteSets

VARIABLES
  net,     \* messages between nodes: [to, from, work, bcast]
  queue,   \* work_queue_ of each node
  stack    \* the conditions the node's nested scheduler loops wait for

schedVars == <<net, queue, stack>>

SchedInit ==
  /\ net = {}
  /\ queue = [n \in Node |-> << >>]
  /\ stack = [n \in Node |-> << >>]

(***************************************************************************)
(* What a piece of code hands out: messages for the network, and work the  *)
(* node queues for itself.                                                 *)
(***************************************************************************)
Nothing == [net |-> {}, self |-> << >>]

\* sendMsg from n to another node d.
SendTo(n, d, w) ==
  [net |-> {[to |-> d, from |-> n, work |-> w, bcast |-> FALSE]}, self |-> << >>]

\* DefaultGroup::broadcast to the children of n in the default tree.
ToChildren(n, w) == {[to |-> c, from |-> n, work |-> w, bcast |-> TRUE] : c \in Children(n)}

\* broadcastMsg called on the root of the tree, which is where the code here
\* calls it: the children are sent a copy, the root queues its own.
Broadcast(w) == [net |-> ToChildren(Root, w), self |-> <<w>>]

\* Node n, whose queue now holds q, hands out o.
Post(n, q, o) ==
  /\ net' = net \cup o.net
  /\ queue' = [queue EXCEPT ![n] = q \o o.self]

\* tryProcessIncomingActiveMsg, processActiveMsg: a broadcast is forwarded,
\* then the message becomes work.
Receive(m) ==
  /\ m \in net
  /\ net' = (net \ {m}) \cup (IF m.bcast THEN ToChildren(m.to, m.work) ELSE {})
  /\ queue' = [queue EXCEPT ![m.to] = Append(@, m.work)]
  /\ UNCHANGED stack

\* runSchedulerWhile is entered by pushing the awaited condition, and left
\* by popping it.
Push(n, frame) == stack' = [stack EXCEPT ![n] = <<frame>> \o @]
Pop(n) == stack' = [stack EXCEPT ![n] = Tail(@)]
Top(n) == Head(stack[n])
=============================================================================
