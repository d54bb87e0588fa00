------------------------------ MODULE Barrier ------------------------------
(***************************************************************************)
(* Barriers over the tree: waiting and continuation kinds, unnamed ones    *)
(* that are numbered and named ones that are used again and again.         *)
(* A state that is not in the map is one with no event and not released.   *)
(***************************************************************************)
EXTENDS Scheduler

CONSTANTS Named, MaxUnnamed   \* the named barriers; bound on the unnamed ones

VARIABLES
  recv_event_count,    \* per node and barrier
  released,
  cont_action,         \* a continuation is attached to the barrier
  cur_unnamed_barrier, \* per node
  entered, left,       \* history: how often a node came to, and left, a barrier
  erased               \* history: removeBarrier erased arrivals of the next use

barrierVars ==
  <<recv_event_count, released, cont_action, cur_unnamed_barrier, entered, left,
    erased>>

Bar == Named \cup (0 .. MaxUnnamed - 1)

BarrierInit ==
  /\ recv_event_count = [n \in Node |-> [b \in Bar |-> 0]]
  /\ released = [n \in Node |-> [b \in Bar |-> FALSE]]
  /\ cont_action = [n \in Node |-> [b \in Bar |-> FALSE]]
  /\ cur_unnamed_barrier = [n \in Node |-> 0]
  /\ entered = [n \in Node |-> [b \in Bar |-> 0]]
  /\ left = [n \in Node |-> [b \in Bar |-> 0]]
  /\ erased = FALSE

\* Mutant: the first event past the children's is not waited for.
ReadyEarly(n, b) == recv_event_count[n][b] + 1 >= NumChildren(n)

\* Mutant: the test is made before the event at hand is counted.
ReadyBeforeCounting(n, b) == recv_event_count[n][b] = NumChildren(n) + 1

\* is_ready, once the event at hand is counted.
IsReady(n, b) == recv_event_count[n][b] + 1 = NumChildren(n) + 1

\* barrierUp: count an event; when all are there tell the parent, or, on the
\* root, release everybody.  q is what remains of the node's queue.
barrierUp(n, b, wait, q) ==
  /\ recv_event_count' = [recv_event_count EXCEPT ![n][b] = @ + 1]
  /\ Post(n, q,
       IF ~ IsReady(n, b) THEN Nothing
       ELSE IF n # Root
         THEN SendTo(n, Parent(n), [type |-> "barrierUp", bar |-> b, wait |-> wait])
         ELSE Broadcast([type |-> "barrierDown", bar |-> b, wait |-> wait]))

\* The barrier a call is about: the one named, or the next unnamed one.
TheBarrier(n, named) == IF named \in Named THEN named ELSE cur_unnamed_barrier[n]

CallBarrier(n, named, wait) ==
  LET b == TheBarrier(n, named)
  IN /\ cur_unnamed_barrier' = [cur_unnamed_barrier EXCEPT
                                  ![n] = IF named \in Named THEN @ ELSE @ + 1]
     /\ entered' = [entered EXCEPT ![n][b] = @ + 1]
     /\ barrierUp(n, b, wait, queue[n])
     /\ UNCHANGED <<released, left, erased>>

\* waitBarrier up to its scheduler loop.
waitBarrier(n, named) ==
  /\ CallBarrier(n, named, TRUE)
  /\ Push(n, <<"barrier", TheBarrier(n, named)>>)
  /\ UNCHANGED cont_action

\* contBarrier: attaches the continuation and does not wait.
contBarrier(n, named) ==
  /\ cont_action' = [cont_action EXCEPT ![n][TheBarrier(n, named)] = TRUE]
  /\ CallBarrier(n, named, FALSE)
  /\ UNCHANGED stack

\* barrierDown: release, and run the continuation of a barrier that has one.
barrierDown(n, b, wait, q) ==
  /\ released' = [released EXCEPT ![n][b] = TRUE]
  /\ left' = [left EXCEPT ![n][b] = @ + (IF ~ wait /\ cont_action[n][b] THEN 1 ELSE 0)]
  /\ Post(n, q, Nothing)
  /\ UNCHANGED <<recv_event_count, cont_action, cur_unnamed_barrier, entered, erased>>

BarrierHandler(n, w, q) ==
  /\ IF w.type = "barrierUp"
       THEN /\ barrierUp(n, w.bar, w.wait, q)
            /\ UNCHANGED <<released, cont_action, cur_unnamed_barrier, entered, left,
                           erased>>
       ELSE barrierDown(n, w.bar, w.wait, q)
  /\ UNCHANGED stack

BarrierReleased(n) == released[n][Top(n)[2]]

\* The end of waitBarrier: removeBarrier erases the state.
LeaveBarrier(n) ==
  LET b == Top(n)[2]
  IN /\ recv_event_count' = [recv_event_count EXCEPT ![n][b] = 0]
     /\ released' = [released EXCEPT ![n][b] = FALSE]
     /\ cont_action' = [cont_action EXCEPT ![n][b] = FALSE]
     /\ left' = [left EXCEPT ![n][b] = @ + 1]
     /\ erased' = (erased \/ recv_event_count[n][b] > NumChildren(n) + 1)
     /\ Pop(n)
     /\ UNCHANGED <<net, queue, cur_unnamed_barrier, entered>>

\* A node gets past a barrier, or runs the continuation attached to it, for
\* the k-th time only after every node has come to it k times, also when a named
\* barrier is used twice in a row and arrivals of the second use come before the
\* node has left the first: they may be erased, but are never counted for it.
BarrierSafe == \A n, m \in Node, b \in Bar : left[n][b] <= entered[m][b]
=============================================================================
