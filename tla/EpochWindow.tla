---------------------------- MODULE EpochWindow -----------------------------
(***************************************************************************)
(* The windows from which nodes allocate collective epochs                 *)
(* (vt::epoch::EpochWindow).  No message agrees on the identifier of a     *)
(* collective epoch: every node takes the next one of its own window, and  *)
(* the nodes learn at different times which epochs have terminated.        *)
(*                                                                         *)
(* Epochs are named by their sequence number; the control bits, which are  *)
(* the same throughout a window, are left out.  The range is made small so *)
(* that allocation wraps around.                                           *)
(***************************************************************************)
EXTENDS IntegralSet, Sequences

CONSTANTS
  Node,         \* the nodes
  MaxSeq,       \* the largest sequence number of the window
  MaxMade       \* bound on the collective epochs a node makes

ASSUME WindowAssumption == Node # {} /\ MaxSeq \in Nat \ {0} /\ MaxMade \in Nat

VARIABLES
  terminated_epochs,    \* the IntegralSet of each node
  next_epoch,           \* the RangedCounter of each node
  allocating,           \* nodes in the loop of allocateNewEpoch
  made,                 \* the collective epochs each node has made, in order
  told                  \* which of them epochTerminated has run for there

vars == <<terminated_epochs, next_epoch, allocating, made, told>>

Epoch == 1 .. MaxSeq

\* The constructor: all epochs of a window start out terminated.
Init ==
  /\ terminated_epochs = [n \in Node |-> InsertInterval(Empty, Interval(1, MaxSeq))]
  /\ next_epoch = [n \in Node |-> 1]
  /\ allocating = {}
  /\ made = [n \in Node |-> << >>]
  /\ told = [n \in Node |-> {}]

\* RangedCounter::increment.
Increment(cur) == IF cur < MaxSeq THEN cur + 1 ELSE 1

\* allocateNewEpoch up to its loop; it aborts if every epoch is live.
BeginAllocate(n) ==
  /\ n \notin allocating
  /\ Len(made[n]) < MaxMade
  /\ terminated_epochs[n].elms # 0
  /\ allocating' = allocating \cup {n}
  /\ UNCHANGED <<terminated_epochs, next_epoch, made, told>>

\* The epoch is taken: activateEpoch.
Activate(n, epoch) ==
  /\ next_epoch' = [next_epoch EXCEPT ![n] = Increment(epoch)]
  /\ terminated_epochs' = [terminated_epochs EXCEPT ![n] = Erase(@, epoch)]
  /\ made' = [made EXCEPT ![n] = Append(@, epoch)]
  /\ allocating' = allocating \ {n}
  /\ UNCHANGED told

\* Mutant: epochs that are still live are skipped.
AllocateNewEpochSkips(n) ==
  /\ n \in allocating
  /\ IF Contains(terminated_epochs[n], next_epoch[n])
     THEN Activate(n, next_epoch[n])
     ELSE /\ next_epoch' = [next_epoch EXCEPT ![n] = Increment(@)]
          /\ UNCHANGED <<terminated_epochs, made, told, allocating>>

\* The turn of the loop that returns.  One that finds the next epoch live changes
\* nothing, and the loop goes round again.
AllocateNewEpoch(n) ==
  /\ n \in allocating
  /\ Contains(terminated_epochs[n], next_epoch[n])
  /\ Activate(n, next_epoch[n])

\* epochTerminated reaches node n for the k-th collective epoch, which all nodes
\* have made: setEpochTerminated.  A node in the loop does not get to it.
SetEpochTerminated(n, k) ==
  /\ n \notin allocating
  /\ \A m \in Node : k <= Len(made[m])
  /\ k \notin told[n]
  /\ told' = [told EXCEPT ![n] = @ \cup {k}]
  /\ terminated_epochs' = [terminated_epochs EXCEPT ![n] = Insert(@, made[n][k])]
  /\ UNCHANGED <<next_epoch, allocating, made>>

Next ==
  \E n \in Node :
    \/ BeginAllocate(n)
    \/ AllocateNewEpoch(n)
    \/ \E k \in 1 .. MaxMade : SetEpochTerminated(n, k)

Spec == Init /\ [][Next]_vars

-----------------------------------------------------------------------------
\* Properties.

\* The epochs node n has made and not been told about.
Live(n) == {made[n][k] : k \in DOMAIN made[n] \ told[n]}

\* Through any order of allocations and terminations, the intervals, bounds and
\* count of a window represent exactly the epochs that are not live, and an epoch
\* that terminates is one that insertSet takes for a valid insert.
WindowExact ==
  \A n \in Node :
    /\ Represents(terminated_epochs[n], Epoch \ Live(n))
    /\ \A e \in Live(n) : ~ InsertFails(terminated_epochs[n], Interval(e, e))

\* Nodes agree on the identifier of every collective epoch, although each takes
\* it from its own window.
CollectiveAgree ==
  \A n, m \in Node : \A k \in DOMAIN made[n] \cap DOMAIN made[m] : made[n][k] = made[m][k]
=============================================================================
