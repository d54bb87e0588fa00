------------------------------- MODULE EpochTD -------------------------------
(***************************************************************************)
(* What termination detection promises for one epoch, whatever algorithm   *)
(* runs underneath: the epoch is busy while any unit of its work exists or *)
(* may still be created, it never becomes busy again once it has gone      *)
(* quiet, and a node is told that the epoch terminated only when it is     *)
(* quiet; the step that consumes the last unit may be the one that tells.  *)
(***************************************************************************)
CONSTANT Member          \* the nodes that are to be told

VARIABLES busy,          \* some unit of work of the epoch is outstanding
          told           \* the nodes that consider the epoch terminated

vars == <<busy, told>>

Init == busy = TRUE /\ told = {}

Quiesce == busy /\ busy' = FALSE /\ UNCHANGED told

Announce(n) ==
  /\ n \notin told
  /\ told' = told \cup {n}
  /\ busy' = FALSE

Next == Quiesce \/ \E n \in Member : Announce(n)

Spec == Init /\ [][Next]_vars
=============================================================================
