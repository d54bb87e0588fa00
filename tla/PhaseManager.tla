---------------------------- MODULE PhaseManager ----------------------------
(***************************************************************************)
(* nextPhaseCollective: an allreduce that brings every node in, the hooks, *)
(* the new phase, and an allreduce that lets every node out.               *)
(*                                                                         *)
(* runHooksTogether runs in a collective epoch.  Termination detection is  *)
(* taken at its word (EpochTD): the epoch ends when every node has entered *)
(* and finished it.  The other hooks are ones that do not synchronise.     *)
(***************************************************************************)
EXTENDS Reduce

VARIABLES
  cur_phase,
  reduce_next_phase_done,
  reduce_finished,
  in_next_phase_collective,
  reduce_seq,              \* next_seq_ of the object group's reducer
  together                 \* collective epochs of hooks entered

phaseVars == <<cur_phase, reduce_next_phase_done, reduce_finished,
               in_next_phase_collective, reduce_seq, together>>

PhaseInit ==
  /\ cur_phase = [n \in Node |-> 0]
  /\ reduce_next_phase_done = [n \in Node |-> FALSE]
  /\ reduce_finished = [n \in Node |-> FALSE]
  /\ in_next_phase_collective = [n \in Node |-> FALSE]
  /\ reduce_seq = [n \in Node |-> 1]
  /\ together = [n \in Node |-> 0]

\* allreduce: generateNextID makes the stamp.
allreduce(n) ==
  /\ reduce_seq' = [reduce_seq EXCEPT ![n] = @ + 1]
  /\ reduceImmediate(n, <<"seq", reduce_seq[n] + 1>>)

\* The callbacks the two allreduce calls of a phase carry, told apart here by
\* their turn: nextPhaseReduce and nextPhaseDone.
PhaseCallback(n, seq, q) ==
  /\ IF seq % 2 = 0
       THEN /\ reduce_next_phase_done' = [reduce_next_phase_done EXCEPT ![n] = TRUE]
            /\ UNCHANGED reduce_finished
       ELSE /\ reduce_finished' = [reduce_finished EXCEPT ![n] = TRUE]
            /\ UNCHANGED reduce_next_phase_done
  /\ Post(n, q, Nothing)
  /\ UNCHANGED <<stack, reduceVars, cur_phase, in_next_phase_collective, reduce_seq, together>>

\* nextPhaseCollective up to its first scheduler loop.
nextPhaseCollective(n) ==
  /\ ~ in_next_phase_collective[n]
  /\ in_next_phase_collective' = [in_next_phase_collective EXCEPT ![n] = TRUE]
  /\ allreduce(n)
  /\ Push(n, <<"nextPhase">>)
  /\ UNCHANGED <<cur_phase, reduce_next_phase_done, reduce_finished, together>>

\* From the first loop into runHooksTogether.
EnterHooks(n) ==
  /\ reduce_next_phase_done' = [reduce_next_phase_done EXCEPT ![n] = FALSE]
  /\ together' = [together EXCEPT ![n] = @ + 1]
  /\ stack' = [stack EXCEPT ![n] = <<<<"together">>>> \o Tail(@)]
  /\ UNCHANGED <<net, queue, reduceVars, cur_phase, reduce_finished,
                 in_next_phase_collective, reduce_seq>>

\* The epoch of runInEpochCollective has terminated.
HooksTogetherDone(n) == \A m \in Node : together[m] >= together[n]

\* The remaining hooks, the new phase, and the second allreduce.
StartPhase(n) ==
  /\ cur_phase' = [cur_phase EXCEPT ![n] = @ + 1]
  /\ allreduce(n)
  /\ stack' = [stack EXCEPT ![n] = <<<<"phaseDone">>>> \o Tail(@)]
  /\ UNCHANGED <<reduce_next_phase_done, reduce_finished, in_next_phase_collective, together>>

\* Mutant: reduce_finished_ is not reset.
LeavePhaseNoReset(n) ==
  /\ in_next_phase_collective' = [in_next_phase_collective EXCEPT ![n] = FALSE]
  /\ Pop(n)
  /\ UNCHANGED <<net, queue, reduceVars, cur_phase, reduce_next_phase_done,
                 reduce_finished, reduce_seq, together>>

\* The end of nextPhaseCollective.
LeavePhase(n) ==
  /\ reduce_finished' = [reduce_finished EXCEPT ![n] = FALSE]
  /\ in_next_phase_collective' = [in_next_phase_collective EXCEPT ![n] = FALSE]
  /\ Pop(n)
  /\ UNCHANGED <<net, queue, reduceVars, cur_phase, reduce_next_phase_done, reduce_seq, together>>

\* While a node is outside nextPhaseCollective all nodes are in its phase,
\* and while one runs the hooks that end a phase every other node is inside:
\* the flags of one phase never let a node through the next.
PhaseAligned ==
  \A n \in Node :
     /\ ~ in_next_phase_collective[n] => \A m \in Node : cur_phase[m] = cur_phase[n]
     /\ stack[n] # << >> /\ Top(n)[1] = "together"
          => \A m \in Node : /\ in_next_phase_collective[m]
                             /\ cur_phase[m] \in {cur_phase[n], cur_phase[n] + 1}
=============================================================================
