---------------------------- MODULE Collectives ----------------------------
(***************************************************************************)
(* Barriers, reductions, collective scopes and phases together on one      *)
(* scheduler.  Every node runs the same program of collective calls at its *)
(* own pace; while a call waits, the node runs whatever work arrives, for  *)
(* this and for any other collective that is under way.                    *)
(***************************************************************************)
EXTENDS Barrier, CollectiveScope, PhaseManager

\* The calls: <<"barrier", b>>, <<"barrierThen", b>> (b named, or not),
\* <<"async", s>>, <<"wait", <<s, tag>>>> and <<"nextPhase", 0>>.
CONSTANT Prog

VARIABLE pc    \* the next call, per node

vars == <<schedVars, barrierVars, reduceVars, scopeVars, phaseVars, pc>>

Init ==
  /\ SchedInit /\ BarrierInit /\ ReduceInit /\ ScopeInit /\ PhaseInit
  /\ pc = [n \in Node |-> 1]

Finished(n) == stack[n] = << >> /\ pc[n] > Len(Prog)

\* The program of node n makes its next call.
Call(n) ==
  /\ stack[n] = << >>
  /\ pc[n] <= Len(Prog)
  /\ pc' = [pc EXCEPT ![n] = @ + 1]
  /\ LET op == Prog[pc[n]]
     IN \/ /\ op[1] = "barrier" /\ waitBarrier(n, op[2])
           /\ UNCHANGED <<reduceVars, scopeVars, phaseVars>>
        \/ /\ op[1] = "barrierThen" /\ contBarrier(n, op[2])
           /\ UNCHANGED <<reduceVars, scopeVars, phaseVars>>
        \/ /\ op[1] = "async" /\ mpiCollectiveAsync(n, op[2])
           /\ UNCHANGED <<barrierVars, phaseVars>>
        \/ /\ op[1] = "wait" /\ waitCollective(n, op[2])
           /\ UNCHANGED <<barrierVars, phaseVars>>
        \/ /\ op[1] = "nextPhase" /\ nextPhaseCollective(n)
           /\ UNCHANGED <<barrierVars, scopeVars>>

\* The innermost loop's condition holds and the call goes on.
Resume(n) ==
  /\ stack[n] # << >>
  /\ UNCHANGED pc
  /\ \/ /\ Top(n)[1] = "barrier" /\ BarrierReleased(n) /\ LeaveBarrier(n)
        /\ UNCHANGED <<reduceVars, scopeVars, phaseVars>>
     \/ /\ \/ Top(n)[1] = "planned" /\ isCollectiveDone(n) /\ LeaveWait(n)
           \/ Top(n)[1] = "ibcast" /\ IbcastDone(n) /\ CallIbarrier(n)
           \/ Top(n)[1] = "ibarrier" /\ IbarrierDone(n) /\ BeginAction(n)
           \/ Top(n)[1] = "action" /\ ActionDone(n) /\ EndAction(n)
        /\ UNCHANGED <<barrierVars, phaseVars>>
     \/ /\ \/ Top(n)[1] = "nextPhase" /\ reduce_next_phase_done[n] /\ EnterHooks(n)
           \/ Top(n)[1] = "together" /\ HooksTogetherDone(n) /\ StartPhase(n)
           \/ Top(n)[1] = "phaseDone" /\ reduce_finished[n] /\ LeavePhase(n)
        /\ UNCHANGED <<barrierVars, scopeVars>>

\* A loop tests its condition before each unit of work.  MPI may report a
\* request as done later than it is; an action runs no scheduler.
RunsWork(n) ==
  \/ Finished(n)
  \/ /\ stack[n] # << >>
     /\ \/ Top(n)[1] \in {"ibcast", "ibarrier", "together"}
        \/ Top(n)[1] = "barrier" /\ ~ BarrierReleased(n)
        \/ Top(n)[1] = "planned" /\ ~ isCollectiveDone(n)
        \/ Top(n)[1] = "nextPhase" /\ ~ reduce_next_phase_done[n]
        \/ Top(n)[1] = "phaseDone" /\ ~ reduce_finished[n]

\* runSchedulerOnceImpl: one unit of work from the queue.
RunWork(n) ==
  /\ RunsWork(n)
  /\ queue[n] # << >>
  /\ UNCHANGED pc
  /\ LET w == Head(queue[n])
         q == Tail(queue[n])
     IN \/ /\ w.type \in {"barrierUp", "barrierDown"} /\ BarrierHandler(n, w, q)
           /\ UNCHANGED <<reduceVars, scopeVars, phaseVars>>
        \/ /\ w.type = "reduceUp" /\ reduceUpHan(n, w, q)
           /\ UNCHANGED <<stack, barrierVars, scopeVars, phaseVars>>
        \/ /\ w.type = "callback" /\ w.stamp[1] = "seq" /\ PhaseCallback(n, w.stamp[2], q)
           /\ UNCHANGED <<barrierVars, scopeVars>>
        \/ /\ w.type = "callback" /\ w.stamp[1] # "seq" /\ runCollective(n, w.stamp, q)
           /\ UNCHANGED <<barrierVars, phaseVars>>

Arrive(m) == Receive(m) /\ UNCHANGED <<barrierVars, reduceVars, scopeVars, phaseVars, pc>>

Next ==
  \/ \E n \in Node : Call(n) \/ Resume(n) \/ RunWork(n)
  \/ \E m \in net : Arrive(m)

\* As long as some node can take a step or some message can arrive, one of
\* them does.  That is enough: no step can be repeated for ever.
Fairness == WF_vars(Next)

Spec == Init /\ [][Next]_vars /\ Fairness

(***************************************************************************)
(* Properties.  BarrierSafe, ReduceWhole, SameOrder and PhaseAligned are   *)
(* those of the parts, here under each other's interference.               *)
(***************************************************************************)

\* Every call of every node returns: no loop of one collective waits for
\* work that only a loop further out could let through.  The exception is a
\* named barrier used twice in a row: a loop further in may run a child's
\* arrival at the second use, which removeBarrier erases with the first.
EveryCallReturns ==
  <>(erased \/ \A n \in Node : Finished(n) /\ queue[n] = << >> /\ planned[n] = {})
=============================================================================
