------------------------------ MODULE TermWave ------------------------------
(***************************************************************************)
(* Termination detection by waves for one epoch (the four-counter part of  *)
(* vt::term::TerminationDetector), for a collective epoch or for a rooted  *)
(* epoch that uses waves.                                                  *)
(*                                                                         *)
(* Every node counts the units of work it produces and consumes.  Counts   *)
(* are summed up the spanning tree, one wave at a time; the root compares  *)
(* two consecutive waves and broadcasts either another wave or the news    *)
(* that the epoch terminated.  A handler that changes a counter may itself *)
(* hand the node's counts on, so an action threads an effect through the   *)
(* calls the handler makes: the node's record and what it has sent.        *)
(*                                                                         *)
(* User messages and control messages are delivered in any order.          *)
(***************************************************************************)
EXTENDS TermState

CONSTANTS
  Rooted,        \* the epoch is rooted (and uses waves), else collective
  RootNode,      \* the node that makes a rooted epoch
  MaxUserOps     \* bound on sends, dependencies and disableTD calls

ASSUME EpochAssumption == Rooted \in BOOLEAN /\ RootNode \in Node /\ MaxUserOps \in Nat

VARIABLES
  created,       \* nodes that have made the epoch or handled makeRooted
  known,         \* nodes with an entry in epoch_state_
  state,         \* that entry (a new, inactive record where there is none)
  epoch_ready,   \* nodes on which the epoch is in epoch_ready_
  terminated,    \* nodes whose epoch window lists the epoch as terminated
                 \* (as it does every epoch of a window until addEpoch)
  net,           \* user messages of the epoch in flight to a node
  queue,         \* runnables of the epoch enqueued or running on a node
  held,          \* dependencies held by asynchronous operations on a node
  disabled,      \* nodes where disableTD is in force
  ops,           \* user operations left
  counts,        \* TermCounterMsg in flight to the sender's parent
  continues,     \* epochContinue messages in flight
  terms,         \* nodes an epochTerminated message is in flight to
  rooteds,       \* nodes a makeRooted message is in flight to
  cleanup        \* the root has enqueued the removal of its record

td == <<known, state, counts, continues>>
ending == <<epoch_ready, terminated, terms, cleanup>>
user == <<net, queue, held, disabled, ops>>
making == <<created, rooteds>>
vars == <<td, ending, user, making>>

CountMsg == [from : Node \ {Root}, wave : Wave, prod : Nat, cons : Nat]
ContinueMsg == [to : Node \ {Root}, wave : Wave]

Init ==
  /\ created = {}
  /\ known = {}
  /\ state = [n \in Node |-> NewState(FALSE)]
  /\ epoch_ready = {}
  /\ terminated = Node
  /\ net = [n \in Node |-> 0]
  /\ queue = [n \in Node |-> 0]
  /\ held = [n \in Node |-> 0]
  /\ disabled = {}
  /\ ops = MaxUserOps
  /\ counts = {}
  /\ continues = {}
  /\ terms = {}
  /\ rooteds = {}
  /\ cleanup = FALSE

-----------------------------------------------------------------------------
\* Effects: what a handler has done so far on one node.

FindOrCreate(n, is_ready) == IF n \in known THEN state[n] ELSE NewState(is_ready)

Effect(s) == [s |-> s, sent |-> {}, waves |-> {}, term |-> FALSE]

PropagateEpoch(n, e) ==
  IF n # Root
  THEN [e EXCEPT !.s = Submitted(@),
                 !.sent = @ \cup {[from |-> n, wave |-> e.s.cur_wave,
                                   prod |-> e.s.g_prod1 + e.s.l_prod,
                                   cons |-> e.s.g_cons1 + e.s.l_cons]}]
  ELSE IF IsTerm(e.s)
  THEN [e EXCEPT !.s = Detected(@), !.term = TRUE]
  ELSE [e EXCEPT !.s = StartedWave(@), !.waves = @ \cup {NextWave(e.s.cur_wave)}]

MaybePropagate(n, e) == IF ReadySubmitParent(n, e.s) THEN PropagateEpoch(n, e) ELSE e

Produce(n, e) == MaybePropagate(n, [e EXCEPT !.s = Produced(@)])

Consume(n, e) == MaybePropagate(n, [e EXCEPT !.s = Consumed(@)])

Activate(n, e) == MaybePropagate(n, [e EXCEPT !.s = Activated(@)])

\* Node n ends a handler with effect e, having received the messages "got" and
\* "cont"; "ready" and "win" are the epoch_ready_ and window entries it leaves.
\* If the root detected termination it tells every other node, and itself.
Commit(n, e, got, cont, ready, win) ==
  /\ known' = known \cup {n}
  /\ state' = [state EXCEPT ![n] = e.s]
  /\ counts' = (counts \ got) \cup e.sent
  /\ continues' = (continues \ cont) \cup [to : Node \ {Root}, wave : e.waves]
  /\ epoch_ready' = IF e.term THEN ready \ {Root} ELSE ready
  /\ terminated' = IF e.term THEN win \cup {Root} ELSE win
  /\ terms' = IF e.term THEN Node \ {Root} ELSE terms
  /\ cleanup' = (cleanup \/ e.term)

\* A handler that leaves epoch_ready_ and the window alone and received nothing.
CommitLocal(n, e) == Commit(n, e, {}, {}, epoch_ready, terminated)

-----------------------------------------------------------------------------
\* Making and finishing the epoch.

\* The user's own unit, produced when the epoch is made and consumed by
\* finishedEpoch, is outstanding on node n.
Open(n) == n \in created /\ n \notin epoch_ready /\ n \notin terminated

MakeEpochCollective(n) ==
  /\ ~Rooted
  /\ n \notin created
  /\ created' = created \cup {n}
  /\ LET e == Produce(n, Effect(FindOrCreate(n, FALSE)))
     IN Commit(n, [e EXCEPT !.s.local_terminated = TRUE], {}, {},
               epoch_ready, terminated \ {n})
  /\ UNCHANGED <<user, rooteds>>

MakeEpochRooted ==
  /\ Rooted
  /\ created = {}
  /\ created' = {RootNode}
  /\ rooteds' = Node \ {RootNode}
  /\ Commit(RootNode, Produce(RootNode, Effect(FindOrCreate(RootNode, FALSE))), {}, {},
            epoch_ready, terminated \ {RootNode})
  /\ UNCHANGED user

MakeRootedHan(n) ==
  /\ n \in rooteds
  /\ rooteds' = rooteds \ {n}
  /\ created' = created \cup {n}
  /\ LET made == Produce(n, Effect(FindOrCreate(n, TRUE)))
     IN Commit(n, Activate(n, Consume(n, made)), {}, {},
               epoch_ready \cup {n}, terminated \ {n})
  /\ UNCHANGED user

FinishedEpoch(n) ==
  /\ Open(n)
  /\ Commit(n, Activate(n, Consume(n, Effect(FindOrCreate(n, FALSE)))), {}, {},
            epoch_ready \cup {n}, terminated)
  /\ UNCHANGED <<user, making>>

-----------------------------------------------------------------------------
\* The work of the epoch.

\* User code on n runs under the epoch: between making and finishing it, or in
\* a runnable of the epoch (which a nested scheduler may interleave with others).
InScope(n) == Open(n) \/ queue[n] > 0

SendMsg(n, m) ==
  /\ InScope(n)
  /\ n # m
  /\ ops > 0
  /\ ops' = ops - 1
  /\ net' = [net EXCEPT ![m] = @ + 1]
  /\ CommitLocal(n, Produce(n, Effect(FindOrCreate(n, FALSE))))
  /\ UNCHANGED <<queue, held, disabled, making>>

\* A message to the node itself is only enqueued; its runnable is the unit.
SendSelf(n) ==
  /\ InScope(n)
  /\ ops > 0
  /\ ops' = ops - 1
  /\ queue' = [queue EXCEPT ![n] = @ + 1]
  /\ CommitLocal(n, Produce(n, Effect(FindOrCreate(n, FALSE))))
  /\ UNCHANGED <<net, held, disabled, making>>

\* An arriving message becomes a runnable (a unit of its own) before the
\* message itself is consumed.
Deliver(n) ==
  /\ net[n] > 0
  /\ net' = [net EXCEPT ![n] = @ - 1]
  /\ queue' = [queue EXCEPT ![n] = @ + 1]
  /\ CommitLocal(n, Consume(n, Produce(n, Effect(FindOrCreate(n, FALSE)))))
  /\ UNCHANGED <<held, disabled, ops, making>>

RunnableDone(n) ==
  /\ queue[n] > 0
  /\ queue' = [queue EXCEPT ![n] = @ - 1]
  /\ CommitLocal(n, Consume(n, Effect(FindOrCreate(n, FALSE))))
  /\ UNCHANGED <<net, held, disabled, ops, making>>

AddLocalDependency(n) ==
  /\ InScope(n)
  /\ ops > 0
  /\ ops' = ops - 1
  /\ held' = [held EXCEPT ![n] = @ + 1]
  /\ LET s == FindOrCreate(n, TRUE)
     IN CommitLocal(n, Produce(n, Effect([s EXCEPT !.deps = @ + 1])))
  /\ UNCHANGED <<net, queue, disabled, making>>

ReleaseLocalDependency(n) ==
  /\ held[n] > 0
  /\ held' = [held EXCEPT ![n] = @ - 1]
  /\ LET e == Consume(n, Effect(FindOrCreate(n, FALSE)))
         r == [e EXCEPT !.s.deps = @ - 1]
     IN CommitLocal(n, IF r.s.deps = 0 THEN MaybePropagate(n, r) ELSE r)
  /\ UNCHANGED <<net, queue, disabled, ops, making>>

DisableTD(n) ==
  /\ n \in created
  /\ n \notin terminated
  /\ n \notin disabled
  /\ ops > 0
  /\ ops' = ops - 1
  /\ disabled' = disabled \cup {n}
  /\ CommitLocal(n, [Effect(FindOrCreate(n, FALSE)) EXCEPT !.s.deps = @ + 1])
  /\ UNCHANGED <<net, queue, held, making>>

\* Nothing is propagated here: that is left to the next idle of the scheduler.
EnableTD(n) ==
  /\ n \in disabled
  /\ disabled' = disabled \ {n}
  /\ CommitLocal(n, [Effect(FindOrCreate(n, FALSE)) EXCEPT !.s.deps = @ - 1])
  /\ UNCHANGED <<net, queue, held, ops, making>>

-----------------------------------------------------------------------------
\* The waves.

\* The scheduler goes idle on n (or, on a single node, makes progress), or
\* another epoch's wave arrives there: maybePropagate.
Idle(n) ==
  /\ n \in known
  /\ ReadySubmitParent(n, state[n])
  /\ CommitLocal(n, MaybePropagate(n, Effect(state[n])))
  /\ UNCHANGED <<user, making>>

PropagateEpochHandler(msg) ==
  /\ msg \in counts
  /\ LET p == Parent(msg.from)
         s == ChildReceived(FindOrCreate(p, FALSE), msg.prod, msg.cons)
     IN Commit(p, MaybePropagate(p, Effect(s)), {msg}, {}, epoch_ready, terminated)
  /\ UNCHANGED <<user, making>>

EpochContinue(msg) ==
  /\ msg \in continues
  /\ IF msg.to \in known
     THEN LET s == [state[msg.to] EXCEPT !.cur_wave = msg.wave]
          IN Commit(msg.to, MaybePropagate(msg.to, Effect(s)), {}, {msg},
                    epoch_ready, terminated)
     ELSE /\ continues' = continues \ {msg}
          /\ UNCHANGED <<known, state, counts, ending>>
  /\ UNCHANGED <<user, making>>

\* cleanupEpoch, called for a node other than the root or from the root's queue.
CleanupEpoch(n) ==
  /\ known' = known \ {n}
  /\ state' = [state EXCEPT ![n] = NewState(FALSE)]
  /\ epoch_ready' = epoch_ready \ {n}
  /\ UNCHANGED <<counts, continues>>

EpochTerminated(n) ==
  /\ n \in terms
  /\ terms' = terms \ {n}
  /\ terminated' = terminated \cup {n}
  /\ CleanupEpoch(n)
  /\ UNCHANGED <<cleanup, user, making>>

RootCleanup ==
  /\ cleanup
  /\ cleanup' = FALSE
  /\ CleanupEpoch(Root)
  /\ UNCHANGED <<terms, terminated, user, making>>

Next ==
  \/ MakeEpochRooted
  \/ RootCleanup
  \/ \E n \in Node :
       \/ MakeEpochCollective(n)
       \/ MakeRootedHan(n)
       \/ FinishedEpoch(n)
       \/ \E m \in Node : SendMsg(n, m)
       \/ SendSelf(n)
       \/ Deliver(n)
       \/ RunnableDone(n)
       \/ AddLocalDependency(n)
       \/ ReleaseLocalDependency(n)
       \/ DisableTD(n)
       \/ EnableTD(n)
       \/ Idle(n)
       \/ EpochTerminated(n)
  \/ \E msg \in counts : PropagateEpochHandler(msg)
  \/ \E msg \in continues : EpochContinue(msg)

Spec == Init /\ [][Next]_vars

\* Every delivery happens, the scheduler returns to idle, and user code ends:
\* it makes and finishes the epoch, its runnables and its asynchronous
\* operations complete, and it re-enables what it disabled.
Fairness ==
  /\ WF_vars(MakeEpochRooted)
  /\ WF_vars(RootCleanup)
  /\ \A n \in Node :
       /\ WF_vars(MakeEpochCollective(n))
       /\ WF_vars(MakeRootedHan(n))
       /\ WF_vars(FinishedEpoch(n))
       /\ WF_vars(Deliver(n))
       /\ WF_vars(RunnableDone(n))
       /\ WF_vars(ReleaseLocalDependency(n))
       /\ WF_vars(EnableTD(n))
       /\ WF_vars(Idle(n))
       /\ WF_vars(EpochTerminated(n))
       /\ WF_vars(\E msg \in counts : msg.from = n /\ PropagateEpochHandler(msg))
       /\ WF_vars(\E msg \in continues : msg.to = n /\ EpochContinue(msg))

FairSpec == Spec /\ Fairness

-----------------------------------------------------------------------------
\* Properties.

\* Every variable has its type; the counters of a record never go negative,
\* however calls on the epoch interleave.
TypeOK ==
  /\ created \subseteq Node
  /\ known \subseteq Node
  /\ state \in [Node -> TermStates]
  /\ epoch_ready \subseteq Node
  /\ terminated \subseteq Node
  /\ net \in [Node -> Nat]
  /\ queue \in [Node -> Nat]
  /\ held \in [Node -> Nat]
  /\ disabled \subseteq Node
  /\ ops \in Nat
  /\ counts \subseteq CountMsg
  /\ continues \subseteq ContinueMsg
  /\ terms \subseteq Node
  /\ rooteds \subseteq Node
  /\ cleanup \in BOOLEAN

\* Nodes that have been told the epoch terminated (epochTerminated ran there).
Told == created \cap terminated

\* No unit of work of the epoch exists and none can be created: every node has
\* made and finished the epoch, nothing is in flight, queued or held.
Quiescent ==
  /\ created = Node
  /\ \A n \in Node : ~Open(n) /\ net[n] = 0 /\ queue[n] = 0 /\ held[n] = 0

\* Detection is safe: once any node considers the epoch terminated, the whole
\* system is quiescent.  This is what propagateEpoch's comparison of two waves
\* has to guarantee although no two nodes are sampled at the same time.
DetectionSafe == Told # {} => Quiescent

\* The assertion "Wave must monotonically increase" of receiveContinueSignal: a
\* continue finds the record of its epoch, one wave behind it.
ContinueInOrder ==
  \A msg \in continues :
    msg.to \in known /\ msg.wave = NextWave(state[msg.to].cur_wave)

\* The assertion "Must be <= than num children" of notifyChildReceive, and why
\* it matters: counts that arrive are of the wave the parent has yet to submit,
\* and it has room for them, although the message does not name its wave.
CountsOfOneWave ==
  \A msg \in counts :
    LET s == state[Parent(msg.from)]
    IN /\ msg.wave = NextWave(s.submitted_wave)
       /\ s.recv_child_count < NumChildren(Parent(msg.from))

\* The waves implement the promise of termination detection: a node is told
\* only when the epoch is quiet, and it never becomes busy again.
TD == INSTANCE EpochTD WITH Member <- Node, busy <- ~Quiescent, told <- Told

ImplementsTD == TD!Spec

\* With fair scheduling every node is told in the end: waves go on until two of
\* them agree, and no order of counts, continues and idle schedulers stalls them.
EveryNodeTold == <>(Told = Node)
=============================================================================
