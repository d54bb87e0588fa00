---------------------------- MODULE EpochStatus -----------------------------
(***************************************************************************)
(* How a node that is not the root of a rooted epoch (one that uses waves) *)
(* comes to know that the epoch terminated, and the actions that wait for  *)
(* it (TermAction, testEpochTerminated, inquireTerminated, replyTerminated *)
(* and epochTerminated).  The node asks the root when it needs to know,    *)
(* and the root answers through an action of its own; apart from that the  *)
(* detector broadcasts the termination of every epoch, to the epoch's root *)
(* as to the node.  Messages are delivered in any order.                   *)
(*                                                                         *)
(* The root takes its epochs from one window, one after another, and the   *)
(* node keeps a window of them too.  That the detector announces only      *)
(* epochs the node has set up and finished is TermWave's part.             *)
(*                                                                         *)
(* A user learns of an epoch from any message of the root, so that it may  *)
(* ask, or add an action, before makeRootedHan has set the epoch up here;  *)
(* until then the window still says "terminated" of its identifier.        *)
(*                                                                         *)
(* An assertion that fails aborts all nodes, in a build that has them      *)
(* (all but vt_production_build), and goes unnoticed in the others.        *)
(***************************************************************************)
EXTENDS IntegralSet

CONSTANTS
  MaxRootedSeq,  \* the largest sequence number of the window
  MaxRooted,     \* bound on the epochs the root makes
  MaxActions     \* bound on the actions added and questions asked

ASSUME StatusAssumption ==
  MaxRootedSeq \in Nat /\ MaxRooted \in 1 .. MaxRootedSeq /\ MaxActions \in Nat

VARIABLES
  rooted_made,       \* epochs the root has made so far
  detected,          \* those the detector has found terminated
  root_terminated,   \* those for which epochTerminated has run on the root
  root_actions,      \* those with the action of inquireTerminated, on the root
  rooteds,           \* makeRooted messages in flight to the node
  terms,             \* epochTerminated messages in flight to the node
  inquiries,         \* inquireEpochTerminated messages in flight to the root
  replies,           \* replyEpochTerminated messages in flight to the node
  started,           \* epochs the node has set up
  window,            \* the node's terminated_epochs_
  epoch_wait_status, \* epochs the node has asked about
  epoch_actions,     \* actions the node has added and not run, per epoch
  runnables,         \* enqueued runnables that run an epoch's actions
  ops,               \* user operations left
  early,             \* history: epochs with an action added before their set-up
  aborted            \* an assertion has failed

root == <<rooted_made, detected, root_terminated, root_actions>>
node == <<started, window, epoch_wait_status, epoch_actions, runnables, ops, early, aborted>>
statusVars == <<root, node, rooteds, terms, inquiries, replies>>

RootedEpoch == 1 .. MaxRooted

StatusInit ==
  /\ rooted_made = 0
  /\ detected = {}
  /\ root_terminated = {}
  /\ root_actions = {}
  /\ rooteds = {} /\ terms = {} /\ inquiries = {} /\ replies = {}
  /\ started = {}
  /\ window = InsertInterval(Empty, Interval(1, MaxRootedSeq))
  /\ epoch_wait_status = {}
  /\ epoch_actions = [e \in RootedEpoch |-> 0]
  /\ runnables = [e \in RootedEpoch |-> 0]
  /\ ops = MaxActions
  /\ early = {}
  /\ aborted = FALSE

-----------------------------------------------------------------------------
\* The root.

MakeEpochRooted ==
  /\ rooted_made < MaxRooted
  /\ rooted_made' = rooted_made + 1
  /\ rooteds' = rooteds \cup {rooted_made + 1}
  /\ UNCHANGED <<detected, root_terminated, root_actions, node, terms, inquiries, replies>>

\* The wave finds the epoch terminated and tells everybody.
Detect(e) ==
  /\ e \in started
  /\ e \notin detected
  /\ detected' = detected \cup {e}
  /\ terms' = terms \cup {e}
  /\ UNCHANGED <<rooted_made, root_terminated, root_actions, node, rooteds, inquiries, replies>>

RootEpochTerminated(e) ==
  /\ e \in detected
  /\ e \notin root_terminated
  /\ root_terminated' = root_terminated \cup {e}
  /\ UNCHANGED <<rooted_made, detected, root_actions, node, rooteds, terms, inquiries, replies>>

\* Mutant: the root answers at once.
InquireTerminatedAtOnce(e) ==
  /\ e \in inquiries
  /\ inquiries' = inquiries \ {e}
  /\ replies' = replies \cup {e}
  /\ UNCHANGED <<root, node, rooteds, terms>>

InquireTerminated(e) ==
  /\ e \in inquiries
  /\ inquiries' = inquiries \ {e}
  /\ root_actions' = root_actions \cup {e}
  /\ UNCHANGED <<rooted_made, detected, root_terminated, node, rooteds, terms, replies>>

\* The root's runnable for the epoch, enqueued when both an action has been added
\* and the epoch has terminated.
RootRunActions(e) ==
  /\ e \in root_actions
  /\ e \in root_terminated
  /\ root_actions' = root_actions \ {e}
  /\ replies' = replies \cup {e}
  /\ UNCHANGED <<rooted_made, detected, root_terminated, node, rooteds, terms, inquiries>>

-----------------------------------------------------------------------------
\* The node.

\* makeRootedHan's activateEpoch.
MakeRootedHan(e) ==
  /\ e \in rooteds
  /\ rooteds' = rooteds \ {e}
  /\ started' = started \cup {e}
  /\ window' = IF Contains(window, e) THEN Erase(window, e) ELSE window
  /\ UNCHANGED <<root, epoch_wait_status, epoch_actions, runnables, ops, early, aborted, terms, inquiries, replies>>

\* Mutant: a question that was asked before is asked again.
TestEpochTerminatedAgain(e) ==
  IF Contains(window, e)
  THEN UNCHANGED <<epoch_wait_status, inquiries>>
  ELSE epoch_wait_status' = epoch_wait_status \cup {e} /\ inquiries' = inquiries \cup {e}

\* testEpochTerminated: an epoch that is not known to have terminated is asked
\* about, once.
TestEpochTerminated(e) ==
  IF Contains(window, e) \/ e \in epoch_wait_status
  THEN UNCHANGED <<epoch_wait_status, inquiries>>
  ELSE epoch_wait_status' = epoch_wait_status \cup {e} /\ inquiries' = inquiries \cup {e}

\* isEpochTerminated, of an epoch the root has made.
IsEpochTerminated(e) ==
  /\ e <= rooted_made
  /\ ops > 0
  /\ ops' = ops - 1
  /\ TestEpochTerminated(e)
  /\ UNCHANGED <<root, started, window, epoch_actions, runnables, early, aborted, rooteds, terms, replies>>

\* Mutant: the action is queued only by termination, not when it comes after.
AfterAddEpochActionNever(e) == TestEpochTerminated(e) /\ UNCHANGED runnables

AfterAddEpochAction(e) ==
  /\ TestEpochTerminated(e)
  /\ runnables' = IF Contains(window, e) THEN [runnables EXCEPT ![e] = @ + 1] ELSE runnables

AddActionEpoch(e) ==
  /\ e <= rooted_made
  /\ ops > 0
  /\ ops' = ops - 1
  /\ epoch_actions' = [epoch_actions EXCEPT ![e] = @ + 1]
  /\ AfterAddEpochAction(e)
  /\ early' = IF e \in started THEN early ELSE early \cup {e}
  /\ UNCHANGED <<root, started, window, aborted, rooteds, terms, replies>>

\* epochTerminated on the node: queueActions, then updateResolvedEpochs.  It runs
\* for the answer and for the broadcast, and the second insertion fails the
\* assertion unless another epoch has been inserted in between.
EpochTerminated(e) ==
  /\ runnables' = IF epoch_actions[e] > 0 THEN [runnables EXCEPT ![e] = @ + 1] ELSE runnables
  /\ window' = Insert(window, e)
  /\ aborted' \in (IF InsertFails(window, Interval(e, e)) THEN BOOLEAN ELSE {FALSE})
  /\ UNCHANGED <<started, epoch_actions, ops, early>>

EpochTerminatedHandler(e) ==
  /\ e \in terms
  /\ terms' = terms \ {e}
  /\ EpochTerminated(e)
  /\ UNCHANGED <<root, epoch_wait_status, rooteds, inquiries, replies>>

ReplyTerminated(e) ==
  /\ e \in replies
  /\ replies' = replies \ {e}
  /\ epoch_wait_status' = epoch_wait_status \ {e}
  /\ EpochTerminated(e)
  /\ UNCHANGED <<root, rooteds, terms, inquiries>>

\* triggerAllEpochActions: all actions there are by then; an earlier runnable may
\* have taken them all.
RunActions(e) ==
  /\ runnables[e] > 0
  /\ runnables' = [runnables EXCEPT ![e] = @ - 1]
  /\ epoch_actions' = [epoch_actions EXCEPT ![e] = 0]
  /\ UNCHANGED <<root, started, window, epoch_wait_status, ops, early, aborted, rooteds, terms, inquiries, replies>>

Progress ==
  /\ ~ aborted
  /\ \/ MakeEpochRooted
     \/ \E e \in RootedEpoch :
          \/ Detect(e)
          \/ RootEpochTerminated(e)
          \/ InquireTerminated(e)
          \/ RootRunActions(e)
          \/ MakeRootedHan(e)
          \/ EpochTerminatedHandler(e)
          \/ ReplyTerminated(e)
          \/ RunActions(e)

UserStep == ~ aborted /\ \E e \in RootedEpoch : IsEpochTerminated(e) \/ AddActionEpoch(e)

StatusNext == Progress \/ UserStep

StatusSpec == StatusInit /\ [][StatusNext]_statusVars

\* Messages arrive, enqueued runnables run, and every epoch terminates.
FairStatusSpec == StatusSpec /\ WF_statusVars(Progress)

-----------------------------------------------------------------------------
\* Properties.

\* Neither an answer nor a broadcast is ahead of the detector: the node takes an
\* epoch it has set up for terminated, and enqueues its actions, only if it is.
\* An action added before the set-up is enqueued at once, and takes with it those
\* added until it runs: such epochs are the only exception.
StatusSound ==
  \A e \in started :
    /\ Contains(window, e) => e \in detected
    /\ runnables[e] > 0 => e \in detected \cup early

\* No question gets lost and none is asked twice: an epoch the node waits for has
\* exactly one question, registered action or answer under way.
OneAnswer ==
  \A e \in RootedEpoch :
    Cardinality(inquiries \cap {e}) + Cardinality(root_actions \cap {e})
      + Cardinality(replies \cap {e}) = Cardinality(epoch_wait_status \cap {e})

\* In the end every action has run and every question has been answered, however
\* additions, answers and broadcasts cross ("will eventually return true"), unless
\* the build has assertions and one has failed.
AllAnswered ==
  <>[]\/ aborted
      \/ /\ epoch_wait_status = {}
         /\ \A e \in RootedEpoch : epoch_actions[e] = 0 /\ Contains(window, e)
=============================================================================
