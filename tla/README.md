# vt in TLA+

vt (virtual transport) is the runtime of DARMA: an active-message layer over MPI
with epochs, termination detection, collectives, groups, distributed
collections, location management and load balancing. This directory holds TLA+
models of it, the TLC configurations that check them on small instances, and
proofs, checked by TLAPS, of the properties that matter most.

The models cover **termination detection and the life of an epoch**
(`src/src/vt/termination`, `src/src/vt/epoch`), on which all the rest rests; the
**active messenger** that carries messages and counts them for an epoch; the
**collectives** that synchronize the nodes (barrier, reduction, collective scopes,
phases) in the scheduler that runs them; the construction of **collective groups**;
the **location manager** that routes messages to entities that migrate; and
**collections**, whose elements are inserted, destroyed, moved by the load balancer
and sent broadcasts.

## 1. The system and its parts

| Part | State | Operations that change it | What is hard about it |
|---|---|---|---|
| Four-counter waves (`termination.cc`, `term_state.cc`) | per node and epoch: produced and consumed counts, gathered counts of two waves, wave numbers, children heard, dependencies | produce, consume, finishedEpoch, maybePropagate, propagateEpoch, the handlers of counts, continue, terminated, makeRooted | the root compares counts sampled on each node at a different time while messages travel |
| Parental responsibility (`dijkstra-scholten/ds.cc`, `comm.cc`) | per node: parent, debts C, ackedArbitrary, ackedParent, reqedParent, D, outstanding requests | msgSent, gotAck, msgProcessed, doneSending, tryAck, tryLast, disengage | a node leaves and joins the tree again; its record is removed by a queued action |
| Epoch windows (`epoch_window.cc`, `epoch_manip.cc`) | terminated set, counter of the next id | allocateNewEpoch, addEpoch, setEpochTerminated | ids wrap; each node counts by itself |
| Interval set (`interval/integral_set.h`) | ordered disjoint intervals, bounds, element count, hint | insert, insertInterval, erase | splits and joins at the ends |
| Termination actions and status (`term_action.cc`, `termination.cc`) | actions per epoch, pending inquiries, finished epochs | addAction, isEpochTerminated, inquire, reply, epochTerminated | an answer and an announcement race |
| Epoch dependencies (`epoch_dependency.cc`) | successor edges, units and dependency counts per node | addDependency, addSuccessor, removeIntersection, clearSuccessors | edges are added, and dropped as implied, while epochs end |
| Active messenger (`messaging/active.cc`) | requests in progress, pending receives, tags | sendMsgBytes, sendMsgMPI, tryProcessIncomingActiveMsg, recvDataDirect, processDataMsgRecv, deliver | data travels apart from its message, tags are reused |
| Scheduler (`scheduler/`) | queue, idle flags | runSchedulerWhile, enqueue, triggers | decides what the fairness assumptions may be |
| Barrier, reduce, collective scopes (`collective/`) | per-tag or per-stamp states | handlers up and down the tree | messages precede local calls; tags are reused |
| Groups (`group/`) | info per group, tree, waiting messages | construction by up, down and extra messages | reports arrive in any order, before the node has joined |
| Location manager (`topos/location`) | directory, cache, waiting actions | register, migrate, getLocation, eager updates | stale caches, forwarding |
| Collections (`vrt/collection`) | holder of each node, the home's records, the group of nodes with elements | insert, destroyElm, finishModification, migrateOut, migrateIn, constructGroup, broadcasts | insertions of one index race; the group is stale after a migration |
| Load balancing (`vrt/collection/balance`) | transfers, lists of departing and arriving elements | normalizeReassignments, applyReassignment, defaultPostLBWork | strategies move elements of other nodes |
| Phases (`phase/`) | hooks, reduction flags | nextPhaseCollective, runHooks | a node one phase ahead |
| RDMA, events, pipes, runtime, utilities | - | - | mostly typed dispatch or MPI wrappers |

How they interact: every user message of an epoch is *produced* when it is sent
and *consumed* when its handler is done; termination detection sends its own
messages outside any epoch. When the epoch terminates, the detector inserts it in
its window, runs the attached actions, and releases the successors. Windows
recycle ids, so the promise "terminated" has to be about the present use of an id.
A barrier, a collective scope and a phase wait inside a scheduler loop that runs
other work meanwhile, so one collective call is nested in another's handler; scopes
and phases are made of reductions and broadcasts over the same tree. A collection
is changed in collective epochs, finds its elements through the location manager, and
broadcasts to a collective group that is built again whenever elements have moved.

## 2. Modules

| Module | Models | Kind |
|---|---|---|
| `EpochTD` | what a detector promises about an epoch | abstract specification |
| `Tree` | the default binary spanning tree (`collective/tree/tree.cc`) | constants and operators |
| `TermState` | `TermState` and the pure part of its operations | operators on a record |
| `TermWave` | `TerminationDetector` for one wave epoch | state machine |
| `TermWaveInv` | its inductive invariant | definitions |
| `TermDS` | `TermDS` and the rooted part of `TerminationDetector` | state machine |
| `TermDSInv` | its inductive invariant | definitions |
| `IntegralSet` | `IntegralSetBase` | operators on a record |
| `EpochWindow` | `EpochWindow` on several nodes | state machine |
| `EpochStatus` | `isEpochTerminated`, `addAction` and the announcement | state machine over `IntegralSet` |
| `EpochDependency` | dependencies between several epochs, over what `EpochTD` promises | state machine |
| `Messenger` | `ActiveMessenger`: messages, put payloads, chunks, pending receives | state machine |
| `Location` | `EntityLocationCoord` for one entity | state machine |
| `Scheduler` | the work queue and the broadcast to all nodes | variables and operators |
| `Barrier` | `Barrier` | handlers, over `Scheduler` and `Tree` |
| `Reduce` | `Reduce`: stamps, contributions, the result on the root | handlers, over `Scheduler` and `Tree` |
| `CollectiveScope` | `CollectiveScope` and `CollectiveAlg` | handlers, over `Reduce` |
| `PhaseManager` | `PhaseManager::nextPhaseCollective` | handlers, over `Reduce` |
| `Collectives` | a program of collective calls on every node, in nested scheduler loops | composition of the five above |
| `MCCollectives` | - | the program that is checked |
| `GroupCollective` | `InfoColl` and the group manager: construction of collective groups, broadcasts to them | state machine |
| `Collection` | `CollectionManager`, `Holder`, and what the load balancer does with a strategy's choice | state machine |
| `MCCollection` | - | the program that is checked |
| `NodeSum` | - | lemmas on sums over the nodes |
| `TermWaveProofs` | - | proofs about `TermWave` |
| `TermDSProofs` | - | proofs about `TermDS` |
| `EpochWindowProofs`, `UnitProofs`, `LocationProofs`, `CollectionProofs` | - | proofs about the windows and the status of epochs, the messenger and the dependencies, `Location` and `Collection` |

### EpochTD

Two variables. `busy`: some work of the epoch is in flight, queued, held or still
to be made. `told`: the members that consider the epoch terminated. `Quiesce`
ends the work, once and for ever; `Announce(n)` needs that it ended. Both
detectors are shown to implement it; for waves the members are all nodes, for
parental responsibility only the root of the epoch.

### TermWave

One epoch, collective or rooted (constant `Rooted`), on the nodes
`0 .. NumNodes - 1`. The record of a node in `epoch_state_` is `state[n]`, valid
when `n \in known`. The two gathered counts of the present wave are
`g_prod1`, `g_cons1`, those of the last wave `g_prod2`, `g_cons2`, as in the code.

A handler of the code makes several calls, each of which may itself hand on the
counts of the node (`consume` ends with `propagateEpoch` when the node is ready,
and on the root this may detect termination or start a wave). An action here is
the whole handler: it threads an *effect* (the record, the counts and waves sent,
whether termination was found) through the operators for those calls, and commits
it once.

| Action | Code |
|---|---|
| `MakeEpochCollective`, `MakeEpochRooted`, `MakeRootedHan` | `makeEpochCollective`, `makeEpochRootedWave`, `makeRootedHan`, `setupNewEpoch` |
| `FinishedEpoch` | `finishedEpoch`, `finishNoActivateEpoch`, `activateEpoch` |
| `SendMsg`, `Deliver`, `RunnableDone` | produce on send, handling of a message as a unit that is produced and consumed, end of a unit |
| `AddLocalDependency`, `ReleaseLocalDependency` | the same, for asynchronous operations |
| `DisableTD`, `EnableTD` | the same |
| `Idle` | `maybePropagate` from the scheduler's idle trigger |
| `PropagateEpochHandler` | arrival of a child's counts |
| `EpochContinue`, `EpochTerminated` | the two broadcasts of the root |
| `RootCleanup` | the queued removal of the root's record |

All messages, user and control, may be delivered in any order; MPI does not order
messages of different tags and the tree forwards broadcasts.

Choices made in translating:

- `sendMsgBytes` posts the message before it calls `produce`. Nothing else runs on
  the node between the two, and the count is read only on that node, so `SendMsg`
  does both in one step.
- A message that arrives becomes a runnable, a unit of its own, before the message
  is consumed. `Deliver` makes the two calls in that order.
- `finishedEpoch` is called once per node, as the code requires of its users.
- Wave numbers are `TermWaveType` counters that only grow. The model counts modulo
  `MaxWave + 1`, so that an epoch may run any number of idle waves in a finite
  state space; `MaxWave` also stands for the initial `submitted_wave_` of -1.
  `ContinueInOrder` and `CountsOfOneWave` show that all wave numbers in use at a
  time are adjacent, and the proofs hold for every `MaxWave >= 1`.
- `Idle` is guarded by readiness, because `maybePropagate` does nothing otherwise.
- The scheduler appears as the interleaving of actions. A nested scheduler loop
  inside a handler is why a runnable may send while others run (`InScope`).

### TermDS

One rooted epoch. The field names of a record are those of the code (`C`, `D`,
`lC`, `lD`, `ackedArbitrary`, `ackedParent`, `reqedParent`, `processedSum`,
`engagementMessageCount`, `outstanding`). The actions are the calls that
`TerminationDetector` and `StateDS` make on them: `MakeEpochRootedDS`,
`FinishedEpoch`, `SendMsg` (`msgSent`), `StartLocal` and `FinishLocal` (local units:
runnables, messages to oneself, dependencies), `Deliver` (`msgProcessed`),
`AcknowledgeHan` (`gotAck`), `Disengage` (the queued check that drops a record) and
`RootCleanup`. `tryAck` and `tryLast`, which end several of these, are operators,
and an action applies them where the code calls them. All units are counted by
one, as every caller of `produce` and `consume` does.

### IntegralSet, EpochWindow, EpochStatus

`IntegralSet` keeps what `IntegralSetBase` keeps: the intervals, the global lower
and upper bound, the element count and the hint. The ordered container is a set of
disjoint intervals. `Represents(s, T)` is the reference: the structure stands for
the set of integers `T`, with the right bounds and count.

`EpochWindow` has one window per node, for one kind of epoch; nodes allocate
collective epochs in the same order at different times, and hear of terminations
in different orders. An allocation is two steps, the entry of `allocateNewEpoch` and
the iteration of its loop that returns, because the loop is where the code may
stay.

`EpochStatus` is one node that is not the root of rooted wave epochs and the root.
The node polls `isEpochTerminated` and adds actions from the moment the root has made
the epoch, so also before `makeRootedHan` has set it up on the node (`early` remembers
the epochs that got an action then); inquiry, reply, the two announcements and the
queued runs of actions interleave.

The assertions a step of the code may fail are modelled here and in `Location` by a
variable `aborted`: a step that fails one may set it, and then nothing happens any
more, as in a default build, where a failed assertion aborts all nodes; or it may
leave it, as in a build with `vt_production_build`, which has no assertions. A property
that has `aborted` as an alternative says what is true of both kinds of build.

### EpochDependency

Several epochs on several nodes, some of them detected by waves and some (`DS`) by
parental responsibility. How one epoch is detected is taken from `EpochTD`, which
both detectors implement: an epoch goes quiet when no unit of it is left, and then
the nodes hear of it one by one. `AddDependency` is all of `addDependency`: the new
edge, the unit of the successor it produces, the dependency it counts, and the
removal of the edges the predecessor shares with the successor.
`EpochTerminated` gives the units back. `depend` is a history of the dependencies
that were asked for before the predecessor went quiet.

### Messenger

Each message is a record that goes through stages; a *small* one is a single MPI
message, a *put* sends its payload under a fresh tag and the message after it, and a
*multi* message is cut into chunks announced by a control message. Each sender has
its own tag counter, which wraps at `MaxTag`. On the receiver `pending_recvs_` is a
function of the tag alone, as in the code. `epoch` and `anyEpoch` are the sums of
the calls of `produce` and `consume`.

| Action | Code |
|---|---|
| `SendMsg` | `doMessageSend`, `sendMsgBytesWithPut`, `sendMsgMPI`, `allocateNewTag` |
| steps of `Progress` | `tryProcessIncomingActiveMsg`, `finishPendingActiveMsgAsyncRecv`, `recvDataMsg`, `handleChunkedMultiMsg`, `tryProcessDataMsgRecv`, `recvDataDirect`, `finishPendingDataMsgAsyncRecv`, the queued continuation |

### Location

One entity with a home node. `recs` is the record of each node: at the home it stays,
elsewhere it is in a cache that evicts. A message is small (`routeMsgEager`: follow
the record, else go to the home) or large (`routeMsgNonEager`: without a record ask
the home first), and carries the node to tell when it is delivered. `asks` and
`lookups` are the nodes that asked and the requests under way; location messages are
a bag. Migration is two steps, as in the collection manager: the entity leaves a
breadcrumb, and is registered where it arrives. Moves and evictions come at any time.
`hasty` is a history variable: it becomes true when the entity moves while a location
message is in flight, or when a record is evicted while the home does not know where
the entity is. Load balancing between phases moves entities when nothing else is under
way and never gets there by moves; nothing in the code keeps an eviction from it.

### Scheduler, Barrier, Reduce, CollectiveScope, PhaseManager, Collectives

`Scheduler` has the work queue of every node (first in, first out, as in the default
build), the messages between nodes (in any order, those of one pair of nodes included) and a stack of the conditions that
nested calls of `runSchedulerWhile` wait for. The other four define handlers over it
and keep the names of the code for their state. `Collectives` composes them: every
node runs the same program of calls; `Call` begins one, `Resume` takes the innermost
loop whose condition holds on to what follows it, `RunWork` runs the oldest work of
the queue, and `Arrive` brings a message in and forwards a broadcast. So a collective
may be run from a loop of any other, which is how the runtime really behaves.

`Reduce` sums who contributed, so that a lost or doubled contribution shows.
`CollectiveScope` has the trigger by reduction and broadcast, the agreement on the
next collective by `MPI_Ibcast` and `MPI_Ibarrier`, and the postponed ones.
`PhaseManager` has both reductions, the four flags and the epoch in which the data
collection hooks run.

### GroupCollective

`info[g][n]` is the state of `InfoColl` on a node. Votes travel up the default tree; a
node keeps, passes on or splits the subtrees of its children, an action for each case of
`upTree`; surplus subtrees travel as *extra* votes up and *down* messages; the root of the default tree
finalizes, the nodes join a reduction, and the new tree starts. Broadcasts to the
group may be made at any time; they wait where the tree is not yet ready. The order
of a node's children is left open, since the sort that decides it is unstable, so
each step considers all orders that the code may come to. Messages are a bag and arrive
in any order: the messenger posts several receives at a time and tests them in an order
of its own.

### Collection

All nodes run the same program of *sections*, each at its own pace. A section is a
collective epoch: the node does its part (`Begin`, or the user's operations and
`FinishedEpoch`) and waits in the scheduler, where it handles what arrives, the
messages of a node that is one section ahead included. `SectionEnds` is what `EpochTD`
promises: every part is done and nothing of the epoch is left. The news of it arrives at
a node as a message, which is queued (`EpochTerminated`); when its turn comes the loop
of `runSchedulerThrough` ends and the node goes on (`Proceed`).

| Sections | Code |
|---|---|
| `modify`, `stamp`, `group` | `beginModification` to `finishModification`: the modification epoch, the pass over the elements with the reduction, the new group |
| `decide`, `sum`, `inform`, `arrive` | the strategy; `normalizeReassignments` |
| `regroup`, `apply`, `regroup` | `defaultPostLBWork`: `invokeAllGroupConstructors`, `applyReassignment`, `invokeAllGroupConstructors` |
| `broadcast` | an epoch of the user's with one broadcast |

`held`, `erased` and `num_erased` are the holder, which marks an element erased and
drops the entry at the end of the next `foreach`. `known` is the set of indices the
home has a record of, all that `insert` and `pingHomeHandler` ask of the location
manager. An insertion goes to its node (`insert`), from there to the home (`ping`) and,
if the home reserves the slot, back (`granted`). A removal waits in `queue`, the
node's work queue, first in, first out, together with the news that a section ended; it
is not counted in the epoch. A migration, which is, waits in `migrating`. A strategy may move any element, its own or another node's, anywhere.

Two things shown elsewhere are one step here: a routed message reaches its element
(`Location`), and the votes of all nodes make a group (`GroupCollective`). Users destroy
elements that exist, and once. The reduction stamps of elements are left out.

`Init` is what `makeCollectionImpl` leaves: an element is on the node its index is mapped
to, or, with `listInsertHere` (constant `Here`), on another, where it is registered as if
that node were its home. The mapped home has no record of it; `away` is the set of such
indices. A message that is routed to such an element waits at the home, so that the
section it belongs to never ends (`Unrouted`).

## 3. Runs

All runs but `collection` switch the deadlock check off: an epoch terminates, the
user's operations are bounded, and a system with nothing left to do stops. That it does
not stop too early is what the liveness properties say. In `collection` only the end of
the program (`Finished`), and a message the home has no record for (`Unrouted`), may
stop it, so the check shows that nothing else makes a node wait for ever in a section.

| Run | Module, configuration | Bounds | What it checks |
|---|---|---|---|
| `wave_collective` | `TermWaveInv`, `TermWaveCollective.cfg` | 4 nodes, 3 wave numbers, 2 user operations | `IndInv`, `DetectionSafe`, `ContinueInOrder`, `CountsOfOneWave`, `ImplementsTD` |
| `wave_rooted` | `TermWave`, `TermWaveRooted.cfg` | 3 nodes, epoch made by node 1, 2 user operations | `ImplementsTD`, `EveryNodeTold` |
| `ds` | `TermDSInv`, `TermDS.cfg` | 3 nodes, epoch made by node 1, 4 user operations | `DSInvariant`, `NoDebtForgotten`, `Responsible`, `IndInv`, `ImplementsTD`, `TerminatesAndCleans` |
| `window` | `EpochWindow`, `EpochWindow.cfg` | 2 nodes, 4 ids, 6 epochs per node | `WindowExact`, `CollectiveAgree` |
| `status` | `EpochStatus`, `EpochStatus.cfg` | 3 epochs of 4 ids, 2 user operations | `StatusSound`, `OneAnswer`, `AllAnswered` |
| `dependency` | `EpochDependency`, `EpochDependency.cfg` | 3 nodes, 3 epochs, one of them DS | `UnitPerEdge`, `PredecessorFirst`, `EveryEpochTerminates` |
| `messenger` | `Messenger`, `Messenger.cfg` | 2 senders, 1 receiver, 3 messages, 2 tags, 2 chunks | `PayloadOwn`, `EpochHeld`, `RunOrDropped` |
| `messenger_lost` | `Messenger`, `MessengerSameTag.cfg` | the same with 2 messages | `ContinuationRuns`, violated |
| `location` | `Location`, `Location.cfg` | 3 nodes, 1 message, 3 moves, 2 evictions | `RecordsLead`, `EagerAppliedAtEntity`, `Chased` |
| `collectives` | `MCCollectives`, `Collectives.cfg` | 4 nodes, 2 scopes, 1 named and 1 unnamed barrier, 9 calls | `BarrierSafe`, `ReduceWhole`, `SameOrder`, `PhaseAligned`, `EveryCallReturns` |
| `group` | `GroupCollective`, `GroupCollective.cfg` | 11 nodes, 1 group of none, all or 8 nodes, 1 broadcast | `SpanningTree`, `FinalizedOnce`, `DeliveredOnce`, `GroupBuilt`, `BroadcastReaches` |
| `collection` | `MCCollection`, `Collection.cfg` | 3 nodes, 2 indices, 1 run of the load balancer with 2 moves, 2 modifications with 1 and 2 operations, 3 broadcasts | `OneElement`, `ChangesInPlace`, `BroadcastOnce` |

What the properties of the newer runs say:

- `UnitPerEdge`, `PredecessorFirst`, `EveryEpochTerminates`: a predecessor keeps
  exactly one unit of each successor it lists, no successor is found terminated
  first although edges are dropped, and no unit is left behind to block one.
- `PayloadOwn`, `EpochHeld`, `RunOrDropped`: a message runs with its own data unless
  the sender's tag came round again between the same nodes; its epoch is held exactly
  while something of it is on its way; and it runs unless its receive was dropped.
- `StatusSound`, `OneAnswer`, `AllAnswered`: of an epoch it has set up a node believes
  that it terminated, and enqueues its actions, only if that is so, except for actions
  enqueued with one that was added before the set-up; a question is in one place; and in
  the end every question is answered and every action has run, unless an assertion has
  failed.
- `RecordsLead`, `EagerAppliedAtEntity`, `Chased`: when location traffic is over, no set
  of records goes round in a circle away from the entity, and every message is delivered
  in the end, both unless a move or an eviction came too early (`hasty`); small messages
  are handled where the entity is, always.
- `BarrierSafe`, `ReduceWhole`, `SameOrder`, `PhaseAligned`, `EveryCallReturns`: no node
  leaves a barrier before all have come, this time; a result has each contribution once; MPI
  collectives begin in one order on all nodes; while a node is outside
  `nextPhaseCollective` all are in its phase, and while one runs the hooks all are
  inside; and no nested loop waits for something only an outer one could do, unless an
  arrival was erased with the state of a named barrier (`erased`).
- `SpanningTree`, `FinalizedOnce`, `DeliveredOnce`, `GroupBuilt`, `BroadcastReaches`: the
  built tree has exactly the members, each below one other; nodes finalize once; a
  broadcast runs once on each member and on nobody else, whenever it is made.
- `OneElement`, `ChangesInPlace`, `BroadcastOnce`: an index has one element at most, in a
  holder or in a message, and the home has a record of it, unless `listInsertHere` put
  it away from its home; when the modification or the load balancer is done, the changes
  asked for have taken place, and no others, except for insertions of an index the home
  had a record of, which are cancelled, and for modifications of indices put away from
  their homes; with `vt_lb_keep_last_elm` no node lost its last element; a broadcast reaches every
  element once, wherever the elements have been put.

Type invariants of `TermWave`, `TermDS`, `EpochDependency` and `Location` are proved (section 4)
and have no place in the runs; `IndInv` of the waves contains its own.

Why the bounds are enough for the interesting cases:

- Four nodes give the tree 0 - (1 - 3), 2: an inner node that is not the root, a leaf
  of depth two, and two children under one node. Two user operations let a message
  be sent from a node after its counts left in a wave and arrive where they have
  not, and be answered, which is the case the comparison of two waves exists for;
  the one-wave test of a mutant fails there. Waves repeat until
  nothing changes, and since their numbers wrap the repetition is finite in the
  model, so the number of waves is not bounded.
- In `wave_rooted` the epoch is made by a node that is not the root of the tree, so
  messages may reach nodes, the root among them, before the makeRooted broadcast.
- In `ds`, four operations on three nodes let a node engage, disengage, and engage
  with another node before the record of its first engagement is dropped, and let
  a message return to the root.
- In `window`, six epochs from four ids make the counter wrap and ids be used again
  while others are live, with splits at both ends and in the middle of intervals.
- In `status`, two operations are a question and an action, or two actions, on one epoch
  or on two, before or after its set-up; the third epoch lets the window change between
  two announcements of another, which is when the assertion does not fail.
- In `dependency`, three epochs are what a dropped edge takes (p before s, s before t,
  p before t), made on one node or on different ones, and three nodes may hear of an
  end in any order.
- In `messenger`, three messages under two tags make a sender's tag wrap, and two
  senders use equal tags.
- In `location`, three moves let a record be wrong twice over, the entity return home or
  to its first node and leave it again, and a request be answered while it moves; two
  evictions are those of both nodes other than the home, or twice of one. `RecordsLead`
  is proved for any number of each.
- In `collectives`, four nodes give the tree a leaf of depth two. The named barrier is
  used twice in a row while a collective is under way, whose trigger runs in a loop
  nested in the barrier's, two collectives are planned before either is
  waited for, and two phases follow each other.
- In `group`, the eight members on eleven nodes leave out the root of the default tree
  and make a node with more subtrees than it keeps, so that all cases of `upTree`
  and both kinds of surplus messages happen; the empty group and the default group
  are the two special cases of the root.
- In `collection`, both elements may move before the first modification, so that an
  element is destroyed and inserted at its home and away from it; the one operation of
  the first modification leaves erased entries and records of the home, and the two of
  the second meet them: two insertions that race for one index, or a destruction that
  races an insertion; and the three broadcasts go to no group, to one rebuilt after
  migrations, and to one rebuilt after modifications. The second element may have been
  made away from its home.

Every constant that bounds a model (`MaxUserOps`, `MaxWave`, `MaxMade`, `MaxSeq`,
`MaxActions`, `MaxMsgs`, `MaxTag`, `MaxMoves`, `MaxEvictions`, `MaxUnnamed`, `NumGroups`,
`MaxOps`) is named in its module. The proofs quantify over those of their modules.

### Fairness

It is weak fairness, and only the runs with a liveness property use it.
Messages arrive, because MPI delivers and the scheduler polls it. Queued units
run, because the scheduler drains its queue. `Idle` happens, because the scheduler
calls the idle trigger whenever its queue is empty, and a node that is ready stays
ready until it propagates. User code ends: it makes and finishes the epoch, its
handlers and asynchronous operations complete, and it enables what it disabled.
Sending, adding a dependency, disabling, asking, moving an entity, evicting a record
and broadcasting to a group are the user's choice and are not fair. In `Collectives`
and `GroupCollective` weak fairness of all progress together is enough, since no step
of them can be repeated for ever.

### What the violated run shows

`messenger_lost`: `pending_recvs_` is keyed by the tag alone (`active.cc:730`), and
every sender counts its tags by itself. When two nodes put payloads to a third
under equal tags, and both messages arrive before the first payload, `emplace` does
nothing for the second: its continuation never runs, against what `active.h:1291-1293`
says of it, and its epoch never ends.

### Observations without a run

Met while modelling; each is a behaviour of the code that the models contain or whose
place they mark, and that a user of these parts should know.

- Until the makeRooted broadcast arrives, a node's window holds a rooted epoch as
  terminated, as it does every id not yet activated. A message of the epoch may come
  first, and then `isEpochTerminated` answers true on a node that runs a handler of
  it. The documentation says that the answer is at worst conservatively false
  (`src/src/vt/termination/termination.h:556-561`). An action added then is enqueued at
  once, and the runnable takes with it the actions added until it runs. `EpochStatus`
  has these steps; `StatusSound` is about the epochs a node has set up, and without its
  exception `early` it is violated.
- `disableTD` holds back only a node that has not handed on its counts; otherwise the
  epoch may terminate while it is disabled there. The documentation says that
  non-local progress is halted (`termination.h:671-672`).
- `allocateNewEpoch` increments the counter only in the branch that returns, so it
  stays in its loop when the next id is live, whatever else is free
  (`epoch_window.cc:109-110`). It takes a whole id space of epochs during the life of
  one. Skipping would not be right either: the mutant `AllocateNewEpochSkips` breaks
  `CollectiveAgree`, since nodes know of different terminations.
- A node that asked about an epoch is told twice, by the reply and by the broadcast,
  and inserts the epoch twice into the terminated set. Unless another epoch has been
  inserted in between, the second insertion fails the assertion at `integral_set.h:279`
  (`InsertFails`), and a default build aborts: `AllAnswered` without its alternative
  `aborted` is violated. `WindowExact` shows that the insertions of epochs that are live
  never fail it.
- A node of a parental-responsibility epoch that is not its root drops its record, and
  the successor edges in it, when it disengages (`dijkstra-scholten/comm.cc:105`).
  `EpochDependency` lets only the root add such edges, as `makeEpochRooted` does.
- A large message that waits for the home's answer is applied where the answer says,
  without a look at whether the entity has arrived there; it may still be on its way.
  `docs/md/location.md:35-37` says that messages are delivered "where the entity
  exists now". `EagerAppliedAtEntity` is therefore about small messages.
- If an entity moves again while location traffic of its last move is under way, records
  can lead in a circle, or a record point at its own node, and stay so; a large message
  then stays buffered (`location.impl.h:565`, `location.impl.h:722`), and an eager update
  can come back to the node that sent it, against the assertion at `location.impl.h:413`.
  `docs/md/location.md:34-38` speaks of migrations "at any time" and says that a message
  will "chase" the entity "until it catches up". Without `hasty`, `Chased` is violated,
  also without evictions.
- The same comes of an eviction (`cache.impl.h:108-113`) of a breadcrumb before the home
  has been told of the move: the home's answer to a request names the node that asked.
  Once the home knows, evictions are harmless, also amid location traffic; this is what
  the proof of `RecordsLead` shows.
- When a named barrier is used twice in a row, a node may count a child's arrival at the
  second use before it has left the first, and `removeBarrier` erases it
  (`barrier.cc:146`); the second use then never ends. It takes a scheduler loop
  nested in that of the barrier, such as that of a collective whose trigger arrives
  meanwhile: the outer loop tests its condition after every unit of work, and the queue
  is first in, first out, so that without a nested loop it ends before such an arrival
  runs. The run reaches this (`erased`), and `EveryCallReturns` leaves it out;
  `BarrierSafe` holds all the same. A named barrier with a continuation cannot be used
  twice, as its state is not removed.
- A user scope and a system scope with the same number share a reduction stamp
  (`collective_scope.cc:95`).
- A payload that is put in several chunks is received as if it were one
  (`active.cc:1109`); `Messenger` puts payloads of one chunk only.
- `triggerWaitingContinuations` serves the messages that wait for one group and then
  clears the table of all groups (`group_manager.impl.h:122`). A vote for a second
  group that arrived before the node joined the first is lost, and the second group's
  action, "to execute when group is finished construction" (`group_manager.h:167`),
  never runs. `GroupCollective` shows it with three nodes and `NumGroups = 2`:
  `GroupBuilt` is violated. A collection builds its groups one at a time, in an epoch
  each.
- A node outside a group that broadcasts to it before it has heard of the group's root
  drops the message (`group_manager.cc:414`).
- `maybePropagate` and `TermAction::runActions` iterate over tables that what they call
  may grow (`termination.cc:182`, `term_action.cc:136`).
- `unregisterEntity` removes the record of its own node only (`location.impl.h:184-187`).
  After an element has been destroyed away from its home, the home still has a record
  of the index, and a later insertion of it is cancelled without a word;
  `docs/md/collection.md:180-184` says that "the runtime guarantees that all changes have
  taken place across the system". `ChangesInPlace` leaves out insertions of an index the
  home already had a record of; the run reaches them.
- `listInsertHere` (`docs/md/collection.md:58-62`) registers an element with the node it
  is made on as its home (`collection_builder.impl.h:211-216`), while everybody else
  asks the home the index is mapped to. That node has no record until the element
  migrates: an insertion of the index makes a second element, and a message to the
  element from another node waits there (`location.impl.h:381-389`). `OneElement` and
  `ChangesInPlace` leave out such indices, and are violated if they do not.
- `destroyElm` queues the removal without counting it in the modification epoch
  (`manager.impl.h:1751`). It has run when `finishModification` goes on because the news
  that the epoch ended comes later into the same queue, which is first in, first out in
  the default build. With the priorities of other builds this would not follow.
- An element that does not exist, or that is destroyed twice in a modification, leaves a
  routed message that has nowhere to arrive, and `finishModification` never returns.
- `constructGroup` deletes the old group when a node votes for the new one; a broadcast
  to the collection that is still under way through the old group meets an assertion.
  Broadcasts of the model end in an epoch of their own.
- The empty group runs its action twice on node 0, and the comment on choosing the
  root of a group speaks of the largest subtree where the sort puts the smallest first
  (`group_info_collective.cc:311-321`). Neither harms the tree.

## 4. Proofs

Assumptions, all named in the modules that declare the constants: there is at least
one node (`NumNodesAssumption`), at least two wave numbers (`MaxWaveAssumption`), the
epoch's root is a node and the bound on user operations is a natural number
(`EpochAssumption`, `DSAssumption`), a window has at least one id and the bounds of
`EpochWindow`, `EpochStatus` and `Messenger` are natural numbers (`WindowAssumption`,
`StatusAssumption`, `MessengerAssumption`), the epochs that depend on each other are
finitely many (`EpochDependencyAssumption`), the home of an entity is a node and its
messages are finitely many (`LocationAssumption`), and the homes of the elements of a
collection are nodes (`CollectionAssumption`). Nothing else is assumed: the
theorems hold for every number of nodes, every root, collective and rooted epochs, and
any amount of work.

### Waves (`TermWaveProofs`)

| Theorem | States |
|---|---|
| `Invariance` | `Spec => []IndInv` |
| `TypeCorrectness` | `Spec => []TypeOK` |
| `SafeDetection` | `Spec => []DetectionSafe`: once a node is told, the epoch is quiet |
| `ContinuesInOrder` | `Spec => []ContinueInOrder` |
| `CountsInOneWave` | `Spec => []CountsOfOneWave` |
| `Refinement` | `Spec => ImplementsTD` |

`DetectionSafe` is not inductive: whether the root's comparison is right depends on
what was counted, when, and what is still on its way. `IndInv` adds

- `Coordination`: the root's wave is the newest; any other node is in it, or has
  submitted the one before and a continue is on its way to it;
- `InFlight`, `Gathering`: counts in flight are of the root's wave, one per sender,
  and a node has heard exactly the children whose counts arrived;
- `Participation`: a node that has not made the epoch does not submit, so the first
  wave waits for it;
- `Balance`: summed over the nodes, produced less consumed is the work outstanding;
- `Lower`: what this wave has gathered of consumption is at most what the nodes that
  submitted have consumed by now;
- `Upper`: if the system is not quiet, the production that this wave has gathered or
  will gather exceeds the consumption the last wave gathered.

`Upper` is the argument for two waves. When a wave starts, all consumption the last
one gathered has happened (`Lower`). If work is outstanding, production exceeds it
by `Balance`, and production only grows. So the next wave gathers more production
than the last one gathered consumption, and the test "this production equals the last
one's, and the last one's equals its consumption" fails. If the test succeeds, the
system is quiet.

A handler makes several calls and each may propagate, so the invariant is stated of
a configuration given by arguments and is shown to hold between the calls of a
handler. The proofs are in layers: `NodeSum` (a sum over the nodes and how it
changes when one summand does), then in `TermWaveProofs` one lemma for each thing a call
may do (count, take a continue, take a child's counts, submit, detect, start a wave),
sequences of calls, actions, and theorems.

### Parental responsibility (`TermDSProofs`)

| Theorem | States |
|---|---|
| `Invariance` | `Spec => []IndInv` |
| `TypeCorrectness` | `Spec => []TypeOK` |
| `AssertionsHold` | `Spec => []DSInvariant`: the assertions in `ds.cc` hold |
| `DebtsKept` | `Spec => []NoDebtForgotten` |
| `ResponsibilityHolds` | `Spec => []Responsible` |
| `Refinement` | `Spec => ImplementsTD` |

`IndInv` says that between handlers a record has one of three shapes (idle, the root
of a live epoch, joined by one message), that local work matches the local counters,
that the debts `D` of a node are exactly the acknowledgements on their way to it, its
messages in flight, and the nodes that engaged with it (`Debts`), and that the
engagement edges have no cycle (`Hanging`: in every non-empty set of nodes with a
parent, some parent is outside). When the root has no debts and no local work, no
node has the root as its parent. If a node were engaged, take the set of all engaged
nodes: some parent is outside it, and since only engaged nodes have debts, that
parent is the root, which is impossible. So no node is engaged, hence none has work,
and nothing is in flight.

The first half of the module has the lemmas on records, debts and the tree; the second
has one lemma per action and the theorems.

### Windows and the status of epochs (`EpochWindowProofs`)

| Theorem | States |
|---|---|
| `WindowAlwaysExact` | `Spec => []WindowExact`: intervals, bounds and count of a window represent exactly the ids that are not live |
| `AlwaysAgree` | `Spec => []CollectiveAgree`: the k-th collective epoch has one id on all nodes |
| `StatusAlwaysSound` | `StatusSpec => []StatusSound`: a node takes an epoch it has set up for terminated only if it is |
| `AlwaysOneAnswer` | `StatusSpec => []OneAnswer`: a question is in one place until it is answered |

The first part of the module is about `IntegralSet` alone, for any intervals of
integers: `InsertSet` joins what it touches, `Erase` cuts an interval at an end or in
the middle, and both keep `Exact`: intervals that do not touch, a lower and an upper
bound that are elements, and the number of elements. The window is the set with the
live ids erased. That the nodes agree rests on `InTurn`: a node starts at the first id,
and each epoch it makes has the id after the one before, since a node waits at an id
that is live and never skips it. An id can then be live only once (`LiveOnce`), which is what `Erase` and
`InsertSet` need to keep the count.

For the status, `Sound` says that every announcement, answer and enqueued action is of an
epoch that was found terminated (an enqueued action also of one that got an action before
its set-up), and `WindowSound` that this is so of the window for the epochs this node has
set up. It uses the weaker `Holds`,
because an announcement may insert an id that is there already, and the count is then
too high.

### Messages and dependencies (`UnitProofs`)

| Theorem | States |
|---|---|
| `AlwaysOwnPayload` | `Spec => []PayloadOwn` |
| `EpochAlwaysHeld` | `Spec => []EpochHeld` |
| `DependencyTypes` | `DepSpec => []TypeOK`: no count goes below zero |
| `UnitsAreEdges` | `DepSpec => []UnitPerEdge` |
| `NoSuccessorFirst` | `DepSpec => []PredecessorFirst` |

`PayloadOwn` looks at a message that runs; `OwnData` says where its data was before:
until the receive is posted, what lies under its source, destination and tag is its
payload and nothing else, and data under a channel belongs to some message sent with
it. `EpochHeld` needs the counts themselves. `Counted` says that each is the number of
units that the messages hold, where what a message holds depends on its kind and its
stage; the units are counted as a set of pairs, so that no sum by recursion is needed.

`PredecessorFirst` is not inductive, because `addDependency` drops edges: then the
predecessor no longer holds the successor itself. `DepInv` says what replaces the
dropped edge: going back from a successor along the edges that are left, on any nodes,
one meets every predecessor that is not quiet (`Kept`). Paths would need induction, so
"meets" is stated by closed sets: every set of epochs that contains the successor and,
with an epoch, all its holders contains the predecessor. When an epoch goes quiet it
has no unit, by `UnitPerEdge` no holder, so the set of it alone is closed, and no
predecessor that is not quiet can be in it but itself (`NoSelf` and `Unheld` complete
the invariant).

### Location (`LocationProofs`)

| Theorem | States |
|---|---|
| `LocationTypes` | `Spec => []TypeOK`: there is one entity, registered on one node or on its way |
| `EagerApplied` | `Spec => EagerAppliedAtEntity`, an action property |
| `RecordsLeadAlways` | `Spec => []RecordsLead`, whose condition is that no move and no eviction came too early |

The first two hold of all behaviours, however moves and evictions come. `LocInv` adds to the types that, as long as
all messages are small, nobody waits for an answer, and the only updates in flight are
those that tell the home of a registration elsewhere (`EagerOnly`). So a message that
waits at the home is sent away by the update, never applied there.

`RecordsLead` looks at the records only when no location message is left. `Trail(c, p)`
says how they lead to the entity at every moment, for its place `c` and the node `p`
that it left last: news in flight name `c`, or `p` if they were sent before the home
knew of the move, and nobody on the way is told of `p` (`News`); `p` keeps its breadcrumb,
and asks nobody, until the home knows `c` (`Breadcrumb`); the home knows `c` or
is about to be told (`HomeKnows`); and every set of nodes that no message leaves, by the
records as they are, contains `c` (`Leads`). As with dependencies, closed sets replace
paths. The invariant is that the entity has such a trail or `hasty` is true. A move with
no traffic in flight starts a new trail, since the home then knows where the entity
was; an eviction once the home knows leaves a node whose messages go to the home, and
from there to `c`.

### Collections (`CollectionProofs`)

| Theorem | States |
|---|---|
| `OneElementAlways` | `Spec => []OneElement`, for the indices that were not put away from their homes |

`OneElement` is inductive once the holders are known to be functions on the nodes
(`Holders`), for its four parts carry each other. An insertion is granted only if the
home has no record, so there is nothing of the index anywhere, and the grant reserves
the record. An element that migrates leaves the holder as the message is sent, and the
record stays. The home forgets an index only when the element is removed at the home,
and there is no other.

### Only model-checked

- Liveness (`EveryNodeTold`, `TerminatesAndCleans`, `AllAnswered`,
  `EveryEpochTerminates`, `RunOrDropped`, `Chased`, `EveryCallReturns`, `GroupBuilt`,
  `BroadcastReaches`): fairness and `ENABLED` are outside what TLAPS 1.4.5 proves.
- The safety properties of `Collectives` (`BarrierSafe`, `ReduceWhole`, `SameOrder`,
  `PhaseAligned`), for the program of the run.
- `SpanningTree`, `FinalizedOnce` and `DeliveredOnce` of `GroupCollective`, for the
  groups of the run: what a subtree hands up is a list of roots that is built by
  recursion over the tree, and what the list spans would need induction over it.
- `ChangesInPlace` and `BroadcastOnce` of `Collection`, which compare the elements at
  the end of a section with all that was asked for in it. `OneElement`, on which both
  rest, is proved.

## 5. What is not modelled, and why

- Of termination detection: the global epoch (the epoch of everything, which is never
  made or finished), hang detection and the dump of the epoch graph, callables kept by
  `TermAction`, and units counted more than one at a time. Several epochs at a time
  are in `EpochDependency`, where a detector is what `EpochTD` promises.
- Of the windows: the bits that keep windows of different kinds and nodes apart.
- Of the messenger: payloads put in several chunks, batches of receives, and data
  transfers that users make themselves.
- Of the scheduler: priorities, idle events, time triggers, user-level threads and
  suspended units.
- Of the collectives: several contributions of a node to one reduction, roots other
  than that of the tree, scatter, the making and destruction of scopes.
- Of groups: rooted groups, regions, and the MPI communicator of a group. The module has
  any number of groups; the run builds one, since on eleven nodes two are out of TLC's
  reach (the observations say what goes wrong with two).
- Of location: several entities (they share nothing but the cache, whose evictions come
  at any time in the model), and calls by which users wait for an entity.
- Of collections: the destruction of a whole collection, reductions over elements and
  their stamps, checkpoints, and migrations that users make themselves.
- Of load balancing: the strategies, numerical heuristics over measured loads, whose
  choice is free in the model, and the statistics computed before and after.
- Loss and duplication of messages, and crashes: MPI does not lose messages and vt
  does not survive the loss of a node.
- Typed dispatch, serialization, tracing, metrics, configuration, start and stop of
  components: no protocol state.

`PROJECT.json` lists every part with its status, and the hazards of the code that no
property covers yet.

## 6. What could be added

- The destruction of collections, and messages buffered for elements that are not there
  yet, in a module that composes `Collection` and `Location`.
- Rooted groups and the messages to them; object groups whose messages precede the
  object.
- Priorities and suspended threads in `Scheduler`, with the barrier reconsidered.
- Event trees, and get requests of RDMA that wait for a tag.
- Proofs of `ChangesInPlace` for any program, of the tree of a group for any members,
  and of the barrier and the reduction for any number of nodes.
