----------------------------- MODULE Collection -----------------------------
(***************************************************************************)
(* A collection whose elements are inserted, destroyed, moved by the load  *)
(* balancer, and sent broadcasts.                                          *)
(*                                                                         *)
(* All nodes run the same program of collective sections, each at its own  *)
(* pace.  A section is a collective epoch: a node does its part and waits  *)
(* for the end of the epoch, which comes when every node has done its part *)
(* and no message of it is left (EpochTD).  While it waits it handles what *)
(* arrives, the messages of a node that is one section ahead included.     *)
(*                                                                         *)
(* What other modules show is taken as one step here: a routed message     *)
(* arrives where the element is (Location), and the votes of all nodes     *)
(* make the group of those that voted for it (GroupCollective).            *)
(***************************************************************************)
EXTENDS Naturals, Sequences, FiniteSets

CONSTANTS
  Node,
  Index,
  Home,       \* getMappedNode: the home of each index
  Bnode,      \* the node a broadcast starts from, part of the proxy
  Initial,    \* the indices inserted when the collection is made
  Here,       \* those a node may insert with listInsertHere: pairs <<index, node>>
  Senders,    \* the nodes that may broadcast
  Prog,       \* the program: a sequence of sections
  MaxOps,     \* bound on insertions and destructions, for each section
  MaxMoves    \* bound on the elements one run of the load balancer moves

\* beginModification .. finishModification is "modify", "stamp", "group"; the
\* load balancer is "decide", "sum", "inform", "arrive", "regroup", "apply",
\* "regroup"; and "broadcast" is an epoch of the user's with one broadcast.
Section == {"modify", "stamp", "group", "decide", "sum", "inform", "arrive",
            "regroup", "apply", "broadcast"}

ASSUME CollectionAssumption ==
  /\ IsFiniteSet(Node) /\ IsFiniteSet(Index)
  /\ Home \in [Index -> Node]
  /\ Bnode \in Node /\ Initial \subseteq Index /\ Senders \subseteq Node
  /\ Here \subseteq Initial \X Node
  /\ Prog \in Seq(Section)
  /\ MaxOps \in [DOMAIN Prog -> Nat] /\ MaxMoves \in Nat

VARIABLES
  keep_last,   \* vt_lb_keep_last_elm
  away,        \* history: the indices listInsertHere put away from their homes
  held,        \* the entries of each node's holder
  erased,      \* those marked erased_ and not yet dropped
  num_erased,  \* num_erased_not_removed_
  known,       \* the indices the home has a record of
  net,         \* messages on their way
  queue,       \* each node's work queue: removals, and the news that a section ended
  migrating,   \* migrations in each node's work queue
  transfers,   \* transfers_ of each node's strategy
  depart,      \* depart_ of its reassignment
  arrive,      \* arrive_ of its reassignment
  moves,       \* global_migration_count
  votes,       \* the nodes that voted to be in the group being built
  group,       \* the nodes a broadcast goes to (all, if no group is in use)
  pc, done,    \* per node: its section, and whether it has done its part
  over,        \* the last section that ended
  hist         \* history of the current round, for the properties

fixed == <<keep_last, away>>
elmVars == <<held, erased, num_erased, known>>
lists == <<transfers, depart, arrive>>
lbVars == <<lists, moves>>
groupVars == <<votes, group>>
progVars == <<pc, done, over>>
vars == <<fixed, elmVars, net, queue, migrating, lbVars, groupVars, progVars, hist>>

-----------------------------------------------------------------------------
(***************************************************************************)
(* The holder of a node.                                                   *)
(***************************************************************************)
Exists(n, i) == i \in held[n] \ erased[n]
numElements(n) == Cardinality(held[n]) - num_erased[n]

HolderInsert(n, i) ==
  /\ held' = [held EXCEPT ![n] = @ \cup {i}]
  /\ erased' = [erased EXCEPT ![n] = @ \ {i}]
  /\ num_erased' = [num_erased EXCEPT ![n] = IF i \in erased[n] THEN @ - 1 ELSE @]

HolderRemove(n, i) ==
  /\ erased' = [erased EXCEPT ![n] = @ \cup {i}]
  /\ num_erased' = [num_erased EXCEPT ![n] = @ + 1]
  /\ UNCHANGED held

\* What foreach does to the holder when it has visited the elements.
CleanupExists(n) ==
  /\ held' = [held EXCEPT ![n] = @ \ erased[n]]
  /\ erased' = [erased EXCEPT ![n] = {}]
  /\ num_erased' = [num_erased EXCEPT ![n] = @ - Cardinality(erased[n])]

\* The nodes where an element is, and the indices that have one.
At(i) == {n \in Node : Exists(n, i)}
Live == {i \in Index : At(i) # {}}

(***************************************************************************)
(* insertCollectionElement and registerEntity, for an element that is made *)
(* here or has migrated here.  rest are the messages in flight otherwise.  *)
(***************************************************************************)
InsertCollectionElement(n, i, rest) ==
  IF Exists(n, i)
  THEN net' = rest /\ UNCHANGED elmVars
  ELSE /\ HolderInsert(n, i)
       /\ \/ /\ n = Home[i]
             /\ known' = known \cup {i}
             /\ net' = rest
          \/ /\ n # Home[i]
             /\ net' = rest \cup {[type |-> "update", to |-> Home[i], idx |-> i]}
             /\ UNCHANGED known

\* updateLocation on the home.
UpdateLocation(n, m) ==
  /\ m.type = "update"
  /\ known' = known \cup {m.idx}
  /\ net' = net \ {m}
  /\ UNCHANGED <<fixed, held, erased, num_erased, queue, migrating, lbVars, groupVars,
                 progVars, hist>>

-----------------------------------------------------------------------------
(***************************************************************************)
(* Insertion.                                                              *)
(***************************************************************************)
InsertMsg(type, to, i, k, by) == [type |-> type, to |-> to, idx |-> i, node |-> k, by |-> by]

(***************************************************************************)
(* insert, on node n, of an element for index i on node k: sent on to k;   *)
(* there cancelled if the home has it, or first asked for at the home; and *)
(* granted by the home, carried out without another look.                  *)
(***************************************************************************)
InsertOn(n, i, k, by, pinged, rest) ==
  \/ /\ k # n
     /\ net' = rest \cup {InsertMsg("insert", k, i, k, by)}
     /\ UNCHANGED elmVars
  \/ /\ k = n /\ ~pinged /\ Home[i] # n
     /\ net' = rest \cup {InsertMsg("ping", Home[i], i, k, by)}
     /\ UNCHANGED elmVars
  \/ /\ k = n /\ ~pinged /\ Home[i] = n
     /\ Exists(n, i) \/ i \in known
     /\ net' = rest
     /\ UNCHANGED elmVars
  \/ /\ k = n
     /\ pinged \/ (Home[i] = n /\ ~Exists(n, i) /\ i \notin known)
     /\ InsertCollectionElement(n, i, rest)

InsertHandler(n, m) ==
  /\ m.type \in {"insert", "granted"}
  /\ InsertOn(n, m.idx, m.node, m.by, m.type = "granted", net \ {m})
  /\ UNCHANGED <<fixed, queue, migrating, lbVars, groupVars, progVars, hist>>

\* Mutant: the slot is not reserved.
PingHomeNoReserve(n, m) ==
  /\ m.type = "ping"
  /\ IF m.idx \in known
     THEN net' = net \ {m}
     ELSE net' = (net \ {m}) \cup {InsertMsg("granted", m.node, m.idx, m.node, m.by)}
  /\ UNCHANGED <<fixed, elmVars, queue, migrating, lbVars, groupVars, progVars, hist>>

\* The home cancels the insertion of an element that lives somewhere, or
\* reserves the slot and lets it go on.
PingHomeHandler(n, m) ==
  /\ m.type = "ping"
  /\ IF m.idx \in known
     THEN net' = net \ {m} /\ UNCHANGED known
     ELSE /\ known' = known \cup {m.idx}
          /\ net' = (net \ {m}) \cup {InsertMsg("granted", m.node, m.idx, m.node, m.by)}
  /\ UNCHANGED <<fixed, held, erased, num_erased, queue, migrating, lbVars, groupVars,
                 progVars, hist>>

-----------------------------------------------------------------------------
(***************************************************************************)
(* Destruction.  The removal waits in the queue, since the element may be  *)
(* running, and is not counted in the epoch.  The queue is first in, first *)
(* out (the build without priorities, the default).                        *)
(***************************************************************************)
Enqueue(n, w) == queue' = [queue EXCEPT ![n] = Append(@, w)]

\* The first unit of work of node n is one of a type, and is taken.
Dequeue(n, type) ==
  /\ queue[n] # << >> /\ Head(queue[n]).type = type
  /\ queue' = [queue EXCEPT ![n] = Tail(@)]

DestroyOn(n, i, rest) ==
  \/ /\ Exists(n, i)
     /\ Enqueue(n, [type |-> "remove", idx |-> i])
     /\ net' = rest
  \/ /\ ~Exists(n, i)
     /\ net' = rest \cup {[type |-> "destroy", idx |-> i]}
     /\ UNCHANGED queue

\* The routed message has reached the element: the home knew where it was.
DestroyElmHandler(n, m) ==
  /\ m.type = "destroy"
  /\ Exists(n, m.idx) /\ m.idx \in known
  /\ DestroyOn(n, m.idx, net \ {m})
  /\ UNCHANGED <<fixed, elmVars, migrating, lbVars, groupVars, progVars, hist>>

\* The removal runs.  unregisterEntity removes the record of this node only.
RemoveElement(n) ==
  /\ Dequeue(n, "remove")
  /\ LET i == Head(queue[n]).idx
     IN IF Exists(n, i)
        THEN /\ HolderRemove(n, i)
             /\ known' = IF n = Home[i] THEN known \ {i} ELSE known
        ELSE UNCHANGED elmVars
  /\ UNCHANGED <<fixed, net, migrating, lbVars, groupVars, progVars, hist>>

-----------------------------------------------------------------------------
(***************************************************************************)
(* Migration.                                                              *)
(***************************************************************************)
\* migrateOut, from the queue.
MigrateOut(n, t) ==
  /\ t \in migrating[n]
  /\ migrating' = [migrating EXCEPT ![n] = @ \ {t}]
  /\ IF ~Exists(n, t.idx) \/ (keep_last /\ numElements(n) = 1)
     THEN UNCHANGED <<elmVars, net>>
     ELSE /\ HolderRemove(n, t.idx)
          /\ net' = net \cup {[type |-> "migrate", to |-> t.to, idx |-> t.idx]}
          /\ UNCHANGED known
  /\ UNCHANGED <<fixed, queue, lbVars, groupVars, progVars, hist>>

MigrateInHandler(n, m) ==
  /\ m.type = "migrate"
  /\ InsertCollectionElement(n, m.idx, net \ {m})
  /\ UNCHANGED <<fixed, queue, migrating, lbVars, groupVars, progVars, hist>>

-----------------------------------------------------------------------------
(***************************************************************************)
(* The reassignment: nodes tell the hosts of the elements they want moved, *)
(* and the hosts tell the nodes the elements will move to.                 *)
(***************************************************************************)
ListMsg(type, n, to, ts) == [type |-> type, to |-> to, list |-> ts, by |-> n]

\* One message to each node that is field(t) of a transfer in ts.
ListMsgs(type, n, ts, field(_)) ==
  {ListMsg(type, n, d, {t \in ts : field(t) = d}) : d \in {field(t) : t \in ts}}

\* finishedLB destroys the strategy and its reassignment, and a run of the load
\* balancer starts with new ones.
DestroyLB(n) ==
  /\ transfers' = [transfers EXCEPT ![n] = {}]
  /\ depart' = [depart EXCEPT ![n] = {}]
  /\ arrive' = [arrive EXCEPT ![n] = {}]

\* Mutant: a node looks after the transfers of its own elements only.
InformNobody(n) ==
  /\ depart' = [depart EXCEPT ![n] = @ \cup {t \in transfers[n] : t.from = n}]
  /\ UNCHANGED net

InformHosts(n) ==
  LET own == {t \in transfers[n] : t.from = n}
  IN /\ depart' = [depart EXCEPT ![n] = @ \cup own]
     /\ net' = net \cup ListMsgs("departing", n, transfers[n] \ own, LAMBDA t : t.from)

InformNewHosts(n) == net' = net \cup ListMsgs("arriving", n, depart[n], LAMBDA t : t.to)

\* Every departing element is scheduled to migrate.
ApplyReassignment(n) == migrating' = [migrating EXCEPT ![n] = depart[n]]

\* The result of the sum of all transfers, when section s was that.
Finalize(s) ==
  moves' = IF s = "sum" THEN Cardinality(UNION {transfers[n] : n \in Node}) ELSE moves

NotifyCurrentHost(n, m) ==
  /\ m.type = "departing"
  /\ depart' = [depart EXCEPT ![n] = @ \cup m.list]
  /\ net' = net \ {m}
  /\ UNCHANGED <<fixed, elmVars, queue, migrating, transfers, arrive, moves, groupVars,
                 progVars, hist>>

NotifyNewHost(n, m) ==
  /\ m.type = "arriving"
  /\ arrive' = [arrive EXCEPT ![n] = @ \cup m.list]
  /\ net' = net \ {m}
  /\ UNCHANGED <<fixed, elmVars, queue, migrating, transfers, depart, moves, groupVars,
                 progVars, hist>>

-----------------------------------------------------------------------------
(***************************************************************************)
(* The group, and broadcasts to it.                                        *)
(***************************************************************************)
\* The node votes to be in the new group if it has elements.
ConstructGroup(n) == votes' = IF numElements(n) > 0 THEN votes \cup {n} ELSE votes

\* The group that was built, when section s was for that, is in use.
SetGroup(s) ==
  /\ group' = IF s \in {"group", "regroup"} THEN votes ELSE group
  /\ votes' = {}

BroadcastFromRoot(rest) == net' = rest \cup {[type |-> "bcast", to |-> n] : n \in group}

BroadcastRootHandler(n, m) ==
  /\ m.type = "root"
  /\ BroadcastFromRoot(net \ {m})
  /\ UNCHANGED <<fixed, elmVars, queue, migrating, lbVars, groupVars, progVars, hist>>

\* The message is queued for every element here.
CollectionBcastHandler(n, m) ==
  /\ m.type = "bcast"
  /\ hist' = [hist EXCEPT !.heard = [i \in Index |-> @[i] + IF Exists(n, i) THEN 1 ELSE 0]]
  /\ CleanupExists(n)
  /\ net' = net \ {m}
  /\ UNCHANGED <<fixed, known, queue, migrating, lbVars, groupVars, progVars>>

-----------------------------------------------------------------------------
(***************************************************************************)
(* What the user and the strategies do, each in its section.               *)
(***************************************************************************)
Within(n, s) == Prog[pc[n]] = s /\ ~done[n]

Ops == Cardinality(hist.asked) + Cardinality(hist.gone)

Insert(n, i, k) ==
  /\ Within(n, "modify") /\ Ops < MaxOps[pc[n]]
  /\ \A a \in hist.asked : ~(a.by = n /\ a.idx = i)
  /\ InsertOn(n, i, k, n, FALSE, net)
  /\ hist' = [hist EXCEPT !.asked = @ \cup {[by |-> n, idx |-> i]}]
  /\ UNCHANGED <<fixed, queue, migrating, lbVars, groupVars, progVars>>

\* Users destroy elements that exist, and once.
DestroyElm(n, i) ==
  /\ Within(n, "modify") /\ Ops < MaxOps[pc[n]]
  /\ hist.before[i] # {} /\ i \notin hist.gone
  /\ DestroyOn(n, i, net)
  /\ hist' = [hist EXCEPT !.gone = @ \cup {i}]
  /\ UNCHANGED <<fixed, elmVars, migrating, lbVars, groupVars, progVars>>

\* A strategy moves an element, of this node or of another, to a third.
MigrateObjectTo(n, i, to) ==
  /\ Within(n, "decide") /\ Cardinality(hist.plan) < MaxMoves
  /\ \A t \in hist.plan : t.idx # i
  /\ \E from \in At(i) \ {to} :
       LET t == [idx |-> i, from |-> from, to |-> to]
       IN /\ transfers' = [transfers EXCEPT ![n] = @ \cup {t}]
          /\ hist' = [hist EXCEPT !.plan = @ \cup {t}]
  /\ UNCHANGED <<fixed, elmVars, net, queue, migrating, depart, arrive, moves, groupVars,
                 progVars>>

BroadcastMsg(n) ==
  /\ Within(n, "broadcast") /\ n \in Senders /\ ~hist.sent
  /\ IF n = Bnode THEN BroadcastFromRoot(net)
                  ELSE net' = net \cup {[type |-> "root", to |-> Bnode]}
  /\ hist' = [hist EXCEPT !.sent = TRUE]
  /\ UNCHANGED <<fixed, elmVars, queue, migrating, lbVars, groupVars, progVars>>

\* finishedEpoch of a section that is the user's or a strategy's.
FinishedEpoch(n) ==
  /\ ~done[n]
  /\ done' = [done EXCEPT ![n] = TRUE]
  /\ UNCHANGED <<fixed, elmVars, net, queue, migrating, lbVars, groupVars, pc, over, hist>>

-----------------------------------------------------------------------------
(***************************************************************************)
(* The program.                                                            *)
(***************************************************************************)
\* Mutant: the groups are not rebuilt after the migrations.
FollowOnce(p) ==
  IF p < Len(Prog) /\ Prog[p + 1] = "regroup" /\ (moves = 0 \/ Prog[p] = "apply")
  THEN p + 2 ELSE p + 1

\* The section after section p.  The groups are rebuilt around migrations
\* only if there are any.
Follow(p) ==
  IF p < Len(Prog) /\ Prog[p + 1] = "regroup" /\ moves = 0 THEN p + 2 ELSE p + 1

\* What node n does at once when it comes to a section.
Begin(n, s) ==
  /\ done' = [done EXCEPT ![n] = s \notin {"modify", "decide", "broadcast"}]
  /\ \/ /\ s \in {"modify", "broadcast", "decide"} /\ DestroyLB(n)
        /\ UNCHANGED <<held, erased, num_erased, net, migrating, votes>>
     \/ /\ s = "sum"
        /\ UNCHANGED <<held, erased, num_erased, net, migrating, lists, votes>>
     \/ /\ s = "stamp" /\ CleanupExists(n)
        /\ UNCHANGED <<net, migrating, lists, votes>>
     \/ /\ s \in {"group", "regroup"} /\ ConstructGroup(n)
        /\ UNCHANGED <<held, erased, num_erased, net, migrating, lists>>
     \/ /\ s = "inform" /\ InformHosts(n)
        /\ UNCHANGED <<held, erased, num_erased, migrating, transfers, arrive, votes>>
     \/ /\ s = "arrive" /\ InformNewHosts(n)
        /\ UNCHANGED <<held, erased, num_erased, migrating, lists, votes>>
     \/ /\ s = "apply" /\ ApplyReassignment(n)
        /\ UNCHANGED <<held, erased, num_erased, net, lists, votes>>

NewHist == [before |-> [i \in Index |-> At(i)], known |-> known, asked |-> {}, gone |-> {},
            plan |-> {}, sent |-> FALSE, heard |-> [i \in Index |-> 0]]

\* The news that the section of node n has ended arrives and is queued.
EpochTerminated(n) ==
  /\ pc[n] <= over /\ Follow(pc[n]) <= Len(Prog)
  /\ \A j \in DOMAIN queue[n] : queue[n][j].type # "ended"
  /\ Enqueue(n, [type |-> "ended"])
  /\ UNCHANGED <<fixed, elmVars, net, migrating, lbVars, groupVars, progVars, hist>>

\* The handler of that news runs, and runSchedulerThrough, which tests for it
\* after every unit of work, returns: the node goes on.
Proceed(n) ==
  LET p == Follow(pc[n])
  IN /\ Dequeue(n, "ended")
     /\ pc' = [pc EXCEPT ![n] = p]
     /\ Begin(n, Prog[p])
     /\ hist' = IF Prog[p] \in {"modify", "decide", "broadcast"} /\ \A m \in Node : pc[m] < p
                THEN NewHist ELSE hist
     /\ UNCHANGED <<fixed, known, moves, group, over>>

\* The epoch of a section is found to have ended: every node has done its
\* part and no message or migration is left.
SectionEnds ==
  LET p == Follow(over)
  IN /\ p <= Len(Prog)
     /\ \A n \in Node : pc[n] = p /\ done[n] /\ migrating[n] = {}
     /\ net = {}
     /\ over' = p
     /\ Finalize(Prog[p])
     /\ SetGroup(Prog[p])
     /\ UNCHANGED <<fixed, elmVars, net, queue, migrating, lists, pc, done, hist>>

\* The program has ended.
Finished ==
  /\ over = Len(Prog)
  /\ UNCHANGED vars

\* The home of the index has no record of the element a message is for, which
\* stays there: the section never ends.
Unrouted ==
  /\ \E m \in net : m.type = "destroy" /\ m.idx \notin known
  /\ UNCHANGED vars

(***************************************************************************)
(* makeCollectionImpl has made the elements: on the nodes they are mapped  *)
(* to, or "here", on the node that lists them, which registers them as if  *)
(* it were their home.  A collection of dynamic membership has no group    *)
(* yet and broadcasts to all nodes.                                        *)
(***************************************************************************)
Init ==
  /\ keep_last \in BOOLEAN
  /\ \E node \in [Initial -> Node] :
       /\ \A i \in Initial : node[i] = Home[i] \/ <<i, node[i]>> \in Here
       /\ held = [n \in Node |-> {i \in Initial : node[i] = n}]
       /\ known = {i \in Initial : node[i] = Home[i]}
       /\ away = Initial \ known
  /\ erased = [n \in Node |-> {}]
  /\ num_erased = [n \in Node |-> 0]
  /\ net = {}
  /\ queue = [n \in Node |-> << >>]
  /\ migrating = [n \in Node |-> {}]
  /\ transfers = [n \in Node |-> {}]
  /\ depart = [n \in Node |-> {}]
  /\ arrive = [n \in Node |-> {}]
  /\ moves = 0
  /\ votes = {}
  /\ group = Node
  /\ pc = [n \in Node |-> 1]
  /\ done = [n \in Node |-> FALSE]
  /\ over = 0
  /\ hist = NewHist

Handle(n, m) ==
  \/ UpdateLocation(n, m)
  \/ InsertHandler(n, m)
  \/ PingHomeHandler(n, m)
  \/ DestroyElmHandler(n, m)
  \/ MigrateInHandler(n, m)
  \/ NotifyCurrentHost(n, m)
  \/ NotifyNewHost(n, m)
  \/ BroadcastRootHandler(n, m)
  \/ CollectionBcastHandler(n, m)

\* A destroy message is routed to its element, any other is sent to a node.
Destination(m) == IF m.type = "destroy" THEN Node ELSE {m.to}

Next ==
  \/ \E n, k \in Node, i \in Index : Insert(n, i, k)
  \/ \E n \in Node, i \in Index : DestroyElm(n, i)
  \/ \E n, to \in Node, i \in Index : MigrateObjectTo(n, i, to)
  \/ \E n \in Node : BroadcastMsg(n) \/ FinishedEpoch(n)
  \/ \E n \in Node : RemoveElement(n) \/ EpochTerminated(n) \/ Proceed(n)
  \/ \E n \in Node : \E t \in migrating[n] : MigrateOut(n, t)
  \/ \E m \in net : \E n \in Destination(m) : Handle(n, m)
  \/ SectionEnds
  \/ Finished
  \/ Unrouted

Spec == Init /\ [][Next]_vars

-----------------------------------------------------------------------------
(***************************************************************************)
(* Properties                                                              *)
(***************************************************************************)
\* The element of an index on its way to a node: migrating, or granted.
OnItsWay(i) == {m \in net : m.type \in {"migrate", "granted"} /\ m.idx = i}

\* However insertions on several nodes, destructions and migrations of one
\* index meet, there is one element at most, live or on its way, and its home
\* has a record of it ("reserve the slot to stop any race with other
\* insertions", pingHomeHandler; registerEntity asserts the entity is new).
\* Not so for an index listInsertHere put away from its home: the home was
\* not told, and an insertion makes a second element.
OneElement ==
  \A i \in Index \ away :
    /\ \A n, k \in At(i) : n = k
    /\ \A m, o \in OnItsWay(i) : m = o
    /\ At(i) = {} \/ OnItsWay(i) = {}
    /\ At(i) \cup OnItsWay(i) # {} => i \in known

\* Section s has just ended, and nobody has gone on.
Ended(s) == over > 0 /\ Prog[over] = s /\ \A n \in Node : pc[n] = over

\* After finishModification's epoch and reduction: what was not destroyed is
\* still there, what was inserted is there, and nothing else is.  Cancelled is
\* the insertion of an index the home has a record of; this may be the record
\* of an element that was destroyed earlier on another node.
ModificationEnacted ==
  LET old == {i \in Index : hist.before[i] # {}}
      asked == {o.idx : o \in hist.asked}
  IN \A i \in Index \ away :
       /\ i \in (old \cup (asked \ hist.known)) \ hist.gone => i \in Live
       /\ i \in Live => i \in (old \ hist.gone) \cup asked
       /\ i \in old \ hist.gone => At(i) = hist.before[i]

\* After the load balancer: hosts and new hosts have learnt of all transfers,
\* elements are where they were to be moved, and the others where they were;
\* or they were not moved since no node was to lose its last element.
ReassignmentEnacted ==
  LET stays(n) == {i \in Index : n \in hist.before[i]}
  IN /\ \A n \in Node : /\ depart[n] = {t \in hist.plan : t.from = n}
                        /\ arrive[n] = {t \in hist.plan : t.to = n}
     /\ \A t \in hist.plan : At(t.idx) = {t.to} \/ (keep_last /\ At(t.idx) = {t.from})
     /\ \A i \in Index : (\A t \in hist.plan : t.idx # i) => At(i) = hist.before[i]
     /\ keep_last => \A n \in Node : stays(n) # {} => \E i \in Index : Exists(n, i)

\* When finishModification or the load balancer is done with the elements,
\* the changes asked for have taken place on all nodes, and no others, but for
\* the insertions that are cancelled, and for modifications of an index that
\* listInsertHere put away from its home (see OneElement).
ChangesInPlace ==
  /\ Ended("stamp") => ModificationEnacted
  /\ Ended("apply") => ReassignmentEnacted

\* A broadcast reaches each element once, wherever modifications and the load
\* balancer have put it: the group holds every node that has elements.
BroadcastOnce ==
  Ended("broadcast") =>
    \A i \in Index : hist.heard[i] = IF hist.sent THEN Cardinality(At(i)) ELSE 0
=============================================================================
