------------------------------ MODULE Location ------------------------------
(***************************************************************************)
(* EntityLocationCoord: routing messages to one entity that migrates.      *)
(* Every node keeps a record of where it believes the entity to be; the    *)
(* home node keeps its record for ever, the others in a cache that may     *)
(* evict it.  A message follows the records.  The node that delivers it    *)
(* tells the node it came from, which tells the nodes that asked it in     *)
(* turn.  A node without a record sends a small message to the home (the   *)
(* eager protocol) and asks the home before it sends a large one.          *)
(*                                                                         *)
(* The entity moves, and a full cache evicts its record, at any time.      *)
(* Whether it has moved while location messages were in flight, or a       *)
(* record was evicted before the home knew of the last move, is            *)
(* remembered, since then the records may lead nowhere.                    *)
(*                                                                         *)
(* An assertion that fails aborts all nodes, in a build that has them      *)
(* (all but vt_production_build), and goes unnoticed in the others.        *)
(***************************************************************************)
EXTENDS Naturals, FiniteSets

CONSTANTS Node, Home, Msg, None,
          Create,        \* the nodes the entity may be created on
          MaxMoves,      \* bound on migrations
          MaxEvictions   \* bound on evictions from the caches

ASSUME LocationAssumption ==
  /\ Home \in Node /\ None \notin Node /\ Create \subseteq Node
  /\ IsFiniteSet(Msg)
  /\ MaxMoves \in Nat /\ MaxEvictions \in Nat

VARIABLES
  reg,      \* local_registered_: the nodes where the entity is registered
  transit,  \* destination of the migration message, None when there is none
  recs,     \* recs_: per node, where its record says the entity is, or None
  msg,      \* per message: its place, its protocol and its ask node
  asks,     \* loc_asks_: per node, whom to tell when the location is known
  lookups,  \* pending_lookups_ at the home: how many requests of each node wait
  net,      \* how many of each location message are in flight
  moves, evictions,
  hasty,    \* history: a move or an eviction came too early (see above)
  aborted   \* an assertion has failed

rest == <<moves, evictions, hasty, aborted>>
vars == <<reg, transit, recs, msg, asks, lookups, net, rest>>

-----------------------------------------------------------------------------
\* updateLocation, getLocationRequest and handleEagerUpdate, in flight to "to".
UpdateLocation(to, n) == [kind |-> "update", to |-> to, node |-> n]
GetLocationRequest(n) == [kind |-> "request", to |-> Home, node |-> n]
EagerUpdate(to, n) == [kind |-> "eager", to |-> to, node |-> n]

LocMsg ==
  [kind : {"update", "eager"}, to : Node, node : Node]
    \cup [kind : {"request"}, to : {Home}, node : Node]

\* A message is unsent; in flight to a node; buffered there by routeMsgNode
\* ("buffered"), or there waiting for an answer of getLocation ("asking");
\* or delivered there.
Place == {"unsent", "flying", "buffered", "asking", "delivered"}

Moved(m, p, n, ask) == [msg[m] EXCEPT !.place = p, !.node = n, !.ask = ask]

-----------------------------------------------------------------------------
\* The network c with one message more for each of S, and with u taken out.
Send(c, S) == [u \in LocMsg |-> c[u] + IF u \in S THEN 1 ELSE 0]
Take(u) == [net EXCEPT ![u] = @ - 1]

InFlight == {u \in LocMsg : net[u] > 0}

\* sendEagerUpdate at n to the ask nodes of the messages S: never to n itself.
SendEagerUpdate(n, S, c) ==
  [u \in LocMsg |->
     c[u] + Cardinality({m \in S : msg[m].ask \notin {n, None}
                                   /\ u = EagerUpdate(msg[m].ask, n)})]

\* routeMsgNode at n for the messages S: when "to" is another node they are sent
\* there, with this node as the ask node, and their old ask nodes are remembered;
\* otherwise those of Here are applied, telling their ask nodes, and the others
\* are buffered.  "sent" is the network with what the caller itself sends.
RouteMsgNode(n, S, to, Here, sent) ==
  /\ msg' = [m \in Msg |->
               CASE m \notin S -> msg[m]
                 [] m \in S /\ to # n -> Moved(m, "flying", to, n)
                 [] m \in S /\ to = n /\ m \in Here -> Moved(m, "delivered", n, None)
                 [] m \in S /\ to = n /\ m \notin Here -> Moved(m, "buffered", n, msg[m].ask)]
  /\ asks' = [asks EXCEPT ![n] =
                IF to # n THEN @ \cup ({msg[m].ask : m \in S} \ {None}) ELSE @]
  /\ net' = IF to # n THEN sent ELSE SendEagerUpdate(n, S \cap Here, sent)

\* The pending_lookups_ of n are taken out and run with the node they resolved
\* to.  A buffered message that resolves to this node is applied without another
\* look at local_registered_; one that waited for getLocation goes through
\* routeMsgNode; the requests of other nodes are answered.
Pending(n) == {m \in Msg : msg[m].place \in {"buffered", "asking"} /\ msg[m].node = n}

RunPending(n, resolved, sent) ==
  /\ RouteMsgNode(n, Pending(n), resolved,
                  {m \in Pending(n) : msg[m].place = "buffered" \/ n \in reg'},
                  [u \in LocMsg |->
                     sent[u] + IF n = Home /\ u = UpdateLocation(u.to, resolved)
                               THEN lookups[u.to] ELSE 0])
  /\ lookups' = IF n = Home THEN [a \in Node |-> 0] ELSE lookups

-----------------------------------------------------------------------------
\* Mutant: the home is not told.
RegisterEntityUntold(n) ==
  /\ transit = n
  /\ transit' = None
  /\ reg' = reg \cup {n}
  /\ recs' = [recs EXCEPT ![n] = n]
  /\ RunPending(n, n, net)
  /\ UNCHANGED rest

\* registerEntity, of a new entity or of one that migrated in: the record is
\* local, what waited for the entity is applied, and the home is told.
RegisterEntity(n) ==
  /\ transit = n
  /\ transit' = None
  /\ reg' = reg \cup {n}
  /\ recs' = [recs EXCEPT ![n] = n]
  /\ RunPending(n, n, Send(net, IF n = Home THEN {} ELSE {UpdateLocation(Home, n)}))
  /\ UNCHANGED rest

\* migrateOut and entityEmigrated: the entity leaves for k, a breadcrumb stays.
EntityEmigrated(n, k) ==
  /\ n \in reg /\ k # n /\ moves < MaxMoves
  /\ reg' = reg \ {n}
  /\ transit' = k
  /\ recs' = [recs EXCEPT ![n] = k]
  /\ moves' = moves + 1
  /\ hasty' = (hasty \/ InFlight # {})
  /\ UNCHANGED <<msg, asks, lookups, net, evictions, aborted>>

\* The cache of a node other than the home drops the record to make room for that
\* of another entity.
Evict(n) ==
  /\ n # Home /\ recs[n] # None /\ evictions < MaxEvictions
  /\ recs' = [recs EXCEPT ![n] = None]
  /\ evictions' = evictions + 1
  /\ hasty' = (hasty \/ recs[Home] \notin reg)
  /\ UNCHANGED <<reg, transit, msg, asks, lookups, net, moves, aborted>>

\* getLocation and routeMsgEager find the entity registered at n and refresh the
\* record.
Refreshed(n) == IF n \in reg THEN [recs EXCEPT ![n] = n] ELSE recs

\* Mutant: a message that has come home is applied there.
RouteMsgEagerAtHome(n, m) ==
  /\ recs' = Refreshed(n)
  /\ RouteMsgNode(n, {m}, IF n \in reg THEN n ELSE IF recs[n] = None THEN Home ELSE recs[n],
                  IF n \in reg \/ n = Home THEN {m} ELSE {}, net)

\* routePreparedMsg with the eager protocol (routeMsgEager): the home stands in
\* for a record that is missing.
RouteMsgEager(n, m) ==
  /\ recs' = Refreshed(n)
  /\ RouteMsgNode(n, {m}, IF n \in reg THEN n ELSE IF recs[n] = None THEN Home ELSE recs[n],
                  IF n \in reg THEN {m} ELSE {}, net)

\* routePreparedMsg with the rendezvous protocol (getLocation): without a record
\* the message waits, and the home is asked by every node but the home itself.
RouteMsgLarge(n, m) ==
  /\ recs' = Refreshed(n)
  /\ \/ /\ n \in reg \/ recs[n] # None
        /\ RouteMsgNode(n, {m}, IF n \in reg THEN n ELSE recs[n],
                        IF n \in reg THEN {m} ELSE {}, net)
     \/ /\ n \notin reg /\ recs[n] = None
        /\ msg' = [msg EXCEPT ![m] = Moved(m, "asking", n, msg[m].ask)]
        /\ net' = Send(net, IF n = Home THEN {} ELSE {GetLocationRequest(n)})
        /\ UNCHANGED asks

RoutePreparedMsg(n, m) ==
  /\ IF msg[m].eager THEN RouteMsgEager(n, m) ELSE RouteMsgLarge(n, m)
  /\ UNCHANGED <<reg, transit, lookups, rest>>

\* A user sends m from n, small or large: routePreparedMsgHandler runs the handler
\* at once when the entity is registered here.
SendHere(n, m) ==
  /\ msg[m].place = "unsent" /\ n \in reg
  /\ msg' = [msg EXCEPT ![m] = Moved(m, "delivered", n, None)]
  /\ UNCHANGED <<reg, transit, recs, asks, lookups, net, rest>>

SendAway(n, m) ==
  /\ msg[m].place = "unsent" /\ n \notin reg
  /\ RoutePreparedMsg(n, m)

\* routedHandler: the next hop routes the message again with what it knows.
RoutedHandler(m) ==
  /\ msg[m].place = "flying"
  /\ RoutePreparedMsg(msg[m].node, m)

\* Mutant: what waits for the location is left waiting.
HandleUpdateLocationRecord(u) ==
  /\ net[u] > 0 /\ u.kind = "update"
  /\ recs' = [recs EXCEPT ![u.to] = u.node]
  /\ net' = Take(u)
  /\ UNCHANGED <<reg, transit, msg, asks, lookups, rest>>

\* updateLocation: an answer of the home, or the news of a registration at the home.
HandleUpdateLocation(u) ==
  /\ net[u] > 0 /\ u.kind = "update"
  /\ UNCHANGED <<reg, transit, rest>>
  /\ recs' = [recs EXCEPT ![u.to] = u.node]
  /\ RunPending(u.to, u.node, Take(u))

\* getLocationRequest at the home: answer from what is known, or keep the request.
HandleGetLocationRequest(u) ==
  /\ net[u] > 0 /\ u.kind = "request"
  /\ recs' = Refreshed(Home)
  /\ LET found == IF Home \in reg THEN Home ELSE recs[Home]
     IN IF found = None
        THEN lookups' = [lookups EXCEPT ![u.node] = @ + 1] /\ net' = Take(u)
        ELSE net' = Send(Take(u), {UpdateLocation(u.node, found)}) /\ UNCHANGED lookups
  /\ UNCHANGED <<reg, transit, msg, asks, rest>>

\* handleEagerUpdate: take the location over and pass it to those who asked here.
\* It asserts that the message was not delivered on this node.
HandleEagerUpdate(u) ==
  /\ net[u] > 0 /\ u.kind = "eager"
  /\ recs' = [recs EXCEPT ![u.to] = u.node]
  /\ net' = Send(Take(u), {EagerUpdate(a, u.node) : a \in asks[u.to] \ {u.to}})
  /\ asks' = [asks EXCEPT ![u.to] = {}]
  /\ aborted' \in (IF u.to = u.node THEN BOOLEAN ELSE {FALSE})
  /\ UNCHANGED <<reg, transit, msg, lookups, moves, evictions, hasty>>

Handle(u) == HandleUpdateLocation(u) \/ HandleGetLocationRequest(u) \/ HandleEagerUpdate(u)

Init ==
  /\ reg = {} /\ transit \in Create
  /\ recs = [n \in Node |-> None]
  /\ msg \in [Msg -> [place : {"unsent"}, node : {None}, ask : {None}, eager : BOOLEAN]]
  /\ asks = [n \in Node |-> {}]
  /\ lookups = [n \in Node |-> 0] /\ net = [u \in LocMsg |-> 0]
  /\ moves = 0 /\ evictions = 0
  /\ hasty = FALSE /\ aborted = FALSE

Step ==
  \/ \E n \in Node : RegisterEntity(n) \/ Evict(n)
  \/ \E n, k \in Node : EntityEmigrated(n, k)
  \/ \E n \in Node, m \in Msg : SendHere(n, m) \/ SendAway(n, m)
  \/ \E m \in Msg : RoutedHandler(m)
  \/ \E u \in InFlight : Handle(u)

Next == ~ aborted /\ Step

\* MPI delivers every message and the scheduler runs every handler; users send and
\* move, and caches evict, as they like.
Fairness ==
  /\ WF_vars(~ aborted /\ \E n \in Node : RegisterEntity(n))
  /\ WF_vars(~ aborted /\ \E m \in Msg : RoutedHandler(m))
  /\ WF_vars(~ aborted /\ \E u \in InFlight : Handle(u))

Spec == Init /\ [][Next]_vars /\ Fairness

-----------------------------------------------------------------------------
TypeOK ==
  /\ reg \subseteq Node /\ Cardinality(reg) <= 1
  /\ transit \in Node \cup {None} /\ (transit = None <=> reg # {})
  /\ recs \in [Node -> Node \cup {None}]
  /\ msg \in [Msg -> [place : Place, node : Node \cup {None},
                      ask : Node \cup {None}, eager : BOOLEAN]]
  /\ asks \in [Node -> SUBSET Node]
  /\ lookups \in [Node -> Nat] /\ net \in [LocMsg -> Nat]

\* In this step the handler of m runs.
Applied(m) == msg[m].place # "delivered" /\ msg'[m].place = "delivered"

\* A handler of the entity runs only on the node where the entity is, if all the
\* messages are small (routeMsgEager).  trigger_msg_handler_action checks nothing
\* when a buffered message resolves to its own node; with small messages nobody
\* asks the home, and no answer names a node the entity is still on its way to.
EagerAppliedAtEntity ==
  [][(\A m \in Msg : msg[m].eager)
       => \A m \in Msg : Applied(m) => msg'[m].node \in reg']_vars

\* Once the location traffic is over the records lead every message to the
\* entity: record after record, with the home standing in for a missing one, no
\* set of nodes keeps a message for ever unless the entity is among them.  So it
\* is however messages, moves and evictions are interleaved, if no move came amid
\* location traffic and no eviction before the home knew of the last move.
NextHop(n) == IF recs[n] = None THEN Home ELSE recs[n]

RecordsLead ==
  ~ hasty /\ InFlight = {} /\ reg # {} =>
    \A S \in (SUBSET Node) \ {{}} : (\A n \in S : NextHop(n) \in S) => S \cap reg # {}

\* "the message will chase it until it catches up": every message that is sent is
\* delivered once the entity stops moving, on the same condition.
Chased ==
  \A m \in Msg : msg[m].place = "flying" ~> msg[m].place = "delivered" \/ hasty \/ aborted
=============================================================================
