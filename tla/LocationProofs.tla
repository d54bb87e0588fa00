--------------------------- MODULE LocationProofs ---------------------------
(***************************************************************************)
(* For any nodes, messages, moves and evictions: there is one entity,      *)
(* registered or on its way; and small messages are applied only where it  *)
(* is, although a message that was buffered is applied without another     *)
(* look at local_registered_.                                              *)
(*                                                                         *)
(* The argument for the second: with small messages only, nobody asks the  *)
(* home, so the only updateLocation messages are news of registrations on  *)
(* other nodes, and on the home they send what is buffered away.           *)
(*                                                                         *)
(* If no move comes amid location traffic and no eviction before the home  *)
(* knows of the last move, besides: when the location traffic is over, the *)
(* records lead every message to the entity.  While there is traffic they  *)
(* lead to it or to the home before the home knows, and what is in flight  *)
(* names the entity's node or the one it left last (TrailInv).             *)
(***************************************************************************)
EXTENDS Location, FiniteSetTheorems, TLAPS

AllEager == \A m \in Msg : msg[m].eager

\* What is never there when all messages are small.
EagerOnly ==
  AllEager =>
    /\ \A m \in Msg : msg[m].place # "asking"
    /\ \A a \in Node : lookups[a] = 0
    /\ \A u \in LocMsg : net[u] > 0 =>
         u.kind = "eager" \/ (u.kind = "update" /\ u.to = Home /\ u.node # Home)

Single == \A x, y \in reg : x = y

\* A message in flight is on its way to some node.
MsgRec ==
  {r \in [place : Place, node : Node \cup {None}, ask : Node \cup {None}, eager : BOOLEAN] :
     r.place = "flying" => r.node \in Node}

LocInv == TypeOK /\ msg \in [Msg -> MsgRec] /\ Single /\ EagerOnly

-----------------------------------------------------------------------------
\* At most one element, so a cardinality of at most one.
LEMMA SingleCardinality ==
  ASSUME NEW S, \A x, y \in S : x = y
  PROVE  Cardinality(S) <= 1
<1>1. CASE S = {}
  BY <1>1, FS_EmptySet
<1>2. ASSUME NEW x \in S PROVE Cardinality(S) <= 1
  <2>1. S = {x}
    BY Zenon
  <2> QED BY <2>1, FS_Singleton
<1> QED BY Zenon, <1>1, <1>2

\* The three location messages belong to LocMsg.
LEMMA LocMsgs ==
  ASSUME NEW a \in Node, NEW n \in Node
  PROVE  /\ UpdateLocation(a, n) \in LocMsg
         /\ GetLocationRequest(n) \in LocMsg
         /\ EagerUpdate(a, n) \in LocMsg
BY Zenon, LocationAssumption DEF UpdateLocation, GetLocationRequest, EagerUpdate, LocMsg

\* What is known of a location message.
LEMMA LocMsgFields ==
  ASSUME NEW u \in LocMsg
  PROVE  u.to \in Node /\ u.node \in Node /\ u.kind \in {"update", "eager", "request"}
BY Zenon, LocationAssumption DEF LocMsg

LEMMA SendType ==
  ASSUME NEW c \in [LocMsg -> Nat], NEW S
  PROVE  /\ Send(c, S) \in [LocMsg -> Nat]
         /\ \A u \in LocMsg : Send(c, S)[u] > 0 => c[u] > 0 \/ u \in S
BY DEF Send

LEMMA TakeType ==
  ASSUME TypeOK, NEW v \in LocMsg, net[v] > 0
  PROVE  /\ Take(v) \in [LocMsg -> Nat]
         /\ \A u \in LocMsg : Take(v)[u] > 0 => net[u] > 0
BY DEF Take, TypeOK

\* sendEagerUpdate adds only eager updates.
LEMMA SendEagerUpdateType ==
  ASSUME NEW c \in [LocMsg -> Nat], NEW n, NEW S \in SUBSET Msg
  PROVE  /\ SendEagerUpdate(n, S, c) \in [LocMsg -> Nat]
         /\ \A u \in LocMsg : SendEagerUpdate(n, S, c)[u] > 0 => c[u] > 0 \/ u.kind = "eager"
<1> DEFINE T(u) == {m \in S : msg[m].ask \notin {n, None} /\ u = EagerUpdate(msg[m].ask, n)}
<1>1. ASSUME NEW u \in LocMsg
      PROVE  Cardinality(T(u)) \in Nat /\ (T(u) = {} => Cardinality(T(u)) = 0)
  <2>1. T(u) \in SUBSET Msg
    BY Zenon
  <2>2. IsFiniteSet(T(u))
    BY Zenon, <2>1, FS_Subset, LocationAssumption
  <2> QED BY Zenon, <2>2, FS_CardinalityType, FS_EmptySet
<1>2. ASSUME NEW u \in LocMsg, u.kind # "eager" PROVE T(u) = {}
  BY <1>2 DEF EagerUpdate
<1>3. SendEagerUpdate(n, S, c) = [u \in LocMsg |-> c[u] + Cardinality(T(u))]
  BY Zenon DEF SendEagerUpdate
<1> HIDE DEF T
<1> QED BY <1>1, <1>2, <1>3

-----------------------------------------------------------------------------
\* routeMsgNode: everything keeps its type, nothing starts to wait for an
\* answer, only eager updates are added, and a message is applied on n, if it
\* is one of Here and resolved to n.
LEMMA RouteMsgNodeStep ==
  ASSUME LocInv, NEW n \in Node, NEW S \in SUBSET Msg, NEW to \in Node, NEW Here,
         NEW sent \in [LocMsg -> Nat], RouteMsgNode(n, S, to, Here, sent)
  PROVE  /\ msg' \in [Msg -> MsgRec]
         /\ asks' \in [Node -> SUBSET Node]
         /\ net' \in [LocMsg -> Nat]
         /\ \A m \in Msg : msg'[m].eager = msg[m].eager
         /\ \A m \in Msg : msg'[m].place = "asking" => msg[m].place = "asking"
         /\ \A m \in Msg : Applied(m) => to = n /\ m \in Here /\ msg'[m].node = n
         /\ \A u \in LocMsg : net'[u] > 0 => sent[u] > 0 \/ u.kind = "eager"
<1>1. msg \in [Msg -> MsgRec] /\ TypeOK
  BY Zenon DEF LocInv
<1> DEFINE New(m) ==
      CASE m \notin S -> msg[m]
        [] m \in S /\ to # n -> Moved(m, "flying", to, n)
        [] m \in S /\ to = n /\ m \in Here -> Moved(m, "delivered", n, None)
        [] m \in S /\ to = n /\ m \notin Here -> Moved(m, "buffered", n, msg[m].ask)
<1>2. msg' = [m \in Msg |-> New(m)]
  BY Zenon DEF RouteMsgNode
<1>3. ASSUME NEW m \in Msg
      PROVE  /\ New(m) \in MsgRec /\ New(m).eager = msg[m].eager
             /\ New(m).place = "asking" => msg[m].place = "asking"
             /\ New(m).place = "delivered" /\ msg[m].place # "delivered"
                  => to = n /\ m \in Here /\ New(m).node = n
  <2>1. msg[m] \in MsgRec
    BY Zenon, <1>1
  <2>2. CASE m \notin S
    BY Zenon, <2>1, <2>2
  <2>3. CASE m \in S /\ to # n
    <3>1. New(m) = [msg[m] EXCEPT !.place = "flying", !.node = to, !.ask = n]
      BY Zenon, <2>3 DEF Moved
    <3> QED BY Zenon, <2>1, <3>1 DEF MsgRec, Place
  <2>4. CASE m \in S /\ to = n /\ m \in Here
    <3>1. New(m) = [msg[m] EXCEPT !.place = "delivered", !.node = n, !.ask = None]
      BY Zenon, <2>4 DEF Moved
    <3> QED BY Zenon, <2>1, <2>4, <3>1 DEF MsgRec, Place
  <2>5. CASE m \in S /\ to = n /\ m \notin Here
    <3>1. New(m) = [msg[m] EXCEPT !.place = "buffered", !.node = n, !.ask = msg[m].ask]
      BY Zenon, <2>5 DEF Moved
    <3> QED BY Zenon, <2>1, <3>1 DEF MsgRec, Place
  <2> QED BY Zenon, <2>2, <2>3, <2>4, <2>5
<1> HIDE DEF New
<1>4. asks' \in [Node -> SUBSET Node]
  <2>1. {msg[m].ask : m \in S} \ {None} \in SUBSET Node
    BY Zenon, <1>1 DEF MsgRec
  <2> QED BY Zenon, <1>1, <2>1 DEF RouteMsgNode, TypeOK
<1>5. /\ net' \in [LocMsg -> Nat]
      /\ \A u \in LocMsg : net'[u] > 0 => sent[u] > 0 \/ u.kind = "eager"
  <2>1. net' = IF to # n THEN sent ELSE SendEagerUpdate(n, S \cap Here, sent)
    BY Zenon DEF RouteMsgNode
  <2> QED BY Zenon, <1>1, <2>1, SendEagerUpdateType
<1> QED BY Zenon, <1>2, <1>3, <1>4, <1>5 DEF Applied

\* What waits at n is run with the node it resolved to.  With small messages
\* only, and no update of the home that names the home, nothing is applied but
\* where the entity is.
LEMMA RunPendingStep ==
  ASSUME LocInv, NEW n \in Node, NEW resolved \in Node,
         NEW sent \in [LocMsg -> Nat], RunPending(n, resolved, sent)
  PROVE  /\ msg' \in [Msg -> MsgRec]
         /\ asks' \in [Node -> SUBSET Node]
         /\ net' \in [LocMsg -> Nat]
         /\ lookups' \in [Node -> Nat]
         /\ \A m \in Msg : msg'[m].eager = msg[m].eager
         /\ \A m \in Msg : msg'[m].place = "asking" => msg[m].place = "asking"
         /\ \A m \in Msg : Applied(m) => resolved = n /\ msg'[m].node = n
         /\ AllEager => /\ \A u \in LocMsg : net'[u] > 0 => sent[u] > 0 \/ u.kind = "eager"
                        /\ \A a \in Node : lookups'[a] = 0
<1> DEFINE more == [u \in LocMsg |->
                      sent[u] + IF n = Home /\ u = UpdateLocation(u.to, resolved)
                                THEN lookups[u.to] ELSE 0]
           Here == {m \in Pending(n) : msg[m].place = "buffered" \/ n \in reg'}
<1>1. lookups \in [Node -> Nat] /\ lookups' = IF n = Home THEN [a \in Node |-> 0] ELSE lookups
  BY Zenon DEF RunPending, LocInv, TypeOK
<1>2. RouteMsgNode(n, Pending(n), resolved, Here, more)
  BY Zenon DEF RunPending
<1>3. more \in [LocMsg -> Nat]
  BY <1>1, LocMsgFields
<1>4. Pending(n) \in SUBSET Msg /\ TypeOK
  BY Zenon DEF Pending, LocInv
<1>5. AllEager => \A a \in Node : lookups[a] = 0
  BY Zenon DEF LocInv, EagerOnly
<1>6. AllEager => \A u \in LocMsg : more[u] = sent[u]
  BY <1>5, LocMsgFields
<1> HIDE DEF more, Here
<1>7. /\ msg' \in [Msg -> MsgRec]
      /\ asks' \in [Node -> SUBSET Node]
      /\ net' \in [LocMsg -> Nat]
      /\ \A m \in Msg : msg'[m].eager = msg[m].eager
      /\ \A m \in Msg : msg'[m].place = "asking" => msg[m].place = "asking"
      /\ \A m \in Msg : Applied(m) => resolved = n /\ m \in Here /\ msg'[m].node = n
      /\ \A u \in LocMsg : net'[u] > 0 => more[u] > 0 \/ u.kind = "eager"
  BY Zenon, <1>2, <1>3, <1>4, RouteMsgNodeStep
<1>8. lookups' \in [Node -> Nat] /\ (AllEager => \A a \in Node : lookups'[a] = 0)
  BY Zenon, <1>1, <1>5
<1> QED BY Zenon, <1>6, <1>7, <1>8

-----------------------------------------------------------------------------
\* What a step must not do: apply a message away from the entity, when all of
\* them are small.
AppliedHere == AllEager => \A m \in Msg : Applied(m) => msg'[m].node \in reg'

\* The parts of the invariant put together again.
LEMMA Together ==
  ASSUME LocInv,
         reg' \subseteq Node, Single', transit' \in Node \cup {None},
         transit' = None <=> reg' # {},
         recs' \in [Node -> Node \cup {None}],
         msg' \in [Msg -> MsgRec], asks' \in [Node -> SUBSET Node],
         lookups' \in [Node -> Nat], net' \in [LocMsg -> Nat],
         \A m \in Msg : msg'[m].eager = msg[m].eager,
         AllEager => /\ \A m \in Msg : msg'[m].place # "asking"
                     /\ \A a \in Node : lookups'[a] = 0
                     /\ \A u \in LocMsg : net'[u] > 0 =>
                          u.kind = "eager" \/ (u.kind = "update" /\ u.to = Home /\ u.node # Home)
  PROVE  LocInv'
<1>1. Cardinality(reg') <= 1
  BY Zenon, SingleCardinality DEF Single
<1>2. TypeOK'
  BY Zenon, <1>1 DEF TypeOK, MsgRec
<1>3. EagerOnly'
  BY Zenon DEF EagerOnly, AllEager
<1> QED BY Zenon, <1>2, <1>3 DEF LocInv

\* registerEntity: what waited is applied where the entity now is.
LEMMA RegisterStep ==
  ASSUME LocInv, NEW n \in Node, RegisterEntity(n)
  PROVE  LocInv' /\ AppliedHere
<1> DEFINE sent == Send(net, IF n = Home THEN {} ELSE {UpdateLocation(Home, n)})
<1>1. reg = {} /\ reg' = {n} /\ transit' = None
  BY Zenon, LocationAssumption DEF RegisterEntity, LocInv, TypeOK
<1>2. RunPending(n, n, sent)
  BY Zenon DEF RegisterEntity
<1>3. /\ sent \in [LocMsg -> Nat]
      /\ \A u \in LocMsg : sent[u] > 0 =>
           net[u] > 0 \/ (n # Home /\ u = UpdateLocation(Home, n))
  <2>1. net \in [LocMsg -> Nat]
    BY Zenon DEF LocInv, TypeOK
  <2> QED BY Zenon, <2>1, SendType
<1> HIDE DEF sent
<1>4. /\ msg' \in [Msg -> MsgRec]
      /\ asks' \in [Node -> SUBSET Node]
      /\ net' \in [LocMsg -> Nat]
      /\ lookups' \in [Node -> Nat]
      /\ \A m \in Msg : msg'[m].eager = msg[m].eager
      /\ \A m \in Msg : msg'[m].place = "asking" => msg[m].place = "asking"
      /\ \A m \in Msg : Applied(m) => msg'[m].node = n
      /\ AllEager => /\ \A u \in LocMsg : net'[u] > 0 => sent[u] > 0 \/ u.kind = "eager"
                     /\ \A a \in Node : lookups'[a] = 0
  BY Zenon, <1>2, <1>3, RunPendingStep
<1>5. recs' \in [Node -> Node \cup {None}]
  BY Zenon DEF RegisterEntity, LocInv, TypeOK
<1>6. AllEager => /\ \A m \in Msg : msg'[m].place # "asking"
                  /\ \A u \in LocMsg : net'[u] > 0 =>
                       u.kind = "eager" \/ (u.kind = "update" /\ u.to = Home /\ u.node # Home)
  BY <1>3, <1>4 DEF LocInv, EagerOnly, UpdateLocation
<1>7. LocInv'
  BY Zenon, <1>1, <1>4, <1>5, <1>6, Together DEF Single
<1> QED BY Zenon, <1>1, <1>4, <1>7 DEF AppliedHere

\* A migration or an eviction touches no message.
LEMMA MoveStep ==
  ASSUME LocInv, NEW n \in Node, NEW k \in Node, EntityEmigrated(n, k) \/ Evict(n)
  PROVE  LocInv' /\ AppliedHere
<1>1. UNCHANGED <<msg, asks, lookups, net>>
  BY Zenon DEF EntityEmigrated, Evict
<1>2. recs' \in [Node -> Node \cup {None}]
  BY DEF EntityEmigrated, Evict, LocInv, TypeOK
<1>3. CASE EntityEmigrated(n, k)
  <2>1. reg' = {} /\ transit' = k
    BY Zenon, <1>3 DEF EntityEmigrated, LocInv, Single
  <2>2. LocInv'
    BY Zenon, <1>1, <1>2, <2>1, Together, LocationAssumption
       DEF LocInv, TypeOK, Single, EagerOnly, AllEager
  <2> QED BY Zenon, <1>1, <2>2 DEF AppliedHere, Applied
<1>4. CASE Evict(n)
  <2>1. reg' = reg /\ transit' = transit
    BY Zenon, <1>4 DEF Evict
  <2>2. LocInv'
    BY Zenon, <1>1, <1>2, <2>1, Together DEF LocInv, TypeOK, Single, EagerOnly, AllEager
  <2> QED BY Zenon, <1>1, <2>2 DEF AppliedHere, Applied
<1> QED BY Zenon, <1>3, <1>4

\* routeMsgNode, called by routePreparedMsg: a node without the entity applies
\* nothing.
LEMMA RouteHere ==
  ASSUME LocInv, NEW n \in Node, NEW S \in SUBSET Msg, NEW to \in Node, NEW Here,
         Here = {} \/ n \in reg,
         RouteMsgNode(n, S, to, Here, net), UNCHANGED <<reg, transit, lookups>>,
         recs' \in [Node -> Node \cup {None}]
  PROVE  LocInv' /\ AppliedHere
<1>1. TypeOK /\ net \in [LocMsg -> Nat]
  BY Zenon DEF LocInv, TypeOK
<1>2. /\ msg' \in [Msg -> MsgRec]
      /\ asks' \in [Node -> SUBSET Node]
      /\ net' \in [LocMsg -> Nat]
      /\ \A m \in Msg : msg'[m].eager = msg[m].eager
      /\ \A m \in Msg : msg'[m].place = "asking" => msg[m].place = "asking"
      /\ \A m \in Msg : Applied(m) => to = n /\ m \in Here /\ msg'[m].node = n
      /\ \A u \in LocMsg : net'[u] > 0 => net[u] > 0 \/ u.kind = "eager"
  BY Zenon, <1>1, RouteMsgNodeStep
<1>3. LocInv'
  BY Zenon, <1>2, Together DEF LocInv, TypeOK, Single, EagerOnly
<1> QED BY Zenon, <1>2, <1>3 DEF AppliedHere

LEMMA RouteStep ==
  ASSUME LocInv, NEW n \in Node, NEW w \in Msg, RoutePreparedMsg(n, w)
  PROVE  LocInv' /\ AppliedHere
<1>1. UNCHANGED <<reg, transit, lookups>>
  BY Zenon DEF RoutePreparedMsg
<1>2. /\ recs \in [Node -> Node \cup {None}] /\ net \in [LocMsg -> Nat]
      /\ msg \in [Msg -> MsgRec]
  BY Zenon DEF LocInv, TypeOK
<1>3. recs' \in [Node -> Node \cup {None}]
  BY Zenon, <1>2 DEF RoutePreparedMsg, RouteMsgEager, RouteMsgLarge, Refreshed
<1>4. ASSUME NEW to \in Node,
             RouteMsgNode(n, {w}, to, IF n \in reg THEN {w} ELSE {}, net)
      PROVE  LocInv' /\ AppliedHere
  <2> DEFINE Here == IF n \in reg THEN {w} ELSE {}
             One == {w}
  <2>1. One \in SUBSET Msg /\ (Here = {} \/ n \in reg) /\ RouteMsgNode(n, One, to, Here, net)
    BY Zenon, <1>4
  <2> HIDE DEF Here, One
  <2> QED BY Zenon, <1>1, <1>3, <2>1, RouteHere
<1>5. CASE msg[w].eager
  <2>1. RouteMsgEager(n, w)
    BY Zenon, <1>5 DEF RoutePreparedMsg
  <2> DEFINE to == IF n \in reg THEN n ELSE IF recs[n] = None THEN Home ELSE recs[n]
  <2>2. to \in Node
    BY Zenon, <1>2, LocationAssumption
  <2>3. RouteMsgNode(n, {w}, to, IF n \in reg THEN {w} ELSE {}, net)
    BY Zenon, <2>1 DEF RouteMsgEager
  <2> QED BY Zenon, <2>2, <2>3, <1>4
<1>6. CASE ~ msg[w].eager
  <2>1. RouteMsgLarge(n, w)
    BY Zenon, <1>6 DEF RoutePreparedMsg
  <2>2. CASE n \in reg \/ recs[n] # None
    <3> DEFINE to == IF n \in reg THEN n ELSE recs[n]
    <3>1. to \in Node
      BY Zenon, <1>2, <2>2
    <3>2. RouteMsgNode(n, {w}, to, IF n \in reg THEN {w} ELSE {}, net)
      BY Zenon, <2>1, <2>2 DEF RouteMsgLarge
    <3> QED BY Zenon, <3>1, <3>2, <1>4
  <2>3. CASE ~ (n \in reg \/ recs[n] # None)
    <3>1. /\ msg' = [msg EXCEPT ![w] = Moved(w, "asking", n, msg[w].ask)]
          /\ net' = Send(net, IF n = Home THEN {} ELSE {GetLocationRequest(n)})
          /\ asks' = asks
      BY Zenon, <2>1, <2>3 DEF RouteMsgLarge
    <3>2. ~ AllEager
      BY Zenon, <1>6 DEF AllEager
    <3>3. msg[w] \in MsgRec
      BY Zenon, <1>2
    <3>4. /\ Moved(w, "asking", n, msg[w].ask) \in MsgRec
          /\ Moved(w, "asking", n, msg[w].ask).eager = msg[w].eager
      BY Zenon, <3>3 DEF Moved, MsgRec, Place
    <3>5. msg' \in [Msg -> MsgRec] /\ \A m \in Msg : msg'[m].eager = msg[m].eager
      BY Zenon, <1>2, <3>1, <3>4
    <3>6. net' \in [LocMsg -> Nat]
      BY Zenon, <3>1, <1>2, SendType
    <3>7. LocInv'
      BY Zenon, <1>1, <1>3, <3>1, <3>2, <3>5, <3>6, Together DEF LocInv, TypeOK, Single
    <3> QED BY Zenon, <3>2, <3>7 DEF AppliedHere
  <2> QED BY Zenon, <2>2, <2>3
<1> QED BY Zenon, <1>5, <1>6

\* A message sent on the node of the entity.
LEMMA SendHereStep ==
  ASSUME LocInv, NEW n \in Node, NEW m \in Msg, SendHere(n, m)
  PROVE  LocInv' /\ AppliedHere
<1>1. /\ UNCHANGED <<reg, transit, recs, asks, lookups, net>> /\ n \in reg
      /\ msg' = [msg EXCEPT ![m] = Moved(m, "delivered", n, None)]
  BY Zenon DEF SendHere
<1>2. msg \in [Msg -> MsgRec]
  BY Zenon DEF LocInv, TypeOK
<1>3. /\ Moved(m, "delivered", n, None) \in MsgRec
      /\ Moved(m, "delivered", n, None).eager = msg[m].eager
      /\ Moved(m, "delivered", n, None).place = "delivered"
      /\ Moved(m, "delivered", n, None).node = n
  <2>1. msg[m] \in MsgRec
    BY Zenon, <1>2
  <2> QED BY Zenon, <2>1 DEF Moved, MsgRec, Place
<1>4. /\ msg' \in [Msg -> MsgRec]
      /\ \A x \in Msg : msg'[x].eager = msg[x].eager
      /\ \A x \in Msg : msg'[x].place = "asking" => msg[x].place = "asking"
      /\ \A x \in Msg : Applied(x) => msg'[x].node = n
  BY Zenon, <1>1, <1>2, <1>3 DEF Applied
<1>5. LocInv'
  BY Zenon, <1>1, <1>4, Together DEF LocInv, TypeOK, Single, EagerOnly
<1> QED BY Zenon, <1>1, <1>4, <1>5 DEF AppliedHere

\* updateLocation: with small messages only it comes to the home and names another
\* node, so that nothing is applied.
LEMMA UpdateStep ==
  ASSUME LocInv, NEW u \in LocMsg, HandleUpdateLocation(u)
  PROVE  LocInv' /\ AppliedHere
<1>1. /\ net[u] > 0 /\ u.kind = "update" /\ UNCHANGED <<reg, transit>>
      /\ RunPending(u.to, u.node, Take(u))
  BY Zenon DEF HandleUpdateLocation
<1>2. u.to \in Node /\ u.node \in Node
  BY Zenon, LocMsgFields
<1>3. net \in [LocMsg -> Nat]
  BY Zenon DEF LocInv, TypeOK
<1>4. /\ Take(u) \in [LocMsg -> Nat]
      /\ \A v \in LocMsg : Take(u)[v] > 0 => net[v] > 0
  BY Zenon, <1>1, <1>3, TakeType DEF LocInv
<1>5. /\ msg' \in [Msg -> MsgRec]
      /\ asks' \in [Node -> SUBSET Node]
      /\ net' \in [LocMsg -> Nat]
      /\ lookups' \in [Node -> Nat]
      /\ \A m \in Msg : msg'[m].eager = msg[m].eager
      /\ \A m \in Msg : msg'[m].place = "asking" => msg[m].place = "asking"
      /\ \A m \in Msg : Applied(m) => u.node = u.to /\ msg'[m].node = u.to
      /\ AllEager => /\ \A v \in LocMsg : net'[v] > 0 => Take(u)[v] > 0 \/ v.kind = "eager"
                     /\ \A a \in Node : lookups'[a] = 0
  BY Zenon, <1>1, <1>2, <1>4, RunPendingStep
<1>6. recs' \in [Node -> Node \cup {None}]
  BY Zenon, <1>2 DEF HandleUpdateLocation, LocInv, TypeOK
<1>7. AllEager => u.to = Home /\ u.node # Home
  BY Zenon, <1>1 DEF LocInv, EagerOnly
<1>8. AllEager => /\ \A m \in Msg : msg'[m].place # "asking"
                  /\ \A v \in LocMsg : net'[v] > 0 =>
                       v.kind = "eager" \/ (v.kind = "update" /\ v.to = Home /\ v.node # Home)
  BY Zenon, <1>4, <1>5 DEF LocInv, EagerOnly
<1>9. LocInv'
  BY Zenon, <1>1, <1>5, <1>6, <1>8, Together DEF LocInv, TypeOK, Single
<1> QED BY Zenon, <1>5, <1>7, <1>9 DEF AppliedHere

\* getLocationRequest and handleEagerUpdate apply no message.
LEMMA RequestStep ==
  ASSUME LocInv, NEW u \in LocMsg, HandleGetLocationRequest(u)
  PROVE  LocInv' /\ AppliedHere
<1>1. /\ net[u] > 0 /\ u.kind = "request"
      /\ UNCHANGED <<reg, transit, msg, asks>> /\ recs' = Refreshed(Home)
  BY Zenon DEF HandleGetLocationRequest
<1>2. ~ AllEager
  BY Zenon, <1>1 DEF LocInv, EagerOnly
<1>3. net \in [LocMsg -> Nat] /\ lookups \in [Node -> Nat] /\ recs \in [Node -> Node \cup {None}]
  BY Zenon DEF LocInv, TypeOK
<1>4. u.node \in Node
  BY Zenon, LocMsgFields
<1>5. Take(u) \in [LocMsg -> Nat]
  BY Zenon, <1>1, <1>3, TakeType DEF LocInv
<1>6. recs' \in [Node -> Node \cup {None}]
  BY Zenon, <1>1, <1>3, LocationAssumption DEF Refreshed
<1> DEFINE found == IF Home \in reg THEN Home ELSE recs[Home]
<1>7. \/ lookups' = [lookups EXCEPT ![u.node] = @ + 1] /\ net' = Take(u)
      \/ net' = Send(Take(u), {UpdateLocation(u.node, found)}) /\ lookups' = lookups
  BY Zenon DEF HandleGetLocationRequest
<1> HIDE DEF found
<1>8. net' \in [LocMsg -> Nat] /\ lookups' \in [Node -> Nat]
  <2>1. Send(Take(u), {UpdateLocation(u.node, found)}) \in [LocMsg -> Nat]
    BY Zenon, <1>5, SendType
  <2> QED BY <1>3, <1>4, <1>5, <1>7, <2>1
<1>9. LocInv'
  BY Zenon, <1>1, <1>2, <1>6, <1>8, Together DEF LocInv, TypeOK, Single
<1> QED BY Zenon, <1>2, <1>9 DEF AppliedHere

LEMMA EagerStep ==
  ASSUME LocInv, NEW u \in LocMsg, HandleEagerUpdate(u)
  PROVE  LocInv' /\ AppliedHere
<1> DEFINE told == {EagerUpdate(a, u.node) : a \in asks[u.to] \ {u.to}}
<1>1. /\ net[u] > 0 /\ UNCHANGED <<reg, transit, msg, lookups>>
      /\ recs' = [recs EXCEPT ![u.to] = u.node]
      /\ net' = Send(Take(u), told)
      /\ asks' = [asks EXCEPT ![u.to] = {}]
  BY Zenon DEF HandleEagerUpdate
<1>2. /\ net \in [LocMsg -> Nat] /\ recs \in [Node -> Node \cup {None}]
      /\ asks \in [Node -> SUBSET Node]
  BY Zenon DEF LocInv, TypeOK
<1>3. u.to \in Node /\ u.node \in Node
  BY Zenon, LocMsgFields
<1>4. /\ Take(u) \in [LocMsg -> Nat]
      /\ \A v \in LocMsg : Take(u)[v] > 0 => net[v] > 0
  BY Zenon, <1>1, <1>2, TakeType DEF LocInv
<1>5. \A v \in told : v.kind = "eager"
  BY DEF EagerUpdate
<1> HIDE DEF told
<1>6. /\ net' \in [LocMsg -> Nat]
      /\ \A v \in LocMsg : net'[v] > 0 => net[v] > 0 \/ v.kind = "eager"
  BY Zenon, <1>1, <1>4, <1>5, SendType
<1>7. LocInv'
  BY Zenon, <1>1, <1>2, <1>3, <1>6, Together DEF LocInv, TypeOK, Single, EagerOnly
<1> QED BY Zenon, <1>1, <1>7 DEF AppliedHere, Applied

-----------------------------------------------------------------------------
LEMMA InitLocInv ==
  ASSUME Init PROVE LocInv
<1>1. reg = {} /\ Cardinality(reg) = 0
  BY Zenon, FS_EmptySet DEF Init
<1>2. msg \in [Msg -> MsgRec] /\ \A m \in Msg : msg[m].place = "unsent"
  BY Zenon DEF Init, MsgRec, Place
<1>3. TypeOK
  BY <1>1, <1>2, LocationAssumption DEF Init, TypeOK, MsgRec
<1> QED BY <1>1, <1>2, <1>3 DEF Init, LocInv, Single, EagerOnly

\* Every step keeps the invariant and applies small messages at the entity only.
LEMMA NextStep ==
  ASSUME LocInv, Next
  PROVE  LocInv' /\ AppliedHere
<1>1. ASSUME NEW n \in Node, RegisterEntity(n) \/ Evict(n)
      PROVE  LocInv' /\ AppliedHere
  BY Zenon, <1>1, RegisterStep, MoveStep
<1>2. ASSUME NEW n \in Node, NEW k \in Node, EntityEmigrated(n, k)
      PROVE  LocInv' /\ AppliedHere
  BY Zenon, <1>2, MoveStep
<1>3. ASSUME NEW n \in Node, NEW m \in Msg, SendHere(n, m) \/ SendAway(n, m)
      PROVE  LocInv' /\ AppliedHere
  <2>1. SendHere(n, m) \/ RoutePreparedMsg(n, m)
    BY Zenon, <1>3 DEF SendAway
  <2> QED BY Zenon, <2>1, SendHereStep, RouteStep
<1>4. ASSUME NEW m \in Msg, RoutedHandler(m)
      PROVE  LocInv' /\ AppliedHere
  <2> DEFINE n == msg[m].node
  <2>1. RoutePreparedMsg(n, m) /\ msg[m].place = "flying"
    BY Zenon, <1>4 DEF RoutedHandler
  <2>2. msg[m] \in MsgRec
    BY Zenon DEF LocInv
  <2>3. n \in Node
    BY Zenon, <2>1, <2>2 DEF MsgRec
  <2> HIDE DEF n
  <2> QED BY Zenon, <2>1, <2>3, RouteStep
<1>5. ASSUME NEW u \in LocMsg, Handle(u)
      PROVE  LocInv' /\ AppliedHere
  BY Zenon, <1>5, UpdateStep, RequestStep, EagerStep DEF Handle
<1> QED BY Zenon, <1>1, <1>2, <1>3, <1>4, <1>5 DEF Next, Step, InFlight

LEMMA IdleStep ==
  ASSUME LocInv, UNCHANGED vars
  PROVE  LocInv'
BY Zenon DEF LocInv, TypeOK, Single, EagerOnly, AllEager, vars

LEMMA LocInvHolds == Spec => []LocInv
<1>1. Init => LocInv
  BY Zenon, InitLocInv
<1>2. LocInv /\ [Next]_vars => LocInv'
  BY Zenon, NextStep, IdleStep
<1> QED BY <1>1, <1>2, PTL DEF Spec

-----------------------------------------------------------------------------
(***************************************************************************)
(* The records lead to the entity.  c is the node that has the entity or   *)
(* that it is on its way to, p the node it left last (c itself, when the   *)
(* location traffic of its last move is over).                             *)
(***************************************************************************)
\* A set of nodes that no message leaves.
Closed(S) == S # {} /\ \A n \in S : NextHop(n) \in S

\* News name c, or p if they were sent before the home knew of the move; the
\* home and p itself are never told p.
Genuine(u, c, p) ==
  /\ u.kind = "eager" => u.node = c
  /\ u.kind = "update" => u.node \in {p, c} /\ (u.to \in {p, Home} => u.node = c)
  /\ u.kind = "request" => u.node # Home

News(c, p) == \A u \in LocMsg : net[u] > 0 => Genuine(u, c, p)

\* The breadcrumb at p is kept, and p asks nobody, until the home knows c.
Breadcrumb(c, p) ==
  p # c => /\ recs[p] = c \/ (recs[p] = None /\ recs[Home] = c)
           /\ recs[Home] # None
           /\ \A u \in LocMsg :
                net[u] > 0 /\ u.kind = "request" /\ u.node = p => recs[Home] = c

\* The home knows c, or is about to be told; before the entity is first
\* registered nobody has anything to tell.
HomeKnows(c, p) ==
  /\ recs[Home] \in {p, c, None}
  /\ recs[Home] = c \/ transit # None \/ net[UpdateLocation(Home, c)] > 0
  /\ recs[Home] = None /\ transit # None =>
       \A u \in LocMsg : net[u] > 0 => u.kind = "request"
  /\ \A a \in Node : lookups[a] > 0 =>
       recs[Home] = None \/ net[UpdateLocation(Home, c)] > 0

Leads(c) ==
  \A S \in SUBSET Node : Closed(S) => c \in S \/ (recs[Home] = None /\ Home \in S)

Trail(c, p) ==
  /\ c \in reg \/ transit = c
  /\ News(c, p)
  /\ Breadcrumb(c, p)
  /\ HomeKnows(c, p)
  /\ Leads(c)

TrailInv == \E c, p \in Node : Trail(c, p)

\* There is one entity.
LEMMA OnePlace ==
  ASSUME LocInv, NEW c \in Node, c \in reg \/ transit = c
  PROVE  /\ reg = {c} \/ reg = {}
         /\ transit \in {c, None} /\ (transit = None <=> reg = {c})
BY SMTT(30), LocationAssumption DEF LocInv, TypeOK, Single

\* A record that is set to c, or to p on another node than p, leads on to c.
LEMMA LeadsSet ==
  ASSUME LocInv, NEW c \in Node, NEW p \in Node, Leads(c), Breadcrumb(c, p),
         NEW x \in Node, NEW y \in {p, c}, x \in {p, Home} => y = c,
         recs' = [recs EXCEPT ![x] = y]
  PROVE  Leads(c)'
<1> SUFFICES ASSUME NEW S \in SUBSET Node, Closed(S)'
             PROVE  c \in S \/ (recs'[Home] = None /\ Home \in S)
  BY Zenon DEF Leads
<1>1. recs \in [Node -> Node \cup {None}] /\ None \notin Node
  BY Zenon, LocationAssumption DEF LocInv, TypeOK
<1>2. \A n \in S : (IF recs'[n] = None THEN Home ELSE recs'[n]) \in S
  BY Zenon DEF Closed, NextHop
<1>3. CASE x \in S
  <2>1. y \in S
    BY <1>1, <1>2, <1>3
  <2>2. CASE y = c
    BY <2>1, <2>2
  <2>3. CASE y = p /\ p # c
    <3>1. x # p /\ x # Home /\ Home \in Node
      BY Zenon, <2>3, LocationAssumption
    <3>2. recs'[p] = recs[p] /\ recs'[Home] = recs[Home]
      BY Zenon, <1>1, <3>1
    <3>3. recs'[p] = c \/ (recs'[p] = None /\ recs'[Home] = c)
      BY Zenon, <2>3, <3>2 DEF Breadcrumb
    <3> QED BY <1>1, <1>2, <2>1, <2>3, <3>3
  <2> QED BY Zenon, <2>2, <2>3
<1>4. CASE x \notin S
  <2>1. \A n \in S : recs'[n] = recs[n]
    BY Zenon, <1>1, <1>4
  <2>2. Closed(S)
    BY Zenon, <1>2, <2>1 DEF Closed, NextHop
  <2> QED BY Zenon, <2>1, <2>2 DEF Leads
<1> QED BY Zenon, <1>3, <1>4

\* sendEagerUpdate adds updates that name n, if there are messages to apply.
LEMMA SendEagerUpdateNews ==
  ASSUME NEW c \in [LocMsg -> Nat], NEW n, NEW S \in SUBSET Msg
  PROVE  /\ \A u \in LocMsg : SendEagerUpdate(n, S, c)[u] >= c[u]
         /\ \A u \in LocMsg : SendEagerUpdate(n, S, c)[u] > 0 =>
              c[u] > 0 \/ (u.kind = "eager" /\ u.node = n /\ S # {})
<1> DEFINE T(u) == {m \in S : msg[m].ask \notin {n, None} /\ u = EagerUpdate(msg[m].ask, n)}
<1>1. ASSUME NEW u \in LocMsg
      PROVE  Cardinality(T(u)) \in Nat /\ (T(u) = {} => Cardinality(T(u)) = 0)
  <2>1. T(u) \in SUBSET Msg
    BY Zenon
  <2>2. IsFiniteSet(T(u))
    BY Zenon, <2>1, FS_Subset, LocationAssumption
  <2> QED BY Zenon, <2>2, FS_CardinalityType, FS_EmptySet
<1>2. ASSUME NEW u \in LocMsg, ~ (u.kind = "eager" /\ u.node = n /\ S # {}) PROVE T(u) = {}
  BY <1>2 DEF EagerUpdate
<1>3. SendEagerUpdate(n, S, c) = [u \in LocMsg |-> c[u] + Cardinality(T(u))]
  BY Zenon DEF SendEagerUpdate
<1> HIDE DEF T
<1> QED BY <1>1, <1>2, <1>3

\* What routeMsgNode adds to the network.
LEMMA RouteMsgNodeNews ==
  ASSUME NEW n \in Node, NEW S \in SUBSET Msg, NEW to \in Node, NEW Here,
         NEW sent \in [LocMsg -> Nat], RouteMsgNode(n, S, to, Here, sent)
  PROVE  /\ \A u \in LocMsg : sent[u] > 0 => net'[u] > 0
         /\ \A u \in LocMsg : net'[u] > 0 =>
              sent[u] > 0 \/ (u.kind = "eager" /\ u.node = n /\ to = n /\ Here # {})
<1>1. net' = IF to # n THEN sent ELSE SendEagerUpdate(n, S \cap Here, sent)
  BY Zenon DEF RouteMsgNode
<1>2. S \cap Here \in SUBSET Msg
  BY Zenon
<1>3. CASE to # n
  BY Zenon, <1>1, <1>3
<1>4. CASE to = n
  <2>1. /\ \A u \in LocMsg : net'[u] >= sent[u]
        /\ \A u \in LocMsg : net'[u] > 0 =>
             sent[u] > 0 \/ (u.kind = "eager" /\ u.node = n /\ S \cap Here # {})
    BY <1>1, <1>2, <1>4, SendEagerUpdateNews
  <2>2. net' \in [LocMsg -> Nat]
    BY Zenon, <1>1, <1>2, <1>4, SendEagerUpdateType
  <2> QED BY <1>4, <2>1, <2>2
<1> QED BY Zenon, <1>3, <1>4

\* What running the pending lookups of n adds to it.
LEMMA RunPendingNews ==
  ASSUME LocInv, NEW n \in Node, NEW resolved \in Node,
         NEW sent \in [LocMsg -> Nat], RunPending(n, resolved, sent)
  PROVE  /\ \A u \in LocMsg : sent[u] > 0 => net'[u] > 0
         /\ \A u \in LocMsg : net'[u] > 0 =>
              \/ sent[u] > 0
              \/ u.kind = "eager" /\ u.node = n /\ resolved = n
              \/ n = Home /\ u.kind = "update" /\ u.node = resolved
         /\ lookups' = IF n = Home THEN [a \in Node |-> 0] ELSE lookups
<1> DEFINE more == [u \in LocMsg |->
                      sent[u] + IF n = Home /\ u = UpdateLocation(u.to, resolved)
                                THEN lookups[u.to] ELSE 0]
           Here == {m \in Pending(n) : msg[m].place = "buffered" \/ n \in reg'}
<1>1. lookups \in [Node -> Nat] /\ lookups' = IF n = Home THEN [a \in Node |-> 0] ELSE lookups
  BY Zenon DEF RunPending, LocInv, TypeOK
<1>2. RouteMsgNode(n, Pending(n), resolved, Here, more) /\ Pending(n) \in SUBSET Msg
  BY Zenon DEF RunPending, Pending
<1>3. more \in [LocMsg -> Nat]
  BY <1>1, LocMsgFields
<1>4. \A u \in LocMsg : /\ more[u] >= sent[u]
                        /\ more[u] > 0 => \/ sent[u] > 0
                                          \/ n = Home /\ u.kind = "update" /\ u.node = resolved
  <2> SUFFICES ASSUME NEW u \in LocMsg
               PROVE  /\ more[u] >= sent[u]
                      /\ more[u] > 0 => \/ sent[u] > 0
                                        \/ n = Home /\ u.kind = "update" /\ u.node = resolved
    BY Zenon
  <2>1. lookups[u.to] \in Nat /\ sent[u] \in Nat
    BY Zenon, <1>1, LocMsgFields
  <2>2. UpdateLocation(u.to, resolved).kind = "update" /\ UpdateLocation(u.to, resolved).node = resolved
    BY Zenon DEF UpdateLocation
  <2> QED BY <2>1, <2>2
<1> HIDE DEF more, Here
<1>5. /\ \A u \in LocMsg : more[u] > 0 => net'[u] > 0
      /\ \A u \in LocMsg : net'[u] > 0 =>
           more[u] > 0 \/ (u.kind = "eager" /\ u.node = n /\ resolved = n /\ Here # {})
  BY <1>2, <1>3, RouteMsgNodeNews
<1> QED BY <1>1, <1>3, <1>4, <1>5

\* When the location traffic is over the home knows where the entity is.
LEMMA HomeAtRest ==
  ASSUME LocInv, NEW c \in Node, NEW p \in Node, Trail(c, p), InFlight = {}, transit = None
  PROVE  recs[Home] = c /\ reg = {c} /\ \A a \in Node : lookups[a] = 0
<1>1. UpdateLocation(Home, c) \in LocMsg
  BY Zenon, LocMsgs, LocationAssumption
<1>2. net[UpdateLocation(Home, c)] = 0
  BY <1>1 DEF InFlight, LocInv, TypeOK
<1>3. recs[Home] = c /\ c # None
  BY <1>2, LocationAssumption DEF Trail, HomeKnows
<1>4. \A a \in Node : lookups[a] = 0
  BY <1>2, <1>3 DEF Trail, HomeKnows, LocInv, TypeOK
<1> QED BY Zenon, <1>3, <1>4, OnePlace DEF Trail

\* entityEmigrated: the node that is left becomes p, with its breadcrumb.
LEMMA EmigratedTrail ==
  ASSUME LocInv, TrailInv, ~ hasty', NEW n \in Node, NEW k \in Node, EntityEmigrated(n, k)
  PROVE  TrailInv'
<1>1. PICK c \in Node, p \in Node : Trail(c, p)
  BY Zenon DEF TrailInv
<1>2. /\ n \in reg /\ k # n /\ InFlight = {} /\ reg' = reg \ {n} /\ transit' = k
      /\ recs' = [recs EXCEPT ![n] = k] /\ UNCHANGED <<lookups, net>>
  BY Zenon DEF EntityEmigrated
<1>3. n = c /\ transit = None
  BY Zenon, <1>1, <1>2, OnePlace DEF Trail
<1>4. recs[Home] = c /\ \A a \in Node : lookups[a] = 0
  BY Zenon, <1>1, <1>2, <1>3, HomeAtRest
<1>5. \A u \in LocMsg : net'[u] = 0
  BY <1>2 DEF InFlight, LocInv, TypeOK
<1>6. recs \in [Node -> Node \cup {None}] /\ None \notin Node /\ Home \in Node
  BY Zenon, LocationAssumption DEF LocInv, TypeOK
<1>7. Leads(k)'
  <2> SUFFICES ASSUME NEW S \in SUBSET Node, Closed(S)' PROVE k \in S
    BY Zenon DEF Leads
  <2>1. \A x \in S : (IF recs'[x] = None THEN Home ELSE recs'[x]) \in S
    BY Zenon DEF Closed, NextHop
  <2>2. CASE n \in S
    BY <1>2, <1>6, <2>1, <2>2
  <2>3. CASE n \notin S
    <3>1. Closed(S)
      BY <1>2, <1>6, <2>1, <2>3 DEF Closed, NextHop
    <3> QED BY Zenon, <1>1, <1>3, <1>4, <1>6, <2>3, <3>1 DEF Trail, Leads
  <2> QED BY Zenon, <2>2, <2>3
<1>8. News(k, n)'
  BY <1>5 DEF News
<1>9. HomeKnows(k, n)'
  <2>1. recs'[n] = k /\ recs'[Home] \in {n, k} /\ transit' # None
    BY Zenon, <1>2, <1>3, <1>4, <1>6
  <2> QED BY <1>2, <1>4, <1>6, <2>1 DEF HomeKnows
<1>10. Breadcrumb(k, n)'
  BY <1>2, <1>3, <1>4, <1>5, <1>6 DEF Breadcrumb
<1>11. Trail(k, n)'
  BY Zenon, <1>2, <1>7, <1>8, <1>9, <1>10 DEF Trail
<1> QED BY Zenon, <1>11 DEF TrailInv

\* A record that is dropped leaves the home, which knows.
LEMMA EvictTrail ==
  ASSUME LocInv, TrailInv, ~ hasty', NEW n \in Node, Evict(n)
  PROVE  TrailInv'
<1>1. PICK c \in Node, p \in Node : Trail(c, p)
  BY Zenon DEF TrailInv
<1>2. /\ n # Home /\ recs[Home] \in reg /\ recs' = [recs EXCEPT ![n] = None]
      /\ UNCHANGED <<reg, transit, lookups, net>>
  BY Zenon DEF Evict
<1>3. recs[Home] = c /\ reg = {c}
  BY Zenon, <1>1, <1>2, OnePlace DEF Trail
<1>4. recs \in [Node -> Node \cup {None}] /\ None \notin Node /\ Home \in Node
  BY Zenon, LocationAssumption DEF LocInv, TypeOK
<1>5. recs'[Home] = c /\ \A x \in Node : recs'[x] = recs[x] \/ recs'[x] = None
  BY Zenon, <1>2, <1>3, <1>4
<1>6. Leads(c)'
  <2> SUFFICES ASSUME NEW S \in SUBSET Node, Closed(S)' PROVE c \in S
    BY Zenon DEF Leads
  <2>1. \A x \in S : (IF recs'[x] = None THEN Home ELSE recs'[x]) \in S
    BY Zenon DEF Closed, NextHop
  <2>2. CASE n \in S
    BY <1>2, <1>3, <1>4, <2>1, <2>2
  <2>3. CASE n \notin S
    <3>1. Closed(S)
      BY <1>2, <1>4, <2>1, <2>3 DEF Closed, NextHop
    <3> QED BY Zenon, <1>1, <1>3, <1>4, <3>1 DEF Trail, Leads
  <2> QED BY Zenon, <2>2, <2>3
<1>7. News(c, p)'
  BY Zenon, <1>1, <1>2 DEF Trail, News
<1>8. Breadcrumb(c, p)'
  BY Zenon, <1>1, <1>2, <1>4, <1>5 DEF Trail, Breadcrumb
<1>9. HomeKnows(c, p)'
  BY Zenon, <1>1, <1>2, <1>3, <1>4, <1>5 DEF Trail, HomeKnows
<1>10. Trail(c, p)'
  BY Zenon, <1>2, <1>3, <1>6, <1>7, <1>8, <1>9 DEF Trail
<1> QED BY Zenon, <1>10 DEF TrailInv

\* A node sets its record to where the entity is, or to p elsewhere than on p
\* and on the home, and the messages it sends are genuine.
LEMMA RecordTrail ==
  ASSUME LocInv, NEW c \in Node, NEW p \in Node, Trail(c, p),
         NEW x \in Node, NEW y \in {p, c}, x \in {p, Home} => y = c,
         recs' = [recs EXCEPT ![x] = y],
         c \in reg' \/ transit' = c,
         News(c, p)',
         recs'[Home] = c \/ transit' # None \/ net'[UpdateLocation(Home, c)] > 0,
         recs'[Home] = None /\ transit' # None =>
           \A u \in LocMsg : net'[u] > 0 => u.kind = "request",
         \A a \in Node : lookups'[a] > 0 =>
           recs'[Home] = None \/ net'[UpdateLocation(Home, c)] > 0,
         \A u \in LocMsg : net'[u] > 0 /\ u.kind = "request" => net[u] > 0
  PROVE  TrailInv'
<1>1. recs \in [Node -> Node \cup {None}] /\ None \notin Node /\ Home \in Node
  BY Zenon, LocationAssumption DEF LocInv, TypeOK
<1>2. Leads(c)'
  BY Zenon, LeadsSet DEF Trail
<1>3. Breadcrumb(c, p)'
  <2>1. recs'[x] = y /\ \A n \in Node : n # x => recs'[n] = recs[n]
    BY Zenon, <1>1
  <2>2. p # c => (recs'[p] = c \/ (recs'[p] = None /\ recs'[Home] = c)) /\ recs'[Home] # None
    BY Zenon, <1>1, <2>1 DEF Trail, Breadcrumb
  <2>3. recs[Home] = c => recs'[Home] = c
    BY Zenon, <1>1, <2>1
  <2> QED BY Zenon, <2>2, <2>3 DEF Trail, Breadcrumb
<1>4. recs'[Home] \in {p, c, None}
  BY Zenon, <1>1 DEF Trail, HomeKnows
<1>5. HomeKnows(c, p)'
  BY Zenon, <1>4 DEF HomeKnows
<1>6. Trail(c, p)'
  BY Zenon, <1>2, <1>3, <1>5 DEF Trail
<1> QED BY Zenon, <1>6 DEF TrailInv

\* The same for a step that leaves the records alone.
LEMMA SameRecordsTrail ==
  ASSUME LocInv, NEW c \in Node, NEW p \in Node, Trail(c, p), UNCHANGED <<recs, transit>>,
         c \in reg' \/ transit' = c,
         News(c, p)',
         net[UpdateLocation(Home, c)] > 0 => net'[UpdateLocation(Home, c)] > 0,
         recs[Home] = None /\ transit # None =>
           \A u \in LocMsg : net'[u] > 0 => u.kind = "request",
         \A a \in Node : lookups'[a] > 0 => lookups[a] > 0 \/ recs[Home] = None,
         \A u \in LocMsg : net'[u] > 0 /\ u.kind = "request" /\ u.node = p =>
           net[u] > 0 \/ p = c \/ recs[Home] = c
  PROVE  TrailInv'
<1>1. Leads(c)'
  BY Zenon DEF Trail, Leads, Closed, NextHop
<1>2. HomeKnows(c, p)'
  BY Zenon DEF Trail, HomeKnows
<1>3. Breadcrumb(c, p)'
  BY Zenon DEF Trail, Breadcrumb
<1>4. Trail(c, p)'
  BY Zenon, <1>1, <1>2, <1>3 DEF Trail
<1> QED BY Zenon, <1>4 DEF TrailInv

\* registerEntity: the record is local and the home is told.
LEMMA RegisterTrail ==
  ASSUME LocInv, TrailInv, NEW n \in Node, RegisterEntity(n)
  PROVE  TrailInv'
<1> DEFINE sent == Send(net, IF n = Home THEN {} ELSE {UpdateLocation(Home, n)})
<1>1. PICK c \in Node, p \in Node : Trail(c, p)
  BY Zenon DEF TrailInv
<1>2. /\ transit = n /\ transit' = None /\ reg' = reg \cup {n}
      /\ recs' = [recs EXCEPT ![n] = n] /\ RunPending(n, n, sent)
  BY Zenon DEF RegisterEntity
<1>3. n = c /\ reg' = {c}
  BY Zenon, <1>1, <1>2, OnePlace, LocationAssumption DEF Trail
<1>4. /\ recs \in [Node -> Node \cup {None}] /\ None \notin Node /\ Home \in Node
      /\ net \in [LocMsg -> Nat] /\ UpdateLocation(Home, n) \in LocMsg
  BY Zenon, LocMsgs, LocationAssumption DEF LocInv, TypeOK
<1>5. /\ sent \in [LocMsg -> Nat]
      /\ \A u \in LocMsg : sent[u] > 0 =>
           net[u] > 0 \/ (n # Home /\ u = UpdateLocation(Home, n))
      /\ n # Home => sent[UpdateLocation(Home, n)] > 0
      /\ \A u \in LocMsg : net[u] > 0 => sent[u] > 0
  BY <1>4 DEF Send
<1> HIDE DEF sent
<1>6. /\ \A u \in LocMsg : sent[u] > 0 => net'[u] > 0
      /\ \A u \in LocMsg : net'[u] > 0 =>
           \/ sent[u] > 0
           \/ u.kind = "eager" /\ u.node = n
           \/ n = Home /\ u.kind = "update" /\ u.node = n
      /\ lookups' = IF n = Home THEN [a \in Node |-> 0] ELSE lookups
  BY <1>2, <1>5, RunPendingNews
<1>7. News(c, p)'
  <2> SUFFICES ASSUME NEW u \in LocMsg, net'[u] > 0 PROVE Genuine(u, c, p)
    BY Zenon DEF News
  <2>1. CASE net[u] > 0
    BY Zenon, <1>1, <2>1 DEF Trail, News
  <2>2. CASE u = UpdateLocation(Home, n)
    BY Zenon, <1>3, <2>2 DEF Genuine, UpdateLocation
  <2>3. CASE u.kind \in {"eager", "update"} /\ u.node = n
    BY Zenon, <1>3, <2>3 DEF Genuine
  <2> QED BY Zenon, <1>5, <1>6, <2>1, <2>2, <2>3
<1>8. recs'[Home] = c \/ net'[UpdateLocation(Home, c)] > 0
  BY Zenon, <1>2, <1>3, <1>4, <1>5, <1>6
<1>9. \A a \in Node : lookups'[a] > 0 => net'[UpdateLocation(Home, c)] > 0
  BY <1>3, <1>4, <1>5, <1>6
<1>10. \A u \in LocMsg : net'[u] > 0 /\ u.kind = "request" => net[u] > 0
  BY <1>5, <1>6 DEF UpdateLocation
<1> QED BY Zenon, <1>1, <1>2, <1>3, <1>7, <1>8, <1>9, <1>10, RecordTrail

\* Routing a message tells nodes of the entity only where it is.
LEMMA RouteNodeTrail ==
  ASSUME LocInv, NEW c \in Node, NEW p \in Node, Trail(c, p),
         NEW n \in Node, NEW S \in SUBSET Msg, NEW to \in Node, NEW Here,
         Here = {} \/ n \in reg, recs' = Refreshed(n),
         RouteMsgNode(n, S, to, Here, net), UNCHANGED <<reg, transit, lookups>>
  PROVE  TrailInv'
<1>1. /\ recs \in [Node -> Node \cup {None}] /\ None \notin Node /\ Home \in Node
      /\ net \in [LocMsg -> Nat] /\ UpdateLocation(Home, c) \in LocMsg
  BY Zenon, LocMsgs, LocationAssumption DEF LocInv, TypeOK
<1>2. /\ \A u \in LocMsg : net[u] > 0 => net'[u] > 0
      /\ \A u \in LocMsg : net'[u] > 0 =>
           net[u] > 0 \/ (u.kind = "eager" /\ u.node = n /\ Here # {})
  BY SMTT(30), <1>1, RouteMsgNodeNews
<1>3. n \in reg => n = c /\ transit = None
  BY Zenon, OnePlace DEF Trail
<1>4. News(c, p)'
  BY Zenon, <1>2, <1>3 DEF Trail, News, Genuine
<1> \A u \in LocMsg : net'[u] > 0 /\ u.kind = "request" => net[u] > 0
  BY <1>2
<1>5. CASE n \in reg
  <2>1. recs' = [recs EXCEPT ![n] = c]
    BY Zenon, <1>3, <1>5 DEF Refreshed
  <2>2. recs'[Home] = c \/ transit' # None \/ net'[UpdateLocation(Home, c)] > 0
    BY SMTT(30), <1>1, <1>2, <2>1 DEF Trail, HomeKnows
  <2>3. \A a \in Node : lookups'[a] > 0 =>
          recs'[Home] = None \/ net'[UpdateLocation(Home, c)] > 0
    BY Zenon, <1>1, <1>2, <1>3, <1>5, <2>1 DEF Trail, HomeKnows
  <2>4. transit' = None /\ (c \in reg' \/ transit' = c)
    BY Zenon, <1>3, <1>5
  <2> QED BY Zenon, <1>4, <2>1, <2>2, <2>3, <2>4, RecordTrail
<1>6. CASE n \notin reg
  <2>1. recs' = recs
    BY Zenon, <1>6 DEF Refreshed
  <2>2. \A u \in LocMsg : net'[u] > 0 => net[u] > 0
    BY Zenon, <1>2, <1>6
  <2>3. c \in reg' \/ transit' = c
    BY Zenon DEF Trail
  <2>4. recs[Home] = None /\ transit # None =>
          \A u \in LocMsg : net'[u] > 0 => u.kind = "request"
    BY Zenon, <2>2 DEF Trail, HomeKnows
  <2> QED BY Zenon, <1>1, <1>2, <1>4, <2>1, <2>3, <2>4, SameRecordsTrail
<1> QED BY Zenon, <1>5, <1>6

LEMMA RouteTrail ==
  ASSUME LocInv, TrailInv, NEW n \in Node, NEW w \in Msg, RoutePreparedMsg(n, w)
  PROVE  TrailInv'
<1>1. PICK c \in Node, p \in Node : Trail(c, p)
  BY Zenon DEF TrailInv
<1>2. UNCHANGED <<reg, transit, lookups>> /\ recs' = Refreshed(n)
  BY Zenon DEF RoutePreparedMsg, RouteMsgEager, RouteMsgLarge
<1>3. /\ recs \in [Node -> Node \cup {None}] /\ None \notin Node /\ Home \in Node
      /\ net \in [LocMsg -> Nat]
  BY Zenon, LocationAssumption DEF LocInv, TypeOK
<1>4. ASSUME NEW to \in Node,
             RouteMsgNode(n, {w}, to, IF n \in reg THEN {w} ELSE {}, net)
      PROVE  TrailInv'
  <2> DEFINE Here == IF n \in reg THEN {w} ELSE {}
             One == {w}
  <2>1. One \in SUBSET Msg /\ (Here = {} \/ n \in reg) /\ RouteMsgNode(n, One, to, Here, net)
    BY Zenon, <1>4
  <2> HIDE DEF Here, One
  <2> QED BY Zenon, <1>1, <1>2, <2>1, RouteNodeTrail
<1>5. CASE msg[w].eager
  <2> DEFINE to == IF n \in reg THEN n ELSE IF recs[n] = None THEN Home ELSE recs[n]
  <2>1. to \in Node
    BY Zenon, <1>3
  <2>2. RouteMsgNode(n, {w}, to, IF n \in reg THEN {w} ELSE {}, net)
    BY Zenon, <1>5 DEF RoutePreparedMsg, RouteMsgEager
  <2> QED BY Zenon, <2>1, <2>2, <1>4
<1>6. CASE ~ msg[w].eager /\ (n \in reg \/ recs[n] # None)
  <2> DEFINE to == IF n \in reg THEN n ELSE recs[n]
  <2>1. to \in Node
    BY Zenon, <1>3, <1>6
  <2>2. RouteMsgNode(n, {w}, to, IF n \in reg THEN {w} ELSE {}, net)
    BY Zenon, <1>6 DEF RoutePreparedMsg, RouteMsgLarge
  <2> QED BY Zenon, <2>1, <2>2, <1>4
<1>7. CASE ~ msg[w].eager /\ ~ (n \in reg \/ recs[n] # None)
  <2> DEFINE ask == IF n = Home THEN {} ELSE {GetLocationRequest(n)}
  <2>1. net' = Send(net, ask) /\ recs' = recs
    BY Zenon, <1>2, <1>7 DEF RoutePreparedMsg, RouteMsgLarge, Refreshed
  <2>2. /\ \A u \in LocMsg : net[u] > 0 => net'[u] > 0
        /\ \A u \in LocMsg : net'[u] > 0 =>
             net[u] > 0 \/ (n # Home /\ u = GetLocationRequest(n))
    BY <1>3, <2>1 DEF Send
  <2>3. \A u \in LocMsg : net'[u] > 0 /\ u.kind = "request" /\ u.node = p =>
          net[u] > 0 \/ p = c \/ recs[Home] = c
    <3>1. n = p => p = c \/ recs[Home] = c
      BY SMTT(30), <1>1, <1>3, <1>7 DEF Trail, Breadcrumb
    <3> QED BY <2>2, <3>1 DEF GetLocationRequest
  <2>4. News(c, p)'
    BY SMTT(30), <1>1, <2>2 DEF Trail, News, Genuine, GetLocationRequest
  <2>5. recs[Home] = None /\ transit # None =>
          \A u \in LocMsg : net'[u] > 0 => u.kind = "request"
    BY SMTT(30), <1>1, <2>2 DEF Trail, HomeKnows, GetLocationRequest
  <2>6. UpdateLocation(Home, c) \in LocMsg /\ (c \in reg' \/ transit' = c)
    BY Zenon, <1>1, <1>2, <1>3, LocMsgs DEF Trail
  <2> QED BY Zenon, <1>1, <1>2, <2>1, <2>2, <2>3, <2>4, <2>5, <2>6, SameRecordsTrail
<1> QED BY Zenon, <1>5, <1>6, <1>7

\* updateLocation: only c is news to the home, and only on c is anything applied.
LEMMA UpdateTrail ==
  ASSUME LocInv, TrailInv, NEW u \in LocMsg, HandleUpdateLocation(u)
  PROVE  TrailInv'
<1> DEFINE x == u.to
           y == u.node
<1>1. PICK c \in Node, p \in Node : Trail(c, p)
  BY Zenon DEF TrailInv
<1>2. /\ net[u] > 0 /\ u.kind = "update" /\ UNCHANGED <<reg, transit>>
      /\ recs' = [recs EXCEPT ![x] = y] /\ RunPending(x, y, Take(u))
  BY Zenon DEF HandleUpdateLocation
<1>3. x \in Node /\ y \in {p, c} /\ (x \in {p, Home} => y = c)
  BY Zenon, <1>1, <1>2, LocMsgFields DEF Trail, News, Genuine
<1>4. /\ recs \in [Node -> Node \cup {None}] /\ None \notin Node /\ Home \in Node
      /\ net \in [LocMsg -> Nat] /\ UpdateLocation(Home, c) \in LocMsg
      /\ UpdateLocation(Home, c).to = Home /\ TypeOK
  BY Zenon, LocMsgs, LocationAssumption DEF LocInv, TypeOK, UpdateLocation
<1>5. /\ Take(u) \in [LocMsg -> Nat]
      /\ \A v \in LocMsg : Take(u)[v] > 0 => net[v] > 0
      /\ \A v \in LocMsg \ {u} : Take(u)[v] = net[v]
  BY Zenon, <1>2, <1>4, TakeType DEF Take
<1> HIDE DEF x, y
<1>6. /\ \A v \in LocMsg : Take(u)[v] > 0 => net'[v] > 0
      /\ \A v \in LocMsg : net'[v] > 0 =>
           \/ Take(u)[v] > 0
           \/ v.kind = "eager" /\ v.node = x /\ y = x
           \/ x = Home /\ v.kind = "update" /\ v.node = y
      /\ lookups' = IF x = Home THEN [a \in Node |-> 0] ELSE lookups
  BY <1>1, <1>2, <1>3, <1>5, RunPendingNews
<1>7. y = x => x = c
  BY Zenon, <1>3
<1>8. News(c, p)'
  <2> SUFFICES ASSUME NEW v \in LocMsg, net'[v] > 0 PROVE Genuine(v, c, p)
    BY Zenon DEF News
  <2>1. CASE net[v] > 0
    BY Zenon, <1>1, <2>1 DEF Trail, News
  <2>2. CASE v.kind \in {"eager", "update"} /\ v.node = c
    BY Zenon, <2>2 DEF Genuine
  <2> QED BY Zenon, <1>3, <1>5, <1>6, <1>7, <2>1, <2>2
<1>9. recs'[Home] = c \/ x # Home
  BY Zenon, <1>2, <1>3, <1>4
<1>10. x # Home => recs'[Home] = recs[Home]
                   /\ (net[UpdateLocation(Home, c)] > 0 => net'[UpdateLocation(Home, c)] > 0)
  BY Zenon, <1>2, <1>4, <1>5, <1>6 DEF x
<1>11. c \in reg' \/ transit' = c
  BY Zenon, <1>1, <1>2 DEF Trail
<1>12. recs'[Home] = c \/ transit' # None \/ net'[UpdateLocation(Home, c)] > 0
  BY Zenon, <1>1, <1>2, <1>9, <1>10 DEF Trail, HomeKnows
<1>13. ~ (recs'[Home] = None /\ transit' # None)
  <2>1. recs[Home] = None /\ transit # None => FALSE
    BY Zenon, <1>1, <1>2 DEF Trail, HomeKnows
  <2> QED BY Zenon, <1>2, <1>4, <1>9, <1>10, <2>1
<1>14. \A a \in Node : lookups'[a] > 0 =>
         recs'[Home] = None \/ net'[UpdateLocation(Home, c)] > 0
  BY SMTT(30), <1>1, <1>6, <1>10 DEF Trail, HomeKnows
<1>15. \A v \in LocMsg : net'[v] > 0 /\ v.kind = "request" => net[v] > 0
  BY <1>5, <1>6
<1> QED BY Zenon, <1>1, <1>2, <1>3, <1>8, <1>11, <1>12, <1>13, <1>14, <1>15, RecordTrail

\* getLocationRequest: the home answers with what it knows, if anything.
LEMMA RequestTrail ==
  ASSUME LocInv, TrailInv, NEW u \in LocMsg, HandleGetLocationRequest(u)
  PROVE  TrailInv'
<1> DEFINE found == IF Home \in reg THEN Home ELSE recs[Home]
           answer == UpdateLocation(u.node, found)
<1>1. PICK c \in Node, p \in Node : Trail(c, p)
  BY Zenon DEF TrailInv
<1>2. /\ net[u] > 0 /\ u.kind = "request" /\ UNCHANGED <<reg, transit>>
      /\ recs' = Refreshed(Home)
      /\ IF found = None
         THEN lookups' = [lookups EXCEPT ![u.node] = @ + 1] /\ net' = Take(u)
         ELSE net' = Send(Take(u), {answer}) /\ lookups' = lookups
  BY Zenon DEF HandleGetLocationRequest
<1>3. /\ recs \in [Node -> Node \cup {None}] /\ None \notin Node /\ Home \in Node
      /\ net \in [LocMsg -> Nat] /\ UpdateLocation(Home, c) \in LocMsg /\ TypeOK
      /\ lookups \in [Node -> Nat] /\ UpdateLocation(Home, c).kind = "update"
  BY Zenon, LocMsgs, LocationAssumption DEF LocInv, TypeOK, UpdateLocation
<1>4. /\ Take(u) \in [LocMsg -> Nat]
      /\ \A v \in LocMsg : Take(u)[v] > 0 => net[v] > 0
      /\ \A v \in LocMsg \ {u} : Take(u)[v] = net[v]
  BY <1>2, <1>3, TakeType DEF Take
<1>5. u.node # Home /\ (u.node = p => p = c \/ recs[Home] = c)
  BY Zenon, <1>1, <1>2 DEF Trail, News, Genuine, Breadcrumb
<1>6. Home \in reg => Home = c /\ transit = None
  BY Zenon, <1>1, OnePlace DEF Trail
<1>7. /\ found \in {p, c, None} /\ (found = None => recs[Home] = None /\ recs' = recs)
      /\ recs[Home] = c => found = c
  BY Zenon, <1>1, <1>2, <1>3, <1>6 DEF Trail, HomeKnows, Refreshed
<1>8. answer.kind = "update" /\ answer.to = u.node /\ answer.node = found
  BY Zenon DEF UpdateLocation
<1> HIDE DEF found, answer
<1>9. /\ \A v \in LocMsg : net'[v] > 0 => net[v] > 0 \/ (v = answer /\ found # None)
      /\ \A v \in LocMsg : v.kind # "request" /\ net[v] > 0 => net'[v] > 0
  BY SMTT(30), <1>2, <1>4 DEF Send
<1>10. News(c, p)'
  <2> SUFFICES ASSUME NEW v \in LocMsg, net'[v] > 0 PROVE Genuine(v, c, p)
    BY Zenon DEF News
  <2>1. CASE net[v] > 0
    BY Zenon, <1>1, <2>1 DEF Trail, News
  <2>2. CASE v = answer /\ found # None
    BY Zenon, <1>5, <1>7, <1>8, <2>2 DEF Genuine
  <2> QED BY Zenon, <1>9, <2>1, <2>2
<1> \A v \in LocMsg : net'[v] > 0 /\ v.kind = "request" => net[v] > 0
  BY <1>8, <1>9
<1>11. net[UpdateLocation(Home, c)] > 0 => net'[UpdateLocation(Home, c)] > 0
  BY Zenon, <1>3, <1>9
<1>12. c \in reg' \/ transit' = c
  BY Zenon, <1>1, <1>2 DEF Trail
<1>13. CASE Home \in reg
  <2>1. recs' = [recs EXCEPT ![Home] = c] /\ recs'[Home] = c
    BY Zenon, <1>2, <1>3, <1>6, <1>13 DEF Refreshed
  <2>2. \A a \in Node : lookups'[a] > 0 => net'[UpdateLocation(Home, c)] > 0
    <3>1. found # None /\ lookups' = lookups
      BY Zenon, <1>2, <1>3, <1>13 DEF found
    <3>2. recs[Home] = None => net[UpdateLocation(Home, c)] > 0
      BY Zenon, <1>1, <1>3, <1>6, <1>13 DEF Trail, HomeKnows
    <3> QED BY Zenon, <1>1, <1>11, <3>1, <3>2 DEF Trail, HomeKnows
  <2> QED BY Zenon, <1>1, <1>2, <1>3, <1>6, <1>10, <1>12, <1>13, <2>1, <2>2, RecordTrail
<1>14. CASE Home \notin reg
  <2>1. recs' = recs /\ found = recs[Home]
    BY Zenon, <1>2, <1>14 DEF Refreshed, found
  <2>2. recs[Home] = None /\ transit # None =>
          \A v \in LocMsg : net'[v] > 0 => v.kind = "request"
    BY Zenon, <1>1, <1>9, <2>1 DEF Trail, HomeKnows
  <2>3. \A a \in Node : lookups'[a] > 0 => lookups[a] > 0 \/ recs[Home] = None
    BY Zenon, <1>2, <2>1
  <2> QED BY Zenon, <1>1, <1>2, <1>10, <1>11, <1>12, <2>1, <2>2, <2>3, SameRecordsTrail
<1> QED BY Zenon, <1>13, <1>14

\* handleEagerUpdate: the news are of the node that has the entity, and so is
\* what is passed on.
LEMMA EagerTrail ==
  ASSUME LocInv, TrailInv, NEW u \in LocMsg, HandleEagerUpdate(u)
  PROVE  TrailInv'
<1> DEFINE x == u.to
           told == {EagerUpdate(a, u.node) : a \in asks[x] \ {x}}
<1>1. PICK c \in Node, p \in Node : Trail(c, p)
  BY Zenon DEF TrailInv
<1>2. /\ net[u] > 0 /\ u.kind = "eager" /\ UNCHANGED <<reg, transit, lookups>>
      /\ recs' = [recs EXCEPT ![x] = u.node] /\ net' = Send(Take(u), told)
  BY Zenon DEF HandleEagerUpdate
<1>3. x \in Node /\ u.node = c
  BY Zenon, <1>1, <1>2, LocMsgFields DEF Trail, News, Genuine
<1>4. /\ recs \in [Node -> Node \cup {None}] /\ None \notin Node /\ Home \in Node
      /\ net \in [LocMsg -> Nat] /\ UpdateLocation(Home, c) \in LocMsg /\ TypeOK
      /\ UpdateLocation(Home, c).kind = "update"
  BY Zenon, LocMsgs, LocationAssumption DEF LocInv, TypeOK, UpdateLocation
<1>5. /\ Take(u) \in [LocMsg -> Nat]
      /\ \A v \in LocMsg : Take(u)[v] > 0 => net[v] > 0
      /\ \A v \in LocMsg \ {u} : Take(u)[v] = net[v]
  BY SMTT(30), <1>2, <1>4, TakeType DEF Take
<1>6. \A v \in told : v.kind = "eager" /\ v.node = c
  BY SMTT(30), <1>3 DEF EagerUpdate
<1> HIDE DEF x, told
<1>7. /\ \A v \in LocMsg : net'[v] > 0 => net[v] > 0 \/ v \in told
      /\ \A v \in LocMsg : v.kind # "eager" /\ net[v] > 0 => net'[v] > 0
  BY <1>2, <1>5 DEF Send
<1>8. News(c, p)'
  <2> SUFFICES ASSUME NEW v \in LocMsg, net'[v] > 0 PROVE Genuine(v, c, p)
    BY Zenon DEF News
  <2>1. CASE net[v] > 0
    BY Zenon, <1>1, <2>1 DEF Trail, News
  <2>2. CASE v \in told
    BY Zenon, <1>6, <2>2 DEF Genuine
  <2> QED BY Zenon, <1>7, <2>1, <2>2
<1>9. net[UpdateLocation(Home, c)] > 0 => net'[UpdateLocation(Home, c)] > 0
  BY Zenon, <1>4, <1>7
<1>10. recs[Home] = None => transit = None /\ net[UpdateLocation(Home, c)] > 0
  BY Zenon, <1>1, <1>2, <1>4 DEF Trail, HomeKnows
<1>11. recs'[Home] \in {recs[Home], c}
  BY Zenon, <1>2, <1>3, <1>4
<1>12. recs'[Home] = c \/ transit' # None \/ net'[UpdateLocation(Home, c)] > 0
  BY Zenon, <1>1, <1>2, <1>9, <1>11 DEF Trail, HomeKnows
<1>13. ~ (recs'[Home] = None /\ transit' # None)
  BY Zenon, <1>2, <1>4, <1>10, <1>11
<1>14. \A a \in Node : lookups'[a] > 0 =>
         recs'[Home] = None \/ net'[UpdateLocation(Home, c)] > 0
  BY Zenon, <1>1, <1>2, <1>9, <1>10 DEF Trail, HomeKnows
<1>15. c \in reg' \/ transit' = c
  BY Zenon, <1>1, <1>2 DEF Trail
<1>16. \A v \in LocMsg : net'[v] > 0 /\ v.kind = "request" => net[v] > 0
  BY <1>6, <1>7
<1> QED BY Zenon, <1>1, <1>2, <1>3, <1>8, <1>12, <1>13, <1>14, <1>15, <1>16, RecordTrail

LEMMA InitTrail ==
  ASSUME Init PROVE TrailInv
<1> DEFINE c == transit
<1>1. c \in Node /\ None \notin Node /\ Home \in Node
  BY Zenon, LocationAssumption DEF Init
<1>2. News(c, c)
  BY DEF Init, News
<1>3. recs[Home] = None /\ transit # None
  BY Zenon, <1>1 DEF Init
<1>4. HomeKnows(c, c)
  BY <1>1, <1>3 DEF Init, HomeKnows
<1>5. Leads(c)
  BY Zenon, <1>1 DEF Init, Leads, Closed, NextHop
<1>6. Trail(c, c)
  BY Zenon, <1>2, <1>4, <1>5 DEF Trail, Breadcrumb
<1> QED BY Zenon, <1>1, <1>6 DEF TrailInv

LEMMA SameTrail ==
  ASSUME TrailInv, UNCHANGED <<reg, transit, recs, lookups, net>>
  PROVE  TrailInv'
<1>1. PICK c \in Node, p \in Node : Trail(c, p)
  BY Zenon DEF TrailInv
<1>2. News(c, p)' /\ Breadcrumb(c, p)' /\ HomeKnows(c, p)' /\ Leads(c)'
  BY Zenon, <1>1 DEF Trail, News, Breadcrumb, HomeKnows, Leads, Closed, NextHop
<1>3. Trail(c, p)'
  BY Zenon, <1>1, <1>2 DEF Trail
<1> QED BY Zenon, <1>3 DEF TrailInv

\* What came too early stays so.
LEMMA HastyStays ==
  ASSUME hasty, Next PROVE hasty'
BY Zenon DEF Next, Step, Handle, RegisterEntity, Evict, EntityEmigrated, SendHere, SendAway,
   RoutedHandler, RoutePreparedMsg, HandleUpdateLocation, HandleGetLocationRequest,
   HandleEagerUpdate, rest

LEMMA NextTrail ==
  ASSUME LocInv, TrailInv, ~ hasty', Next
  PROVE  TrailInv'
<1>1. ASSUME NEW n \in Node, RegisterEntity(n) \/ Evict(n)
      PROVE  TrailInv'
  BY Zenon, <1>1, RegisterTrail, EvictTrail
<1>2. ASSUME NEW n \in Node, NEW k \in Node, EntityEmigrated(n, k)
      PROVE  TrailInv'
  BY Zenon, <1>2, EmigratedTrail
<1>3. ASSUME NEW n \in Node, NEW m \in Msg, SendHere(n, m) \/ SendAway(n, m)
      PROVE  TrailInv'
  <2>1. UNCHANGED <<reg, transit, recs, lookups, net>> \/ RoutePreparedMsg(n, m)
    BY Zenon, <1>3 DEF SendHere, SendAway
  <2> QED BY Zenon, <2>1, SameTrail, RouteTrail
<1>4. ASSUME NEW m \in Msg, RoutedHandler(m)
      PROVE  TrailInv'
  <2> DEFINE n == msg[m].node
  <2>1. RoutePreparedMsg(n, m) /\ msg[m].place = "flying" /\ msg[m] \in MsgRec
    BY Zenon, <1>4 DEF RoutedHandler, LocInv
  <2>2. n \in Node
    BY Zenon, <2>1 DEF MsgRec
  <2> HIDE DEF n
  <2> QED BY Zenon, <2>1, <2>2, RouteTrail
<1>5. ASSUME NEW u \in LocMsg, Handle(u)
      PROVE  TrailInv'
  BY Zenon, <1>5, UpdateTrail, RequestTrail, EagerTrail DEF Handle
<1> QED BY Zenon, <1>1, <1>2, <1>3, <1>4, <1>5 DEF Next, Step, InFlight

\* For any nodes, messages, moves and evictions: when the location traffic is
\* over, the records of all the nodes lead to the entity, wherever breadcrumbs,
\* caches and the home point, unless a move came amid location traffic or an
\* eviction before the home knew of the last move.
THEOREM RecordsLeadAlways == Spec => []RecordsLead
<1>1. Init => (hasty \/ TrailInv)
  BY Zenon, InitTrail
<1>2. LocInv /\ (hasty \/ TrailInv) /\ [Next]_vars => (hasty \/ TrailInv)'
  BY Zenon, NextTrail, HastyStays, SameTrail DEF vars, rest
<1>3. LocInv /\ (hasty \/ TrailInv) => RecordsLead
  <2> SUFFICES ASSUME LocInv, TrailInv, InFlight = {}, reg # {},
                      NEW S \in (SUBSET Node) \ {{}}, \A n \in S : NextHop(n) \in S
               PROVE  S \cap reg # {}
    BY Zenon DEF RecordsLead
  <2>1. PICK c \in Node, p \in Node : Trail(c, p)
    BY Zenon DEF TrailInv
  <2>2. transit = None
    BY Zenon DEF LocInv, TypeOK
  <2>3. recs[Home] = c /\ reg = {c} /\ None \notin Node
    BY Zenon, <2>1, <2>2, HomeAtRest, LocationAssumption
  <2>4. c \in S
    BY Zenon, <2>1, <2>3 DEF Trail, Leads, Closed
  <2> QED BY Zenon, <2>3, <2>4
<1> QED BY <1>1, <1>2, <1>3, LocInvHolds, PTL DEF Spec

\* registerEntity and entityEmigrated keep one entity, registered on one node or
\* on its way to one, and every record, request and message keeps its type.
THEOREM LocationTypes == Spec => []TypeOK
<1>1. LocInv => TypeOK
  BY Zenon DEF LocInv
<1> QED BY <1>1, LocInvHolds, PTL

\* The eager protocol applies a message only on the node that has the entity,
\* whatever the order of messages, migrations and evictions.
THEOREM EagerApplied == Spec => EagerAppliedAtEntity
<1>1. LocInv /\ [Next]_vars
        => [(\A m \in Msg : msg[m].eager)
              => \A m \in Msg : Applied(m) => msg'[m].node \in reg']_vars
  BY Zenon, NextStep DEF AppliedHere, AllEager
<1> QED BY <1>1, LocInvHolds, PTL DEF Spec, EagerAppliedAtEntity
=============================================================================
