-------------------------- MODULE CollectionProofs --------------------------
(***************************************************************************)
(* Proof that an index which was not put away from its home when the       *)
(* collection was made never has two elements, for any nodes and indices,  *)
(* any program of sections and any number of operations.                   *)
(***************************************************************************)
EXTENDS Collection, TLAPS

\* Every node has a holder.
Holders ==
  /\ held = [n \in Node |-> held[n]]
  /\ erased = [n \in Node |-> erased[n]]

\* The inductive invariant.
IndInv == Holders /\ OneElement

\* Steps that change no element, no record, and carry nothing new keep it.
LEMMA NothingNew ==
  ASSUME IndInv, UNCHANGED <<held, erased, away>>, known \subseteq known',
         \A m \in net' : m.type \in {"migrate", "granted"} => m \in net
  PROVE  IndInv'
<1>1. Holders'
  BY Zenon DEF IndInv, Holders
<1>2. ASSUME NEW i \in Index \ away PROVE At(i)' = At(i) /\ OnItsWay(i)' \subseteq OnItsWay(i)
  BY Zenon DEF At, Exists, OnItsWay
<1>3. OneElement'
  BY <1>2 DEF IndInv, OneElement
<1> QED BY Zenon, <1>1, <1>3 DEF IndInv

\* An element may be put where it was on its way to, or where there was none.
LEMMA ElementInserted ==
  ASSUME IndInv, NEW n, NEW i, NEW rest, rest \subseteq net,
         InsertCollectionElement(n, i, rest), away' = away,
         i \in Index \ away =>
           /\ At(i) = {}
           /\ \A m \in rest : ~(m.type \in {"migrate", "granted"} /\ m.idx = i)
           /\ i \in known \/ n = Home[i]
  PROVE  IndInv'
<1>1. CASE Exists(n, i)
  BY Zenon, <1>1, NothingNew DEF InsertCollectionElement, elmVars
<1>2. CASE ~Exists(n, i)
  <2>1. /\ HolderInsert(n, i)
        /\ known \subseteq known' /\ (i \in Index \ away => i \in known')
        /\ \A m \in net' : m.type \in {"migrate", "granted"} => m \in rest
    BY <1>2 DEF InsertCollectionElement
  <2>2. /\ held' = [held EXCEPT ![n] = @ \cup {i}]
        /\ erased' = [erased EXCEPT ![n] = @ \ {i}]
    BY Zenon, <2>1 DEF HolderInsert
  <2>3. Holders'
    BY Zenon, <2>2 DEF IndInv, Holders
  <2>4. \A j : j # i => At(j)' = At(j)
    BY Zenon, <2>2 DEF IndInv, Holders, At, Exists
  <2>5. i \in Index \ away => At(i)' \subseteq {n}
    BY Zenon, <2>2 DEF IndInv, Holders, At, Exists
  <2>6. (i \in Index \ away => OnItsWay(i)' = {}) /\ \A j : OnItsWay(j)' \subseteq OnItsWay(j)
    BY Zenon, <2>1 DEF OnItsWay
  <2>7. OneElement'
    BY <2>1, <2>4, <2>5, <2>6 DEF IndInv, OneElement
  <2> QED BY Zenon, <2>3, <2>7 DEF IndInv
<1> QED BY Zenon, <1>1, <1>2

\* Removing an element leaves none of its index.
LEMMA ElementRemoved ==
  ASSUME IndInv, NEW n \in Node, NEW i, Exists(n, i), HolderRemove(n, i), away' = away
  PROVE  /\ Holders' /\ \A j : j # i => At(j)' = At(j)
         /\ i \in Index \ away => At(i)' = {} /\ OnItsWay(i) = {} /\ i \in known
<1>1. /\ held' = held
      /\ erased' = [erased EXCEPT ![n] = @ \cup {i}]
  BY Zenon DEF HolderRemove
<1>2. Holders'
  BY Zenon, <1>1 DEF IndInv, Holders
<1>3. i \in Index \ away => At(i) = {n} /\ OnItsWay(i) = {} /\ i \in known
  BY DEF IndInv, OneElement, At
<1>4. i \in Index \ away => At(i)' = {}
  BY Zenon, <1>1, <1>3 DEF IndInv, Holders, At, Exists
<1>5. \A j : j # i => At(j)' = At(j)
  BY Zenon, <1>1 DEF IndInv, Holders, At, Exists
<1> QED BY Zenon, <1>2, <1>3, <1>4, <1>5

\* foreach drops entries that were erased, and no element.
LEMMA CleanupKeeps ==
  ASSUME IndInv, NEW n, CleanupExists(n), known' = known, away' = away,
         \A m \in net' : m.type \in {"migrate", "granted"} => m \in net
  PROVE  IndInv'
<1>1. /\ held' = [held EXCEPT ![n] = @ \ erased[n]]
      /\ erased' = [erased EXCEPT ![n] = {}]
  BY Zenon DEF CleanupExists
<1>2. Holders'
  BY Zenon, <1>1 DEF IndInv, Holders
<1>3. \A i : At(i)' = At(i)
  BY Zenon, <1>1 DEF IndInv, Holders, At, Exists
<1>4. \A i : OnItsWay(i)' \subseteq OnItsWay(i)
  BY Zenon DEF OnItsWay
<1>5. OneElement'
  BY <1>3, <1>4 DEF IndInv, OneElement
<1> QED BY Zenon, <1>2, <1>5 DEF IndInv

\* insert, called by the user or by the handler of a granted insertion.
LEMMA InsertOnKeeps ==
  ASSUME IndInv, NEW n, NEW i, NEW k, NEW by, NEW pinged \in BOOLEAN, NEW rest,
         rest \subseteq net, InsertOn(n, i, k, by, pinged, rest), away' = away,
         pinged => \E m \in OnItsWay(i) : rest = net \ {m}
  PROVE  IndInv'
<1>1. CASE InsertCollectionElement(n, i, rest) /\ pinged
  <2>1. PICK m \in OnItsWay(i) : rest = net \ {m}
    BY Zenon, <1>1
  <2>2. i \in Index \ away => At(i) = {} /\ i \in known /\ \A o \in OnItsWay(i) : o = m
    BY Zenon, <2>1 DEF IndInv, OneElement
  <2>3. i \in Index \ away => \A o \in rest : ~(o.type \in {"migrate", "granted"} /\ o.idx = i)
    BY Zenon, <2>1, <2>2 DEF OnItsWay
  <2> QED BY Zenon, <1>1, <2>2, <2>3, ElementInserted
<1>2. CASE InsertCollectionElement(n, i, rest) /\ Home[i] = n /\ i \notin known
  <2>1. i \in Index \ away => At(i) = {} /\ OnItsWay(i) = {}
    BY Zenon, <1>2 DEF IndInv, OneElement
  <2>2. i \in Index \ away => \A o \in rest : ~(o.type \in {"migrate", "granted"} /\ o.idx = i)
    BY Zenon, <2>1 DEF OnItsWay
  <2> QED BY Zenon, <1>2, <2>1, <2>2, ElementInserted
<1>3. CASE UNCHANGED elmVars /\ \A m \in net' : m.type \in {"migrate", "granted"} => m \in net
  BY Zenon, <1>3, NothingNew DEF elmVars
<1>4. \/ InsertCollectionElement(n, i, rest) /\ pinged
      \/ InsertCollectionElement(n, i, rest) /\ Home[i] = n /\ i \notin known
      \/ UNCHANGED elmVars /\ \A m \in net' : m.type \in {"migrate", "granted"} => m \in net
  BY DEF InsertOn, InsertMsg
<1> QED BY Zenon, <1>1, <1>2, <1>3, <1>4

\* An element that leaves is in a message, and nowhere else.
LEMMA MigrateOutKeeps ==
  ASSUME IndInv, NEW n \in Node, NEW t, MigrateOut(n, t)
  PROVE  IndInv'
<1> away' = away
  BY Zenon DEF MigrateOut, fixed
<1>1. CASE UNCHANGED <<elmVars, net>>
  BY Zenon, <1>1, NothingNew DEF elmVars
<1>2. CASE ~UNCHANGED <<elmVars, net>>
  <2> DEFINE i == t.idx
             mine == [type |-> "migrate", to |-> t.to, idx |-> i]
  <2>1. Exists(n, i) /\ HolderRemove(n, i) /\ net' = net \cup {mine} /\ known' = known
    BY Zenon, <1>2 DEF MigrateOut
  <2>2. /\ Holders' /\ \A j : j # i => At(j)' = At(j)
        /\ i \in Index \ away => At(i)' = {} /\ OnItsWay(i) = {} /\ i \in known
    BY Zenon, <2>1, ElementRemoved
  <2>3. i \in Index \ away => OnItsWay(i)' \subseteq {mine}
    BY Zenon, <2>1, <2>2 DEF OnItsWay
  <2>4. \A j : j # i => OnItsWay(j)' = OnItsWay(j)
    BY <2>1 DEF OnItsWay
  <2>5. OneElement'
    BY <2>1, <2>2, <2>3, <2>4 DEF IndInv, OneElement
  <2> QED BY Zenon, <2>2, <2>5 DEF IndInv
<1> QED BY Zenon, <1>1, <1>2

\* A removal makes the home forget the index only if the element was there.
LEMMA RemoveElementKeeps ==
  ASSUME IndInv, NEW n \in Node, RemoveElement(n)
  PROVE  IndInv'
<1>0. PICK i : i = Head(queue[n]).idx
  BY Zenon
<1>1. net' = net /\ away' = away
  BY Zenon DEF RemoveElement, fixed
<1>2. CASE ~Exists(n, i)
  BY Zenon, <1>0, <1>1, <1>2, NothingNew DEF RemoveElement, elmVars
<1>3. CASE Exists(n, i)
  <2>1. HolderRemove(n, i) /\ known \ {i} \subseteq known'
    BY Zenon, <1>0, <1>3 DEF RemoveElement
  <2>2. /\ Holders' /\ \A j : j # i => At(j)' = At(j)
        /\ i \in Index \ away => At(i)' = {} /\ OnItsWay(i) = {} /\ i \in known
    BY Zenon, <1>1, <1>3, <2>1, ElementRemoved
  <2>3. \A j : OnItsWay(j)' = OnItsWay(j)
    BY Zenon, <1>1 DEF OnItsWay
  <2>4. OneElement'
    BY <1>1, <2>1, <2>2, <2>3 DEF IndInv, OneElement
  <2> QED BY Zenon, <2>2, <2>4 DEF IndInv
<1> QED BY Zenon, <1>2, <1>3

\* The home grants an insertion only if there is nothing of the index anywhere.
LEMMA PingHomeKeeps ==
  ASSUME IndInv, NEW n, NEW m \in net, PingHomeHandler(n, m)
  PROVE  IndInv'
<1>1. UNCHANGED <<held, erased, away>>
  BY Zenon DEF PingHomeHandler, fixed
<1>2. CASE m.idx \in known
  BY Zenon, <1>1, <1>2, NothingNew DEF PingHomeHandler
<1>3. CASE m.idx \notin known
  <2> DEFINE i == m.idx
             grant == InsertMsg("granted", m.node, i, m.node, m.by)
  <2>1. known' = known \cup {i} /\ net' = (net \ {m}) \cup {grant}
    BY Zenon, <1>3 DEF PingHomeHandler
  <2>2. \A j : At(j)' = At(j)
    BY Zenon, <1>1 DEF At, Exists
  <2>3. i \in Index \ away => At(i) = {} /\ OnItsWay(i) = {}
    BY Zenon, <1>3 DEF IndInv, OneElement
  <2>4. i \in Index \ away => OnItsWay(i)' \subseteq {grant}
    BY Zenon, <2>1, <2>3 DEF OnItsWay, InsertMsg
  <2>5. \A j : j # i => OnItsWay(j)' \subseteq OnItsWay(j)
    BY <2>1 DEF OnItsWay, InsertMsg
  <2>6. OneElement'
    BY <1>1, <2>1, <2>2, <2>3, <2>4, <2>5 DEF IndInv, OneElement
  <2>7. Holders'
    BY Zenon, <1>1 DEF IndInv, Holders
  <2> QED BY Zenon, <2>6, <2>7 DEF IndInv
<1> QED BY Zenon, <1>2, <1>3

\* A migration arrives: the message was the only copy.
LEMMA MigrateInKeeps ==
  ASSUME IndInv, NEW n, NEW m \in net, MigrateInHandler(n, m)
  PROVE  IndInv'
<1> DEFINE i == m.idx
<1>1. m.type = "migrate" /\ InsertCollectionElement(n, i, net \ {m}) /\ away' = away
  BY Zenon DEF MigrateInHandler, fixed
<1>2. i \in Index \ away => At(i) = {} /\ i \in known /\ \A o \in OnItsWay(i) : o = m
  BY Zenon, <1>1 DEF IndInv, OneElement, OnItsWay
<1>3. i \in Index \ away => \A o \in net \ {m} : ~(o.type \in {"migrate", "granted"} /\ o.idx = i)
  BY Zenon, <1>2 DEF OnItsWay
<1> QED BY Zenon, <1>1, <1>2, <1>3, ElementInserted

\* An insertion arrives at its node, granted or not.
LEMMA InsertHandlerKeeps ==
  ASSUME IndInv, NEW n, NEW m \in net, InsertHandler(n, m)
  PROVE  IndInv'
<1>1. InsertOn(n, m.idx, m.node, m.by, m.type = "granted", net \ {m}) /\ away' = away
  BY Zenon DEF InsertHandler, fixed
<1>2. m.type = "granted" => m \in OnItsWay(m.idx)
  BY Zenon DEF OnItsWay
<1>3. (m.type = "granted") \in BOOLEAN /\ net \ {m} \subseteq net
  BY Zenon
<1>4. m.type = "granted" => \E o \in OnItsWay(m.idx) : net \ {m} = net \ {o}
  BY Zenon, <1>2
<1> QED BY Zenon, <1>1, <1>3, <1>4, InsertOnKeeps

\* Coming to a section a node may clean up its holder and send lists.
LEMMA ProceedKeeps ==
  ASSUME IndInv, NEW n, Proceed(n)
  PROVE  IndInv'
<1> DEFINE s == Prog[Follow(pc[n])]
<1>1. Begin(n, s) /\ known' = known /\ away' = away
  BY Zenon DEF Proceed, fixed
<1>2. CASE s = "stamp"
  BY Zenon, <1>1, <1>2, CleanupKeeps DEF Begin
<1>3. CASE s # "stamp"
  <2>1. UNCHANGED <<held, erased, away>>
    BY Zenon, <1>1, <1>3 DEF Begin
  <2>2. \A m \in net' : m.type \in {"migrate", "granted"} => m \in net
    BY <1>1, <1>3 DEF Begin, InformHosts, InformNewHosts, ListMsgs, ListMsg
  <2> QED BY Zenon, <1>1, <2>1, <2>2, NothingNew
<1> QED BY Zenon, <1>2, <1>3

-----------------------------------------------------------------------------
\* A message is handled.
LEMMA HandleKeeps ==
  ASSUME IndInv, NEW n, NEW m \in net, Handle(n, m)
  PROVE  IndInv'
<1>1. CASE UpdateLocation(n, m)
  BY Zenon, <1>1, NothingNew DEF UpdateLocation, fixed
<1>2. CASE InsertHandler(n, m)
  BY Zenon, <1>2, InsertHandlerKeeps
<1>3. CASE PingHomeHandler(n, m)
  BY Zenon, <1>3, PingHomeKeeps
<1>4. CASE DestroyElmHandler(n, m)
  <2>1. UNCHANGED <<held, erased, known, away>>
    BY Zenon, <1>4 DEF DestroyElmHandler, fixed, elmVars
  <2>2. \A o \in net' : o.type \in {"migrate", "granted"} => o \in net
    BY Zenon, <1>4 DEF DestroyElmHandler, DestroyOn
  <2> QED BY Zenon, <2>1, <2>2, NothingNew
<1>5. CASE MigrateInHandler(n, m)
  BY Zenon, <1>5, MigrateInKeeps
<1>6. CASE NotifyCurrentHost(n, m) \/ NotifyNewHost(n, m)
  BY Zenon, <1>6, NothingNew DEF NotifyCurrentHost, NotifyNewHost, fixed, elmVars
<1>7. CASE BroadcastRootHandler(n, m)
  <2>1. UNCHANGED <<held, erased, known, away>>
    BY Zenon, <1>7 DEF BroadcastRootHandler, fixed, elmVars
  <2>2. \A o \in net' : o.type \in {"migrate", "granted"} => o \in net
    BY <1>7 DEF BroadcastRootHandler, BroadcastFromRoot
  <2> QED BY Zenon, <2>1, <2>2, NothingNew
<1>8. CASE CollectionBcastHandler(n, m)
  BY Zenon, <1>8, CleanupKeeps DEF CollectionBcastHandler, fixed
<1> QED BY Zenon, <1>1, <1>2, <1>3, <1>4, <1>5, <1>6, <1>7, <1>8 DEF Handle

\* Every step preserves the invariant.
LEMMA NextKeeps == IndInv /\ [Next]_vars => IndInv'
<1> SUFFICES ASSUME IndInv, [Next]_vars PROVE IndInv'
  BY Zenon
<1>1. ASSUME NEW n \in Node, NEW k \in Node, NEW i \in Index, Insert(n, i, k) PROVE IndInv'
  <2>1. InsertOn(n, i, k, n, FALSE, net) /\ away' = away
    BY Zenon, <1>1 DEF Insert, fixed
  <2> QED BY Zenon, <2>1, InsertOnKeeps
<1>2. ASSUME NEW n \in Node, NEW i \in Index, DestroyElm(n, i) PROVE IndInv'
  <2>1. UNCHANGED <<held, erased, known, away>>
    BY Zenon, <1>2 DEF DestroyElm, fixed, elmVars
  <2>2. \A o \in net' : o.type \in {"migrate", "granted"} => o \in net
    BY <1>2 DEF DestroyElm, DestroyOn
  <2> QED BY Zenon, <2>1, <2>2, NothingNew
<1>3. ASSUME NEW n \in Node, RemoveElement(n) \/ EpochTerminated(n) PROVE IndInv'
  BY Zenon, <1>3, RemoveElementKeeps, NothingNew DEF EpochTerminated, fixed, elmVars
<1>4. ASSUME NEW n \in Node, NEW to \in Node, NEW i \in Index, MigrateObjectTo(n, i, to)
      PROVE  IndInv'
  BY Zenon, <1>4, NothingNew DEF MigrateObjectTo, fixed, elmVars
<1>5. ASSUME NEW n \in Node, BroadcastMsg(n) PROVE IndInv'
  <2>1. UNCHANGED <<held, erased, known, away>>
    BY Zenon, <1>5 DEF BroadcastMsg, fixed, elmVars
  <2>2. \A o \in net' : o.type \in {"migrate", "granted"} => o \in net
    BY <1>5 DEF BroadcastMsg, BroadcastFromRoot
  <2> QED BY Zenon, <2>1, <2>2, NothingNew
<1>6. ASSUME NEW n \in Node, FinishedEpoch(n) PROVE IndInv'
  BY Zenon, <1>6, NothingNew DEF FinishedEpoch, fixed, elmVars
<1>7. ASSUME NEW n \in Node, Proceed(n) PROVE IndInv'
  BY Zenon, <1>7, ProceedKeeps
<1>8. ASSUME NEW n \in Node, NEW t \in migrating[n], MigrateOut(n, t) PROVE IndInv'
  BY Zenon, <1>8, MigrateOutKeeps
<1>9. ASSUME NEW m \in net, NEW n \in Destination(m), Handle(n, m) PROVE IndInv'
  BY Zenon, <1>9, HandleKeeps
<1>10. CASE SectionEnds
  BY Zenon, <1>10, NothingNew DEF SectionEnds, fixed, elmVars
<1>11. CASE UNCHANGED vars
  BY Zenon, <1>11, NothingNew DEF vars, fixed, elmVars
<1> QED BY Zenon, <1>1, <1>2, <1>3, <1>4, <1>5, <1>6, <1>7, <1>8, <1>9, <1>10, <1>11 DEF Next, Finished, Unrouted

\* However the nodes insert, destroy and migrate elements, an index has one
\* element at most, live or on its way, and its home has a record of it; but
\* for the indices listInsertHere put away from their homes.
THEOREM OneElementAlways == Spec => []OneElement
<1>1. Init => IndInv
  BY CollectionAssumption DEF Init, IndInv, Holders, OneElement, At, Exists, OnItsWay
<1>2. IndInv => OneElement
  BY Zenon DEF IndInv
<1> QED BY <1>1, <1>2, NextKeeps, PTL DEF Spec
=============================================================================
