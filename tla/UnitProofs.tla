----------------------------- MODULE UnitProofs -----------------------------
(***************************************************************************)
(* Who keeps an epoch open: the units that messages hold while they travel *)
(* (Messenger), and those that predecessors hold of their successors       *)
(* (EpochDependency).                                                      *)
(***************************************************************************)
EXTENDS Messenger, EpochDependency, FiniteSetTheorems, TLAPS

-----------------------------------------------------------------------------
(***************************************************************************)
(* For any senders, receivers, tags and chunks and any number of messages: *)
(* a message runs with its own payload, and the units the messenger        *)
(* produces and consumes keep the epochs open exactly as long as needed.   *)
(*                                                                         *)
(* PayloadOwn needs to know where the data is before a message runs: until *)
(* the receive is posted the data under its source, destination and tag is *)
(* its payload and nothing else, and data under a channel belongs to some  *)
(* message sent with it, so a fresh channel is empty.  This also needs     *)
(* that the stages a message goes through depend on its kind.              *)
(*                                                                         *)
(* EpochHeld needs the counts themselves: each is the number of units held *)
(* by the messages, where what a message holds depends on its kind and its *)
(* stage.  The units are counted as a set of pairs.                        *)
(***************************************************************************)

\* The stages a message of a kind goes through.
Stages(kind) ==
  CASE kind = "small" -> {"wire", "irecv", "run"}
    [] kind = "put" -> {"wire", "irecv", "pending", "dropped", "data", "cont", "run"}
    [] kind = "multi" -> {"wire", "irecv", "control", "data", "cont", "run"}

Stage == UNION {Stages(kind) : kind \in Kind}

Bytes == Seq(Nat \X Nat)

MsgRec == [from : Sender, to : Receiver, kind : Kind, tag : Tag, stage : Stage, got : Bytes]

Types ==
  /\ msgs \in Seq(MsgRec)
  /\ \A m \in Msg : msgs[m].stage \in Stages(msgs[m].kind)
  /\ curTag \in [Sender -> 0 .. MaxTag]
  /\ data \in [Channel -> Bytes]
  /\ epoch \in Int /\ anyEpoch \in Int

-----------------------------------------------------------------------------
\* The inductive invariant.

\* The data of message m has been received.
Received(m) == msgs[m].stage \in {"data", "cont", "run"}

\* The data that belongs to message m.
Whole(m) == Payload(m, NumChunks(msgs[m].kind))

\* Data is where it belongs.
OwnData ==
  /\ \A m \in Msg : ~ TagShared(m) => (Received(m) => msgs[m].got = Whole(m))
  /\ \A m \in Msg : msgs[m].kind # "small" /\ ~ TagShared(m) /\ ~ Received(m)
                      => data[ChannelOf(m)] = Whole(m)
  /\ \A m \in Msg : msgs[m].kind = "small" => msgs[m].got = << >>
  /\ \A c \in Channel : data[c] # << >>
       => \E k \in Msg : msgs[k].kind # "small" /\ ChannelOf(k) = c

\* The units of its epoch, and of the any-epoch, that message m holds.
Held(m) ==
  CASE msgs[m].stage = "run" -> 0
    [] msgs[m].kind = "multi" /\ msgs[m].stage \in {"wire", "irecv"} -> 2
    [] OTHER -> 1

AnyHeld(m) ==
  IF msgs[m].stage = "run" THEN 0 ELSE Held(m) + (IF msgs[m].kind = "small" THEN 0 ELSE 1)

\* Units held one by one: unit i of message m.
Held3 == [1 .. MaxMsgs -> 0 .. 3]
UnitsOf(h) == {u \in (1 .. MaxMsgs) \X (1 .. 3) : u[2] <= h[u[1]]}

HeldBy == [m \in 1 .. MaxMsgs |-> IF m \in Msg THEN Held(m) ELSE 0]
AnyHeldBy == [m \in 1 .. MaxMsgs |-> IF m \in Msg THEN AnyHeld(m) ELSE 0]

\* The counts are the numbers of units held.
Counted ==
  /\ Len(msgs) <= MaxMsgs
  /\ epoch = Cardinality(UnitsOf(HeldBy))
  /\ anyEpoch = Cardinality(UnitsOf(AnyHeldBy))

MsgInv == Types /\ OwnData /\ Counted

(***************************************************************************)
(* Counting units.                                                         *)
(***************************************************************************)

\* A finite number of units is held.
LEMMA UnitsFinite ==
  ASSUME NEW h \in Held3
  PROVE  IsFiniteSet(UnitsOf(h)) /\ Cardinality(UnitsOf(h)) \in Nat
<1>0. 1 \in Int /\ 3 \in Int /\ MaxMsgs \in Int
  BY MessengerAssumption
<1>1. IsFiniteSet(1 .. MaxMsgs) /\ IsFiniteSet(1 .. 3)
  BY Zenon, <1>0, FS_Interval
<1>2. IsFiniteSet((1 .. MaxMsgs) \X (1 .. 3))
  BY Zenon, <1>1, FS_Product
<1>3. UnitsOf(h) \subseteq (1 .. MaxMsgs) \X (1 .. 3)
  BY Zenon DEF UnitsOf
<1> QED
  BY Zenon, <1>2, <1>3, FS_Subset, FS_CardinalityType

\* One more unit for m is one more unit.
LEMMA OneUnit ==
  ASSUME NEW h \in Held3, NEW g \in Held3, NEW m \in 1 .. MaxMsgs,
         \A k \in 1 .. MaxMsgs : k # m => g[k] = h[k], g[m] = h[m] + 1
  PROVE  Cardinality(UnitsOf(g)) = Cardinality(UnitsOf(h)) + 1
<1>1. UnitsOf(g) = UnitsOf(h) \cup {<<m, g[m]>>}
  BY MessengerAssumption DEF UnitsOf, Held3
<1>2. <<m, g[m]>> \notin UnitsOf(h)
  BY DEF UnitsOf, Held3
<1> QED
  BY Zenon, <1>1, <1>2, UnitsFinite, FS_AddElement

\* What one message gains or gives up is what the sum gains or loses.
LEMMA UnitsChange ==
  ASSUME NEW h \in Held3, NEW g \in Held3, NEW m \in 1 .. MaxMsgs,
         \A k \in 1 .. MaxMsgs : k # m => g[k] = h[k]
  PROVE  Cardinality(UnitsOf(g)) = Cardinality(UnitsOf(h)) + g[m] - h[m]
<1> DEFINE F(j) == [h EXCEPT ![m] = j]
           C(j) == Cardinality(UnitsOf(F(j)))
<1>1. \A j \in 0 .. 3 : F(j) \in Held3 /\ C(j) \in Nat
  BY Zenon, UnitsFinite DEF Held3
<1>2. ASSUME NEW j \in 0 .. 2 PROVE C(j + 1) = C(j) + 1
  <2>1. F(j) \in Held3 /\ F(j + 1) \in Held3 /\ F(j + 1)[m] = F(j)[m] + 1
        /\ \A k \in 1 .. MaxMsgs : k # m => F(j + 1)[k] = F(j)[k]
    BY <1>1 DEF Held3
  <2> HIDE DEF F
  <2> QED
    BY Zenon, <2>1, OneUnit
<1>3. h = F(h[m]) /\ g = F(g[m])
  BY Zenon DEF Held3
<1>4. h[m] \in 0 .. 3 /\ g[m] \in 0 .. 3
  BY Zenon DEF Held3
<1>5. C(1) = C(0) + 1 /\ C(2) = C(1) + 1 /\ C(3) = C(2) + 1
  <2>1. C(0 + 1) = C(0) + 1 /\ C(1 + 1) = C(1) + 1 /\ C(2 + 1) = C(2) + 1
    BY <1>2
  <2> QED
    BY <2>1
<1>6. Cardinality(UnitsOf(h)) = C(h[m]) /\ Cardinality(UnitsOf(g)) = C(g[m])
  BY Zenon, <1>3
<1> HIDE DEF C, F
<1> QED
  BY <1>1, <1>4, <1>5, <1>6

\* No unit is held when the count is zero, and only then.
LEMMA NoUnits ==
  ASSUME NEW h \in Held3
  PROVE  Cardinality(UnitsOf(h)) = 0 <=> \A m \in 1 .. MaxMsgs : h[m] = 0
<1>1. Cardinality(UnitsOf(h)) = 0 <=> UnitsOf(h) = {}
  BY Zenon, UnitsFinite, FS_EmptySet
<1>2. ASSUME NEW m \in 1 .. MaxMsgs, h[m] # 0 PROVE <<m, 1>> \in UnitsOf(h)
  BY <1>2 DEF UnitsOf, Held3
<1>3. (\A m \in 1 .. MaxMsgs : h[m] = 0) => UnitsOf(h) = {}
  BY DEF UnitsOf
<1> QED
  BY Zenon, <1>1, <1>2, <1>3

(***************************************************************************)
(* What a step does to the messages.                                       *)
(***************************************************************************)

\* Message m goes to a stage and has what it got; nothing else moves.
Moved(m, stage, got) ==
  /\ Len(msgs') = Len(msgs)
  /\ \A k \in Msg : k # m => msgs'[k] = msgs[k]
  /\ \A k \in Msg : /\ msgs'[k].from = msgs[k].from /\ msgs'[k].to = msgs[k].to
                    /\ msgs'[k].kind = msgs[k].kind /\ msgs'[k].tag = msgs[k].tag
  /\ msgs'[m].stage = stage
  /\ msgs'[m].got = got

\* The assignment that does it.
Put(m, stage, got) == msgs' = [msgs EXCEPT ![m].stage = stage, ![m].got = got]

\* What is known of every message.
LEMMA MsgFacts ==
  ASSUME Types, NEW m \in Msg
  PROVE  /\ msgs[m] \in MsgRec /\ m \in Nat \ {0} /\ Len(msgs) \in Nat /\ m <= Len(msgs)
         /\ msgs[m].kind \in Kind /\ msgs[m].stage \in Stages(msgs[m].kind)
         /\ ChannelOf(m) \in Channel /\ msgs[m].got \in Bytes
<1>1. msgs[m] \in MsgRec /\ m \in Nat \ {0} /\ Len(msgs) \in Nat /\ m <= Len(msgs)
      /\ msgs[m].stage \in Stages(msgs[m].kind)
  BY DEF Types, Msg
<1> QED
  BY Zenon, <1>1 DEF MsgRec, ChannelOf, Channel

\* A sequence with one element replaced.
LEMMA Replaced ==
  ASSUME NEW S, NEW q \in Seq(S), NEW m \in 1 .. Len(q), NEW r \in S
  PROVE  /\ [q EXCEPT ![m] = r] \in Seq(S)
         /\ Len([q EXCEPT ![m] = r]) = Len(q)
         /\ [q EXCEPT ![m] = r][m] = r
         /\ \A k \in 1 .. Len(q) : k # m => [q EXCEPT ![m] = r][k] = q[k]
OBVIOUS

\* Moved, with the types it keeps.
LEMMA MoveTypes ==
  ASSUME Types, NEW m \in Msg, NEW stage, NEW got \in Bytes,
         stage \in Stages(msgs[m].kind),
         Put(m, stage, got)
  PROVE  /\ Moved(m, stage, got)
         /\ msgs' \in Seq(MsgRec)
         /\ \A k \in Msg' : msgs'[k].stage \in Stages(msgs'[k].kind)
<1>1. msgs[m] \in MsgRec /\ Len(msgs) \in Nat /\ m \in 1 .. Len(msgs)
  BY DEF Types, Msg
<1> DEFINE r == [msgs[m] EXCEPT !.stage = stage, !.got = got]
<1>2. r \in MsgRec /\ r.stage = stage /\ r.got = got /\ r.kind = msgs[m].kind
      /\ r.from = msgs[m].from /\ r.to = msgs[m].to /\ r.tag = msgs[m].tag
  <2>1. stage \in Stage
    BY Zenon, <1>1 DEF MsgRec, Stage
  <2> QED
    BY Zenon, <1>1, <2>1 DEF MsgRec
<1>3. msgs' = [msgs EXCEPT ![m] = r]
  BY Zenon, <1>1 DEF Types, Put
<1> HIDE DEF r
<1>4. msgs' \in Seq(MsgRec) /\ Len(msgs') = Len(msgs) /\ msgs'[m] = r
      /\ \A k \in Msg : k # m => msgs'[k] = msgs[k]
  <2>1. msgs \in Seq(MsgRec)
    BY Zenon DEF Types
  <2> QED
    BY ONLY <1>1, <1>2, <1>3, <2>1, Replaced DEF Msg
<1>5. Moved(m, stage, got)
  BY Zenon, <1>2, <1>4 DEF Moved
<1>6. ASSUME NEW k \in Msg' PROVE msgs'[k].stage \in Stages(msgs'[k].kind)
  <2>1. k \in Msg
    BY Zenon, <1>4 DEF Msg
  <2> QED
    BY Zenon, <1>2, <1>4, <2>1 DEF Types
<1> QED
  BY Zenon, <1>4, <1>5, <1>6

\* The same for a step that only changes the stage.
LEMMA GoTypes ==
  ASSUME Types, NEW m \in Msg, NEW stage,
         stage \in Stages(msgs[m].kind), Go(m, stage)
  PROVE  /\ Moved(m, stage, msgs[m].got)
         /\ msgs' \in Seq(MsgRec)
         /\ \A k \in Msg' : msgs'[k].stage \in Stages(msgs'[k].kind)
<1>1. msgs[m] \in MsgRec
  BY DEF Types, Msg
<1>2. [msgs[m] EXCEPT !.stage = stage]
        = [msgs[m] EXCEPT !.stage = stage, !.got = msgs[m].got]
  BY Zenon, <1>1 DEF MsgRec
<1>3. Put(m, stage, msgs[m].got)
  BY Zenon, <1>1, <1>2 DEF Go, Types, Msg, Put
<1>4. msgs[m].got \in Bytes
  BY Zenon, <1>1 DEF MsgRec
<1> QED
  BY Zenon, <1>3, <1>4, MoveTypes

\* The messages that share a tag are the same after a move.
LEMMA MovedShared ==
  ASSUME NEW m \in Msg, NEW stage, NEW got, Moved(m, stage, got)
  PROVE  /\ Msg' = Msg
         /\ \A k \in Msg : ChannelOf(k)' = ChannelOf(k) /\ (TagShared(k)' <=> TagShared(k))
         /\ \A k \in Msg : Whole(k)' = Whole(k)
<1>1. Msg' = Msg
  BY Zenon DEF Moved, Msg
<1>2. \A k \in Msg : ChannelOf(k)' = ChannelOf(k)
  BY Zenon DEF Moved, ChannelOf
<1>3. \A k \in Msg : TagShared(k)' <=> TagShared(k)
  BY <1>1, <1>2 DEF Moved, TagShared
<1>4. \A k \in Msg : Whole(k)' = Whole(k)
  BY Zenon DEF Moved, Whole
<1> QED
  BY Zenon, <1>1, <1>2, <1>3, <1>4

\* What messages hold is at most three units each.
LEMMA HeldTypes ==
  /\ HeldBy \in Held3 /\ AnyHeldBy \in Held3
  /\ \A m \in Msg : Held(m) \in 0 .. 2 /\ AnyHeld(m) \in 0 .. 3
<1>1. \A m \in Msg : Held(m) \in 0 .. 2
  BY DEF Held
<1>2. \A m \in Msg : AnyHeld(m) \in 0 .. 3
  BY <1>1 DEF AnyHeld
<1> QED
  BY <1>1, <1>2 DEF HeldBy, AnyHeldBy, Held3

\* A move changes the count by what the message gains or gives up.
LEMMA MovedCounted ==
  ASSUME Types, Types', Counted, NEW m \in Msg, NEW stage, NEW got, Moved(m, stage, got),
         epoch' = epoch + Held(m)' - Held(m), anyEpoch' = anyEpoch + AnyHeld(m)' - AnyHeld(m)
  PROVE  Counted'
<1>1. Msg' = Msg /\ Len(msgs) \in Nat /\ m \in 1 .. MaxMsgs /\ Len(msgs') <= MaxMsgs
  BY MessengerAssumption DEF Moved, Msg, Types, Counted
<1>2. /\ HeldBy \in Held3 /\ AnyHeldBy \in Held3
      /\ HeldBy' \in Held3 /\ AnyHeldBy' \in Held3
  <2>1. (HeldBy \in Held3 /\ AnyHeldBy \in Held3)'
    BY HeldTypes, PTL
  <2> QED
    BY Zenon, <2>1, HeldTypes
<1>3. \A k \in Msg : k # m => Held(k)' = Held(k) /\ AnyHeld(k)' = AnyHeld(k)
  BY Zenon DEF Moved, Held, AnyHeld
<1>4. \A k \in 1 .. MaxMsgs : k # m => HeldBy'[k] = HeldBy[k] /\ AnyHeldBy'[k] = AnyHeldBy[k]
  BY Zenon, <1>1, <1>3 DEF HeldBy, AnyHeldBy
<1>5. /\ HeldBy[m] = Held(m) /\ HeldBy'[m] = Held(m)'
      /\ AnyHeldBy[m] = AnyHeld(m) /\ AnyHeldBy'[m] = AnyHeld(m)'
  BY Zenon, <1>1 DEF HeldBy, AnyHeldBy
<1>6. /\ Cardinality(UnitsOf(HeldBy')) = Cardinality(UnitsOf(HeldBy)) + Held(m)' - Held(m)
      /\ Cardinality(UnitsOf(AnyHeldBy')) = Cardinality(UnitsOf(AnyHeldBy)) + AnyHeld(m)' - AnyHeld(m)
  BY <1>1, <1>2, <1>4, <1>5, UnitsChange
<1> QED
  BY Zenon, <1>1, <1>6 DEF Counted, UnitsOf

\* The data of a message is a sequence as long as its chunks.
LEMMA PayloadType ==
  ASSUME NEW m \in Nat, NEW n \in Nat
  PROVE  /\ Payload(m, n) \in Bytes /\ Len(Payload(m, n)) = n
         /\ SubSeq(Payload(m, n), 1, n) = Payload(m, n)
         /\ SubSeq(Payload(m, n), n + 1, n) = << >>
         /\ << >> \o Payload(m, n) = Payload(m, n)
         /\ n = 0 => Payload(m, n) = << >>
BY DEF Payload, Bytes

\* A step that moves a message and leaves the data alone keeps the data
\* where it belongs, if the message has received its data before or not.
LEMMA StageOwn ==
  ASSUME Types, OwnData, NEW m \in Msg, NEW stage, Moved(m, stage, msgs[m].got),
         data' = data,
         msgs[m].kind # "small" => (Received(m)' <=> Received(m))
  PROVE  OwnData'
<1>1. /\ Msg' = Msg
      /\ \A k \in Msg : ChannelOf(k)' = ChannelOf(k) /\ (TagShared(k)' <=> TagShared(k))
      /\ \A k \in Msg : Whole(k)' = Whole(k)
  BY Zenon, MovedShared
<1>2. \A k \in Msg : msgs'[k].got = msgs[k].got /\ msgs'[k].kind = msgs[k].kind
  BY Zenon DEF Moved
<1>3. \A k \in Msg : msgs[k].kind # "small" => (Received(k)' <=> Received(k))
  BY Zenon DEF Moved, Received
<1>4. ASSUME NEW k \in Msg, msgs[k].kind = "small" PROVE Whole(k) = << >>
  <2>1. k \in Nat /\ NumChunks(msgs[k].kind) = 0
    BY Zenon, <1>4, MsgFacts DEF NumChunks
  <2> QED
    BY Zenon, <2>1, PayloadType DEF Whole
<1>5. ASSUME NEW k \in Msg', ~ TagShared(k)', Received(k)' PROVE msgs'[k].got = Whole(k)'
  <2>1. CASE msgs[k].kind = "small"
    BY Zenon, <1>1, <1>2, <1>4, <2>1 DEF OwnData
  <2>2. CASE msgs[k].kind # "small"
    BY Zenon, <1>1, <1>2, <1>3, <1>5, <2>2 DEF OwnData
  <2> QED
    BY Zenon, <2>1, <2>2
<1>6. ASSUME NEW k \in Msg', msgs'[k].kind # "small", ~ TagShared(k)', ~ Received(k)'
      PROVE  data'[ChannelOf(k)'] = Whole(k)'
  BY Zenon, <1>1, <1>2, <1>3, <1>6 DEF OwnData
<1>7. ASSUME NEW k \in Msg', msgs'[k].kind = "small" PROVE msgs'[k].got = << >>
  BY Zenon, <1>1, <1>2, <1>7 DEF OwnData
<1>8. ASSUME NEW c \in Channel, data'[c] # << >>
      PROVE  \E k \in Msg' : msgs'[k].kind # "small" /\ ChannelOf(k)' = c
  BY Zenon, <1>1, <1>2, <1>8 DEF OwnData
<1> QED
  BY Zenon, <1>5, <1>6, <1>7, <1>8 DEF OwnData

\* recvDataDirect takes the data of its own message.
LEMMA ReceiveStep ==
  ASSUME MsgInv, NEW m \in Msg, msgs[m].kind # "small", ~ Received(m),
         msgs[m].stage \notin {"wire", "irecv"}, recvDataDirect(m, NumChunks(msgs[m].kind))
  PROVE  MsgInv'
<1> DEFINE n == NumChunks(msgs[m].kind)
           c == ChannelOf(m)
           g == SubSeq(data[c], 1, n)
<1>1. /\ msgs[m] \in MsgRec /\ msgs[m].stage \in Stages(msgs[m].kind) /\ msgs[m].kind \in Kind
      /\ m \in Nat /\ Len(msgs) \in Nat
  BY Zenon, MsgFacts DEF MsgInv
<1>2. n \in Nat /\ c \in Channel /\ data[c] \in Bytes /\ Len(data[c]) >= n
  BY Zenon, <1>1, MsgFacts, MessengerAssumption DEF NumChunks, Kind, MsgInv, Types, recvDataDirect
<1>3. g \in Bytes /\ SubSeq(data[c], n + 1, Len(data[c])) \in Bytes
  BY SMTT(30), <1>2 DEF Bytes
<1>4. "data" \in Stages(msgs[m].kind)
  BY Zenon, <1>1 DEF Stages, Kind
<1>5. /\ Put(m, "data", g)
      /\ data' = [data EXCEPT ![c] = SubSeq(data[c], n + 1, Len(data[c]))]
      /\ curTag' = curTag /\ epoch' = epoch /\ anyEpoch' = anyEpoch
  BY Zenon DEF recvDataDirect, Put
<1>6. /\ Moved(m, "data", g) /\ msgs' \in Seq(MsgRec)
      /\ \A k \in Msg' : msgs'[k].stage \in Stages(msgs'[k].kind)
  <2> HIDE DEF g
  <2> QED
    BY Zenon, <1>3, <1>4, <1>5, MoveTypes DEF MsgInv
<1>7. Types'
  BY Zenon, <1>2, <1>3, <1>5, <1>6 DEF MsgInv, Types
<1>8. Counted'
  <2>1. Held(m)' = Held(m) /\ AnyHeld(m)' = AnyHeld(m)
    BY Zenon, <1>6 DEF Moved, Held, AnyHeld, Received
  <2>2. Held(m) \in Int /\ AnyHeld(m) \in Int /\ epoch \in Int /\ anyEpoch \in Int
    BY HeldTypes DEF MsgInv, Types
  <2>3. epoch' = epoch + Held(m)' - Held(m) /\ anyEpoch' = anyEpoch + AnyHeld(m)' - AnyHeld(m)
    BY <1>5, <2>1, <2>2
  <2> HIDE DEF g
  <2> QED
    BY Zenon, <1>6, <1>7, <2>3, MovedCounted DEF MsgInv
<1>9. OwnData'
  <2>1. /\ Msg' = Msg
        /\ \A k \in Msg : ChannelOf(k)' = ChannelOf(k) /\ (TagShared(k)' <=> TagShared(k))
        /\ \A k \in Msg : Whole(k)' = Whole(k)
    BY Zenon, <1>6, MovedShared
  <2>2. \A k \in Msg : msgs'[k].kind = msgs[k].kind
    BY Zenon, <1>6 DEF Moved
  <2>3. \A k \in Msg : k # m => msgs'[k].got = msgs[k].got /\ (Received(k)' <=> Received(k))
    BY Zenon, <1>6 DEF Moved, Received
  <2>4. msgs'[m].got = g /\ Received(m)'
    BY Zenon, <1>6 DEF Moved, Received
  <2>5. ASSUME ~ TagShared(m) PROVE g = Whole(m)
    <3>1. data[c] = Whole(m)
      BY Zenon, <2>5 DEF MsgInv, OwnData
    <3> QED
      BY Zenon, <3>1, <1>1, <1>2, PayloadType DEF Whole
  <2>6. \A k \in Msg : k # m /\ msgs[k].kind # "small" /\ ~ TagShared(k)
                         => ChannelOf(k) # c /\ ChannelOf(k) \in Channel
    <3>1. \A k \in Msg : ChannelOf(k) \in Channel
      BY Zenon, MsgFacts DEF MsgInv
    <3> QED
      BY Zenon, <3>1 DEF TagShared
  <2>7. \A d \in Channel : d # c => data'[d] = data[d]
    BY Zenon, <1>5 DEF MsgInv, Types
  <2> HIDE DEF g, c
  <2>8. ASSUME NEW k \in Msg', ~ TagShared(k)', Received(k)' PROVE msgs'[k].got = Whole(k)'
    BY Zenon, <2>1, <2>3, <2>4, <2>5, <2>8 DEF MsgInv, OwnData
  <2>9. ASSUME NEW k \in Msg', msgs'[k].kind # "small", ~ TagShared(k)', ~ Received(k)'
        PROVE  data'[ChannelOf(k)'] = Whole(k)'
    BY Zenon, <2>1, <2>2, <2>3, <2>4, <2>6, <2>7, <2>9 DEF MsgInv, OwnData
  <2>10. ASSUME NEW k \in Msg', msgs'[k].kind = "small" PROVE msgs'[k].got = << >>
    BY Zenon, <2>1, <2>2, <2>3, <2>10 DEF MsgInv, OwnData
  <2>11. ASSUME NEW d \in Channel, data'[d] # << >>
         PROVE  \E k \in Msg' : msgs'[k].kind # "small" /\ ChannelOf(k)' = d
    BY Zenon, <2>1, <2>2, <2>7, <2>11 DEF MsgInv, OwnData, c
  <2> QED
    BY Zenon, <2>8, <2>9, <2>10, <2>11 DEF OwnData
<1> QED
  BY Zenon, <1>7, <1>8, <1>9 DEF MsgInv

\* A step that only moves a message on, and consumes what it held.
LEMMA StageStep ==
  ASSUME MsgInv, NEW m \in Msg, NEW stage, stage \in Stages(msgs[m].kind), Go(m, stage),
         curTag' = curTag, data' = data, epoch' \in Int, anyEpoch' \in Int,
         msgs[m].kind # "small" => (Received(m) <=> stage \in {"data", "cont", "run"}),
         Moved(m, stage, msgs[m].got)
           => /\ epoch' = epoch + Held(m)' - Held(m)
              /\ anyEpoch' = anyEpoch + AnyHeld(m)' - AnyHeld(m)
  PROVE  MsgInv'
<1>1. /\ Moved(m, stage, msgs[m].got) /\ msgs' \in Seq(MsgRec)
      /\ \A k \in Msg' : msgs'[k].stage \in Stages(msgs'[k].kind)
  BY Zenon, GoTypes DEF MsgInv
<1>2. Types'
  BY Zenon, <1>1 DEF MsgInv, Types
<1>3. Counted'
  BY Zenon, <1>1, <1>2, MovedCounted DEF MsgInv
<1>4. msgs[m].kind # "small" => (Received(m)' <=> Received(m))
  BY Zenon, <1>1 DEF Moved, Received
<1>5. OwnData'
  BY Zenon, <1>1, <1>4, StageOwn DEF MsgInv
<1> QED
  BY Zenon, <1>2, <1>3, <1>5 DEF MsgInv

\* The steps of a message that has been sent.
LEMMA ProgressStep ==
  ASSUME MsgInv, NEW m \in Msg, Progress(m)
  PROVE  MsgInv'
<1>1. /\ msgs[m].kind \in Kind /\ msgs[m].stage \in Stages(msgs[m].kind)
      /\ epoch \in Int /\ anyEpoch \in Int
      /\ Held(m) \in Int /\ AnyHeld(m) \in Int
  BY MsgFacts, HeldTypes DEF MsgInv, Types
<1>2. CASE tryProcessIncomingActiveMsg(m)
  <2>1. Go(m, "irecv") /\ msgs[m].stage = "wire" /\ curTag' = curTag /\ data' = data
        /\ epoch' = epoch /\ anyEpoch' = anyEpoch
    BY Zenon, <1>2 DEF tryProcessIncomingActiveMsg
  <2>2. "irecv" \in Stages(msgs[m].kind)
    BY Zenon, <1>1 DEF Stages, Kind
  <2>3. ASSUME Moved(m, "irecv", msgs[m].got)
        PROVE  /\ epoch' = epoch + Held(m)' - Held(m)
               /\ anyEpoch' = anyEpoch + AnyHeld(m)' - AnyHeld(m)
    <3>1. Held(m)' = Held(m) /\ AnyHeld(m)' = AnyHeld(m)
      BY Zenon, <2>1, <2>3 DEF Moved, Held, AnyHeld
    <3> QED
      BY <1>1, <2>1, <3>1
  <2>4. ~ Received(m)
    BY Zenon, <2>1 DEF Received
  <2> QED
    BY Zenon, <1>1, <2>1, <2>2, <2>3, <2>4, StageStep
<1>3. CASE finishPendingActiveMsgAsyncRecv(m)
  <2>1. msgs[m].stage = "irecv" /\ curTag' = curTag /\ data' = data /\ ~ Received(m)
    BY Zenon, <1>3 DEF finishPendingActiveMsgAsyncRecv, Received
  <2>2. CASE msgs[m].kind = "put"
    <3>1. PICK st \in {"pending", "dropped"} : Go(m, st)
      BY Zenon, <1>3, <2>2 DEF finishPendingActiveMsgAsyncRecv, recvDataMsg
    <3>2. epoch' = epoch /\ anyEpoch' = anyEpoch /\ st \in Stages(msgs[m].kind)
      BY Zenon, <1>3, <2>2 DEF finishPendingActiveMsgAsyncRecv, Stages
    <3>3. ASSUME Moved(m, st, msgs[m].got)
          PROVE  /\ epoch' = epoch + Held(m)' - Held(m)
                 /\ anyEpoch' = anyEpoch + AnyHeld(m)' - AnyHeld(m)
      <4>1. Held(m)' = Held(m) /\ AnyHeld(m)' = AnyHeld(m)
        BY Zenon, <2>1, <2>2, <3>3 DEF Moved, Held, AnyHeld
      <4> QED
        BY <1>1, <3>2, <4>1
    <3> QED
      BY Zenon, <1>1, <2>1, <3>1, <3>2, <3>3, StageStep
  <2>3. CASE msgs[m].kind = "small"
    <3>1. Go(m, "run") /\ epoch' = epoch - 1 /\ anyEpoch' = anyEpoch - 1
          /\ "run" \in Stages(msgs[m].kind)
      BY Zenon, <1>3, <2>3 DEF finishPendingActiveMsgAsyncRecv, Consume, Stages
    <3>2. ASSUME Moved(m, "run", msgs[m].got)
          PROVE  /\ epoch' = epoch + Held(m)' - Held(m)
                 /\ anyEpoch' = anyEpoch + AnyHeld(m)' - AnyHeld(m)
      <4>1. Held(m)' = 0 /\ Held(m) = 1 /\ AnyHeld(m)' = 0 /\ AnyHeld(m) = 1
        BY <2>1, <2>3, <3>2 DEF Moved, Held, AnyHeld
      <4> QED
        BY <1>1, <3>1, <4>1
    <3> QED
      BY <1>1, <2>1, <2>3, <3>1, <3>2, StageStep
  <2>4. CASE msgs[m].kind = "multi"
    <3>1. Go(m, "control") /\ epoch' = epoch - 1 /\ anyEpoch' = anyEpoch - 1
          /\ "control" \in Stages(msgs[m].kind)
      BY Zenon, <1>3, <2>4 DEF finishPendingActiveMsgAsyncRecv, Consume, Stages
    <3>2. ASSUME Moved(m, "control", msgs[m].got)
          PROVE  /\ epoch' = epoch + Held(m)' - Held(m)
                 /\ anyEpoch' = anyEpoch + AnyHeld(m)' - AnyHeld(m)
      <4>1. Held(m)' = 1 /\ Held(m) = 2 /\ AnyHeld(m)' = 2 /\ AnyHeld(m) = 3
        BY <2>1, <2>4, <3>2 DEF Moved, Held, AnyHeld
      <4> QED
        BY <1>1, <3>1, <4>1
    <3> QED
      BY <1>1, <2>1, <3>1, <3>2, StageStep
  <2> QED
    BY Zenon, <1>1, <2>2, <2>3, <2>4 DEF Kind
<1>4. CASE handleChunkedMultiMsg(m)
  <2>1. msgs[m].kind = "multi" /\ ~ Received(m)
    BY Zenon, <1>1, <1>4 DEF handleChunkedMultiMsg, Stages, Kind, Received
  <2>2. recvDataDirect(m, NumChunks(msgs[m].kind)) /\ msgs[m].stage \notin {"wire", "irecv"}
    BY Zenon, <1>4, <2>1 DEF handleChunkedMultiMsg, NumChunks
  <2> QED
    BY Zenon, <2>1, <2>2, ReceiveStep
<1>5. CASE tryProcessDataMsgRecv(m)
  <2>1. msgs[m].kind = "put" /\ ~ Received(m)
    BY Zenon, <1>1, <1>5 DEF tryProcessDataMsgRecv, Stages, Kind, Received
  <2>2. recvDataDirect(m, NumChunks(msgs[m].kind)) /\ msgs[m].stage \notin {"wire", "irecv"}
    BY Zenon, <1>5, <2>1 DEF tryProcessDataMsgRecv, NumChunks
  <2> QED
    BY Zenon, <2>1, <2>2, ReceiveStep
<1>6. CASE finishPendingDataMsgAsyncRecv(m)
  <2>1. Go(m, "cont") /\ msgs[m].stage = "data" /\ curTag' = curTag /\ data' = data
        /\ epoch' = epoch /\ anyEpoch' = anyEpoch /\ Received(m)
    BY Zenon, <1>6 DEF finishPendingDataMsgAsyncRecv, Received
  <2>2. "cont" \in Stages(msgs[m].kind)
    BY Zenon, <1>1, <2>1 DEF Stages, Kind
  <2>3. ASSUME Moved(m, "cont", msgs[m].got)
        PROVE  /\ epoch' = epoch + Held(m)' - Held(m)
               /\ anyEpoch' = anyEpoch + AnyHeld(m)' - AnyHeld(m)
    <3>1. Held(m)' = Held(m) /\ AnyHeld(m)' = AnyHeld(m)
      BY Zenon, <2>1, <2>3 DEF Moved, Held, AnyHeld
    <3> QED
      BY <1>1, <2>1, <3>1
  <2> QED
    BY Zenon, <1>1, <2>1, <2>2, <2>3, StageStep
<1>7. CASE RunContinuation(m)
  <2>1. Go(m, "run") /\ msgs[m].stage = "cont" /\ curTag' = curTag /\ data' = data
        /\ epoch' = epoch - 1 /\ anyEpoch' = anyEpoch - 2 /\ Received(m)
    BY Zenon, <1>7 DEF RunContinuation, Received, Consume
  <2>2. "run" \in Stages(msgs[m].kind) /\ msgs[m].kind # "small"
    BY Zenon, <1>1, <2>1 DEF Stages, Kind
  <2>3. ASSUME Moved(m, "run", msgs[m].got)
        PROVE  /\ epoch' = epoch + Held(m)' - Held(m)
               /\ anyEpoch' = anyEpoch + AnyHeld(m)' - AnyHeld(m)
    <3>1. Held(m)' = 0 /\ Held(m) = 1 /\ AnyHeld(m)' = 0 /\ AnyHeld(m) = 2
      BY <2>1, <2>2, <2>3 DEF Moved, Held, AnyHeld
    <3> QED
      BY <1>1, <2>1, <3>1
  <2> QED
    BY <1>1, <2>1, <2>2, <2>3, StageStep
<1> QED
  BY Zenon, <1>2, <1>3, <1>4, <1>5, <1>6, <1>7 DEF Progress

\* A send adds a message whose data, if any, is alone under its tag unless
\* the tag is shared.
LEMMA SendStep ==
  ASSUME MsgInv, NEW s \in Sender, NEW d \in Receiver, NEW kind \in Kind, SendMsg(s, d, kind)
  PROVE  MsgInv'
<1> DEFINE a == allocateNewTag(curTag[s])
<1>0. PICK m, t : m = Len(msgs) + 1 /\ t = IF kind = "small" THEN 0 ELSE a.tag
  BY Zenon
<1> DEFINE r == [from |-> s, to |-> d, kind |-> kind, tag |-> t,
                 stage |-> "wire", got |-> << >>]
           c == <<s, d, t>>
           n == NumChunks(kind)
<1>1. /\ msgs \in Seq(MsgRec) /\ Len(msgs) \in Nat /\ Len(msgs) < MaxMsgs /\ MaxMsgs \in Nat
      /\ curTag \in [Sender -> 0 .. MaxTag] /\ data \in [Channel -> Bytes]
      /\ epoch \in Int /\ anyEpoch \in Int
  BY MessengerAssumption DEF MsgInv, Types, SendMsg
<1>2. a.tag \in Tag /\ a.next \in 0 .. MaxTag /\ t \in Tag
  BY <1>0, <1>1, MessengerAssumption DEF allocateNewTag, Tag
<1>3. c \in Channel /\ n \in Nat /\ data[c] \in Bytes
  BY Zenon, <1>1, <1>2, MessengerAssumption DEF Channel, NumChunks
<1>4. /\ msgs' = Append(msgs, r)
      /\ epoch' = epoch + 1 + (IF kind = "multi" THEN 1 ELSE 0)
      /\ anyEpoch' = anyEpoch + 1 + (IF kind = "multi" THEN 1 ELSE 0)
                               + (IF kind = "small" THEN 0 ELSE 1)
  BY Zenon, <1>0 DEF SendMsg
<1>5. IF kind = "small" THEN curTag' = curTag /\ data' = data
      ELSE curTag' = [curTag EXCEPT ![s] = a.next]
           /\ data' = [data EXCEPT ![c] = data[c] \o Payload(m, n)]
  BY Zenon, <1>0 DEF SendMsg, sendData
<1>6. "wire" \in Stages(kind) /\ r \in MsgRec /\ r.stage = "wire" /\ r.got = << >>
      /\ r.kind = kind /\ r.from = s /\ r.to = d /\ r.tag = t
  <2>1. "wire" \in Stages(kind)
    BY Zenon DEF Stages, Kind
  <2>2. "wire" \in Stage /\ << >> \in Bytes
    BY <2>1 DEF Stage, Bytes
  <2> QED
    BY Zenon, <1>2, <2>1, <2>2 DEF MsgRec
<1> HIDE DEF r, a
<1>7. /\ msgs' \in Seq(MsgRec) /\ Len(msgs') = m /\ msgs'[m] = r
      /\ \A k \in Msg : msgs'[k] = msgs[k]
      /\ Msg' = Msg \cup {m} /\ m \notin Msg /\ m \in 1 .. MaxMsgs
  BY <1>0, <1>1, <1>4, <1>6 DEF Msg
<1>8. Payload(m, n) \in Bytes /\ data[c] \o Payload(m, n) \in Bytes
  <2>1. Payload(m, n) \in Bytes
    BY <1>0, <1>1, <1>3, PayloadType
  <2> QED
    BY <1>3, <2>1 DEF Bytes
<1>9. Types'
  <2>1. \A k \in Msg' : msgs'[k].stage \in Stages(msgs'[k].kind)
    BY Zenon, <1>6, <1>7 DEF MsgInv, Types
  <2>2. curTag' \in [Sender -> 0 .. MaxTag]
    BY Zenon, <1>1, <1>2, <1>5
  <2>3. data' \in [Channel -> Bytes]
    BY Zenon, <1>1, <1>3, <1>5, <1>8
  <2>4. epoch' \in Int /\ anyEpoch' \in Int
    BY <1>1, <1>4
  <2> QED
    BY Zenon, <1>7, <2>1, <2>2, <2>3, <2>4 DEF Types
<1>10. Counted'
  <2>1. \A k \in Msg : Held(k)' = Held(k) /\ AnyHeld(k)' = AnyHeld(k)
    BY Zenon, <1>7 DEF Held, AnyHeld
  <2>2. /\ Held(m)' = 1 + (IF kind = "multi" THEN 1 ELSE 0)
        /\ AnyHeld(m)' = Held(m)' + (IF kind = "small" THEN 0 ELSE 1)
    BY <1>6, <1>7 DEF Held, AnyHeld
  <2>3. /\ HeldBy \in Held3 /\ AnyHeldBy \in Held3
        /\ HeldBy' \in Held3 /\ AnyHeldBy' \in Held3
    <3>1. (HeldBy \in Held3 /\ AnyHeldBy \in Held3)'
      BY HeldTypes, PTL
    <3> QED
      BY Zenon, <3>1, HeldTypes
  <2>4. \A k \in 1 .. MaxMsgs : k # m => HeldBy'[k] = HeldBy[k] /\ AnyHeldBy'[k] = AnyHeldBy[k]
    BY Zenon, <1>7, <2>1 DEF HeldBy, AnyHeldBy
  <2>5. /\ HeldBy[m] = 0 /\ HeldBy'[m] = Held(m)'
        /\ AnyHeldBy[m] = 0 /\ AnyHeldBy'[m] = AnyHeld(m)'
    BY Zenon, <1>7 DEF HeldBy, AnyHeldBy
  <2>6. /\ Cardinality(UnitsOf(HeldBy')) = Cardinality(UnitsOf(HeldBy)) + HeldBy'[m] - HeldBy[m]
        /\ Cardinality(UnitsOf(AnyHeldBy'))
             = Cardinality(UnitsOf(AnyHeldBy)) + AnyHeldBy'[m] - AnyHeldBy[m]
    BY Zenon, <1>7, <2>3, <2>4, UnitsChange
  <2>7. epoch' = Cardinality(UnitsOf(HeldBy')) /\ anyEpoch' = Cardinality(UnitsOf(AnyHeldBy'))
    <3>1. epoch = Cardinality(UnitsOf(HeldBy)) /\ anyEpoch = Cardinality(UnitsOf(AnyHeldBy))
      BY Zenon DEF MsgInv, Counted
    <3>2. epoch' = epoch + Held(m)' /\ anyEpoch' = anyEpoch + AnyHeld(m)'
      <4>1. CASE kind = "small"
        BY <1>1, <1>4, <2>2, <4>1
      <4>2. CASE kind = "put"
        BY <1>1, <1>4, <2>2, <4>2
      <4>3. CASE kind = "multi"
        BY <1>1, <1>4, <2>2, <4>3
      <4> QED
        BY Zenon, <4>1, <4>2, <4>3 DEF Kind
    <3>3. Held(m)' \in Int /\ AnyHeld(m)' \in Int
      BY <2>2
    <3> QED
      BY <1>1, <2>5, <2>6, <3>1, <3>2, <3>3
  <2> QED
    BY <1>1, <1>7, <2>7 DEF Counted, UnitsOf
<1>11. /\ \A k \in Msg : /\ ChannelOf(k)' = ChannelOf(k) /\ ChannelOf(k) \in Channel
                         /\ Whole(k)' = Whole(k) /\ (Received(k)' <=> Received(k))
                         /\ (TagShared(k) => TagShared(k)')
       /\ ChannelOf(m)' = c /\ ~ Received(m)' /\ Whole(m)' = Payload(m, n)
  <2>1. \A k \in Msg : ChannelOf(k)' = ChannelOf(k) /\ ChannelOf(k) \in Channel
    BY Zenon, <1>7, MsgFacts DEF ChannelOf, MsgInv
  <2>2. \A k \in Msg : Whole(k)' = Whole(k) /\ (Received(k)' <=> Received(k))
    BY Zenon, <1>7 DEF Whole, Received
  <2>3. \A k \in Msg : TagShared(k) => TagShared(k)'
    BY Zenon, <1>7, <2>1 DEF TagShared
  <2>4. ChannelOf(m)' = c /\ ~ Received(m)' /\ Whole(m)' = Payload(m, n)
    BY Zenon, <1>6, <1>7 DEF ChannelOf, Received, Whole
  <2> QED
    BY Zenon, <2>1, <2>2, <2>3, <2>4
<1>12. \A k \in Msg : kind # "small" /\ msgs[k].kind # "small" /\ ChannelOf(k) = c
                        => TagShared(k)' /\ TagShared(m)'
  BY SMTT(30), <1>6, <1>7, <1>11 DEF TagShared
<1>13. \A e \in Channel : (kind = "small" \/ e # c) => data'[e] = data[e]
  BY Zenon, <1>1, <1>5
<1> HIDE DEF c, n
<1>14. ASSUME NEW k \in Msg', ~ TagShared(k)', Received(k)' PROVE msgs'[k].got = Whole(k)'
  BY Zenon, <1>7, <1>11, <1>14 DEF MsgInv, OwnData
<1>15. ASSUME NEW k \in Msg', msgs'[k].kind # "small", ~ TagShared(k)', ~ Received(k)'
       PROVE  data'[ChannelOf(k)'] = Whole(k)'
  <2>1. CASE k = m
    <3>1. kind # "small"
      BY Zenon, <1>6, <1>7, <1>15, <2>1
    <3>2. data[c] = << >>
      BY Zenon, <1>3, <1>12, <1>15, <2>1, <3>1 DEF MsgInv, OwnData
    <3>3. data'[c] = Payload(m, n)
      <4>1. m \in Nat
        BY <1>7
      <4> QED
        BY <1>1, <1>3, <1>5, <3>1, <3>2, <4>1, PayloadType
    <3> QED
      BY Zenon, <1>11, <2>1, <3>3
  <2>2. CASE k \in Msg
    <3>1. msgs[k].kind # "small" /\ ~ TagShared(k) /\ ~ Received(k)
      BY Zenon, <1>7, <1>11, <1>15, <2>2
    <3>2. kind = "small" \/ ChannelOf(k) # c
      BY Zenon, <1>12, <1>15, <2>2, <3>1
    <3> QED
      BY Zenon, <1>11, <1>13, <2>2, <3>1, <3>2 DEF MsgInv, OwnData
  <2> QED
    BY Zenon, <1>7, <2>1, <2>2
<1>16. ASSUME NEW k \in Msg', msgs'[k].kind = "small" PROVE msgs'[k].got = << >>
  BY Zenon, <1>6, <1>7, <1>16 DEF MsgInv, OwnData
<1>17. ASSUME NEW e \in Channel, data'[e] # << >>
       PROVE  \E k \in Msg' : msgs'[k].kind # "small" /\ ChannelOf(k)' = e
  <2>1. CASE kind # "small" /\ e = c
    BY Zenon, <1>6, <1>7, <1>11, <2>1
  <2>2. CASE kind = "small" \/ e # c
    BY SMTT(30), <1>7, <1>11, <1>13, <1>17, <2>2 DEF MsgInv, OwnData
  <2> QED
    BY Zenon, <2>1, <2>2
<1>18. OwnData'
  BY Zenon, <1>14, <1>15, <1>16, <1>17 DEF OwnData
<1> QED
  BY Zenon, <1>9, <1>10, <1>18 DEF MsgInv

\* The initial state: nothing sent, nothing held.
LEMMA InitMsg ==
  ASSUME Init PROVE MsgInv
<1>1. Msg = {}
  BY DEF Init, Msg
<1>2. Types
  BY <1>1, MessengerAssumption DEF Init, Types, Bytes
<1>3. OwnData
  BY Zenon, <1>1 DEF Init, OwnData
<1>4. Counted
  <2>1. HeldBy \in Held3 /\ AnyHeldBy \in Held3
    BY Zenon, HeldTypes
  <2>2. \A m \in 1 .. MaxMsgs : HeldBy[m] = 0 /\ AnyHeldBy[m] = 0
    BY Zenon, <1>1 DEF HeldBy, AnyHeldBy
  <2>3. Cardinality(UnitsOf(HeldBy)) = 0 /\ Cardinality(UnitsOf(AnyHeldBy)) = 0
    BY Zenon, <2>1, <2>2, NoUnits
  <2> QED
    BY <2>3, MessengerAssumption DEF Init, Counted
<1> QED
  BY Zenon, <1>2, <1>3, <1>4 DEF MsgInv

\* MsgInv is inductive.
LEMMA MsgInductive == Spec => []MsgInv
<1>1. ASSUME MsgInv, [Next]_vars PROVE MsgInv'
  <2>1. ASSUME NEW s \in Sender, NEW d \in Receiver, NEW kind \in Kind, SendMsg(s, d, kind)
        PROVE  MsgInv'
    BY Zenon, <1>1, <2>1, SendStep
  <2>2. ASSUME NEW m \in Msg, Progress(m) PROVE MsgInv'
    BY Zenon, <1>1, <2>2, ProgressStep
  <2>3. CASE UNCHANGED vars
    <3>0. Types'
      BY Zenon, <1>1, <2>3 DEF vars, MsgInv, Types, Msg
    <3>1. OwnData'
      <4>1. Msg' = Msg /\ data' = data /\ msgs' = msgs
        BY Zenon, <2>3 DEF vars, Msg
      <4>2. \A k : ChannelOf(k)' = ChannelOf(k) /\ (Received(k)' <=> Received(k)) /\ Whole(k)' = Whole(k)
        BY Zenon, <4>1 DEF ChannelOf, Received, Whole
      <4>3. \A k : TagShared(k)' <=> TagShared(k)
        BY Zenon, <4>1, <4>2 DEF TagShared
      <4> QED
        BY Zenon, <1>1, <4>1, <4>2, <4>3 DEF MsgInv, OwnData
    <3>2. HeldBy' = HeldBy /\ AnyHeldBy' = AnyHeldBy
      BY Zenon, <2>3 DEF vars, HeldBy, AnyHeldBy, Held, AnyHeld, Msg
    <3>3. Counted'
      BY Zenon, <1>1, <2>3, <3>2 DEF vars, MsgInv, Counted, UnitsOf
    <3> QED
      BY Zenon, <3>0, <3>1, <3>3 DEF MsgInv
  <2> QED
    BY Zenon, <1>1, <2>1, <2>2, <2>3 DEF Next
<1> QED
  BY <1>1, InitMsg, PTL DEF Spec

\* A message is run with its own payload, whole and in order, as long as no
\* other transfer between the two nodes uses its tag.
THEOREM AlwaysOwnPayload == Spec => []PayloadOwn
<1>1. ASSUME MsgInv PROVE PayloadOwn
  BY Zenon, <1>1 DEF MsgInv, OwnData, PayloadOwn, Received, Whole
<1> QED
  BY <1>1, MsgInductive, PTL

\* The produces and consumes of the messenger keep the epoch of a message
\* open exactly until it has been handed over to run.
THEOREM EpochAlwaysHeld == Spec => []EpochHeld
<1>1. ASSUME MsgInv PROVE EpochHeld
  <2>1. HeldBy \in Held3 /\ AnyHeldBy \in Held3
    BY Zenon, HeldTypes
  <2>2. Msg \subseteq 1 .. MaxMsgs
    BY <1>1, MessengerAssumption DEF MsgInv, Counted, Types, Msg
  <2>3. \A m \in 1 .. MaxMsgs : /\ HeldBy[m] = 0 <=> (m \in Msg => msgs[m].stage = "run")
                                /\ AnyHeldBy[m] = 0 <=> (m \in Msg => msgs[m].stage = "run")
    BY DEF HeldBy, AnyHeldBy, Held, AnyHeld
  <2>4. epoch = 0 <=> \A m \in 1 .. MaxMsgs : HeldBy[m] = 0
    BY Zenon, <1>1, <2>1, NoUnits DEF MsgInv, Counted
  <2>5. anyEpoch = 0 <=> \A m \in 1 .. MaxMsgs : AnyHeldBy[m] = 0
    BY Zenon, <1>1, <2>1, NoUnits DEF MsgInv, Counted
  <2> QED
    BY Zenon, <2>2, <2>3, <2>4, <2>5 DEF EpochHeld
<1> QED
  BY <1>1, MsgInductive, PTL

-----------------------------------------------------------------------------
(***************************************************************************)
(* For any nodes and epochs: the units an epoch is held by are exactly the *)
(* edges that end in it, and no epoch terminates before one it depends on, *)
(* although addDependency drops the edges it takes to be implied.          *)
(*                                                                         *)
(* The second fact needs to know what the dropped edges are replaced by.   *)
(* The inductive invariant says: going back from a successor along the     *)
(* edges that are left, over any nodes, one meets every predecessor that   *)
(* has not terminated.  "Meets" is stated without paths: every set of      *)
(* epochs that holds the successor and, with an epoch, all its holders,    *)
(* holds the predecessor too.                                              *)
(***************************************************************************)

\* S holds, with an epoch, every epoch that keeps a unit of it.
Closed(S) == \A n \in Node, x, y \in Epoch : y \in S /\ y \in successors[n][x] => x \in S

\* No epoch keeps a unit of itself, and none keeps one of a quiet epoch.
NoSelf == \A n \in Node, x \in Epoch : x \notin successors[n][x]
Unheld == \A n \in Node, x \in Epoch : \A y \in quiet : y \notin successors[n][x]

\* Predecessors that are not quiet are met going back from the successor.
Reached(p, s) == \A S \in SUBSET Epoch : s \in S /\ Closed(S) => p \in S
Kept ==
  \A p, s \in Epoch : <<p, s>> \in depend => p # s /\ (p \notin quiet => Reached(p, s))

DepInv ==
  /\ TypeOK
  /\ UnitPerEdge
  /\ work \cap quiet = {}
  /\ NoSelf
  /\ Unheld
  /\ Kept
  /\ PredecessorFirst

-----------------------------------------------------------------------------
\* Cardinalities when an element is put in or taken out.
LEMMA CardinalityAdd ==
  ASSUME NEW S, IsFiniteSet(S), NEW x, x \notin S
  PROVE  Cardinality(S \cup {x}) = Cardinality(S) + 1
BY Zenon, FS_AddElement

LEMMA CardinalityRemove ==
  ASSUME NEW S, IsFiniteSet(S), NEW x \in S
  PROVE  Cardinality(S \ {x}) = Cardinality(S) - 1
BY Zenon, FS_RemoveElement

\* Sets of epochs are finite, the holders of an epoch among them.
LEMMA EpochsFinite ==
  ASSUME NEW S \in SUBSET Epoch
  PROVE  IsFiniteSet(S) /\ Cardinality(S) \in Nat
<1>1. IsFiniteSet(Epoch)
  BY Zenon, EpochDependencyAssumption
<1>2. IsFiniteSet(S)
  BY Zenon, <1>1, FS_Subset
<1> QED BY Zenon, <1>2, FS_CardinalityType

LEMMA HoldersFinite ==
  ASSUME NEW n, NEW e
  PROVE  IsFiniteSet(Holders(n, e)) /\ Cardinality(Holders(n, e)) \in Nat
BY Zenon, EpochsFinite DEF Holders

\* An epoch no unit of which is kept has no holder.
LEMMA NoUnitNoHolder ==
  ASSUME TypeOK, UnitPerEdge, NEW n \in Node, NEW e \in Epoch, units[n][e] = 0
  PROVE  \A x \in Epoch : e \notin successors[n][x]
<1>1. Cardinality(Holders(n, e)) = 0
  BY Zenon DEF UnitPerEdge
<1>2. Holders(n, e) = {}
  BY Zenon, <1>1, HoldersFinite, FS_EmptySet
<1> QED BY Zenon, <1>2 DEF Holders

-----------------------------------------------------------------------------
\* Initially no edge exists.
LEMMA InitDepInv == DepInit => DepInv
<1> SUFFICES ASSUME DepInit PROVE DepInv
  BY Zenon
<1>1. TypeOK
  BY Zenon DEF DepInit, TypeOK
<1>2. UnitPerEdge
  <2> SUFFICES ASSUME NEW n \in Node, NEW e \in Epoch
               PROVE  units[n][e] = Cardinality(Holders(n, e))
                      /\ deps[n][e] = IF e \in DS THEN 0 ELSE Cardinality(Holders(n, e))
    BY Zenon DEF UnitPerEdge
  <2>1. Holders(n, e) = {}
    BY Zenon DEF DepInit, Holders
  <2>2. Cardinality(Holders(n, e)) = 0
    BY Zenon, <2>1, FS_EmptySet
  <2> QED BY Zenon, <2>2 DEF DepInit
<1> QED BY Zenon, <1>1, <1>2 DEF DepInit, DepInv, NoSelf, Unheld, Kept, PredecessorFirst

-----------------------------------------------------------------------------
\* addDependency: the lists afterwards.
LEMMA AddSuccessors ==
  ASSUME DepInv, NEW n \in Node, NEW p \in Epoch, NEW s \in Epoch, AddDependency(n, p, s)
  PROVE  /\ successors' \in [Node -> [Epoch -> SUBSET Epoch]]
         /\ successors'[n][p] = (successors[n][p] \ Implied(n, p, s)) \cup {s}
         /\ \A m \in Node, x \in Epoch :
              m # n \/ x # p => successors'[m][x] = successors[m][x]
<1>1. successors \in [Node -> [Epoch -> SUBSET Epoch]]
  BY Zenon DEF DepInv, TypeOK
<1>2. successors' = [successors EXCEPT ![n][p] = (successors[n][p] \ Implied(n, p, s)) \cup {s}]
  BY Zenon DEF AddDependency, Edges
<1>3. (successors[n][p] \ Implied(n, p, s)) \cup {s} \in SUBSET Epoch
  BY Zenon, <1>1
<1> QED BY Zenon, <1>1, <1>2, <1>3

\* addDependency counts the edge it makes and those it drops, once each.
LEMMA AddUnits ==
  ASSUME DepInv, NEW n \in Node, NEW p \in Epoch, NEW s \in Epoch, AddDependency(n, p, s)
  PROVE  UnitPerEdge'
<1> USE DEF DepInv
<1> SUFFICES ASSUME NEW m \in Node, NEW e \in Epoch
             PROVE  /\ units'[m][e] = Cardinality(Holders(m, e)')
                    /\ deps'[m][e] = IF e \in DS THEN 0 ELSE Cardinality(Holders(m, e)')
  BY Zenon DEF UnitPerEdge
<1> DEFINE H == Holders(m, e)
           up == NewSuccessor(n, p, s)
           down == Implied(n, p, s)
<1>1. /\ units[m][e] = Cardinality(H)
      /\ deps[m][e] = IF e \in DS THEN 0 ELSE Cardinality(H)
  BY Zenon DEF UnitPerEdge
<1>2. IsFiniteSet(H) /\ Cardinality(H) \in Nat
  BY Zenon, HoldersFinite
<1>3. /\ units \in [Node -> [Epoch -> Nat]]
      /\ deps \in [Node -> [Epoch -> Nat]]
  BY Zenon DEF TypeOK
<1>4. m # n => units'[m][e] = units[m][e] /\ deps'[m][e] = deps[m][e]
  BY Zenon, <1>3 DEF AddDependency, Count
<1>5. /\ units'[n][e] = IF e \in up THEN units[n][e] + 1
                        ELSE IF e \in down THEN units[n][e] - 1 ELSE units[n][e]
      /\ deps'[n][e] = IF e \in up \ DS THEN deps[n][e] + 1
                       ELSE IF e \in down \ DS THEN deps[n][e] - 1 ELSE deps[n][e]
  BY Zenon, <1>3 DEF AddDependency, Count
<1>6. s \notin down /\ down \subseteq successors[n][p]
  BY Zenon DEF Implied, NoSelf
<1>7. CASE m # n \/ (e \notin up /\ e \notin down)
  <2>1. Holders(m, e)' = H
    BY <1>6, <1>7, AddSuccessors DEF Holders, NewSuccessor
  <2> QED BY Zenon, <2>1, <1>1, <1>4, <1>5, <1>7
<1>8. CASE m = n /\ e \in up
  <2>1. e = s /\ p \notin H
    BY Zenon, <1>8 DEF NewSuccessor, Holders
  <2>2. Holders(m, e)' = H \cup {p}
    BY <2>1, <1>8, AddSuccessors DEF Holders
  <2>3. Cardinality(H \cup {p}) = Cardinality(H) + 1
    BY Zenon, <2>1, <1>2, CardinalityAdd
  <2> QED BY Zenon, <2>2, <2>3, <1>1, <1>5, <1>8
<1>9. CASE m = n /\ e \notin up /\ e \in down
  <2>1. e # s /\ p \in H
    BY Zenon, <1>6, <1>9 DEF Holders
  <2>2. Holders(m, e)' = H \ {p}
    BY <2>1, <1>9, AddSuccessors DEF Holders
  <2>3. Cardinality(H \ {p}) = Cardinality(H) - 1
    BY Zenon, <2>1, <1>2, CardinalityRemove
  <2> QED BY Zenon, <2>2, <2>3, <1>1, <1>5, <1>9
<1> QED BY Zenon, <1>7, <1>8, <1>9

\* epochTerminated: the lists afterwards.
LEMMA EndSuccessors ==
  ASSUME DepInv, NEW n \in Node, NEW e \in Epoch, EpochTerminated(n, e)
  PROVE  /\ successors' \in [Node -> [Epoch -> SUBSET Epoch]]
         /\ successors'[n][e] = {}
         /\ \A m \in Node, x \in Epoch :
              m # n \/ x # e => successors'[m][x] = successors[m][x]
<1>1. successors \in [Node -> [Epoch -> SUBSET Epoch]]
  BY Zenon DEF DepInv, TypeOK
<1> QED BY Zenon, <1>1 DEF EpochTerminated

\* clearSuccessors gives back one unit for each edge it removes.
LEMMA EndUnits ==
  ASSUME DepInv, NEW n \in Node, NEW q \in Epoch, EpochTerminated(n, q)
  PROVE  UnitPerEdge'
<1> USE DEF DepInv
<1> SUFFICES ASSUME NEW m \in Node, NEW e \in Epoch
             PROVE  /\ units'[m][e] = Cardinality(Holders(m, e)')
                    /\ deps'[m][e] = IF e \in DS THEN 0 ELSE Cardinality(Holders(m, e)')
  BY Zenon DEF UnitPerEdge
<1> DEFINE H == Holders(m, e)
<1>1. /\ units[m][e] = Cardinality(H)
      /\ deps[m][e] = IF e \in DS THEN 0 ELSE Cardinality(H)
  BY Zenon DEF UnitPerEdge
<1>2. IsFiniteSet(H) /\ Cardinality(H) \in Nat
  BY Zenon, HoldersFinite
<1>3. /\ units \in [Node -> [Epoch -> Nat]]
      /\ deps \in [Node -> [Epoch -> Nat]]
  BY Zenon DEF TypeOK
<1>4. m # n => units'[m][e] = units[m][e] /\ deps'[m][e] = deps[m][e]
  BY Zenon, <1>3 DEF EpochTerminated, Count
<1>5. /\ units'[n][e] = IF e \in successors[n][q] THEN units[n][e] - 1 ELSE units[n][e]
      /\ deps'[n][e] = IF e \in successors[n][q] \ DS THEN deps[n][e] - 1 ELSE deps[n][e]
  BY Zenon, <1>3 DEF EpochTerminated, Count
<1>6. CASE m # n \/ e \notin successors[n][q]
  <2>1. Holders(m, e)' = H
    BY <1>6, EndSuccessors DEF Holders
  <2> QED BY Zenon, <2>1, <1>1, <1>4, <1>5, <1>6
<1>7. CASE m = n /\ e \in successors[n][q]
  <2>1. q \in H
    BY Zenon, <1>7 DEF Holders
  <2>2. Holders(m, e)' = H \ {q}
    BY <1>7, EndSuccessors DEF Holders
  <2>3. Cardinality(H \ {q}) = Cardinality(H) - 1
    BY Zenon, <2>1, <1>2, CardinalityRemove
  <2> QED BY Zenon, <2>2, <2>3, <1>1, <1>5, <1>7
<1> QED BY Zenon, <1>6, <1>7

\* Units and dependencies stay natural numbers, being numbers of edges.
LEMMA CountShape ==
  ASSUME TypeOK, NEW n \in Node, NEW up, NEW down, Count(n, up, down), UnitPerEdge'
  PROVE  units' \in [Node -> [Epoch -> Nat]] /\ deps' \in [Node -> [Epoch -> Nat]]
<1>1. ASSUME NEW m \in Node, NEW e \in Epoch
      PROVE  units'[m][e] \in Nat /\ deps'[m][e] \in Nat
  <2>1. Holders(m, e)' \in SUBSET Epoch
    BY Zenon DEF Holders
  <2>2. Cardinality(Holders(m, e)') \in Nat
    BY Zenon, <2>1, EpochsFinite
  <2> QED BY <2>2 DEF UnitPerEdge
<1>2. units' \in [Node -> [Epoch -> Int]] /\ deps' \in [Node -> [Epoch -> Int]]
  BY DEF TypeOK, Count
<1> QED BY Zenon, <1>1, <1>2

-----------------------------------------------------------------------------
\* A set closed under the edges left by addDependency was closed before: an
\* edge that was dropped is bridged by the successor.
LEMMA AddClosed ==
  ASSUME DepInv, NEW n \in Node, NEW p \in Epoch, NEW s \in Epoch, AddDependency(n, p, s),
         NEW S \in SUBSET Epoch, Closed(S)'
  PROVE  Closed(S) /\ (s \in S => p \in S)
<1>1. s \in successors'[n][p]
  BY AddSuccessors
<1>2. s \in S => p \in S
  BY Zenon, <1>1 DEF Closed
<1>3. ASSUME NEW m \in Node, NEW x \in Epoch, NEW y \in Epoch, y \in S, y \in successors[m][x]
      PROVE  x \in S
  <2>1. CASE y \in successors'[m][x]
    BY Zenon, <2>1, <1>3 DEF Closed
  <2>2. CASE y \notin successors'[m][x]
    <3>1. m = n /\ x = p /\ y \in Implied(n, p, s)
      BY <2>2, <1>3, AddSuccessors
    <3>2. y \in successors[n][s] /\ s # p
      BY Zenon, <3>1 DEF Implied, AddDependency
    <3>3. y \in successors'[n][s]
      BY <3>2, AddSuccessors
    <3>4. s \in S
      BY Zenon, <3>3, <1>3 DEF Closed
    <3> QED BY Zenon, <3>4, <3>1, <1>2
  <2> QED BY Zenon, <2>1, <2>2
<1>4. Closed(S)
  BY Zenon, <1>3 DEF Closed
<1> QED BY Zenon, <1>2, <1>4

\* addDependency keeps the invariant.
LEMMA AddKeeps ==
  ASSUME DepInv, NEW n \in Node, NEW p \in Epoch, NEW s \in Epoch, AddDependency(n, p, s)
  PROVE  DepInv'
<1>1. UnitPerEdge'
  BY Zenon, AddUnits
<1>2. TypeOK'
  <2>1. units' \in [Node -> [Epoch -> Nat]] /\ deps' \in [Node -> [Epoch -> Nat]]
    BY Zenon, <1>1, CountShape DEF AddDependency, DepInv
  <2>2. depend' \subseteq Epoch \X Epoch
    BY DEF AddDependency, DepInv, TypeOK
  <2> QED BY Zenon, <2>1, <2>2, AddSuccessors DEF AddDependency, DepInv, TypeOK
<1>3. (work \cap quiet = {})'
  BY Zenon DEF AddDependency, DepInv
<1>4. NoSelf'
  <2> SUFFICES ASSUME NEW m \in Node, NEW x \in Epoch PROVE x \notin successors'[m][x]
    BY Zenon DEF NoSelf
  <2>1. x \notin successors[m][x] /\ p # s
    BY Zenon DEF NoSelf, DepInv, AddDependency
  <2> QED BY <2>1, AddSuccessors
<1>5. Unheld'
  <2>1. s \notin quiet /\ quiet' = quiet
    BY Zenon DEF AddDependency, DepInv
  <2> SUFFICES ASSUME NEW m \in Node, NEW x \in Epoch, NEW y \in quiet PROVE y \notin successors'[m][x]
    BY Zenon, <2>1 DEF Unheld
  <2>2. y \notin successors[m][x] /\ y # s
    BY Zenon, <2>1 DEF DepInv, Unheld
  <2> QED BY <2>2, AddSuccessors
<1>6. Kept'
  <2> SUFFICES ASSUME NEW a \in Epoch, NEW b \in Epoch, <<a, b>> \in depend'
               PROVE  a # b /\ (a \notin quiet => Reached(a, b)')
    BY Zenon DEF Kept, AddDependency
  <2>1. <<a, b>> \in depend \/ (a = p /\ b = s)
    BY Zenon DEF AddDependency
  <2>2. a # b /\ (<<a, b>> \in depend /\ a \notin quiet => Reached(a, b))
    BY Zenon, <2>1 DEF DepInv, Kept, AddDependency
  <2> SUFFICES ASSUME a \notin quiet, NEW S \in SUBSET Epoch, b \in S, Closed(S)'
               PROVE  a \in S
    BY Zenon, <2>2 DEF Reached
  <2>3. Closed(S) /\ (s \in S => p \in S)
    BY Zenon, AddClosed
  <2> QED BY Zenon, <2>1, <2>2, <2>3 DEF Reached
<1>7. PredecessorFirst'
  <2> SUFFICES ASSUME NEW d \in depend', d[2] \in quiet PROVE d[1] \in quiet
    BY Zenon DEF PredecessorFirst, AddDependency
  <2>1. CASE d \in depend
    BY Zenon, <2>1 DEF DepInv, PredecessorFirst
  <2>2. CASE d = <<p, s>>
    BY Zenon, <2>2 DEF AddDependency, DepInv
  <2> QED BY Zenon, <2>1, <2>2 DEF AddDependency
<1> QED BY Zenon, <1>1, <1>2, <1>3, <1>4, <1>5, <1>6, <1>7 DEF DepInv

-----------------------------------------------------------------------------
\* The end of an epoch's own work changes no edge.
LEMMA FinishKeeps ==
  ASSUME DepInv, NEW e \in Epoch, FinishWork(e)
  PROVE  DepInv'
<1>1. UNCHANGED <<quiet, told, successors, units, deps, depend>> /\ work' \subseteq work
  BY Zenon DEF FinishWork
<1>2. TypeOK' /\ UnitPerEdge' /\ (work \cap quiet = {})'
  BY Zenon, <1>1 DEF DepInv, TypeOK, UnitPerEdge, Holders
<1>3. NoSelf' /\ Unheld' /\ PredecessorFirst'
  BY Zenon, <1>1 DEF DepInv, NoSelf, Unheld, PredecessorFirst
<1>4. Kept'
  BY Zenon, <1>1 DEF DepInv, Kept, Reached, Closed
<1> QED BY Zenon, <1>2, <1>3, <1>4 DEF DepInv

\* An epoch goes quiet with no holder left, so by Kept none of those it
\* depends on can be missing.
LEMMA QuiesceKeeps ==
  ASSUME DepInv, NEW e \in Epoch, Quiesce(e)
  PROVE  DepInv'
<1>1. UNCHANGED <<work, told, successors, units, deps, depend>> /\ quiet' = quiet \cup {e}
  BY Zenon DEF Quiesce
<1>2. TypeOK' /\ UnitPerEdge' /\ (work \cap quiet = {})' /\ NoSelf'
  BY <1>1 DEF Quiesce, DepInv, TypeOK, UnitPerEdge, Holders, NoSelf
<1>3. \A n \in Node, x \in Epoch : e \notin successors[n][x]
  BY Zenon, NoUnitNoHolder DEF Quiesce, DepInv
<1>4. Unheld'
  BY Zenon, <1>1, <1>3 DEF DepInv, Unheld
<1>5. Kept'
  BY Zenon, <1>1 DEF DepInv, Kept, Reached, Closed
<1>6. PredecessorFirst'
  <2> SUFFICES ASSUME NEW d \in depend, d[2] = e, d[1] \notin quiet PROVE d[1] = e
    BY Zenon, <1>1 DEF DepInv, PredecessorFirst
  <2>1. d = <<d[1], d[2]>> /\ d[1] \in Epoch /\ d[2] \in Epoch
    BY DEF DepInv, TypeOK
  <2>2. Reached(d[1], e)
    BY Zenon, <2>1 DEF DepInv, Kept
  <2>3. Closed({e})
    BY Zenon, <1>3 DEF Closed
  <2> QED BY Zenon, <2>2, <2>3 DEF Reached
<1> QED BY Zenon, <1>1, <1>2, <1>4, <1>5, <1>6 DEF DepInv

\* The edges epochTerminated removes start from a quiet epoch, and no edge
\* ends in one: a set closed afterwards, with all quiet epochs, was closed
\* before.
LEMMA EndKeeps ==
  ASSUME DepInv, NEW n \in Node, NEW e \in Epoch, EpochTerminated(n, e)
  PROVE  DepInv'
<1>1. UNCHANGED <<work, quiet, depend>> /\ e \in quiet
  BY Zenon DEF EpochTerminated
<1>2. UnitPerEdge'
  BY Zenon, EndUnits
<1>3. TypeOK'
  <2>1. units' \in [Node -> [Epoch -> Nat]] /\ deps' \in [Node -> [Epoch -> Nat]]
    BY Zenon, <1>2, CountShape DEF EpochTerminated, DepInv
  <2>2. told' \in [Node -> SUBSET Epoch]
    BY Zenon DEF EpochTerminated, DepInv, TypeOK
  <2>3. successors' \in [Node -> [Epoch -> SUBSET Epoch]]
    BY Zenon, EndSuccessors
  <2> QED BY Zenon, <2>1, <2>2, <2>3, <1>1 DEF DepInv, TypeOK
<1>4. \A m \in Node, x \in Epoch : successors'[m][x] \subseteq successors[m][x]
  BY EndSuccessors
<1>5. NoSelf' /\ Unheld'
  BY Zenon, <1>1, <1>4 DEF DepInv, NoSelf, Unheld
<1>6. Kept'
  <2> SUFFICES ASSUME NEW a \in Epoch, NEW b \in Epoch, <<a, b>> \in depend
               PROVE  a # b /\ (a \notin quiet => Reached(a, b)')
    BY Zenon, <1>1 DEF Kept
  <2>1. a # b /\ (a \notin quiet => Reached(a, b))
    BY Zenon DEF DepInv, Kept
  <2> SUFFICES ASSUME a \notin quiet, NEW S \in SUBSET Epoch, b \in S, Closed(S)'
               PROVE  a \in S
    BY Zenon, <2>1 DEF Reached
  <2>2. ASSUME NEW m \in Node, NEW x \in Epoch, NEW y \in Epoch,
               y \in S \cup quiet, y \in successors[m][x]
        PROVE  x \in S \cup quiet
    <3>1. y \in S
      BY Zenon, <2>2 DEF DepInv, Unheld
    <3>2. CASE m = n /\ x = e
      BY Zenon, <3>2, <1>1
    <3>3. CASE m # n \/ x # e
      <4>1. y \in successors'[m][x]
        BY <3>3, <2>2, EndSuccessors
      <4> QED BY Zenon, <4>1, <3>1 DEF Closed
    <3> QED BY Zenon, <3>2, <3>3
  <2>3. Closed(S \cup quiet)
    BY Zenon, <2>2 DEF Closed
  <2>4. S \cup quiet \in SUBSET Epoch
    BY Zenon DEF DepInv, TypeOK
  <2> QED BY Zenon, <2>1, <2>3, <2>4 DEF Reached
<1> QED BY Zenon, <1>1, <1>2, <1>3, <1>5, <1>6 DEF DepInv, PredecessorFirst

-----------------------------------------------------------------------------
\* DepInv holds throughout.
LEMMA DepInvHolds == DepSpec => []DepInv
<1>1. DepInv /\ [DepNext]_depVars => DepInv'
  <2> SUFFICES ASSUME DepInv, [DepNext]_depVars PROVE DepInv'
    BY Zenon
  <2>1. ASSUME NEW n \in Node, NEW p \in Epoch, NEW s \in Epoch, AddDependency(n, p, s)
        PROVE  DepInv'
    BY Zenon, <2>1, AddKeeps
  <2>2. ASSUME NEW e \in Epoch, FinishWork(e) \/ Quiesce(e) PROVE DepInv'
    BY Zenon, <2>2, FinishKeeps, QuiesceKeeps
  <2>3. ASSUME NEW n \in Node, NEW e \in Epoch, EpochTerminated(n, e) PROVE DepInv'
    BY Zenon, <2>3, EndKeeps
  <2>4. CASE UNCHANGED depVars
    <3>1. UNCHANGED <<work, quiet, told, successors, units, deps, depend>>
      BY Zenon, <2>4 DEF depVars
    <3>2. TypeOK' /\ UnitPerEdge' /\ (work \cap quiet = {})' /\ NoSelf' /\ Unheld'
      BY <3>1 DEF DepInv, TypeOK, UnitPerEdge, Holders, NoSelf, Unheld
    <3>3. Kept' /\ PredecessorFirst'
      BY Zenon, <3>1 DEF DepInv, Kept, Reached, Closed, PredecessorFirst
    <3> QED BY Zenon, <3>2, <3>3 DEF DepInv
  <2> QED BY Zenon, <2>1, <2>2, <2>3, <2>4 DEF DepNext
<1> QED BY InitDepInv, <1>1, PTL DEF DepSpec

\* The records keep their types: no count of units or dependencies goes
\* below zero (consume and decrementDependency are matched).
THEOREM DependencyTypes == DepSpec => []TypeOK
<1>1. DepInv => TypeOK
  BY Zenon DEF DepInv
<1> QED BY <1>1, DepInvHolds, PTL

\* For any nodes and epochs, the units and the deps_ count of an epoch are the
\* edges that end in it (addSuccessor, removeIntersection, clearSuccessors).
THEOREM UnitsAreEdges == DepSpec => []UnitPerEdge
<1>1. DepInv => UnitPerEdge
  BY Zenon DEF DepInv
<1> QED BY <1>1, DepInvHolds, PTL

\* For any nodes and epochs, no epoch is found terminated before one it was
\* made to depend on (addDependency, epochTerminated).
THEOREM NoSuccessorFirst == DepSpec => []PredecessorFirst
<1>1. DepInv => PredecessorFirst
  BY Zenon DEF DepInv
<1> QED BY <1>1, DepInvHolds, PTL
=============================================================================
