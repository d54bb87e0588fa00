-------------------------- MODULE GroupCollective --------------------------
(***************************************************************************)
(* How the nodes build a collective group (vt::group::InfoColl), and how a *)
(* message is broadcast to its members (GroupManager::sendGroupCollective).*)
(*                                                                         *)
(* Every node calls newGroupCollective with its vote.  The votes go up the *)
(* default tree; a node that is not a member, or whose branch would become *)
(* a stick, passes its children's subtrees on to its parent, and a node    *)
(* with too many of them hands some down to another.  When the root of the *)
(* default tree knows the group's root and every subtree handed down is    *)
(* acknowledged, the nodes finalize from the root down and join a          *)
(* reduction, whose end starts the new tree at the group's root.           *)
(*                                                                         *)
(* A handler runs to completion, so it is one step.  Messages arrive in    *)
(* any order, those between two nodes included: ActiveMessenger tests the  *)
(* receives it has posted in an order of its own.  The order of            *)
(* span_children_ follows the order of arrival and an unstable sort, so it *)
(* is left open: a set.                                                    *)
(***************************************************************************)
EXTENDS Tree, Sequences, Bags, FiniteSets, FiniteSetsExt

CONSTANTS
  NumGroups,   \* groups 1 .. NumGroups, created by every node in this order
  Votes,       \* the sets of members considered
  Senders      \* the nodes that may broadcast to a group, once

ASSUME GroupAssumption ==
  /\ NumNodes > 1
  /\ NumGroups \in Nat \ {0}
  /\ Votes \subseteq SUBSET Node
  /\ Senders \subseteq Node

VARIABLES
  members,       \* the nodes that call newGroupCollective with in_group
  setup,         \* the nodes that have called it
  net,           \* the bag of messages on their way, with sender and destination
  waiting_cont,  \* votes that arrived before the node's own call
  info,          \* the InfoColl of each node
  built,         \* whether CollSetupFinished has run
  sender,        \* the node that has broadcast to the group, if any
  delivered      \* how often that broadcast ran its handler on a node

vars == <<members, setup, net, waiting_cont, info, built, sender, delivered>>

Group == 1 .. NumGroups

uninitialized == -1

\* A vote: node child, whether it is a member, how many members its subtree
\* has, and how many further votes its sender passes on with it.
Vote(child, in, size, extra) == [child |-> child, in |-> in, size |-> size, extra |-> extra]

\* The spanning tree of a node: none yet.
NoSpan == [parent |-> uninitialized, children |-> {uninitialized}]

NewInfo == [
  msgs |-> {}, span_children |-> {},
  outstanding |-> 0,             \* send_down_ - send_down_finished_
  in_phase_two |-> FALSE, root |-> uninitialized,
  is_new_root |-> FALSE, is_default_group |-> FALSE,
  span |-> NoSpan, reduced |-> 0, actions |-> 0,
  pending |-> << >>]             \* pending_ready_actions_: is_root of each broadcast

Init ==
  /\ members \in [Group -> Votes]
  /\ setup = [g \in Group |-> {}]
  /\ net = EmptyBag
  /\ waiting_cont = [n \in Node |-> {}]
  /\ info = [g \in Group |-> [n \in Node |-> NewInfo]]
  /\ built = [g \in Group |-> FALSE]
  /\ sender = [g \in Group |-> uninitialized]
  /\ delivered = [g \in Group |-> [n \in Node |-> 0]]

(***************************************************************************)
(* Sending.  A handler's output is a set of [to, m].                       *)
(***************************************************************************)
To(dests, m) == {[to |-> d, m |-> m] : d \in dests}
Each(dest, ms) == {[to |-> dest, m |-> m] : m \in ms}

Up(g, v) == [type |-> "up", g |-> g, vote |-> v]
Down(g, v) == [type |-> "down", g |-> g, child |-> v.child]
Msg(type, g) == [type |-> type, g |-> g]

\* The network ch after n has sent what out lists.
Sent(ch, n, out) == ch (+) SetToBag({[from |-> n, to |-> o.to, m |-> o.m] : o \in out})

\* The network once n has taken the message m of a.
Taken(n, a, m) == net (-) SetToBag({[from |-> a, to |-> n, m |-> m]})

Step(g, n, i, out, ch) ==
  /\ info' = [info EXCEPT ![g][n] = i]
  /\ net' = Sent(ch, n, out)

(***************************************************************************)
(* InfoColl::finalize: once the node is in phase two and all it handed     *)
(* down is acknowledged, it tells its children in the default tree and     *)
(* joins the reduction.  A node outside the group is done with that.       *)
(***************************************************************************)
\* Mutant: the subtrees handed down are not waited for.
FinalizesEarly(i) == i.in_phase_two

Finalizes(i) == i.in_phase_two /\ i.outstanding = 0

Finalized(g, n, i) ==
  IF Finalizes(i)
  THEN [i EXCEPT !.reduced = @ + 1, !.actions = @ + IF n \in members[g] THEN 0 ELSE 1]
  ELSE i

FinalizeMsgs(g, n, i) ==
  IF Finalizes(i)
  THEN To(Children(n), [type |-> "finalize", g |-> g, root |-> i.root, default |-> i.is_default_group])
  ELSE {}

(***************************************************************************)
(* InfoColl::upTree                                                        *)
(***************************************************************************)
SubtreeSize(ms) == MapThenSumSet(LAMBDA v : v.size, ms)
ChildOf(ms) == {v.child : v \in ms}

\* Mutant: coll_wait_count_ is compared without the node itself.
ReadyOneMore(n, msgs) ==
  LET own == {v \in msgs : v.child \in Children(n)}
  IN /\ Cardinality(own) = NumChildren(n) + 1
     /\ Cardinality(msgs \ own) = MapThenSumSet(LAMBDA v : v.extra, own)

\* collectiveFn: a vote of every child, and every vote they pass on.
Ready(n, msgs) ==
  LET own == {v \in msgs : v.child \in Children(n)}
  IN /\ Cardinality(own) = NumChildren(n)
     /\ Cardinality(msgs \ own) = MapThenSumSet(LAMBDA v : v.extra, own)

\* The root of the default tree is a member: it is the group's root.
RootMember(g, n, i, in, ch) ==
  /\ n = Root /\ n \in members[g]
  /\ LET j == [i EXCEPT !.span_children = ChildOf(in),
                        !.is_default_group = SubtreeSize(in) + 1 = NumNodes,
                        !.root = n, !.is_new_root = TRUE, !.in_phase_two = TRUE]
     IN Step(g, n, Finalized(g, n, j), FinalizeMsgs(g, n, j), ch)

RootEmpty(g, n, i, in, ch) ==
  /\ n = Root /\ n \notin members[g] /\ in = {}
  /\ LET j == [i EXCEPT !.in_phase_two = TRUE]
     IN Step(g, n, Finalized(g, n, j), FinalizeMsgs(g, n, j), ch)

\* Another node is made the root, and is handed every other subtree.
RootElects(g, n, i, in, ch) ==
  /\ n = Root /\ n \notin members[g]
  /\ \E r \in in :
       /\ \A v \in in : r.size <= v.size
       /\ LET j == [i EXCEPT !.root = r.child, !.in_phase_two = TRUE,
                             !.outstanding = @ + Cardinality(in) - 1]
          IN Step(g, n, Finalized(g, n, j),
                  To({r.child}, Msg("newRoot", g))
                  \cup Each(r.child, {Down(g, v) : v \in in \ {r}})
                  \cup FinalizeMsgs(g, n, j), ch)

\* Case 1: the node takes its children's two subtrees, or is a leaf.
KeepSubtrees(g, n, i, in, ch) ==
  /\ n # Root /\ n \in members[g] /\ Cardinality(in) \in {0, 2}
  /\ Step(g, n, [i EXCEPT !.span_children = ChildOf(in)],
          To({Parent(n)}, Up(g, Vote(n, TRUE, SubtreeSize(in) + 1, 0))), ch)

\* Cases 2 and 3: the node passes up to two subtrees on, besides its own vote.
PassSubtrees(g, n, i, in, ch) ==
  /\ n # Root
  /\ IF n \in members[g] THEN Cardinality(in) = 1 ELSE Cardinality(in) < 3
  /\ Step(g, n, i,
          To({Parent(n)},
             Up(g, Vote(n, n \in members[g], IF n \in members[g] THEN 1 ELSE 0, Cardinality(in))))
          \cup Each(Parent(n), {Up(g, v) : v \in in}), ch)

\* Mutant: every subtree goes up, and is handed down as well.
SplitSubtreesTwice(g, n, i, in, ch) ==
  /\ n # Root /\ Cardinality(in) > 2
  /\ \E pass \in kSubset(Cardinality(in) \div 2, in) : \E largest \in pass :
       LET rest == in \ {largest}
           own == IF n \in members[g] THEN 1 ELSE 0
       IN /\ \A v \in pass : v.size <= largest.size /\ \A w \in in \ pass : w.size <= v.size
          /\ Step(g, n, [i EXCEPT !.outstanding = @ + Cardinality(rest)],
                  To({Parent(n)},
                     Up(g, Vote(n, n \in members[g], own + SubtreeSize(rest), Cardinality(in))))
                  \cup Each(Parent(n), {Up(g, v) : v \in in})
                  \cup Each(largest.child, {Down(g, v) : v \in rest}), ch)

\* Case 4: the larger half goes up, and its largest is handed the rest.
SplitSubtrees(g, n, i, in, ch) ==
  /\ n # Root /\ Cardinality(in) > 2
  /\ \E pass \in kSubset(Cardinality(in) \div 2, in) : \E largest \in pass :
       LET rest == in \ pass
           own == IF n \in members[g] THEN 1 ELSE 0
       IN /\ \A v \in pass : v.size <= largest.size /\ \A w \in rest : w.size <= v.size
          /\ Step(g, n, [i EXCEPT !.outstanding = @ + Cardinality(rest)],
                  To({Parent(n)},
                     Up(g, Vote(n, n \in members[g], own + SubtreeSize(rest), Cardinality(pass))))
                  \cup Each(Parent(n), {Up(g, v) : v \in pass})
                  \cup Each(largest.child, {Down(g, v) : v \in rest}), ch)

\* collectiveFn, for a node whose votes so far are those of i.
CollectiveFn(g, n, i, ch) ==
  LET in == {v \in i.msgs : v.in}
  IN IF Ready(n, i.msgs)
     THEN \/ RootMember(g, n, i, in, ch)
          \/ RootEmpty(g, n, i, in, ch)
          \/ RootElects(g, n, i, in, ch)
          \/ KeepSubtrees(g, n, i, in, ch)
          \/ PassSubtrees(g, n, i, in, ch)
          \/ SplitSubtrees(g, n, i, in, ch)
     ELSE Step(g, n, i, {}, ch)

(***************************************************************************)
(* newGroupCollective, setupCollective: the node casts its vote, after the *)
(* votes of its children that were waiting for it.  Serving them clears    *)
(* waiting_cont_, whatever group the others belong to.                     *)
(***************************************************************************)
SetupCollective(g, n) ==
  /\ n \notin setup[g]
  /\ \A h \in 1 .. g - 1 : n \in setup[h]
  /\ LET early == {w.vote : w \in {x \in waiting_cont[n] : x.g = g}}
     IN /\ waiting_cont' = [waiting_cont EXCEPT ![n] = IF early = {} THEN @ ELSE {}]
        /\ CollectiveFn(g, n, [info[g][n] EXCEPT !.msgs = early], net)
  /\ setup' = [setup EXCEPT ![g] = @ \cup {n}]
  /\ UNCHANGED <<members, built, sender, delivered>>

(***************************************************************************)
(* The handlers.  m is a message from a that has arrived at n.             *)
(***************************************************************************)
\* upHan, triggerContinuationT: a vote for a group n has yet to create waits.
UpHan(n, a, m) ==
  /\ m.type = "up"
  /\ IF n \in setup[m.g]
     THEN /\ CollectiveFn(m.g, n, [info[m.g][n] EXCEPT !.msgs = @ \cup {m.vote}], Taken(n, a, m))
          /\ UNCHANGED waiting_cont
     ELSE /\ waiting_cont' = [waiting_cont EXCEPT ![n] = @ \cup {[g |-> m.g, vote |-> m.vote]}]
          /\ net' = Taken(n, a, m)
          /\ UNCHANGED info
  /\ UNCHANGED <<members, setup, built, sender, delivered>>

\* downTree: take the subtree, or hand it on when there are four already; the
\* sender is told at once.
DownTree(n, a, m) ==
  LET g == m.g
      i == info[g][n]
      reply == To({a}, Msg("downFinished", g))
  IN /\ m.type = "down"
     /\ \/ /\ Cardinality(i.span_children) < 4
           /\ Step(g, n, [i EXCEPT !.span_children = @ \cup {m.child}], reply, Taken(n, a, m))
        \/ /\ Cardinality(i.span_children) >= 4
           /\ \E c \in i.span_children :
                Step(g, n, [i EXCEPT !.outstanding = @ + 1], To({c}, m) \cup reply, Taken(n, a, m))
     /\ UNCHANGED <<members, setup, waiting_cont, built, sender, delivered>>

DownTreeFinished(n, a, m) ==
  LET i == [info[m.g][n] EXCEPT !.outstanding = @ - 1]
  IN /\ m.type = "downFinished"
     /\ Step(m.g, n, Finalized(m.g, n, i), FinalizeMsgs(m.g, n, i), Taken(n, a, m))
     /\ UNCHANGED <<members, setup, waiting_cont, built, sender, delivered>>

NewRoot(n, a, m) ==
  /\ m.type = "newRoot"
  /\ Step(m.g, n, [info[m.g][n] EXCEPT !.root = n, !.is_new_root = TRUE], {}, Taken(n, a, m))
  /\ UNCHANGED <<members, setup, waiting_cont, built, sender, delivered>>

FinalizeTree(n, a, m) ==
  LET i == [info[m.g][n] EXCEPT !.in_phase_two = TRUE, !.root = m.root,
                                !.is_default_group = m.default]
  IN /\ m.type = "finalize"
     /\ Step(m.g, n, Finalized(m.g, n, i), FinalizeMsgs(m.g, n, i), Taken(n, a, m))
     /\ UNCHANGED <<members, setup, waiting_cont, built, sender, delivered>>

\* Mutant: the node that broadcast is sent its own message.
RelayToAll(g, n, i, src, first) ==
  LET up == IF first /\ n # i.root THEN {i.root} ELSE {}
  IN IF n # src \/ first
     THEN To(i.span.children \cup up, [type |-> "bcast", g |-> g, src |-> src])
     ELSE {}

(***************************************************************************)
(* sendGroupCollective on a member with its tree: to the children, and     *)
(* from the node that broadcasts (first) to the group's root as well.      *)
(* src is the envelope's destination, the node that broadcast.             *)
(***************************************************************************)
Relay(g, n, i, src, first) ==
  LET up == IF first /\ n # i.root THEN {i.root} ELSE {}
  IN IF n # src \/ first
     THEN To((i.span.children \ {src}) \cup up, [type |-> "bcast", g |-> g, src |-> src])
     ELSE {}

(***************************************************************************)
(* newTree: the tree is sent down and put in place, the creator's action   *)
(* runs, then the broadcasts that waited for the tree.                     *)
(***************************************************************************)
TreeOf(i, from) == [parent |-> IF i.is_new_root THEN uninitialized ELSE from,
                    children |-> i.span_children]

newTree(g, n, from, ch) ==
  LET i == info[g][n]
      j == [i EXCEPT !.span = TreeOf(i, from), !.actions = @ + 1, !.pending = << >>]
  IN Step(g, n, j,
          To(i.span_children, Msg("newTree", g))
          \cup UNION {Relay(g, n, j, sender[g], i.pending[k]) : k \in DOMAIN i.pending}, ch)

NewTree(n, a, m) ==
  /\ m.type = "newTree"
  /\ newTree(m.g, n, a, Taken(n, a, m))
  /\ UNCHANGED <<members, setup, waiting_cont, built, sender, delivered>>

\* The reduction every node joined in finalize ends on the root, which passes
\* the word to the group's root.
CollSetupFinished(g) ==
  LET i == info[g][Root]
  IN /\ ~built[g]
     /\ \A n \in Node : info[g][n].reduced > 0
     /\ built' = [built EXCEPT ![g] = TRUE]
     /\ IF i.root \notin {Root, uninitialized}
        THEN Step(g, Root, i, To({i.root}, Msg("newTree", g)), net)
        ELSE newTree(g, Root, uninitialized, net)
     /\ UNCHANGED <<members, setup, waiting_cont, sender, delivered>>

\* Mutant: a member without its tree delivers the message and forgets it.
SendGroupUnready(g, n, src, first, ch) ==
  LET i == info[g][n]
  IN IF n \in members[g]
     THEN /\ delivered' = [delivered EXCEPT ![g][n] = @ + 1]
          /\ Step(g, n, i, IF i.span # NoSpan THEN Relay(g, n, i, src, first) ELSE {}, ch)
     ELSE /\ UNCHANGED delivered
          /\ Step(g, n, i, To({i.root} \ {uninitialized}, [type |-> "bcast", g |-> g, src |-> src]), ch)

(***************************************************************************)
(* sendGroupCollective.  A member delivers the message to itself, and      *)
(* relays it now or when its tree is in place.  Any other node passes it   *)
(* to the group's root, and drops it if it knows of none.                  *)
(***************************************************************************)
SendGroupCollective(g, n, src, first, ch) ==
  LET i == info[g][n]
  IN IF n \in members[g]
     THEN /\ delivered' = [delivered EXCEPT ![g][n] = @ + 1]
          /\ IF i.span # NoSpan
             THEN Step(g, n, i, Relay(g, n, i, src, first), ch)
             ELSE Step(g, n, [i EXCEPT !.pending = Append(@, first)], {}, ch)
     ELSE /\ UNCHANGED delivered
          /\ Step(g, n, i, To({i.root} \ {uninitialized}, [type |-> "bcast", g |-> g, src |-> src]), ch)

\* A node broadcasts.  One outside the group waits for its action to run; a
\* member need not.
BroadcastMsg(g, n) ==
  /\ n \in Senders /\ sender[g] = uninitialized
  /\ n \in setup[g]
  /\ n \in members[g] \/ info[g][n].actions > 0
  /\ sender' = [sender EXCEPT ![g] = n]
  /\ SendGroupCollective(g, n, n, TRUE, net)
  /\ UNCHANGED <<members, setup, waiting_cont, built>>

\* processActiveMsg, groupHandler.
BroadcastHan(n, a, m) ==
  /\ m.type = "bcast"
  /\ SendGroupCollective(m.g, n, m.src, FALSE, Taken(n, a, m))
  /\ UNCHANGED <<members, setup, waiting_cont, built, sender>>

Handle(n, a, m) ==
  \/ UpHan(n, a, m)
  \/ DownTree(n, a, m)
  \/ DownTreeFinished(n, a, m)
  \/ NewRoot(n, a, m)
  \/ FinalizeTree(n, a, m)
  \/ NewTree(n, a, m)
  \/ BroadcastHan(n, a, m)

\* What the program does by itself once every node calls newGroupCollective.
Progress ==
  \/ \E g \in Group, n \in Node : SetupCollective(g, n)
  \/ \E p \in BagToSet(net) : Handle(p.to, p.from, p.m)
  \/ \E g \in Group : CollSetupFinished(g)

Next == Progress \/ \E g \in Group, n \in Node : BroadcastMsg(g, n)

\* Every node calls newGroupCollective for every group, the schedulers run
\* and the network delivers.  Nobody is obliged to broadcast.
Fairness == WF_vars(Progress)

Spec == Init /\ [][Next]_vars /\ Fairness

-----------------------------------------------------------------------------
(***************************************************************************)
(* Properties                                                              *)
(***************************************************************************)
\* When the reduction ends the subtrees have stopped moving: every node knows
\* the same root, a member; the lists of children make one tree of exactly
\* the members below it; and is_default_group_ is set if they are all the
\* nodes there are.  A node takes the one whose list it is in for its parent;
\* the group's root has no parent, or the default root if newTree overtakes
\* newRoot.  (upTree, downTree, finalize; "only nodes that are part of the
\* group can be in the spanning tree", sendGroupCollective.)
SpanningTree ==
  \A g \in Group : built[g] =>
    LET kids(n) == info[g][n].span_children
        r == info[g][Root].root
        below == members[g] \ {r}
    IN /\ r \in (IF members[g] = {} THEN {uninitialized} ELSE members[g])
       /\ \A n \in Node : /\ info[g][n].root = r
                          /\ info[g][n].outstanding = 0
                          /\ info[g][n].is_default_group <=> members[g] = Node
                          /\ kids(n) \subseteq below
                          /\ n \notin members[g] => kids(n) = {}
       /\ \A c \in below : Cardinality({p \in members[g] : c \in kids(p)}) = 1
       /\ \A S \in SUBSET below : S # {} => \E c \in S, p \in members[g] \ S : c \in kids(p)
       /\ \A c \in members[g] :
            LET parent == info[g][c].span.parent
            IN info[g][c].span # NoSpan =>
                 IF c = r THEN parent \in {uninitialized, Root} ELSE c \in kids(parent)

\* A node joins the closing reduction once, though every acknowledgement
\* calls finalize again; and the action given to newGroupCollective runs once
\* on each node (for an empty group, twice on the root of the default tree).
FinalizedOnce ==
  \A g \in Group, n \in Node :
    /\ info[g][n].reduced <= 1
    /\ members[g] # {} => info[g][n].actions <= 1

\* A broadcast to the group runs at most once on a member and never on any
\* other node, whatever part of the new tree is in place when it is made
\* (sendGroupCollective, readyAction).
DeliveredOnce ==
  \A g \in Group, n \in Node : delivered[g][n] <= IF n \in members[g] THEN 1 ELSE 0

\* The action given to newGroupCollective runs on every node once all of them
\* have called it ("action to execute when group is finished construction"),
\* if no other group is under construction: with two, the votes for one that
\* wait in waiting_cont_ are cleared when a node serves those for the other.
GroupBuilt == <>(\A g \in Group, n \in Node : info[g][n].actions > 0)

\* A broadcast reaches every member, also one made before the tree is there.
BroadcastReaches ==
  \A g \in Group :
    sender[g] # uninitialized ~> \A n \in members[g] : delivered[g][n] > 0
=============================================================================
