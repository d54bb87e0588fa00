---------------------------- MODULE TermWaveProofs ----------------------------
(***************************************************************************)
(* Every action preserves IndInv, and what follows: wave termination       *)
(* detection is safe for any number of nodes and any amount of work.       *)
(* First how each operation on an epoch's record preserves the part of     *)
(* IndInv that is about waves: local counting, a child's counts,           *)
(* submission to the parent, detection and the next wave at the root, a    *)
(* continue.  Then the operations in sequence: the invariant in the middle *)
(* of a handler that calls several of them, from its start to each call it *)
(* makes; how handlers end, the actions, and the theorems.                 *)
(***************************************************************************)
EXTENDS TermWaveInv

\* The configuration arguments have their types.
Config(kn, st, cts, cns, out, cr) ==
  /\ kn \in SUBSET Node
  /\ st \in [Node -> TermStates]
  /\ cts \in SUBSET CountMsg
  /\ cns \in SUBSET ContinueMsg
  /\ out \in [Node -> Nat]
  /\ cr \in SUBSET Node

Effects == [s : TermStates, sent : SUBSET CountMsg, waves : SUBSET Wave, term : BOOLEAN]

-----------------------------------------------------------------------------
\* Waves, the tree and records.

\* The wrapping wave counter is injective and always moves.
LEMMA NextWaveFacts ==
  /\ \A w \in Wave : NextWave(w) \in Wave /\ NextWave(w) # w
  /\ \A v, w \in Wave : NextWave(v) = NextWave(w) => v = w
  /\ 0 \in Wave /\ MaxWave \in Wave /\ MaxWave # 0 /\ NextWave(MaxWave) = 0
BY MaxWaveAssumption DEF Wave, NextWave

\* The root is a node, and every other node has a smaller parent it is a child of.
LEMMA TreeFacts ==
  /\ Root \in Node
  /\ \A c \in Node \ {Root} :
       /\ Parent(c) \in Node
       /\ Parent(c) < c
       /\ c \in Children(Parent(c))
       /\ c = 2 * Parent(c) + 1 \/ c = 2 * Parent(c) + 2
BY NumNodesAssumption DEF Root, Node, Parent, Children, IsChild

\* The operations on a record keep its type.
LEMMA RecordTypes ==
  ASSUME NEW s \in TermStates
  PROVE  /\ NewState(TRUE) \in TermStates
         /\ NewState(FALSE) \in TermStates
         /\ Produced(s) \in TermStates
         /\ Consumed(s) \in TermStates
         /\ Activated(s) \in TermStates
         /\ Submitted(s) \in TermStates
         /\ StartedWave(s) \in TermStates
         /\ Detected(s) \in TermStates
         /\ \A p, c \in Nat : ChildReceived(s, p, c) \in TermStates
         /\ \A d \in Int : [s EXCEPT !.deps = d] \in TermStates
         /\ \A w \in Wave : [s EXCEPT !.cur_wave = w] \in TermStates
         /\ [s EXCEPT !.local_terminated = TRUE] \in TermStates
<1>1. NewState(TRUE) \in TermStates /\ NewState(FALSE) \in TermStates
  BY NextWaveFacts DEF NewState, TermStates
<1>2. /\ s.l_prod + 1 \in Nat /\ s.l_cons + 1 \in Nat /\ s.recv_child_count + 1 \in Nat
      /\ s.g_prod1 + s.l_prod \in Nat /\ s.g_cons1 + s.l_cons \in Nat
      /\ \A p \in Nat : s.g_prod1 + p \in Nat /\ s.g_cons1 + p \in Nat
  BY DEF TermStates
<1>3. NextWave(s.cur_wave) \in Wave /\ NextWave(s.submitted_wave) \in Wave
  BY Zenon, NextWaveFacts DEF TermStates
<1>4. Produced(s) \in TermStates
  BY Zenon, <1>2 DEF Produced, TermStates
<1>5. Consumed(s) \in TermStates
  BY Zenon, <1>2 DEF Consumed, TermStates
<1>6. Activated(s) \in TermStates
  BY Zenon DEF Activated, TermStates
<1>7. Submitted(s) \in TermStates
  BY Zenon, <1>3 DEF Submitted, TermStates
<1>8. StartedWave(s) \in TermStates
  BY Zenon, <1>2, <1>3 DEF StartedWave, TermStates
<1>9. Detected(s) \in TermStates
  BY Zenon, <1>2 DEF Detected, TermStates
<1>10. \A p, c \in Nat : ChildReceived(s, p, c) \in TermStates
  BY Zenon, <1>2 DEF ChildReceived, TermStates
<1>11. /\ \A d \in Int : [s EXCEPT !.deps = d] \in TermStates
       /\ \A w \in Wave : [s EXCEPT !.cur_wave = w] \in TermStates
       /\ [s EXCEPT !.local_terminated = TRUE] \in TermStates
  BY Zenon DEF TermStates
<1> QED BY Zenon, <1>1, <1>4, <1>5, <1>6, <1>7, <1>8, <1>9, <1>10, <1>11

\* The calls a handler makes keep the type of its effect.
LEMMA EffectTypes ==
  ASSUME NEW n \in Node, NEW e \in Effects
  PROVE  /\ PropagateEpoch(n, e) \in Effects
         /\ MaybePropagate(n, e) \in Effects
<1>1. CASE n # Root
  <2>1. Submitted(e.s) \in TermStates
    BY Zenon, RecordTypes DEF Effects
  <2>2. [from |-> n, wave |-> e.s.cur_wave, prod |-> e.s.g_prod1 + e.s.l_prod,
         cons |-> e.s.g_cons1 + e.s.l_cons] \in CountMsg
    BY <1>1 DEF CountMsg, Effects, TermStates
  <2>3. PropagateEpoch(n, e) \in Effects
    BY Zenon, <1>1, <2>1, <2>2 DEF PropagateEpoch, Effects
  <2> QED BY Zenon, <2>3 DEF MaybePropagate
<1>2. CASE n = Root
  <2>1. Detected(e.s) \in TermStates /\ StartedWave(e.s) \in TermStates
    BY Zenon, RecordTypes DEF Effects
  <2>2. NextWave(e.s.cur_wave) \in Wave
    BY Zenon, NextWaveFacts DEF Effects, TermStates
  <2>3. PropagateEpoch(n, e) \in Effects
    BY Zenon, <1>2, <2>1, <2>2 DEF PropagateEpoch, Effects
  <2> QED BY Zenon, <2>3 DEF MaybePropagate
<1> QED BY Zenon, <1>1, <1>2

-----------------------------------------------------------------------------
\* What leaves the wave fields of the records alone leaves the waves alone.
LEMMA WaveFrame ==
  ASSUME NEW st \in [Node -> TermStates], NEW st2 \in [Node -> TermStates],
         NEW cts \in SUBSET CountMsg, NEW cns,
         \A m \in Node : /\ st2[m].cur_wave = st[m].cur_wave
                         /\ st2[m].submitted_wave = st[m].submitted_wave
  PROVE  /\ \A m \in Node : Sub(st2, m) <=> Sub(st, m)
         /\ \A m : Arrived(st2, cts, m) <=> Arrived(st, cts, m)
         /\ Coordination(st, cns) => Coordination(st2, cns)
         /\ InFlight(st, cts) => InFlight(st2, cts)
<1>1. \A m \in Node : Sub(st2, m) <=> Sub(st, m)
  BY Zenon, TreeFacts DEF Sub
<1>2. \A m : Arrived(st2, cts, m) <=> Arrived(st, cts, m)
  BY Zenon, <1>1 DEF Arrived
<1>3. Coordination(st, cns) => Coordination(st2, cns)
  BY TreeFacts DEF Coordination
<1>4. \A msg \in cts : msg.from \in Node
  BY Zenon DEF CountMsg
<1>5. InFlight(st, cts) => InFlight(st2, cts)
  BY Zenon, <1>1, <1>4, TreeFacts DEF InFlight
<1> QED BY Zenon, <1>1, <1>2, <1>3, <1>5

\* What also leaves the gathered counts alone leaves the gathering alone.
LEMMA GatherFrame ==
  ASSUME NEW st \in [Node -> TermStates], NEW st2 \in [Node -> TermStates],
         NEW cts \in SUBSET CountMsg,
         \A m \in Node : /\ st2[m].cur_wave = st[m].cur_wave
                         /\ st2[m].submitted_wave = st[m].submitted_wave
                         /\ st2[m].recv_child_count = st[m].recv_child_count
                         /\ st2[m].g_prod1 = st[m].g_prod1
                         /\ st2[m].g_cons1 = st[m].g_cons1,
         Gathering(st, cts)
  PROVE  Gathering(st2, cts)
<1>1. \A m \in Node : Sub(st2, m) <=> Sub(st, m)
  BY Zenon, WaveFrame
<1>2. \A m : Arrived(st2, cts, m) <=> Arrived(st, cts, m)
  BY Zenon, WaveFrame
<1>3. \A p : Heard(st2, cts, p) = Heard(st, cts, p)
  BY Zenon, <1>2 DEF Heard
<1> QED BY <1>1, <1>2, <1>3 DEF Gathering

\* The message in flight from a node that has one.
LEMMA UpMsgFact ==
  ASSUME NEW cts \in SUBSET CountMsg, NEW n \in Node, Up(cts, n)
  PROVE  /\ UpMsg(cts, n) \in cts
         /\ UpMsg(cts, n).from = n
         /\ UpMsg(cts, n).prod \in Nat
         /\ UpMsg(cts, n).cons \in Nat
<1>1. UpMsg(cts, n) \in cts /\ UpMsg(cts, n).from = n
  BY Zenon DEF Up, UpMsg
<1> QED BY Zenon, <1>1 DEF CountMsg

\* The summands of the invariant are integers.
LEMMA SummandTypes ==
  ASSUME NEW kn, NEW st, NEW cts, NEW cns, NEW out, NEW cr,
         Config(kn, st, cts, cns, out, cr)
  PROVE  /\ BalanceAt(st, out) \in [Node -> Int]
         /\ GatheredCons(st, cts) \in [Node -> Int]
         /\ GatheredProd(st, cts) \in [Node -> Int]
         /\ \A n \in Node : GatheredProd(st, cts)[n] >= 0
<1>1. \A n \in Node : /\ st[n].l_prod \in Nat /\ st[n].l_cons \in Nat /\ out[n] \in Nat
                      /\ st[n].g_prod1 \in Nat /\ st[n].g_cons1 \in Nat
  BY Zenon DEF Config, TermStates
<1>2. BalanceAt(st, out) \in [Node -> Int]
  BY <1>1 DEF BalanceAt
<1>3. \A n \in Node : Up(cts, n) => UpMsg(cts, n).prod \in Nat /\ UpMsg(cts, n).cons \in Nat
  BY Zenon, UpMsgFact DEF Config
<1>4. GatheredCons(st, cts) \in [Node -> Int]
  BY <1>1, <1>3 DEF GatheredCons
<1>5. GatheredProd(st, cts) \in [Node -> Int] /\ \A n \in Node : GatheredProd(st, cts)[n] >= 0
  BY <1>1, <1>3 DEF GatheredProd
<1> QED BY Zenon, <1>2, <1>4, <1>5

\* Record s becomes s2 without touching what the waves have gathered.
Aside(s, s2) ==
  /\ s2.cur_wave = s.cur_wave
  /\ s2.submitted_wave = s.submitted_wave
  /\ s2.recv_child_count = s.recv_child_count
  /\ s2.g_prod1 = s.g_prod1
  /\ s2.g_cons1 = s.g_cons1
  /\ s2.g_cons2 = s.g_cons2
  /\ s2.l_prod >= s.l_prod
  /\ s2.l_cons >= s.l_cons
  /\ s.epoch_active => s2.epoch_active

\* What s2 has produced and consumed beyond s shows in the work outstanding on m.
Shows(s, s2, out, out2, m) ==
  /\ \A k \in Node \ {m} : out2[k] = out[k]
  /\ out2[m] = out[m] + (s2.l_prod - s.l_prod) - (s2.l_cons - s.l_cons)

\* A call that only counts work, activates the epoch or changes what the waves
\* do not look at: the record of n becomes s2, and what it produced and consumed
\* shows in the work outstanding on m.
LEMMA LocalStep ==
  ASSUME NEW kn, NEW st, NEW cts, NEW cns, NEW out, NEW cr,
         Config(kn, st, cts, cns, out, cr),
         Waving(kn, st, cts, cns, out, cr),
         NEW n \in Node, NEW s2 \in TermStates, Aside(st[n], s2),
         NEW cr2 \in SUBSET Node, cr \subseteq cr2,
         s2.epoch_active => n \in cr2,
         NEW m \in Node, NEW out2 \in [Node -> Nat], Shows(st[n], s2, out, out2, m),
         Quiet(out, cr) => Quiet(out2, cr2),
         Root \in cr2 => Root \in cr \/ (n = Root /\ s2.l_prod >= 1)
  PROVE  Waving(kn \cup {n}, [st EXCEPT ![n] = s2], cts, cns, out2, cr2)
<1>a. /\ s2.cur_wave = st[n].cur_wave
      /\ s2.submitted_wave = st[n].submitted_wave
      /\ s2.recv_child_count = st[n].recv_child_count
      /\ s2.g_prod1 = st[n].g_prod1
      /\ s2.g_cons1 = st[n].g_cons1
      /\ s2.g_cons2 = st[n].g_cons2
      /\ s2.l_prod >= st[n].l_prod
      /\ s2.l_cons >= st[n].l_cons
      /\ st[n].epoch_active => s2.epoch_active
  BY Zenon DEF Aside
<1>b. /\ \A k \in Node \ {m} : out2[k] = out[k]
      /\ out2[m] = out[m] + (s2.l_prod - st[n].l_prod) - (s2.l_cons - st[n].l_cons)
  BY Zenon DEF Shows
<1> USE <1>a, <1>b
<1> DEFINE st2 == [st EXCEPT ![n] = s2]
<1>0. Config(kn \cup {n}, st2, cts, cns, out2, cr2) /\ st \in [Node -> TermStates]
      /\ cts \in SUBSET CountMsg /\ out \in [Node -> Nat]
  BY Zenon DEF Config
<1>1. /\ st2 \in [Node -> TermStates]
      /\ st2[n] = s2
      /\ \A k \in Node \ {n} : st2[k] = st[k]
  BY Zenon, <1>0
<1>2. \A k \in Node : /\ st2[k].cur_wave = st[k].cur_wave
                      /\ st2[k].submitted_wave = st[k].submitted_wave
                      /\ st2[k].recv_child_count = st[k].recv_child_count
                      /\ st2[k].g_prod1 = st[k].g_prod1
                      /\ st2[k].g_cons1 = st[k].g_cons1
                      /\ st2[k].g_cons2 = st[k].g_cons2
  BY Zenon, <1>1
<1> HIDE DEF st2
<1>3. \A k \in Node : Sub(st2, k) <=> Sub(st, k)
  BY Zenon, <1>0, <1>1, <1>2, WaveFrame
<1>4. Coordination(st2, cns) /\ InFlight(st2, cts)
  BY Zenon, <1>0, <1>1, <1>2, WaveFrame DEF Waving
<1>5. Gathering(st2, cts)
  BY <1>0, <1>1, <1>2, GatherFrame DEF Waving
<1>6. Participation(kn \cup {n}, st2, cr2)
  <2>1. Participation(kn, st, cr)
    BY Zenon DEF Waving
  <2> SUFFICES ASSUME NEW k \in Node
               PROVE /\ st2[k].epoch_active => k \in cr2 /\ k \in kn \cup {n}
                     /\ ~st2[k].epoch_active =>
                          /\ st2[k].submitted_wave = MaxWave
                          /\ st2[Root].cur_wave = 0
                          /\ k = Root => st2[k].g_cons2 = 0
                     /\ k \notin kn \cup {n} => st2[k] = NewState(FALSE)
    BY Zenon DEF Participation
  <2>2. CASE k = n
    BY Zenon, <2>1, <2>2, <1>1, <1>2, TreeFacts DEF Participation
  <2>3. CASE k # n
    BY Zenon, <2>1, <2>3, <1>1, <1>2, TreeFacts DEF Participation
  <2> QED BY Zenon, <2>2, <2>3
<1>7. /\ s2.l_prod \in Nat /\ s2.l_cons \in Nat
      /\ st[n].l_prod \in Nat /\ st[n].l_cons \in Nat
  BY Zenon, <1>0 DEF TermStates
<1>8. Balance(st2, out2)
  <2> DEFINE mid == [k \in Node |-> IF k = n THEN s2.l_prod - s2.l_cons - out[n]
                                            ELSE BalanceAt(st, out)[k]]
  <2>1. BalanceAt(st, out) \in [Node -> Int] /\ BalanceAt(st2, out2) \in [Node -> Int]
    BY Zenon, <1>0, SummandTypes
  <2>2. mid \in [Node -> Int]
    BY <2>1, <1>7, <1>0
  <2>3. \A k \in Node \ {n} : mid[k] = BalanceAt(st, out)[k]
    BY Zenon
  <2>4. NodeSum(mid) = NodeSum(BalanceAt(st, out)) + mid[n] - BalanceAt(st, out)[n]
    BY Zenon, <2>1, <2>2, <2>3, NodeSumUpdate
  <2>5. \A k \in Node \ {m} : BalanceAt(st2, out2)[k] = mid[k]
    BY Zenon, <1>1 DEF BalanceAt
  <2>6. NodeSum(BalanceAt(st2, out2)) = NodeSum(mid) + BalanceAt(st2, out2)[m] - mid[m]
    BY Zenon, <2>1, <2>2, <2>5, NodeSumUpdate
  <2>7. mid[n] - BalanceAt(st, out)[n]
          = (s2.l_prod - st[n].l_prod) - (s2.l_cons - st[n].l_cons)
    BY <1>7, <1>0 DEF BalanceAt
  <2>8. BalanceAt(st2, out2)[m] - mid[m] = out[m] - out2[m]
    <3>1. mid[m] = st2[m].l_prod - st2[m].l_cons - out[m]
      BY Zenon, <1>1 DEF BalanceAt
    <3>2. st2[m].l_prod \in Nat /\ st2[m].l_cons \in Nat /\ out[m] \in Nat /\ out2[m] \in Nat
      BY Zenon, <1>1, <1>0 DEF TermStates
    <3> QED BY <3>1, <3>2 DEF BalanceAt
  <2>9. NodeSum(BalanceAt(st, out)) = 0
    BY Zenon DEF Waving, Balance
  <2>10. out[m] \in Nat /\ out2[m] \in Nat /\ NodeSum(mid) \in Int
    BY Zenon, <1>0, <2>2, NodeSumInt
  <2>11. mid[n] \in Int /\ mid[m] \in Int /\ BalanceAt(st2, out2)[m] \in Int
         /\ BalanceAt(st, out)[n] \in Int
    BY Zenon, <2>1, <2>2
  <2> HIDE DEF mid
  <2> QED BY <2>4, <2>6, <2>7, <2>8, <2>9, <2>10, <2>11, <1>7 DEF Balance
<1>9. Lower(st2, cts)
  <2> DEFINE f == GatheredCons(st, cts)
             g == GatheredCons(st2, cts)
  <2>1. f \in [Node -> Int] /\ g \in [Node -> Int]
    BY Zenon, <1>0, SummandTypes
  <2>2. \A k \in Node \ {n} : g[k] = f[k]
    BY Zenon, <1>1, <1>3 DEF GatheredCons
  <2>3. NodeSum(g) = NodeSum(f) + g[n] - f[n]
    BY Zenon, <2>1, <2>2, NodeSumUpdate
  <2>4. g[n] >= f[n]
    <3> DEFINE u == IF Up(cts, n) THEN UpMsg(cts, n).cons ELSE 0
    <3>1. u \in Nat
      BY Zenon, <1>0, UpMsgFact
    <3>2. g[n] = (IF Sub(st2, n) THEN s2.l_cons ELSE 0) - s2.g_cons1 - u
      BY Zenon, <1>1 DEF GatheredCons
    <3>3. f[n] = (IF Sub(st, n) THEN st[n].l_cons ELSE 0) - st[n].g_cons1 - u
      BY Zenon DEF GatheredCons
    <3>4. s2.g_cons1 \in Nat
      BY Zenon DEF TermStates
    <3> HIDE DEF u, f, g
    <3> QED BY <3>1, <3>2, <3>3, <3>4, <1>3, <1>7
  <2>5. NodeSum(f) >= 0 /\ NodeSum(f) \in Int
    BY Zenon, <2>1, NodeSumInt DEF Waving, Lower
  <2> HIDE DEF f, g
  <2>6. g[n] \in Int /\ f[n] \in Int
    BY Zenon, <2>1
  <2>7. NodeSum(g) >= 0
    BY <2>3, <2>4, <2>5, <2>6
  <2> QED BY Zenon, <2>7 DEF Lower, g
<1>10. Upper(st2, cts, out2, cr2)
  <2> DEFINE f == GatheredProd(st, cts)
             g == GatheredProd(st2, cts)
  <2>1. f \in [Node -> Int] /\ g \in [Node -> Int] /\ \A k \in Node : g[k] >= 0
    BY Zenon, <1>0, SummandTypes
  <2>2. \A k \in Node \ {n} : g[k] = f[k]
    BY Zenon, <1>1, <1>3 DEF GatheredProd
  <2>3. NodeSum(g) = NodeSum(f) + g[n] - f[n]
    BY Zenon, <2>1, <2>2, NodeSumUpdate
  <2>u. (IF Up(cts, n) THEN UpMsg(cts, n).prod ELSE 0) \in Nat
    BY Zenon, <1>0, UpMsgFact
  <2> DEFINE u == IF Up(cts, n) THEN UpMsg(cts, n).prod ELSE 0
  <2>v. g[n] = (IF Sub(st2, n) THEN 0 ELSE s2.l_prod) + s2.g_prod1 + u
    BY Zenon, <1>1 DEF GatheredProd
  <2>w. f[n] = (IF Sub(st, n) THEN 0 ELSE st[n].l_prod) + st[n].g_prod1 + u
    BY Zenon DEF GatheredProd
  <2>x. s2.g_prod1 \in Nat
    BY Zenon DEF TermStates
  <2>i. NodeSum(f) \in Int /\ NodeSum(g) \in Int /\ g[n] \in Int /\ f[n] \in Int
    BY Zenon, <2>1, NodeSumInt
  <2>c. st2[Root].g_cons2 = st[Root].g_cons2 /\ st[Root].g_cons2 \in Nat
    BY Zenon, <1>0, <1>2, TreeFacts DEF TermStates
  <2>4. g[n] >= f[n]
    <3> HIDE DEF u, f, g
    <3> QED BY <2>u, <2>v, <2>w, <2>x, <1>3, <1>7 DEF u
  <2>5. CASE Quiet(out, cr)
    BY Zenon, <2>5 DEF Upper
  <2>6. CASE Root \notin cr2
    BY Zenon, <2>6 DEF Upper
  <2>7. CASE NodeSum(f) > st[Root].g_cons2
    <3>1. NodeSum(g) > st2[Root].g_cons2
      <4> HIDE DEF f, g, u
      <4> QED BY <2>3, <2>4, <2>i, <2>c, <2>7
    <3> QED BY Zenon, <3>1 DEF Upper
  <2>8. CASE Root \in cr2 /\ Root \notin cr
    <3>1. n = Root /\ s2.l_prod >= 1
      BY Zenon, <2>8
    <3>2. st[Root].g_cons2 = 0
      BY Zenon, <2>8, TreeFacts DEF Waving, Participation
    <3>3. ~Sub(st2, Root)
      BY Zenon DEF Sub
    <3>4. g[n] >= 1
      <4> HIDE DEF f, g, u
      <4> QED BY <3>1, <3>3, <2>u, <2>v, <2>x, <1>7 DEF u
    <3>5. NodeSum(g) >= g[n]
      BY Zenon, <2>1, NodeSumNat
    <3>6. NodeSum(g) > st2[Root].g_cons2
      <4> HIDE DEF f, g, u
      <4> QED BY <3>2, <3>4, <3>5, <2>i, <2>c
    <3> QED BY Zenon, <3>6 DEF Upper
  <2>9. Upper(st, cts, out, cr)
    BY Zenon DEF Waving
  <2> QED BY Zenon, <2>5, <2>6, <2>7, <2>8, <2>9 DEF Upper
<1> QED BY Zenon, <1>4, <1>5, <1>6, <1>8, <1>9, <1>10 DEF Waving, st2

\* After detection a record may change to any that cannot submit again.
LEMMA OverStep ==
  ASSUME NEW st \in [Node -> TermStates], NEW cts, NEW cns, NEW out, NEW cr,
         Over(st, cts, cns, out, cr),
         NEW n \in Node, NEW s2 \in TermStates,
         s2.epoch_active => s2.term_detected \/ s2.cur_wave = s2.submitted_wave
  PROVE  Over([st EXCEPT ![n] = s2], cts, cns, out, cr)
BY Zenon DEF Over

\* A continue finds a node that has submitted the wave before it.
LEMMA ContinueFinds ==
  ASSUME NEW kn, NEW st, NEW cts, NEW cns, NEW out, NEW cr,
         Config(kn, st, cts, cns, out, cr),
         Waving(kn, st, cts, cns, out, cr),
         NEW msg \in cns
  PROVE  /\ msg.to \in Node \ {Root}
         /\ msg.to \in kn
         /\ msg.wave = st[Root].cur_wave
         /\ msg.wave = NextWave(st[msg.to].cur_wave)
         /\ st[msg.to].submitted_wave = st[msg.to].cur_wave
<1>1. msg \in ContinueMsg
  BY Zenon DEF Config
<1>2. msg.to \in Node \ {Root} /\ msg = [to |-> msg.to, wave |-> msg.wave]
  BY Zenon, <1>1 DEF ContinueMsg
<1>3. Coordination(st, cns) /\ Participation(kn, st, cr)
  BY Zenon DEF Waving
<1>4. msg.wave = st[Root].cur_wave
  BY Zenon, <1>3 DEF Coordination
<1>5. [to |-> msg.to, wave |-> st[Root].cur_wave] \in cns
  BY Zenon, <1>2, <1>4
<1>6. /\ st[msg.to].submitted_wave = st[msg.to].cur_wave
      /\ NextWave(st[msg.to].cur_wave) = st[Root].cur_wave
  BY Zenon, <1>2, <1>3, <1>5 DEF Coordination
<1>7. msg.to \in kn
  <2> SUFFICES ASSUME msg.to \notin kn PROVE FALSE
    BY Zenon
  <2>1. st[msg.to] = NewState(FALSE)
    BY Zenon, <1>2, <1>3 DEF Participation
  <2>2. st[msg.to].cur_wave = 0 /\ st[msg.to].submitted_wave = MaxWave
    BY <2>1 DEF NewState
  <2> QED BY Zenon, <2>2, <1>6, NextWaveFacts
<1> QED BY Zenon, <1>2, <1>4, <1>6, <1>7

\* receiveContinueSignal brings the node into the root's wave.
LEMMA ContinueStep ==
  ASSUME NEW kn, NEW st, NEW cts, NEW cns, NEW out, NEW cr,
         Config(kn, st, cts, cns, out, cr),
         Waving(kn, st, cts, cns, out, cr),
         NEW msg \in cns
  PROVE  LET s2 == [st[msg.to] EXCEPT !.cur_wave = msg.wave]
         IN /\ s2 \in TermStates
            /\ Waving(kn \cup {msg.to}, [st EXCEPT ![msg.to] = s2], cts, cns \ {msg}, out, cr)
<1> DEFINE n == msg.to
           s2 == [st[n] EXCEPT !.cur_wave = msg.wave]
           st2 == [st EXCEPT ![n] = s2]
<1>1. /\ n \in Node \ {Root}
      /\ n \in kn
      /\ msg.wave = st[Root].cur_wave
      /\ msg.wave = NextWave(st[n].cur_wave)
      /\ st[n].submitted_wave = st[n].cur_wave
  BY ContinueFinds
<1>2. st \in [Node -> TermStates] /\ cts \in SUBSET CountMsg /\ cns \in SUBSET ContinueMsg
  BY Zenon DEF Config
<1>3. msg.wave \in Wave /\ msg = [to |-> n, wave |-> msg.wave]
  BY Zenon, <1>2 DEF ContinueMsg
<1>4. s2 \in TermStates
  BY Zenon, <1>1, <1>2, <1>3, RecordTypes
<1>5. /\ s2.cur_wave = msg.wave
      /\ s2.submitted_wave = st[n].submitted_wave
      /\ s2.recv_child_count = st[n].recv_child_count
      /\ s2.g_prod1 = st[n].g_prod1 /\ s2.g_cons1 = st[n].g_cons1
      /\ s2.g_cons2 = st[n].g_cons2
      /\ s2.l_prod = st[n].l_prod /\ s2.l_cons = st[n].l_cons
      /\ s2.epoch_active = st[n].epoch_active
  BY <1>1, <1>2 DEF TermStates
<1>6. /\ st2 \in [Node -> TermStates]
      /\ st2[n] = s2
      /\ \A k \in Node \ {n} : st2[k] = st[k]
      /\ st2[Root] = st[Root]
  BY Zenon, <1>1, <1>2, <1>4, TreeFacts
<1>7. \A k \in Node : /\ st2[k].submitted_wave = st[k].submitted_wave
                      /\ st2[k].recv_child_count = st[k].recv_child_count
                      /\ st2[k].g_prod1 = st[k].g_prod1 /\ st2[k].g_cons1 = st[k].g_cons1
                      /\ st2[k].g_cons2 = st[k].g_cons2
                      /\ st2[k].l_prod = st[k].l_prod /\ st2[k].l_cons = st[k].l_cons
                      /\ st2[k].epoch_active = st[k].epoch_active
  BY Zenon, <1>5, <1>6
<1> HIDE DEF st2, s2
<1>8. \A k \in Node : Sub(st2, k) <=> Sub(st, k)
  BY Zenon, <1>6, <1>7 DEF Sub
<1>9. \A k : Arrived(st2, cts, k) <=> Arrived(st, cts, k)
  BY Zenon, <1>8 DEF Arrived
<1>10. Coordination(st2, cns \ {msg})
  <2>1. Coordination(st, cns)
    BY Zenon DEF Waving
  <2> DEFINE wave == st[Root].cur_wave
  <2>2. ASSUME NEW k \in Node \ {Root}
        PROVE /\ \/ st2[k].cur_wave = wave /\ [to |-> k, wave |-> wave] \notin cns \ {msg}
                 \/ /\ st2[k].submitted_wave = st2[k].cur_wave
                    /\ NextWave(st2[k].cur_wave) = wave
                    /\ [to |-> k, wave |-> wave] \in cns \ {msg}
              /\ \/ st2[k].submitted_wave = st2[k].cur_wave
                 \/ NextWave(st2[k].submitted_wave) = st2[k].cur_wave
    <3>1. CASE k = n
      BY Zenon, <3>1, <1>1, <1>3, <1>5, <1>6
    <3>2. CASE k # n
      <4>1. [to |-> k, wave |-> wave] # msg
        BY <3>2, <1>3
      <4> QED BY Zenon, <3>2, <4>1, <2>1, <1>6 DEF Coordination
    <3> QED BY Zenon, <3>1, <3>2
  <2>3. \A m \in cns \ {msg} : m.wave = wave
    BY Zenon, <2>1 DEF Coordination
  <2> QED BY Zenon, <2>1, <2>2, <2>3, <1>6 DEF Coordination
<1>11. InFlight(st2, cts)
  <2>1. \A m \in cts : m.from \in Node
    BY Zenon, <1>2 DEF CountMsg
  <2> QED BY Zenon, <2>1, <1>6, <1>8 DEF Waving, InFlight
<1>12. Gathering(st2, cts)
  <2>1. \A p : Heard(st2, cts, p) = Heard(st, cts, p)
    BY Zenon, <1>9 DEF Heard
  <2> QED BY <2>1, <1>7, <1>8, <1>9 DEF Waving, Gathering
<1>13. Participation(kn \cup {n}, st2, cr)
  <2>1. Participation(kn, st, cr) /\ kn \cup {n} = kn
    BY Zenon, <1>1 DEF Waving
  <2>2. \A k \in Node : k \notin kn => st2[k] = st[k]
    BY Zenon, <1>1, <1>6
  <2> QED BY Zenon, <2>1, <2>2, <1>6, <1>7 DEF Participation
<1>14. Balance(st2, out)
  <2>1. BalanceAt(st2, out) = BalanceAt(st, out)
    BY Zenon, <1>7 DEF BalanceAt
  <2> QED BY Zenon, <2>1 DEF Waving, Balance
<1>15. Lower(st2, cts)
  <2>1. GatheredCons(st2, cts) = GatheredCons(st, cts)
    BY Zenon, <1>7, <1>8 DEF GatheredCons
  <2> QED BY Zenon, <2>1 DEF Waving, Lower
<1>16. Upper(st2, cts, out, cr)
  <2>1. GatheredProd(st2, cts) = GatheredProd(st, cts)
    BY Zenon, <1>7, <1>8 DEF GatheredProd
  <2> QED BY Zenon, <2>1, <1>6 DEF Waving, Upper
<1> QED BY Zenon, <1>4, <1>10, <1>11, <1>12, <1>13, <1>14, <1>15, <1>16 DEF Waving, st2, s2

\* Taking the message of node c out of flight leaves the other messages alone.
LEMMA UpFrame ==
  ASSUME NEW cts \in SUBSET CountMsg, NEW cts2 \in SUBSET CountMsg, NEW c,
         \A m1, m2 \in cts : m1.from = m2.from => m1 = m2,
         \A m1, m2 \in cts2 : m1.from = m2.from => m1 = m2,
         \A m \in CountMsg : m.from # c => (m \in cts <=> m \in cts2)
  PROVE  \A k \in Node : k # c => /\ Up(cts2, k) <=> Up(cts, k)
                                  /\ Up(cts, k) => UpMsg(cts2, k) = UpMsg(cts, k)
<1> SUFFICES ASSUME NEW k \in Node, k # c
             PROVE  /\ Up(cts2, k) <=> Up(cts, k)
                    /\ Up(cts, k) => UpMsg(cts2, k) = UpMsg(cts, k)
  BY Zenon
<1>1. Up(cts2, k) <=> Up(cts, k)
  BY Zenon DEF Up
<1>2. ASSUME Up(cts, k) PROVE UpMsg(cts2, k) = UpMsg(cts, k)
  <2>1. UpMsg(cts, k) \in cts /\ UpMsg(cts, k).from = k
    BY Zenon, <1>2, UpMsgFact
  <2>2. UpMsg(cts2, k) \in cts2 /\ UpMsg(cts2, k).from = k
    BY Zenon, <1>1, <1>2, UpMsgFact
  <2>3. UpMsg(cts, k) \in cts2
    BY Zenon, <2>1
  <2> QED BY Zenon, <2>1, <2>2, <2>3
<1> QED BY Zenon, <1>1, <1>2

\* Counts in flight are of the wave their receiver has yet to submit, which has
\* not counted the sender yet.
LEMMA CountFinds ==
  ASSUME NEW kn, NEW st, NEW cts, NEW cns, NEW out, NEW cr,
         Config(kn, st, cts, cns, out, cr),
         Waving(kn, st, cts, cns, out, cr),
         NEW msg \in cts
  PROVE  /\ msg.from \in Node \ {Root}
         /\ Parent(msg.from) \in Node
         /\ ~Sub(st, Parent(msg.from))
         /\ msg.wave = NextWave(st[Parent(msg.from)].submitted_wave)
         /\ st[Parent(msg.from)].recv_child_count < NumChildren(Parent(msg.from))
<1> DEFINE c == msg.from
           p == Parent(c)
<1>1. msg \in CountMsg /\ st \in [Node -> TermStates]
  BY Zenon DEF Config
<1>2. c \in Node \ {Root} /\ p \in Node /\ c \in Children(p)
      /\ (c = 2 * p + 1 \/ c = 2 * p + 2)
  BY Zenon, <1>1, TreeFacts DEF CountMsg
<1>3. Sub(st, c) /\ msg.wave = st[Root].cur_wave /\ Up(cts, c)
  BY Zenon DEF Waving, InFlight, Up
<1>4. ~Arrived(st, cts, c)
  BY Zenon, <1>3 DEF Arrived
<1>5. ~Sub(st, p)
  BY Zenon, <1>2, <1>4 DEF Waving, Gathering
<1>6. msg.wave = NextWave(st[p].submitted_wave)
  <2>1. CASE p = Root
    BY Zenon, <2>1, <1>3 DEF Waving, Coordination
  <2>2. CASE p # Root
    <3>1. st[p].submitted_wave # st[Root].cur_wave
      BY Zenon, <2>2, <1>5 DEF Sub
    <3> QED BY Zenon, <3>1, <2>2, <1>2, <1>3 DEF Waving, Coordination
  <2> QED BY Zenon, <2>1, <2>2
<1>7. st[p].recv_child_count < NumChildren(p)
  <2>1. st[p].recv_child_count = Heard(st, cts, p)
    BY Zenon, <1>2, <1>5 DEF Waving, Gathering
  <2>2. \A k : Arrived(st, cts, k) => k \in Node
    BY Zenon DEF Arrived
  <2>3. c < NumNodes /\ p \in Nat
    BY <1>2, NumNodesAssumption DEF Node
  <2>4. \A k \in Nat : Arrived(st, cts, k) => k < NumNodes
    BY <2>2, NumNodesAssumption DEF Node
  <2> HIDE DEF p, c
  <2>5. Heard(st, cts, p) < NumChildren(p)
    BY <2>3, <2>4, <1>2, <1>4, NumNodesAssumption DEF Heard, NumChildren
  <2> QED BY Zenon, <2>1, <2>5
<1> QED BY Zenon, <1>2, <1>5, <1>6, <1>7

\* propagateEpochExternal moves a child's counts from flight into its parent.
LEMMA ChildStep ==
  ASSUME NEW kn, NEW st, NEW cts, NEW cns, NEW out, NEW cr,
         Config(kn, st, cts, cns, out, cr),
         Waving(kn, st, cts, cns, out, cr),
         NEW msg \in cts
  PROVE  LET p  == Parent(msg.from)
             s2 == ChildReceived(st[p], msg.prod, msg.cons)
         IN /\ s2 \in TermStates
            /\ Waving(kn \cup {p}, [st EXCEPT ![p] = s2], cts \ {msg}, cns, out, cr)
<1> DEFINE c == msg.from
           p == Parent(c)
           s2 == ChildReceived(st[p], msg.prod, msg.cons)
           st2 == [st EXCEPT ![p] = s2]
           cts2 == cts \ {msg}
<1>1. /\ st \in [Node -> TermStates] /\ cts \in SUBSET CountMsg /\ cts2 \in SUBSET CountMsg
      /\ msg \in CountMsg
  BY Zenon DEF Config
<1>2. /\ c \in Node \ {Root} /\ p \in Node /\ p < c
      /\ c \in Children(p) /\ (c = 2 * p + 1 \/ c = 2 * p + 2)
      /\ msg.prod \in Nat /\ msg.cons \in Nat
  BY Zenon, <1>1, TreeFacts DEF CountMsg
<1>3. ~Sub(st, p) /\ Sub(st, c)
  BY Zenon, CountFinds DEF Waving, InFlight
<1>4. s2 \in TermStates
  BY Zenon, <1>1, <1>2, RecordTypes
<1>5. /\ s2.cur_wave = st[p].cur_wave /\ s2.submitted_wave = st[p].submitted_wave
      /\ s2.recv_child_count = st[p].recv_child_count + 1
      /\ s2.g_prod1 = st[p].g_prod1 + msg.prod /\ s2.g_cons1 = st[p].g_cons1 + msg.cons
      /\ s2.g_cons2 = st[p].g_cons2
      /\ s2.l_prod = st[p].l_prod /\ s2.l_cons = st[p].l_cons
      /\ s2.epoch_active = st[p].epoch_active
  BY <1>1, <1>2 DEF TermStates, ChildReceived
<1>6. /\ st2 \in [Node -> TermStates]
      /\ st2[p] = s2
      /\ \A k \in Node \ {p} : st2[k] = st[k]
  BY Zenon, <1>1, <1>2, <1>4
<1>7. \A k \in Node : /\ st2[k].cur_wave = st[k].cur_wave
                      /\ st2[k].submitted_wave = st[k].submitted_wave
                      /\ st2[k].g_cons2 = st[k].g_cons2
                      /\ st2[k].l_prod = st[k].l_prod /\ st2[k].l_cons = st[k].l_cons
                      /\ st2[k].epoch_active = st[k].epoch_active
  BY Zenon, <1>5, <1>6
<1>8. /\ \A m1, m2 \in cts : m1.from = m2.from => m1 = m2
      /\ \A m1, m2 \in cts2 : m1.from = m2.from => m1 = m2
  BY Zenon DEF Waving, InFlight
<1>9. Up(cts, c) /\ UpMsg(cts, c) = msg /\ ~Up(cts2, c)
  <2>1. Up(cts, c)
    BY Zenon DEF Up
  <2>2. UpMsg(cts, c) \in cts /\ UpMsg(cts, c).from = c
    BY Zenon, <2>1, <1>1, <1>2, UpMsgFact
  <2>3. ~Up(cts2, c)
    BY Zenon, <1>8 DEF Up
  <2> QED BY Zenon, <2>1, <2>2, <2>3, <1>8
<1>10. \A k \in Node : k # c => /\ Up(cts2, k) <=> Up(cts, k)
                                /\ Up(cts, k) => UpMsg(cts2, k) = UpMsg(cts, k)
  <2>1. \A m \in CountMsg : m.from # c => (m \in cts <=> m \in cts2)
    BY Zenon
  <2> HIDE DEF cts2, c
  <2> QED BY Zenon, <2>1, <1>1, <1>8, UpFrame
<1> HIDE DEF st2, s2, cts2, c, p
<1>11. \A k \in Node : Sub(st2, k) <=> Sub(st, k)
  BY Zenon, <1>1, <1>6, <1>7, WaveFrame
<1>12. /\ \A k : k # c => (Arrived(st2, cts2, k) <=> Arrived(st, cts, k))
       /\ Arrived(st2, cts2, c)
       /\ ~Arrived(st, cts, c)
  BY Zenon, <1>2, <1>3, <1>9, <1>10, <1>11 DEF Arrived
<1>13. Coordination(st2, cns)
  BY Zenon, <1>1, <1>6, <1>7, WaveFrame DEF Waving
<1>14. InFlight(st2, cts2)
  <2>1. \A m \in cts2 : m \in cts /\ m.from \in Node
    BY Zenon, <1>1 DEF CountMsg, cts2
  <2> QED BY Zenon, <2>1, <1>7, <1>8, <1>11, TreeFacts DEF Waving, InFlight
<1>15. Gathering(st2, cts2)
  <2> SUFFICES ASSUME NEW q \in Node
               PROVE  /\ ~Sub(st2, q) => st2[q].recv_child_count = Heard(st2, cts2, q)
                      /\ Sub(st2, q) =>
                           /\ \A d \in Children(q) : Arrived(st2, cts2, d)
                           /\ st2[q].recv_child_count = 0
                           /\ st2[q].g_prod1 = 0
                           /\ st2[q].g_cons1 = 0
    BY Zenon DEF Gathering
  <2>1. CASE q = p
    <3>1. st[p].recv_child_count = Heard(st, cts, p)
      BY Zenon, <1>2, <1>3 DEF Waving, Gathering
    <3>2. p \in Nat
      BY <1>2, NumNodesAssumption DEF Node
    <3>3. Heard(st2, cts2, p) = Heard(st, cts, p) + 1
      <4>1. CASE c = 2 * p + 1
        <5>1. 2 * p + 2 # c
          BY <4>1, <3>2
        <5> QED BY <4>1, <5>1, <1>12 DEF Heard
      <4>2. CASE c = 2 * p + 2
        <5>1. 2 * p + 1 # c
          BY <4>2, <3>2
        <5> QED BY <4>2, <5>1, <1>12 DEF Heard
      <4> QED BY Zenon, <4>1, <4>2, <1>2
    <3> QED BY Zenon, <2>1, <3>1, <3>3, <1>3, <1>5, <1>6, <1>11
  <2>2. CASE q # p
    <3>1. p \in Nat /\ q \in Nat
      BY <1>2, NumNodesAssumption DEF Node
    <3>2. 2 * q + 1 # c /\ 2 * q + 2 # c
      BY <3>1, <2>2, <1>2
    <3>3. Heard(st2, cts2, q) = Heard(st, cts, q)
      BY Zenon, <3>2, <1>12 DEF Heard
    <3>4. \A d \in Children(q) : Arrived(st, cts, d) => Arrived(st2, cts2, d)
      BY Zenon, <1>12
    <3> QED BY Zenon, <2>2, <3>3, <3>4, <1>6, <1>11 DEF Waving, Gathering
  <2> QED BY Zenon, <2>1, <2>2
<1>16. Participation(kn \cup {p}, st2, cr)
  <2>1. Participation(kn, st, cr)
    BY Zenon DEF Waving
  <2>2. \A k \in Node : k \notin kn \cup {p} => st2[k] = st[k] /\ k \notin kn
    BY Zenon, <1>6
  <2> QED BY Zenon, <2>1, <2>2, <1>7, TreeFacts DEF Participation
<1>17. Balance(st2, out)
  <2>1. BalanceAt(st2, out) = BalanceAt(st, out)
    BY Zenon, <1>7 DEF BalanceAt
  <2> QED BY Zenon, <2>1 DEF Waving, Balance
<1>0. Config(kn \cup {p}, st2, cts2, cns, out, cr) /\ Config(kn, st2, cts, cns, out, cr)
  BY Zenon, <1>1, <1>2, <1>6 DEF Config
<1>t. st[p].g_prod1 \in Nat /\ st[p].g_cons1 \in Nat
  BY Zenon, <1>1, <1>2 DEF TermStates
<1>18. Lower(st2, cts2)
  <2> DEFINE f == GatheredCons(st, cts)
             h == GatheredCons(st2, cts)
             g == GatheredCons(st2, cts2)
  <2>1. f \in [Node -> Int] /\ g \in [Node -> Int] /\ h \in [Node -> Int]
    BY Zenon, <1>0, SummandTypes
  <2>2. \A k \in Node \ {p} : h[k] = f[k]
    BY Zenon, <1>6, <1>11 DEF GatheredCons
  <2>3. NodeSum(h) = NodeSum(f) + h[p] - f[p]
    BY Zenon, <1>2, <2>1, <2>2, NodeSumUpdate
  <2>4. \A k \in Node \ {c} : g[k] = h[k]
    BY Zenon, <1>10 DEF GatheredCons
  <2>5. NodeSum(g) = NodeSum(h) + g[c] - h[c]
    BY Zenon, <1>2, <2>1, <2>4, NodeSumUpdate
  <2>6. h[p] - f[p] = -msg.cons
    <3> DEFINE u == IF Up(cts, p) THEN UpMsg(cts, p).cons ELSE 0
    <3>1. u \in Nat
      BY Zenon, <1>1, <1>2, UpMsgFact
    <3>2. h[p] = 0 - (st[p].g_cons1 + msg.cons) - u /\ f[p] = 0 - st[p].g_cons1 - u
      BY Zenon, <1>2, <1>3, <1>5, <1>6, <1>11 DEF GatheredCons
    <3> HIDE DEF u, f, h
    <3> QED BY <3>1, <3>2, <1>t, <1>2
  <2>7. g[c] - h[c] = msg.cons
    <3> DEFINE v == (IF Sub(st2, c) THEN st2[c].l_cons ELSE 0) - st2[c].g_cons1
    <3>1. v \in Int
      BY <1>2, <1>6 DEF TermStates
    <3>2. g[c] = v - 0 /\ h[c] = v - msg.cons
      BY Zenon, <1>2, <1>9 DEF GatheredCons
    <3> HIDE DEF v, g, h
    <3> QED BY <3>1, <3>2, <1>2
  <2>8. NodeSum(f) >= 0
    BY Zenon DEF Waving, Lower
  <2>9. NodeSum(f) \in Int /\ NodeSum(h) \in Int /\ NodeSum(g) \in Int
    BY Zenon, <2>1, NodeSumInt
  <2>10. g[c] \in Int /\ h[c] \in Int /\ h[p] \in Int /\ f[p] \in Int
    BY Zenon, <1>2, <2>1
  <2> HIDE DEF f, g, h
  <2>11. NodeSum(g) = NodeSum(f)
    BY <2>3, <2>5, <2>6, <2>7, <2>9, <2>10, <1>2
  <2> QED BY Zenon, <2>8, <2>11 DEF Lower, f, g
<1>19. Upper(st2, cts2, out, cr)
  <2> DEFINE f == GatheredProd(st, cts)
             h == GatheredProd(st2, cts)
             g == GatheredProd(st2, cts2)
  <2>1. f \in [Node -> Int] /\ g \in [Node -> Int] /\ h \in [Node -> Int]
    BY Zenon, <1>0, SummandTypes
  <2>2. \A k \in Node \ {p} : h[k] = f[k]
    BY Zenon, <1>6, <1>11 DEF GatheredProd
  <2>3. NodeSum(h) = NodeSum(f) + h[p] - f[p]
    BY Zenon, <1>2, <2>1, <2>2, NodeSumUpdate
  <2>4. \A k \in Node \ {c} : g[k] = h[k]
    BY Zenon, <1>10 DEF GatheredProd
  <2>5. NodeSum(g) = NodeSum(h) + g[c] - h[c]
    BY Zenon, <1>2, <2>1, <2>4, NodeSumUpdate
  <2>6. h[p] - f[p] = msg.prod
    <3> DEFINE u == IF Up(cts, p) THEN UpMsg(cts, p).prod ELSE 0
    <3>1. u \in Nat /\ st[p].l_prod \in Nat
      BY Zenon, <1>1, <1>2, UpMsgFact DEF TermStates
    <3>2. /\ h[p] = st[p].l_prod + (st[p].g_prod1 + msg.prod) + u
          /\ f[p] = st[p].l_prod + st[p].g_prod1 + u
      BY Zenon, <1>2, <1>3, <1>5, <1>6, <1>11 DEF GatheredProd
    <3> HIDE DEF u, f, h
    <3> QED BY <3>1, <3>2, <1>t, <1>2
  <2>7. g[c] - h[c] = -msg.prod
    <3> DEFINE v == (IF Sub(st2, c) THEN 0 ELSE st2[c].l_prod) + st2[c].g_prod1
    <3>1. v \in Int
      BY <1>2, <1>6 DEF TermStates
    <3>2. g[c] = v + 0 /\ h[c] = v + msg.prod
      BY Zenon, <1>2, <1>9 DEF GatheredProd
    <3> HIDE DEF v, g, h
    <3> QED BY <3>1, <3>2, <1>2
  <2>9. NodeSum(f) \in Int /\ NodeSum(h) \in Int /\ NodeSum(g) \in Int
    BY Zenon, <2>1, NodeSumInt
  <2>10. g[c] \in Int /\ h[c] \in Int /\ h[p] \in Int /\ f[p] \in Int
    BY Zenon, <1>2, <2>1
  <2> HIDE DEF f, g, h
  <2>11. NodeSum(g) = NodeSum(f)
    BY <2>3, <2>5, <2>6, <2>7, <2>9, <2>10, <1>2
  <2>12. st2[Root].g_cons2 = st[Root].g_cons2
    BY Zenon, <1>7, TreeFacts
  <2> QED BY Zenon, <2>11, <2>12 DEF Waving, Upper, f, g
<1> QED BY Zenon, <1>4, <1>13, <1>14, <1>15, <1>16, <1>17, <1>18, <1>19 DEF Waving, st2, s2, cts2, c, p

\* A node ready to submit is in the root's wave, has made the epoch and has heard
\* all of its children, and its counts of this wave are not in flight.
LEMMA ReadyMeans ==
  ASSUME NEW kn, NEW st, NEW cts, NEW cns, NEW out, NEW cr,
         Config(kn, st, cts, cns, out, cr),
         Waving(kn, st, cts, cns, out, cr),
         NEW n \in Node, ReadySubmitParent(n, st[n])
  PROVE  /\ st[n].epoch_active
         /\ st[n].cur_wave = st[Root].cur_wave
         /\ NextWave(st[n].submitted_wave) = st[Root].cur_wave
         /\ ~Sub(st, n)
         /\ ~Up(cts, n)
         /\ \A c \in Children(n) : Arrived(st, cts, c)
<1>1. st \in [Node -> TermStates] /\ cts \in SUBSET CountMsg
  BY Zenon DEF Config
<1>2. /\ st[n].epoch_active
      /\ st[n].cur_wave = NextWave(st[n].submitted_wave)
      /\ st[n].recv_child_count = NumChildren(n)
  BY Zenon DEF ReadySubmitParent
<1>3. st[n].submitted_wave \in Wave /\ st[n].cur_wave \in Wave
  BY Zenon, <1>1 DEF TermStates
<1>4. st[n].submitted_wave # st[n].cur_wave
  BY Zenon, <1>2, <1>3, NextWaveFacts
<1>5. st[n].cur_wave = st[Root].cur_wave
  <2>1. CASE n = Root
    BY Zenon, <2>1
  <2>2. CASE n # Root
    BY Zenon, <2>2, <1>4 DEF Waving, Coordination
  <2> QED BY Zenon, <2>1, <2>2
<1>6. ~Sub(st, n)
  BY Zenon, <1>4, <1>5 DEF Sub
<1>7. ~Up(cts, n)
  BY Zenon, <1>6 DEF Up, Waving, InFlight
<1>8. Heard(st, cts, n) = NumChildren(n)
  BY Zenon, <1>2, <1>6 DEF Waving, Gathering
<1>9. \A k : Arrived(st, cts, k) => k \in Node
  BY Zenon DEF Arrived
<1>10. n \in Nat /\ \A k \in Nat : k \in Node <=> k < NumNodes
  BY NumNodesAssumption DEF Node
<1>11. ASSUME NEW c \in Children(n) PROVE Arrived(st, cts, c)
  <2>1. c \in Node /\ (c = 2 * n + 1 \/ c = 2 * n + 2)
    BY Zenon DEF Children, IsChild
  <2>2. c \in Nat /\ c < NumNodes
    BY <2>1, NumNodesAssumption DEF Node
  <2>3. \A k \in Nat : Arrived(st, cts, k) => k < NumNodes
    BY Zenon, <1>9, <1>10
  <2> QED BY <2>1, <2>2, <2>3, <1>8, <1>10, NumNodesAssumption DEF Heard, NumChildren
<1> QED BY Zenon, <1>2, <1>5, <1>6, <1>7, <1>11

\* propagateEpoch on a node other than the root sends its counts up.
LEMMA SubmitStep ==
  ASSUME NEW kn, NEW st, NEW cts, NEW cns, NEW out, NEW cr,
         Config(kn, st, cts, cns, out, cr),
         Waving(kn, st, cts, cns, out, cr),
         NEW n \in Node, n # Root, n \in kn, ReadySubmitParent(n, st[n])
  PROVE  LET msg == [from |-> n, wave |-> st[n].cur_wave,
                     prod |-> st[n].g_prod1 + st[n].l_prod,
                     cons |-> st[n].g_cons1 + st[n].l_cons]
         IN Waving(kn, [st EXCEPT ![n] = Submitted(st[n])], cts \cup {msg}, cns, out, cr)
<1> DEFINE msg == [from |-> n, wave |-> st[n].cur_wave,
                   prod |-> st[n].g_prod1 + st[n].l_prod,
                   cons |-> st[n].g_cons1 + st[n].l_cons]
           s2 == Submitted(st[n])
           st2 == [st EXCEPT ![n] = s2]
           cts2 == cts \cup {msg}
<1>1. /\ st \in [Node -> TermStates] /\ cts \in SUBSET CountMsg
      /\ st[n].g_prod1 \in Nat /\ st[n].l_prod \in Nat
      /\ st[n].g_cons1 \in Nat /\ st[n].l_cons \in Nat
  BY Zenon DEF Config, TermStates
<1>2. /\ st[n].epoch_active
      /\ st[n].cur_wave = st[Root].cur_wave
      /\ NextWave(st[n].submitted_wave) = st[Root].cur_wave
      /\ ~Sub(st, n)
      /\ ~Up(cts, n)
      /\ \A c \in Children(n) : Arrived(st, cts, c)
  BY Zenon, ReadyMeans
<1>3. msg \in CountMsg /\ cts2 \in SUBSET CountMsg
  BY <1>1 DEF CountMsg, TermStates
<1>4. s2 \in TermStates
  BY Zenon, <1>1, RecordTypes
<1>5. /\ s2.cur_wave = st[n].cur_wave /\ s2.submitted_wave = st[Root].cur_wave
      /\ s2.recv_child_count = 0 /\ s2.g_prod1 = 0 /\ s2.g_cons1 = 0
      /\ s2.l_prod = st[n].l_prod /\ s2.l_cons = st[n].l_cons
      /\ s2.epoch_active
  BY <1>1, <1>2 DEF TermStates, Submitted
<1>6. /\ st2 \in [Node -> TermStates]
      /\ st2[n] = s2
      /\ \A k \in Node \ {n} : st2[k] = st[k]
      /\ st2[Root] = st[Root]
  BY Zenon, <1>1, <1>4, TreeFacts
<1>7. /\ msg.from = n /\ msg.wave = st[Root].cur_wave
      /\ msg.prod = st[n].g_prod1 + st[n].l_prod
      /\ msg.cons = st[n].g_cons1 + st[n].l_cons
  BY Zenon, <1>2
<1> HIDE DEF msg, s2, st2
<1>8. /\ \A m1, m2 \in cts : m1.from = m2.from => m1 = m2
      /\ \A m1, m2 \in cts2 : m1.from = m2.from => m1 = m2
  BY Zenon, <1>2, <1>7 DEF Waving, InFlight, Up
<1>9. Up(cts2, n) /\ UpMsg(cts2, n) = msg
  <2>1. Up(cts2, n)
    BY Zenon, <1>7 DEF Up
  <2>2. UpMsg(cts2, n) \in cts2 /\ UpMsg(cts2, n).from = n
    BY Zenon, <2>1, <1>3, UpMsgFact
  <2> QED BY Zenon, <2>1, <2>2, <1>7, <1>8
<1>10. \A k \in Node : k # n => /\ Up(cts2, k) <=> Up(cts, k)
                                /\ Up(cts, k) => UpMsg(cts2, k) = UpMsg(cts, k)
  <2>1. \A m \in CountMsg : m.from # n => (m \in cts <=> m \in cts2)
    BY Zenon, <1>7
  <2> HIDE DEF cts2
  <2> QED BY Zenon, <2>1, <1>1, <1>3, <1>8, UpFrame
<1>11. Sub(st2, n) /\ \A k \in Node : k # n => (Sub(st2, k) <=> Sub(st, k))
  BY Zenon, <1>5, <1>6 DEF Sub
<1>12. \A k : Arrived(st2, cts2, k) <=> Arrived(st, cts, k)
  BY Zenon, <1>2, <1>9, <1>10, <1>11 DEF Arrived
<1>13. Coordination(st2, cns)
  <2>1. Coordination(st, cns)
    BY Zenon DEF Waving
  <2>2. st[n].submitted_wave \in Wave /\ st[n].cur_wave \in Wave
    BY Zenon, <1>1 DEF TermStates
  <2>3. st[n].submitted_wave # st[n].cur_wave
    BY Zenon, <1>2, <2>2, NextWaveFacts
  <2>4. [to |-> n, wave |-> st[Root].cur_wave] \notin cns
    BY Zenon, <2>1, <2>3 DEF Coordination
  <2> QED BY Zenon, <2>1, <2>4, <1>2, <1>5, <1>6 DEF Coordination
<1>14. InFlight(st2, cts2)
  <2>1. \A m \in cts2 : m.from \in Node
    BY Zenon, <1>3 DEF CountMsg
  <2>2. ASSUME NEW m \in cts2
        PROVE  Sub(st2, m.from) /\ m.wave = st2[Root].cur_wave
    <3>1. CASE m = msg
      BY Zenon, <3>1, <1>6, <1>7, <1>11
    <3>2. CASE m \in cts
      <4>1. Sub(st, m.from) /\ m.wave = st[Root].cur_wave
        BY Zenon, <3>2 DEF Waving, InFlight
      <4> QED BY Zenon, <4>1, <2>1, <1>6, <1>11
    <3> QED BY Zenon, <3>1, <3>2
  <2> QED BY Zenon, <2>2, <1>8 DEF InFlight
<1>15. Gathering(st2, cts2)
  <2>1. \A q : Heard(st2, cts2, q) = Heard(st, cts, q)
    BY Zenon, <1>12 DEF Heard
  <2>2. Gathering(st, cts)
    BY Zenon DEF Waving
  <2> SUFFICES ASSUME NEW q \in Node
               PROVE  /\ ~Sub(st2, q) => st2[q].recv_child_count = Heard(st2, cts2, q)
                      /\ Sub(st2, q) =>
                           /\ \A d \in Children(q) : Arrived(st2, cts2, d)
                           /\ st2[q].recv_child_count = 0
                           /\ st2[q].g_prod1 = 0
                           /\ st2[q].g_cons1 = 0
    BY Zenon DEF Gathering
  <2>3. CASE q = n
    BY Zenon, <2>3, <1>2, <1>5, <1>6, <1>11, <1>12
  <2>4. CASE q # n
    BY Zenon, <2>1, <2>2, <2>4, <1>6, <1>11, <1>12 DEF Gathering
  <2> QED BY Zenon, <2>3, <2>4
<1>16. Participation(kn, st2, cr)
  <2>1. Participation(kn, st, cr)
    BY Zenon DEF Waving
  <2> SUFFICES ASSUME NEW k \in Node
               PROVE /\ st2[k].epoch_active => k \in cr /\ k \in kn
                     /\ ~st2[k].epoch_active =>
                          /\ st2[k].submitted_wave = MaxWave
                          /\ st2[Root].cur_wave = 0
                          /\ k = Root => st2[k].g_cons2 = 0
                     /\ k \notin kn => st2[k] = NewState(FALSE)
    BY Zenon DEF Participation
  <2>2. CASE k = n
    BY Zenon, <2>1, <2>2, <1>2, <1>5, <1>6 DEF Participation
  <2>3. CASE k # n
    BY Zenon, <2>1, <2>3, <1>6 DEF Participation
  <2> QED BY Zenon, <2>2, <2>3
<1>17. Balance(st2, out)
  <2>1. \A k \in Node : st2[k].l_prod = st[k].l_prod /\ st2[k].l_cons = st[k].l_cons
    BY Zenon, <1>5, <1>6
  <2>2. BalanceAt(st2, out) = BalanceAt(st, out)
    BY Zenon, <2>1 DEF BalanceAt
  <2> QED BY Zenon, <2>2 DEF Waving, Balance
<1>18. Lower(st2, cts2)
  <2>1. ASSUME NEW k \in Node
        PROVE  GatheredCons(st2, cts2)[k] = GatheredCons(st, cts)[k]
    <3>1. CASE k = n
      <4>1. GatheredCons(st2, cts2)[n] = st[n].l_cons - 0 - (st[n].g_cons1 + st[n].l_cons)
        BY Zenon, <1>5, <1>6, <1>7, <1>9, <1>11 DEF GatheredCons
      <4>2. GatheredCons(st, cts)[n] = 0 - st[n].g_cons1 - 0
        BY Zenon, <1>2 DEF GatheredCons
      <4> QED BY <3>1, <4>1, <4>2, <1>1
    <3>2. CASE k # n
      BY Zenon, <3>2, <1>6, <1>10, <1>11 DEF GatheredCons
    <3> QED BY Zenon, <3>1, <3>2
  <2>2. GatheredCons(st2, cts2) = GatheredCons(st, cts)
    BY Zenon, <2>1 DEF GatheredCons
  <2> QED BY Zenon, <2>2 DEF Waving, Lower
<1>19. Upper(st2, cts2, out, cr)
  <2>1. ASSUME NEW k \in Node
        PROVE  GatheredProd(st2, cts2)[k] = GatheredProd(st, cts)[k]
    <3>1. CASE k = n
      <4>1. GatheredProd(st2, cts2)[n] = 0 + 0 + (st[n].g_prod1 + st[n].l_prod)
        BY Zenon, <1>5, <1>6, <1>7, <1>9, <1>11 DEF GatheredProd
      <4>2. GatheredProd(st, cts)[n] = st[n].l_prod + st[n].g_prod1 + 0
        BY Zenon, <1>2 DEF GatheredProd
      <4> QED BY <3>1, <4>1, <4>2, <1>1
    <3>2. CASE k # n
      BY Zenon, <3>2, <1>6, <1>10, <1>11 DEF GatheredProd
    <3> QED BY Zenon, <3>1, <3>2
  <2>2. GatheredProd(st2, cts2) = GatheredProd(st, cts)
    BY Zenon, <2>1 DEF GatheredProd
  <2> QED BY Zenon, <2>2, <1>6 DEF Waving, Upper
<1> QED BY Zenon, <1>13, <1>14, <1>15, <1>16, <1>17, <1>18, <1>19 DEF Waving, st2, s2, msg

\* When the root is ready, every other node has submitted and nothing is in flight.
LEMMA WaveComplete ==
  ASSUME NEW kn, NEW st, NEW cts, NEW cns, NEW out, NEW cr,
         Config(kn, st, cts, cns, out, cr),
         Waving(kn, st, cts, cns, out, cr),
         ReadySubmitParent(Root, st[Root])
  PROVE  /\ cts = {}
         /\ cns = {}
         /\ cr = Node
         /\ kn = Node
         /\ \A n \in Node : st[n].epoch_active
         /\ \A n \in Node \ {Root} :
              /\ Sub(st, n)
              /\ st[n].cur_wave = st[Root].cur_wave
              /\ st[n].submitted_wave = st[Root].cur_wave
              /\ st[n].recv_child_count = 0
              /\ st[n].g_prod1 = 0
              /\ st[n].g_cons1 = 0
<1>1. /\ st \in [Node -> TermStates] /\ cts \in SUBSET CountMsg /\ cns \in SUBSET ContinueMsg
      /\ cr \in SUBSET Node /\ kn \in SUBSET Node
  BY Zenon DEF Config
<1>2. st[Root].epoch_active /\ \A c \in Children(Root) : Arrived(st, cts, c)
  BY Zenon, ReadyMeans, TreeFacts
<1> DEFINE T == {n \in Node \ {Root} : ~Arrived(st, cts, n)}
<1>3. T = {}
  <2> SUFFICES ASSUME T # {} PROVE FALSE
    BY Zenon
  <2>1. T \in SUBSET Nat
    BY NumNodesAssumption DEF Node
  <2>2. PICK n \in T : \A y \in T : n <= y
    BY Zenon, <2>1, LeastNat
  <2>3. /\ Parent(n) \in Node /\ Parent(n) < n /\ n \in Children(Parent(n))
    BY Zenon, TreeFacts
  <2>4. Parent(n) \notin T
    BY <2>2, <2>3, NumNodesAssumption DEF Node
  <2>5. CASE Parent(n) = Root
    BY Zenon, <2>5, <2>3, <1>2
  <2>6. CASE Parent(n) # Root
    <3>1. Sub(st, Parent(n))
      BY Zenon, <2>3, <2>4, <2>6 DEF Arrived
    <3> QED BY Zenon, <3>1, <2>3 DEF Waving, Gathering
  <2> QED BY Zenon, <2>5, <2>6
<1>4. \A n \in Node \ {Root} : Sub(st, n) /\ ~Up(cts, n)
  BY Zenon, <1>3 DEF Arrived
<1>5. \A n \in Node \ {Root} : /\ st[n].submitted_wave = st[Root].cur_wave
                               /\ st[n].recv_child_count = 0
                               /\ st[n].g_prod1 = 0
                               /\ st[n].g_cons1 = 0
  BY Zenon, <1>4 DEF Waving, Gathering, Sub
<1>6. cts = {}
  <2>1. \A m \in cts : m.from \in Node \ {Root} /\ Up(cts, m.from)
    BY Zenon, <1>1 DEF CountMsg, Up
  <2> QED BY Zenon, <2>1, <1>4
<1>7. \A n \in Node \ {Root} : st[n].cur_wave = st[Root].cur_wave
  <2> TAKE n \in Node \ {Root}
  <2>1. st[n].cur_wave \in Wave
    BY Zenon, <1>1 DEF TermStates
  <2>2. CASE NextWave(st[n].cur_wave) = st[Root].cur_wave
             /\ st[n].submitted_wave = st[n].cur_wave
    BY Zenon, <2>1, <2>2, <1>5, NextWaveFacts
  <2> QED BY Zenon, <2>2 DEF Waving, Coordination
<1>8. cns = {}
  <2> SUFFICES ASSUME NEW msg \in cns PROVE FALSE
    BY Zenon
  <2>1. /\ msg.to \in Node \ {Root}
        /\ msg.wave = st[Root].cur_wave
        /\ msg.wave = NextWave(st[msg.to].cur_wave)
    BY SMTT(30), ContinueFinds
  <2>2. st[msg.to].cur_wave \in Wave
    BY Zenon, <2>1, <1>1 DEF TermStates
  <2> QED BY Zenon, <2>1, <2>2, <1>7, NextWaveFacts
<1>9. \A n \in Node : st[n].epoch_active
  <2> SUFFICES ASSUME NEW n \in Node, ~st[n].epoch_active PROVE FALSE
    BY Zenon
  <2>1. st[n].submitted_wave = MaxWave /\ st[Root].cur_wave = 0
    BY Zenon DEF Waving, Participation
  <2>2. n # Root
    BY Zenon, <1>2
  <2> QED BY Zenon, <2>1, <2>2, <1>5, NextWaveFacts
<1>10. cr = Node /\ kn = Node
  BY Zenon, <1>1, <1>9 DEF Waving, Participation
<1> QED BY Zenon, <1>4, <1>5, <1>6, <1>7, <1>8, <1>9, <1>10

\* The root detects termination only when nothing is left to do.
LEMMA DetectStep ==
  ASSUME NEW kn, NEW st, NEW cts, NEW cns, NEW out, NEW cr,
         Config(kn, st, cts, cns, out, cr),
         Waving(kn, st, cts, cns, out, cr),
         ReadySubmitParent(Root, st[Root]), IsTerm(st[Root])
  PROVE  Over([st EXCEPT ![Root] = Detected(st[Root])], cts, cns, out, cr)
<1>1. /\ cts = {} /\ cns = {} /\ cr = Node
      /\ \A n \in Node \ {Root} :
              /\ Sub(st, n)
              /\ st[n].cur_wave = st[n].submitted_wave
              /\ st[n].g_prod1 = 0
  BY SMTT(30), WaveComplete
<1>2. st \in [Node -> TermStates] /\ Root \in Node
  BY Zenon, TreeFacts DEF Config
<1>3. st[Root].g_prod1 \in Nat /\ st[Root].l_prod \in Nat /\ st[Root].g_cons2 \in Nat
  BY Zenon, <1>2 DEF TermStates
<1>4. Quiet(out, cr)
  <2> DEFINE f == GatheredProd(st, cts)
             z == [n \in Node |-> 0]
  <2>1. f \in [Node -> Int] /\ z \in [Node -> Int]
    BY SummandTypes
  <2>2. \A n \in Node : ~Up(cts, n)
    BY Zenon, <1>1 DEF Up
  <2>3. \A n \in Node \ {Root} : f[n] = z[n]
    BY SMTT(30), <1>1, <2>2 DEF GatheredProd
  <2>4. f[Root] = st[Root].l_prod + st[Root].g_prod1 + 0
    BY Zenon, <1>2, <2>2 DEF GatheredProd, Sub
  <2>5. NodeSum(z) = 0 /\ z[Root] = 0
    BY Zenon, <2>1, <1>2, NodeSumZero
  <2>6. NodeSum(f) = NodeSum(z) + f[Root] - z[Root]
    BY Zenon, <2>1, <2>3, <1>2, NodeSumUpdate
  <2> HIDE DEF f, z
  <2>7. NodeSum(f) = st[Root].g_prod1 + st[Root].l_prod
    BY SMTT(30), <2>4, <2>5, <2>6, <1>3
  <2>8. NodeSum(f) = st[Root].g_cons2
    BY Zenon, <2>7 DEF IsTerm
  <2>9. ~(NodeSum(f) > st[Root].g_cons2)
    BY SMTT(30), <2>8, <1>3
  <2> QED BY Zenon, <2>9, <1>1, <1>2 DEF Waving, Upper, f
<1>5. Detected(st[Root]).term_detected
  BY Zenon, <1>2 DEF Detected, TermStates
<1> QED BY Zenon, <1>1, <1>2, <1>4, <1>5 DEF Over

\* What the nodes have produced and consumed by now.
AllProduced(st) == [n \in Node |-> st[n].l_prod]
AllConsumed(st) == [n \in Node |-> st[n].l_cons]

\* They are functions to the integers.
LEMMA AllTypes ==
  ASSUME NEW st \in [Node -> TermStates]
  PROVE  AllProduced(st) \in [Node -> Int] /\ AllConsumed(st) \in [Node -> Int]
BY DEF AllProduced, AllConsumed, TermStates

\* When a wave is complete, consumption by now is at least what it gathered.
LEMMA ConsumedByNow ==
  ASSUME NEW st \in [Node -> TermStates], NEW cts,
         Lower(st, cts),
         \A n \in Node : ~Up(cts, n),
         \A n \in Node \ {Root} : Sub(st, n) /\ st[n].g_cons1 = 0
  PROVE  NodeSum(AllConsumed(st)) >= st[Root].g_cons1 + st[Root].l_cons
<1> DEFINE f == GatheredCons(st, cts)
           g == AllConsumed(st)
<1>t. \A n \in Node : st[n].l_cons \in Nat /\ st[n].g_cons1 \in Nat
  BY Zenon DEF TermStates
<1>r. Root \in Node
  BY Zenon, TreeFacts
<1>1. g \in [Node -> Int]
  BY Zenon, AllTypes
<1>2. \A n \in Node \ {Root} : f[n] = g[n]
  BY <1>t DEF GatheredCons, AllConsumed
<1>3. f[Root] = 0 - st[Root].g_cons1
  BY <1>t, <1>r DEF GatheredCons, Sub
<1>4. g[Root] = st[Root].l_cons
  BY Zenon, <1>r DEF AllConsumed
<1>5. f \in [Node -> Int]
  <2>1. \A n \in Node : f[n] \in Int
    BY <1>1, <1>2, <1>3, <1>t, <1>r
  <2> QED BY Zenon, <2>1 DEF GatheredCons
<1>6. NodeSum(f) >= 0 /\ NodeSum(f) \in Int
  BY Zenon, <1>5, NodeSumInt DEF Lower
<1> HIDE DEF f, g
<1>7. NodeSum(g) = NodeSum(f) + g[Root] - f[Root]
  BY Zenon, <1>1, <1>2, <1>5, <1>r, NodeSumUpdate
<1>8. NodeSum(g) >= st[Root].g_cons1 + st[Root].l_cons
  BY <1>3, <1>4, <1>6, <1>7, <1>t, <1>r
<1> QED BY Zenon, <1>8 DEF g

\* While work is outstanding, production by now exceeds consumption by now.
LEMMA ProducedByNow ==
  ASSUME NEW st \in [Node -> TermStates], NEW out \in [Node -> Nat],
         Balance(st, out),
         \E n \in Node : out[n] # 0
  PROVE  NodeSum(AllProduced(st)) > NodeSum(AllConsumed(st))
<1> DEFINE b == BalanceAt(st, out)
           c == AllConsumed(st)
           p == AllProduced(st)
           m == [n \in Node |-> st[n].l_prod - out[n]]
<1>t. \A n \in Node : st[n].l_cons \in Nat /\ st[n].l_prod \in Nat /\ out[n] \in Nat
  BY Zenon DEF TermStates
<1>1. c \in [Node -> Int] /\ p \in [Node -> Int]
  BY Zenon, AllTypes
<1>2. m \in [Node -> Int] /\ b \in [Node -> Int] /\ out \in [Node -> Int]
  BY <1>t DEF BalanceAt
<1>3. \A n \in Node : m[n] = b[n] + c[n]
  BY <1>t DEF BalanceAt, AllConsumed
<1>4. \A n \in Node : p[n] = m[n] + out[n]
  BY <1>t DEF AllProduced
<1>5. NodeSum(b) = 0
  BY Zenon DEF Balance
<1> HIDE DEF b, c, p, m
<1>6. NodeSum(m) = NodeSum(b) + NodeSum(c)
  BY Zenon, <1>1, <1>2, <1>3, NodeSumAdd
<1>7. NodeSum(p) = NodeSum(m) + NodeSum(out)
  BY Zenon, <1>1, <1>2, <1>4, NodeSumAdd
<1>8. NodeSum(out) > 0
  <2>1. PICK n \in Node : out[n] # 0
    BY Zenon
  <2>2. NodeSum(out) >= out[n] /\ NodeSum(out) \in Int
    BY <1>2, <1>t, NodeSumNat, NodeSumInt
  <2> QED BY <2>1, <2>2, <1>t
<1>9. NodeSum(c) \in Int /\ NodeSum(m) \in Int /\ NodeSum(out) \in Int /\ NodeSum(p) \in Int
  BY Zenon, <1>1, <1>2, NodeSumInt
<1>10. NodeSum(p) > NodeSum(c)
  BY <1>5, <1>6, <1>7, <1>8, <1>9
<1> QED BY Zenon, <1>10 DEF p, c

\* The root starts another wave, keeping this wave's totals for comparison.
LEMMA RestartStep ==
  ASSUME NEW kn, NEW st, NEW cts, NEW cns, NEW out, NEW cr,
         Config(kn, st, cts, cns, out, cr),
         Waving(kn, st, cts, cns, out, cr),
         ReadySubmitParent(Root, st[Root])
  PROVE  Waving(kn, [st EXCEPT ![Root] = StartedWave(st[Root])], cts,
                cns \cup [to : Node \ {Root}, wave : {NextWave(st[Root].cur_wave)}], out, cr)
<1> DEFINE s2 == StartedWave(st[Root])
           st2 == [st EXCEPT ![Root] = s2]
           wave == NextWave(st[Root].cur_wave)
           cns2 == [to : Node \ {Root}, wave : {wave}]
<1>1. /\ cts = {} /\ cns = {} /\ cr = Node /\ kn = Node
      /\ \A n \in Node : st[n].epoch_active
      /\ \A n \in Node \ {Root} :
              /\ Sub(st, n)
              /\ st[n].cur_wave = st[Root].cur_wave
              /\ st[n].submitted_wave = st[Root].cur_wave
              /\ st[n].recv_child_count = 0
              /\ st[n].g_prod1 = 0
              /\ st[n].g_cons1 = 0
  BY Zenon, WaveComplete
<1>2. st \in [Node -> TermStates] /\ Root \in Node /\ out \in [Node -> Nat]
  BY Zenon, TreeFacts DEF Config
<1>3. /\ st[Root].g_cons1 \in Nat /\ st[Root].l_cons \in Nat
      /\ st[Root].g_prod1 \in Nat /\ st[Root].l_prod \in Nat
      /\ st[Root].cur_wave \in Wave
  BY Zenon, <1>2 DEF TermStates
<1>4. st[Root].cur_wave = NextWave(st[Root].submitted_wave)
  BY Zenon DEF Waving, Coordination
<1>5. s2 \in TermStates
  BY Zenon, <1>2, RecordTypes
<1>6. /\ s2.cur_wave = wave /\ s2.submitted_wave = st[Root].cur_wave
      /\ s2.recv_child_count = 0 /\ s2.g_prod1 = 0 /\ s2.g_cons1 = 0
      /\ s2.g_cons2 = st[Root].g_cons1 + st[Root].l_cons
      /\ s2.l_prod = st[Root].l_prod /\ s2.l_cons = st[Root].l_cons
      /\ s2.epoch_active
  BY <1>1, <1>2, <1>4 DEF TermStates, StartedWave
<1>7. /\ st2 \in [Node -> TermStates]
      /\ st2[Root] = s2
      /\ \A k \in Node \ {Root} : st2[k] = st[k]
  BY Zenon, <1>2, <1>5
<1>8. wave # st[Root].cur_wave /\ wave \in Wave
  BY Zenon, <1>3, NextWaveFacts
<1>9. \A k \in Node \ {Root} : [to |-> k, wave |-> wave] \in cns2
  BY Zenon
<1>10. cns \cup cns2 = cns2 /\ \A m \in cns2 : m.wave = wave
  BY Zenon, <1>1
<1> HIDE DEF s2, st2, wave, cns2
<1>11. Coordination(st2, cns2)
  BY Zenon, <1>1, <1>6, <1>7, <1>9, <1>10 DEF Coordination, wave
<1>12. \A n \in Node : ~Sub(st2, n)
  BY SMTT(30), <1>1, <1>6, <1>7, <1>8 DEF Sub
<1>13. \A n \in Node : ~Up(cts, n)
  BY Zenon, <1>1 DEF Up
<1>14. \A n \in Node : st2[n].recv_child_count = 0 /\ st2[n].g_prod1 = 0 /\ st2[n].g_cons1 = 0
  BY SMTT(30), <1>1, <1>6, <1>7
<1>15. InFlight(st2, cts)
  BY Zenon, <1>1 DEF InFlight
<1>16. Gathering(st2, cts)
  <2>1. \A n : ~Arrived(st2, cts, n)
    BY Zenon, <1>12 DEF Arrived
  <2>2. \A n : Heard(st2, cts, n) = 0
    BY <2>1 DEF Heard
  <2> QED BY Zenon, <2>2, <1>12, <1>14 DEF Gathering
<1>17. Participation(kn, st2, cr)
  BY Zenon, <1>1, <1>6, <1>7 DEF Participation
<1>18. Balance(st2, out)
  <2>1. \A k \in Node : st2[k].l_prod = st[k].l_prod /\ st2[k].l_cons = st[k].l_cons
    BY Zenon, <1>6, <1>7
  <2>2. BalanceAt(st2, out) = BalanceAt(st, out)
    BY Zenon, <2>1 DEF BalanceAt
  <2> QED BY Zenon, <2>2 DEF Waving, Balance
<1>0. Config(kn, st2, cts, cns, out, cr)
  BY Zenon, <1>7 DEF Config
<1>19. Lower(st2, cts)
  <2>1. GatheredCons(st2, cts) \in [Node -> Int]
    BY Zenon, <1>0, SummandTypes
  <2>2. \A n \in Node : GatheredCons(st2, cts)[n] = 0
    BY SMTT(30), <1>12, <1>13, <1>14 DEF GatheredCons
  <2> QED BY <2>1, <2>2, NodeSumZero DEF Lower
<1>20. Upper(st2, cts, out, cr)
  <2> SUFFICES ASSUME ~Quiet(out, cr)
               PROVE  NodeSum(GatheredProd(st2, cts)) > st2[Root].g_cons2
    BY Zenon DEF Upper
  <2>1. \E n \in Node : out[n] # 0
    BY Zenon, <1>1 DEF Quiet
  <2>2. Balance(st, out) /\ Lower(st, cts)
    BY Zenon DEF Waving
  <2>3. NodeSum(AllProduced(st)) > NodeSum(AllConsumed(st))
    BY Zenon, <1>2, <2>1, <2>2, ProducedByNow
  <2>4. NodeSum(AllConsumed(st)) >= st[Root].g_cons1 + st[Root].l_cons
    BY Zenon, <1>1, <1>2, <1>13, <2>2, ConsumedByNow
  <2>5. GatheredProd(st2, cts) = AllProduced(st)
    <3> SUFFICES ASSUME NEW n \in Node
                 PROVE  GatheredProd(st2, cts)[n] = AllProduced(st)[n]
      BY Zenon DEF GatheredProd, AllProduced
    <3>1. GatheredProd(st2, cts)[n] = st2[n].l_prod + 0 + 0
      BY Zenon, <1>12, <1>13, <1>14 DEF GatheredProd
    <3>2. st2[n].l_prod = st[n].l_prod
      BY Zenon, <1>6, <1>7
    <3>3. st[n].l_prod \in Nat
      BY Zenon, <1>2 DEF TermStates
    <3> QED BY SMTT(30), <3>1, <3>2, <3>3 DEF AllProduced
  <2>6. st2[Root].g_cons2 = st[Root].g_cons1 + st[Root].l_cons
    BY Zenon, <1>6, <1>7
  <2>7. NodeSum(AllConsumed(st)) \in Int /\ NodeSum(AllProduced(st)) \in Int
    BY Zenon, <1>2, AllTypes, NodeSumInt
  <2>8. \A p, c, g \in Int : p > c /\ c >= g => p > g
    OBVIOUS
  <2>9. st[Root].g_cons1 + st[Root].l_cons \in Int
    BY SMTT(30), <1>3
  <2>10. NodeSum(AllProduced(st)) > st[Root].g_cons1 + st[Root].l_cons
    BY Zenon, <2>3, <2>4, <2>7, <2>8, <2>9
  <2> QED BY Zenon, <2>5, <2>6, <2>10
<1> QED
  BY Zenon, <1>10, <1>11, <1>15, <1>16, <1>17, <1>18, <1>19, <1>20 DEF Waving, st2, s2, wave, cns2

-----------------------------------------------------------------------------
\* The invariant in the middle of a handler on node n that has received the
\* messages got and cont and whose effect so far is e.
Midway(n, e, got, cont, out, cr) ==
  LET kn  == known \cup {n}
      st  == [state EXCEPT ![n] = e.s]
      cts == (counts \ got) \cup e.sent
      cns == (continues \ cont) \cup [to : Node \ {Root}, wave : e.waves]
  IN /\ e \in Effects
     /\ Config(kn, st, cts, cns, out, cr)
     /\ WaveInv(kn, st, cts, cns, out, cr, Det \/ e.term)
     /\ e.term => e.s.term_detected

\* Changing the record of the handler's node again.
LEMMA UpdateTwice ==
  ASSUME NEW f \in [Node -> TermStates], NEW n \in Node, NEW s1, NEW s2
  PROVE  /\ [[f EXCEPT ![n] = s1] EXCEPT ![n] = s2] = [f EXCEPT ![n] = s2]
         /\ [f EXCEPT ![n] = s1][n] = s1
BY Zenon

\* maybePropagate, wherever a handler calls it, preserves the invariant.
LEMMA MidPropagate ==
  ASSUME TypeOK, NEW n \in Node, NEW e, NEW got, NEW cont, NEW out, NEW cr,
         Midway(n, e, got, cont, out, cr)
  PROVE  Midway(n, MaybePropagate(n, e), got, cont, out, cr)
<1> SUFFICES ASSUME ReadySubmitParent(n, e.s)
             PROVE  Midway(n, PropagateEpoch(n, e), got, cont, out, cr)
  BY Zenon DEF MaybePropagate
<1> DEFINE kn  == known \cup {n}
           st  == [state EXCEPT ![n] = e.s]
           cts == (counts \ got) \cup e.sent
           cns == (continues \ cont) \cup [to : Node \ {Root}, wave : e.waves]
           r == PropagateEpoch(n, e)
<1>1. /\ e \in Effects /\ Config(kn, st, cts, cns, out, cr)
      /\ WaveInv(kn, st, cts, cns, out, cr, Det \/ e.term)
  BY Zenon DEF Midway
<1>2. state \in [Node -> TermStates] /\ e.s \in TermStates /\ st \in [Node -> TermStates]
  BY Zenon, <1>1 DEF TypeOK, Effects, Config
<1>3. st[n] = e.s
  BY Zenon, <1>2
<1>4. ~(Det \/ e.term)
  <2> SUFFICES ASSUME Det \/ e.term PROVE FALSE
    BY Zenon
  <2>1. Over(st, cts, cns, out, cr)
    BY Zenon, <1>1 DEF WaveInv
  <2>2. /\ e.s.epoch_active /\ ~e.s.term_detected
        /\ e.s.cur_wave = NextWave(e.s.submitted_wave)
    BY Zenon DEF ReadySubmitParent
  <2>3. e.s.cur_wave = e.s.submitted_wave
    BY Zenon, <2>1, <2>2, <1>3 DEF Over
  <2>4. e.s.submitted_wave \in Wave
    BY Zenon, <1>2 DEF TermStates
  <2> QED BY Zenon, <2>2, <2>3, <2>4, NextWaveFacts
<1>5. Waving(kn, st, cts, cns, out, cr) /\ ReadySubmitParent(n, st[n]) /\ n \in kn
  BY Zenon, <1>1, <1>3, <1>4 DEF WaveInv
<1>6. r \in Effects
  BY Zenon, <1>1, EffectTypes
<1>7. CASE n # Root
  <2> DEFINE msg == [from |-> n, wave |-> e.s.cur_wave,
                     prod |-> e.s.g_prod1 + e.s.l_prod, cons |-> e.s.g_cons1 + e.s.l_cons]
  <2>1. /\ r.s = Submitted(e.s) /\ r.sent = e.sent \cup {msg}
        /\ r.waves = e.waves /\ r.term = e.term
    BY Zenon, <1>1, <1>7 DEF PropagateEpoch, Effects
  <2>2. Waving(kn, [st EXCEPT ![n] = Submitted(e.s)], cts \cup {msg}, cns, out, cr)
    <3> HIDE DEF kn, st, cts, cns
    <3> QED BY Zenon, <1>1, <1>3, <1>5, <1>7, SubmitStep
  <2>3. [st EXCEPT ![n] = Submitted(e.s)] = [state EXCEPT ![n] = r.s]
    BY Zenon, <1>2, <2>1, UpdateTwice
  <2>4. cts \cup {msg} = (counts \ got) \cup r.sent
    BY Zenon, <2>1
  <2>5. Waving(kn, [state EXCEPT ![n] = r.s], (counts \ got) \cup r.sent,
               (continues \ cont) \cup [to : Node \ {Root}, wave : r.waves], out, cr)
    BY Zenon, <2>1, <2>2, <2>3, <2>4
  <2>6. Config(kn, [state EXCEPT ![n] = r.s], (counts \ got) \cup r.sent,
               (continues \ cont) \cup [to : Node \ {Root}, wave : r.waves], out, cr)
    <3>1. [state EXCEPT ![n] = r.s] \in [Node -> TermStates]
      BY Zenon, <1>2, <1>6 DEF Effects
    <3>2. (counts \ got) \cup r.sent \in SUBSET CountMsg
      BY Zenon, <1>1, <1>6 DEF Effects, Config
    <3> QED BY Zenon, <3>1, <3>2, <2>1, <1>1 DEF Config
  <2> QED BY Zenon, <2>1, <2>5, <2>6, <1>4, <1>6 DEF Midway, WaveInv
<1>8. CASE n = Root /\ IsTerm(e.s)
  <2>1. /\ r.s = Detected(e.s) /\ r.sent = e.sent /\ r.waves = e.waves /\ r.term
    BY Zenon, <1>1, <1>8 DEF PropagateEpoch, Effects
  <2>2. Over([st EXCEPT ![Root] = Detected(e.s)], cts, cns, out, cr)
    <3> HIDE DEF kn, st, cts, cns
    <3> QED BY Zenon, <1>1, <1>3, <1>5, <1>8, DetectStep
  <2>3. [st EXCEPT ![Root] = Detected(e.s)] = [state EXCEPT ![n] = r.s]
    BY Zenon, <1>2, <1>8, <2>1, UpdateTwice
  <2>4. Over([state EXCEPT ![n] = r.s], (counts \ got) \cup r.sent,
             (continues \ cont) \cup [to : Node \ {Root}, wave : r.waves], out, cr)
    BY Zenon, <2>1, <2>2, <2>3
  <2>5. Config(kn, [state EXCEPT ![n] = r.s], (counts \ got) \cup r.sent,
               (continues \ cont) \cup [to : Node \ {Root}, wave : r.waves], out, cr)
    <3>1. [state EXCEPT ![n] = r.s] \in [Node -> TermStates]
      BY Zenon, <1>2, <1>6 DEF Effects
    <3> QED BY Zenon, <3>1, <2>1, <1>1 DEF Config
  <2>6. r.s.term_detected
    BY Zenon, <2>1, <1>2 DEF Detected, TermStates
  <2> QED BY Zenon, <2>1, <2>4, <2>5, <2>6, <1>6 DEF Midway, WaveInv
<1>9. CASE n = Root /\ ~IsTerm(e.s)
  <2> DEFINE wave == NextWave(e.s.cur_wave)
  <2>1. /\ r.s = StartedWave(e.s) /\ r.sent = e.sent
        /\ r.waves = e.waves \cup {wave} /\ r.term = e.term
    BY Zenon, <1>1, <1>9 DEF PropagateEpoch, Effects
  <2>2. Waving(kn, [st EXCEPT ![Root] = StartedWave(e.s)], cts,
               cns \cup [to : Node \ {Root}, wave : {wave}], out, cr)
    <3> HIDE DEF kn, st, cts, cns
    <3> QED BY Zenon, <1>1, <1>3, <1>5, <1>9, RestartStep
  <2>3. [st EXCEPT ![Root] = StartedWave(e.s)] = [state EXCEPT ![n] = r.s]
    BY Zenon, <1>2, <1>9, <2>1, UpdateTwice
  <2>4. cns \cup [to : Node \ {Root}, wave : {wave}]
          = (continues \ cont) \cup [to : Node \ {Root}, wave : r.waves]
    BY Zenon, <2>1
  <2>5. Waving(kn, [state EXCEPT ![n] = r.s], (counts \ got) \cup r.sent,
               (continues \ cont) \cup [to : Node \ {Root}, wave : r.waves], out, cr)
    BY Zenon, <2>1, <2>2, <2>3, <2>4
  <2>6. Config(kn, [state EXCEPT ![n] = r.s], (counts \ got) \cup r.sent,
               (continues \ cont) \cup [to : Node \ {Root}, wave : r.waves], out, cr)
    <3>1. [state EXCEPT ![n] = r.s] \in [Node -> TermStates]
      BY Zenon, <1>2, <1>6 DEF Effects
    <3>2. (continues \ cont) \subseteq ContinueMsg
      BY Zenon DEF TypeOK
    <3>3. r.waves \subseteq Wave
      BY Zenon, <1>6 DEF Effects
    <3>4. (continues \ cont) \cup [to : Node \ {Root}, wave : r.waves] \in SUBSET ContinueMsg
      BY Zenon, <3>2, <3>3 DEF ContinueMsg
    <3> QED BY Zenon, <3>1, <3>4, <2>1, <1>1 DEF Config
  <2> QED BY Zenon, <2>1, <2>5, <2>6, <1>4, <1>6 DEF Midway, WaveInv
<1> QED BY Zenon, <1>7, <1>8, <1>9

\* A counting call before detection: LocalStep in the middle of a handler.
LEMMA MidLocal ==
  ASSUME TypeOK, NEW n \in Node, NEW e, NEW got, NEW cont, NEW out, NEW cr,
         Midway(n, e, got, cont, out, cr), ~(Det \/ e.term),
         NEW s2 \in TermStates, Aside(e.s, s2),
         s2.epoch_active => n \in cr,
         NEW m \in Node, NEW out2 \in [Node -> Nat], Shows(e.s, s2, out, out2, m),
         Quiet(out, cr) => Quiet(out2, cr)
  PROVE  Midway(n, [e EXCEPT !.s = s2], got, cont, out2, cr)
<1> DEFINE kn  == known \cup {n}
           st  == [state EXCEPT ![n] = e.s]
           cts == (counts \ got) \cup e.sent
           cns == (continues \ cont) \cup [to : Node \ {Root}, wave : e.waves]
           r == [e EXCEPT !.s = s2]
<1>1. /\ e \in Effects /\ Config(kn, st, cts, cns, out, cr)
      /\ WaveInv(kn, st, cts, cns, out, cr, Det \/ e.term)
  BY Zenon DEF Midway
<1>2. state \in [Node -> TermStates] /\ e.s \in TermStates /\ st \in [Node -> TermStates]
  BY Zenon, <1>1 DEF TypeOK, Effects, Config
<1>3. st[n] = e.s /\ [st EXCEPT ![n] = s2] = [state EXCEPT ![n] = s2]
  BY Zenon, <1>2, UpdateTwice
<1>4. Waving(kn, st, cts, cns, out, cr)
  BY Zenon, <1>1 DEF WaveInv
<1>5. r \in Effects /\ r.s = s2 /\ r.sent = e.sent /\ r.waves = e.waves /\ r.term = e.term
  BY Zenon, <1>1 DEF Effects
<1>6. cr \in SUBSET Node /\ kn \cup {n} = kn
  BY Zenon, <1>1 DEF Config
<1> HIDE DEF kn, st, cts, cns, r
<1>7. Waving(kn \cup {n}, [st EXCEPT ![n] = s2], cts, cns, out2, cr)
  <2>1. Aside(st[n], s2) /\ Shows(st[n], s2, out, out2, m)
    BY Zenon, <1>3
  <2> QED BY Zenon, <2>1, <1>1, <1>4, <1>6, LocalStep
<1>8. Waving(kn, [state EXCEPT ![n] = r.s], cts, cns, out2, cr)
  BY Zenon, <1>3, <1>5, <1>6, <1>7
<1>9. [state EXCEPT ![n] = r.s] \in [Node -> TermStates]
  BY Zenon, <1>2, <1>5
<1>10. Config(kn, [state EXCEPT ![n] = r.s], cts, cns, out2, cr)
  BY Zenon, <1>1, <1>9 DEF Config
<1>11. ~(Det \/ r.term)
  BY Zenon, <1>5
<1> QED BY Zenon, <1>5, <1>8, <1>10, <1>11 DEF Midway, WaveInv, kn, cts, cns, r

\* Work is outstanding only before detection.
LEMMA MidBusy ==
  ASSUME NEW n, NEW e, NEW got, NEW cont, NEW out, NEW cr,
         Midway(n, e, got, cont, out, cr), ~Quiet(out, cr)
  PROVE  ~(Det \/ e.term)
BY Zenon DEF Midway, WaveInv, Over

\* produce(): node n produces a unit that is outstanding on node m.
LEMMA MidProduce ==
  ASSUME TypeOK, NEW n \in Node, NEW e, NEW got, NEW cont, NEW out, NEW cr,
         Midway(n, e, got, cont, out, cr), ~Quiet(out, cr), NEW m \in Node
  PROVE  Midway(n, Produce(n, e), got, cont, [out EXCEPT ![m] = @ + 1], cr)
<1> DEFINE s2 == Produced(e.s)
           out2 == [out EXCEPT ![m] = @ + 1]
<1>1. e.s \in TermStates /\ out \in [Node -> Nat] /\ state \in [Node -> TermStates]
      /\ e \in Effects
  BY Zenon DEF Midway, Effects, Config, TypeOK
<1>2. s2 \in TermStates
  BY Zenon, <1>1, RecordTypes
<1>3. /\ s2.cur_wave = e.s.cur_wave /\ s2.submitted_wave = e.s.submitted_wave
      /\ s2.recv_child_count = e.s.recv_child_count
      /\ s2.g_prod1 = e.s.g_prod1 /\ s2.g_cons1 = e.s.g_cons1 /\ s2.g_cons2 = e.s.g_cons2
      /\ s2.l_prod = e.s.l_prod + 1 /\ s2.l_cons = e.s.l_cons
      /\ s2.epoch_active = e.s.epoch_active
      /\ e.s.l_prod \in Nat /\ e.s.l_cons \in Nat
  BY Zenon, <1>1 DEF Produced, TermStates
<1>4. ~(Det \/ e.term)
  BY Zenon, MidBusy
<1>5. e.s.epoch_active => n \in cr
  <2>1. Participation(known \cup {n}, [state EXCEPT ![n] = e.s], cr)
    BY Zenon, <1>4 DEF Midway, WaveInv, Waving
  <2> QED BY Zenon, <2>1, <1>1, UpdateTwice DEF Participation
<1>6. /\ out2 \in [Node -> Nat]
      /\ \A k \in Node \ {m} : out2[k] = out[k]
      /\ out2[m] = out[m] + 1 /\ out[m] \in Nat
  BY <1>1
<1>7. Aside(e.s, s2) /\ Shows(e.s, s2, out, out2, m)
  <2> HIDE DEF s2, out2
  <2> QED BY SMTT(30), <1>3, <1>6 DEF Aside, Shows
<1>8. Midway(n, [e EXCEPT !.s = s2], got, cont, out2, cr)
  <2> HIDE DEF s2, out2
  <2> QED BY Zenon, <1>2, <1>3, <1>4, <1>5, <1>6, <1>7, MidLocal
<1>9. [e EXCEPT !.s = Produced(@)] = [e EXCEPT !.s = s2]
  BY Zenon
<1> QED BY Zenon, <1>8, <1>9, MidPropagate DEF Produce

\* consume(): node n consumes a unit that was outstanding on node m.
LEMMA MidConsume ==
  ASSUME TypeOK, NEW n \in Node, NEW e, NEW got, NEW cont, NEW out, NEW cr,
         Midway(n, e, got, cont, out, cr), NEW m \in Node, out[m] > 0
  PROVE  Midway(n, Consume(n, e), got, cont, [out EXCEPT ![m] = @ - 1], cr)
<1> DEFINE s2 == Consumed(e.s)
           out2 == [out EXCEPT ![m] = @ - 1]
<1>1. e.s \in TermStates /\ out \in [Node -> Nat] /\ state \in [Node -> TermStates]
      /\ e \in Effects
  BY Zenon DEF Midway, Effects, Config, TypeOK
<1>2. s2 \in TermStates
  BY Zenon, <1>1, RecordTypes
<1>3. /\ s2.cur_wave = e.s.cur_wave /\ s2.submitted_wave = e.s.submitted_wave
      /\ s2.recv_child_count = e.s.recv_child_count
      /\ s2.g_prod1 = e.s.g_prod1 /\ s2.g_cons1 = e.s.g_cons1 /\ s2.g_cons2 = e.s.g_cons2
      /\ s2.l_prod = e.s.l_prod /\ s2.l_cons = e.s.l_cons + 1
      /\ s2.epoch_active = e.s.epoch_active
      /\ e.s.l_prod \in Nat /\ e.s.l_cons \in Nat
  BY Zenon, <1>1 DEF Consumed, TermStates
<1>q. ~Quiet(out, cr)
  BY <1>1 DEF Quiet
<1>4. ~(Det \/ e.term)
  BY Zenon, <1>q, MidBusy
<1>5. e.s.epoch_active => n \in cr
  <2>1. Participation(known \cup {n}, [state EXCEPT ![n] = e.s], cr)
    BY Zenon, <1>4 DEF Midway, WaveInv, Waving
  <2> QED BY Zenon, <2>1, <1>1, UpdateTwice DEF Participation
<1>6. /\ out2 \in [Node -> Nat]
      /\ \A k \in Node \ {m} : out2[k] = out[k]
      /\ out2[m] = out[m] - 1 /\ out[m] \in Nat
  BY <1>1
<1>7. Aside(e.s, s2) /\ Shows(e.s, s2, out, out2, m)
  <2> HIDE DEF s2, out2
  <2> QED BY SMTT(30), <1>3, <1>6 DEF Aside, Shows
<1>8. Midway(n, [e EXCEPT !.s = s2], got, cont, out2, cr)
  <2> HIDE DEF s2, out2
  <2> QED BY Zenon, <1>q, <1>2, <1>3, <1>4, <1>5, <1>6, <1>7, MidLocal
<1>9. [e EXCEPT !.s = Consumed(@)] = [e EXCEPT !.s = s2]
  BY Zenon
<1> QED BY Zenon, <1>8, <1>9, MidPropagate DEF Consume

\* A change of a record that neither counts nor takes part in waves, made by a
\* handler before or after detection.
LEMMA MidQuietly ==
  ASSUME TypeOK, NEW n \in Node, NEW e, NEW got, NEW cont, NEW out, NEW cr,
         Midway(n, e, got, cont, out, cr),
         NEW s2 \in TermStates,
         s2.cur_wave = e.s.cur_wave,
         s2.submitted_wave = e.s.submitted_wave,
         s2.recv_child_count = e.s.recv_child_count,
         s2.g_prod1 = e.s.g_prod1,
         s2.g_cons1 = e.s.g_cons1,
         s2.g_cons2 = e.s.g_cons2,
         s2.l_prod = e.s.l_prod,
         s2.l_cons = e.s.l_cons,
         s2.term_detected = e.s.term_detected,
         \/ s2.epoch_active = e.s.epoch_active
         \/ s2.epoch_active /\ n \in cr /\ ~Det
  PROVE  Midway(n, [e EXCEPT !.s = s2], got, cont, out, cr)
<1>1. e.s \in TermStates /\ out \in [Node -> Nat] /\ state \in [Node -> TermStates]
      /\ e \in Effects
  BY Zenon DEF Midway, Effects, Config, TypeOK
<1>2. CASE ~(Det \/ e.term)
  <2>1. e.s.epoch_active => n \in cr
    <3>1. Participation(known \cup {n}, [state EXCEPT ![n] = e.s], cr)
      BY Zenon, <1>2 DEF Midway, WaveInv, Waving
    <3> QED BY Zenon, <3>1, <1>1, UpdateTwice DEF Participation
  <2>2. e.s.l_prod \in Nat /\ e.s.l_cons \in Nat /\ out[n] \in Nat
    BY Zenon, <1>1 DEF TermStates
  <2>3. Aside(e.s, s2) /\ Shows(e.s, s2, out, out, n)
    BY SMTT(30), <2>2 DEF Aside, Shows
  <2> QED BY Zenon, <1>1, <1>2, <2>1, <2>3, MidLocal
<1>3. CASE Det \/ e.term
  <2> DEFINE kn  == known \cup {n}
             st  == [state EXCEPT ![n] = e.s]
             cts == (counts \ got) \cup e.sent
             cns == (continues \ cont) \cup [to : Node \ {Root}, wave : e.waves]
             r == [e EXCEPT !.s = s2]
  <2>1. /\ Over(st, cts, cns, out, cr) /\ Config(kn, st, cts, cns, out, cr)
        /\ e.term => e.s.term_detected
    BY Zenon, <1>3 DEF Midway, WaveInv
  <2>2. st \in [Node -> TermStates] /\ st[n] = e.s
        /\ [st EXCEPT ![n] = s2] = [state EXCEPT ![n] = s2]
    BY Zenon, <1>1, UpdateTwice
  <2>3. s2.epoch_active => s2.term_detected \/ s2.cur_wave = s2.submitted_wave
    <3>1. CASE s2.epoch_active = e.s.epoch_active
      BY Zenon, <3>1, <2>1, <2>2 DEF Over
    <3>2. CASE ~Det
      BY Zenon, <3>2, <1>3, <2>1
    <3> QED BY Zenon, <3>1, <3>2
  <2>4. r \in Effects /\ r.s = s2 /\ r.sent = e.sent /\ r.waves = e.waves /\ r.term = e.term
    BY Zenon, <1>1 DEF Effects
  <2>5. Over([st EXCEPT ![n] = s2], cts, cns, out, cr)
    <3> HIDE DEF st, cts, cns
    <3> QED BY Zenon, <2>1, <2>2, <2>3, OverStep
  <2>6. [state EXCEPT ![n] = s2] \in [Node -> TermStates]
    BY Zenon, <1>1
  <2>7. Config(kn, [state EXCEPT ![n] = r.s], cts, cns, out, cr)
    BY Zenon, <2>1, <2>4, <2>6 DEF Config
  <2> HIDE DEF r
  <2>8. Midway(n, r, got, cont, out, cr)
    BY Zenon, <1>3, <2>1, <2>2, <2>4, <2>5, <2>7 DEF Midway, WaveInv
  <2> QED BY Zenon, <2>8 DEF r
<1> QED BY Zenon, <1>2, <1>3

\* activateEpoch() on a node that made the epoch, before the root announced its end.
LEMMA MidActivate ==
  ASSUME TypeOK, NEW n \in Node, NEW e, NEW got, NEW cont, NEW out, NEW cr,
         Midway(n, e, got, cont, out, cr), n \in cr, ~Det
  PROVE  Midway(n, Activate(n, e), got, cont, out, cr)
<1> DEFINE s2 == Activated(e.s)
<1>1. e.s \in TermStates /\ e \in Effects
  BY Zenon DEF Midway, Effects
<1>2. s2 \in TermStates
  BY Zenon, <1>1, RecordTypes
<1>3. /\ s2.cur_wave = e.s.cur_wave /\ s2.submitted_wave = e.s.submitted_wave
      /\ s2.recv_child_count = e.s.recv_child_count
      /\ s2.g_prod1 = e.s.g_prod1 /\ s2.g_cons1 = e.s.g_cons1 /\ s2.g_cons2 = e.s.g_cons2
      /\ s2.l_prod = e.s.l_prod /\ s2.l_cons = e.s.l_cons
      /\ s2.epoch_active /\ s2.term_detected = e.s.term_detected
  BY Zenon, <1>1 DEF Activated, TermStates
<1>4. Midway(n, [e EXCEPT !.s = s2], got, cont, out, cr)
  <2> HIDE DEF s2
  <2> QED BY Zenon, <1>2, <1>3, MidQuietly
<1>5. [e EXCEPT !.s = Activated(@)] = [e EXCEPT !.s = s2]
  BY Zenon
<1> QED BY Zenon, <1>4, <1>5, MidPropagate DEF Activate

\* A change of a record's dependency count or of its local_terminated flag.
LEMMA MidFlags ==
  ASSUME TypeOK, NEW n \in Node, NEW e, NEW got, NEW cont, NEW out, NEW cr,
         Midway(n, e, got, cont, out, cr)
  PROVE  /\ e.s.deps \in Int
         /\ \A d \in Int : Midway(n, [e EXCEPT !.s.deps = d], got, cont, out, cr)
         /\ Midway(n, [e EXCEPT !.s.local_terminated = TRUE], got, cont, out, cr)
<1>1. e.s \in TermStates /\ e \in Effects
  BY Zenon DEF Midway, Effects
<1>2. ASSUME NEW s2 \in TermStates,
             \/ \E d \in Int : s2 = [e.s EXCEPT !.deps = d]
             \/ s2 = [e.s EXCEPT !.local_terminated = TRUE]
      PROVE  Midway(n, [e EXCEPT !.s = s2], got, cont, out, cr)
  <2>1. /\ s2.cur_wave = e.s.cur_wave /\ s2.submitted_wave = e.s.submitted_wave
        /\ s2.recv_child_count = e.s.recv_child_count
        /\ s2.g_prod1 = e.s.g_prod1 /\ s2.g_cons1 = e.s.g_cons1 /\ s2.g_cons2 = e.s.g_cons2
        /\ s2.l_prod = e.s.l_prod /\ s2.l_cons = e.s.l_cons
        /\ s2.epoch_active = e.s.epoch_active /\ s2.term_detected = e.s.term_detected
    BY <1>1, <1>2 DEF TermStates
  <2> QED BY Zenon, <2>1, MidQuietly
<1>3. ASSUME NEW d \in Int PROVE Midway(n, [e EXCEPT !.s.deps = d], got, cont, out, cr)
  <2>1. [e.s EXCEPT !.deps = d] \in TermStates
    BY Zenon, <1>1, RecordTypes
  <2>2. [e EXCEPT !.s.deps = d] = [e EXCEPT !.s = [e.s EXCEPT !.deps = d]]
    BY Zenon, <1>1 DEF Effects
  <2> QED BY Zenon, <1>2, <2>1, <2>2
<1>4. Midway(n, [e EXCEPT !.s.local_terminated = TRUE], got, cont, out, cr)
  <2>1. [e.s EXCEPT !.local_terminated = TRUE] \in TermStates
    BY Zenon, <1>1, RecordTypes
  <2>2. [e EXCEPT !.s.local_terminated = TRUE]
          = [e EXCEPT !.s = [e.s EXCEPT !.local_terminated = TRUE]]
    BY Zenon, <1>1 DEF Effects
  <2> QED BY Zenon, <1>2, <2>1, <2>2
<1> QED BY Zenon, <1>1, <1>3, <1>4 DEF TermStates

-----------------------------------------------------------------------------
\* How handlers begin.

\* The types that the invariant implies of the work outstanding.
LEMMA OutType ==
  ASSUME TypeOK
  PROVE  Out \in [Node -> Nat]
BY DEF TypeOK, Out

\* What an effect that has sent nothing leaves in flight.
LEMMA EffectFresh ==
  ASSUME NEW s \in TermStates, NEW cts, NEW cns
  PROVE  /\ Effect(s) \in Effects
         /\ Effect(s).s = s /\ Effect(s).term = FALSE
         /\ cts \cup Effect(s).sent = cts
         /\ cns \cup [to : Node \ {Root}, wave : Effect(s).waves] = cns
<1>1. /\ Effect(s) \in Effects /\ Effect(s).s = s /\ Effect(s).term = FALSE
      /\ Effect(s).sent = {} /\ Effect(s).waves = {}
  BY Zenon DEF Effect, Effects
<1>2. [to : Node \ {Root}, wave : {}] = {}
  BY Zenon
<1>3. cns \cup [to : Node \ {Root}, wave : Effect(s).waves] = cns
  BY Zenon, <1>1, <1>2
<1> QED BY Zenon, <1>1, <1>3

\* A record that is not there is a new one, and looking it up creates it.
LEMMA FindFacts ==
  ASSUME TypeOK, NEW n \in Node, NEW b \in BOOLEAN
  PROVE  /\ FindOrCreate(n, b) \in TermStates
         /\ Waving(known, state, counts, continues, Out, created) =>
              FindOrCreate(n, FALSE) = state[n]
<1>1. FindOrCreate(n, b) \in TermStates
  <2>1. NewState(b) \in TermStates
    BY SMTT(30), NextWaveFacts DEF NewState, TermStates
  <2> QED BY Zenon, <2>1 DEF TypeOK, FindOrCreate
<1>2. ASSUME Waving(known, state, counts, continues, Out, created)
      PROVE  FindOrCreate(n, FALSE) = state[n]
  BY Zenon, <1>2 DEF Waving, Participation, FindOrCreate
<1> QED BY Zenon, <1>1, <1>2

\* A handler on n that has looked up or created the epoch's record.
LEMMA MidStart ==
  ASSUME IndInv, NEW n \in Node
  PROVE  Midway(n, Effect(FindOrCreate(n, FALSE)), {}, {}, Out, created)
<1> DEFINE s == FindOrCreate(n, FALSE)
           e == Effect(s)
<1>1. TypeOK /\ WaveInv(known, state, counts, continues, Out, created, Det)
  BY Zenon DEF IndInv
<1>2. s \in TermStates /\ Out \in [Node -> Nat] /\ state \in [Node -> TermStates]
      /\ created \in SUBSET Node
  BY Zenon, <1>1, FindFacts, OutType DEF TypeOK
<1>3. /\ e \in Effects /\ e.s = s /\ e.term = FALSE
      /\ (counts \ {}) \cup e.sent = counts
      /\ (continues \ {}) \cup [to : Node \ {Root}, wave : e.waves] = continues
  <2>1. counts \ {} = counts /\ continues \ {} = continues
    BY Zenon
  <2> HIDE DEF s
  <2> QED BY Zenon, <2>1, <1>2, EffectFresh
<1>4. [state EXCEPT ![n] = s] \in [Node -> TermStates]
  BY Zenon, <1>2
<1> HIDE DEF s, e
<1>5. Config(known \cup {n}, [state EXCEPT ![n] = s], counts, continues, Out, created)
  BY Zenon, <1>1, <1>2, <1>4 DEF Config, TypeOK
<1>6. Config(known, state, counts, continues, Out, created)
  BY Zenon, <1>1, <1>2 DEF Config, TypeOK
<1>7. CASE Det
  <2>1. Over(state, counts, continues, Out, created)
    BY Zenon, <1>1, <1>7 DEF WaveInv
  <2>2. s.epoch_active => s.term_detected \/ s.cur_wave = s.submitted_wave
    BY Zenon, <2>1 DEF Over, s, FindOrCreate, NewState
  <2>3. Over([state EXCEPT ![n] = s], counts, continues, Out, created)
    BY Zenon, <2>1, <2>2, <1>2, OverStep
  <2>4. Midway(n, e, {}, {}, Out, created)
    BY Zenon, <2>3, <1>3, <1>5, <1>7 DEF Midway, WaveInv
  <2> QED BY Zenon, <2>4 DEF e, s
<1>8. CASE ~Det
  <2>1. Waving(known, state, counts, continues, Out, created)
    BY Zenon, <1>1, <1>8 DEF WaveInv
  <2>2. s = state[n]
    BY Zenon, <2>1, <1>1, FindFacts DEF s
  <2>3. s.l_prod \in Nat /\ s.l_cons \in Nat /\ Out[n] \in Nat
    BY Zenon, <1>2 DEF TermStates
  <2>4. Aside(state[n], s) /\ Shows(state[n], s, Out, Out, n)
    BY <2>2, <2>3 DEF Aside, Shows
  <2>5. s.epoch_active => n \in created
    BY Zenon, <2>1, <2>2 DEF Waving, Participation
  <2>6. Waving(known \cup {n}, [state EXCEPT ![n] = s], counts, continues, Out, created)
    BY Zenon, <2>1, <2>4, <2>5, <1>2, <1>6, LocalStep
  <2>7. Midway(n, e, {}, {}, Out, created)
    BY Zenon, <2>6, <1>3, <1>5, <1>8 DEF Midway, WaveInv
  <2> QED BY Zenon, <2>7 DEF e, s
<1> QED BY Zenon, <1>7, <1>8

\* A handler on n that makes the epoch there and produces its first unit.
LEMMA MidMake ==
  ASSUME IndInv, NEW n \in Node, n \notin created, NEW b \in BOOLEAN
  PROVE  /\ ~Det
         /\ Midway(n, Produce(n, Effect(FindOrCreate(n, b))), {}, {},
                   [Out EXCEPT ![n] = @ + 1], created \cup {n})
<1> DEFINE s == FindOrCreate(n, b)
           s2 == Produced(s)
           e == [Effect(s) EXCEPT !.s = Produced(@)]
           out2 == [Out EXCEPT ![n] = @ + 1]
           cr2 == created \cup {n}
<1>1. TypeOK /\ WaveInv(known, state, counts, continues, Out, created, Det)
  BY Zenon DEF IndInv
<1>2. s \in TermStates /\ Out \in [Node -> Nat] /\ state \in [Node -> TermStates]
      /\ created \in SUBSET Node
  BY Zenon, <1>1, FindFacts, OutType DEF TypeOK
<1>3. ~Quiet(Out, created)
  BY Zenon DEF Quiet
<1>4. ~Det
  BY Zenon, <1>1, <1>3 DEF WaveInv, Over
<1>5. Waving(known, state, counts, continues, Out, created)
  BY Zenon, <1>1, <1>4 DEF WaveInv
<1>6. s2 \in TermStates
  BY Zenon, <1>2, RecordTypes
<1>7. /\ e \in Effects /\ e.s = s2 /\ e.term = FALSE
      /\ (counts \ {}) \cup e.sent = counts
      /\ (continues \ {}) \cup [to : Node \ {Root}, wave : e.waves] = continues
  <2>1. Effect(s) \in Effects /\ Effect(s).s = s /\ Effect(s).term = FALSE
    <3> HIDE DEF s
    <3> QED BY Zenon, <1>2, EffectFresh
  <2>2. e = [Effect(s) EXCEPT !.s = s2]
    BY Zenon, <2>1
  <2>3. \A x \in Effects : LET y == [x EXCEPT !.s = s2]
                          IN /\ y \in Effects /\ y.s = s2 /\ y.term = x.term
                             /\ y.sent = x.sent /\ y.waves = x.waves
    <3> HIDE DEF s2
    <3> QED BY Zenon, <1>6 DEF Effects
  <2>4. /\ e \in Effects /\ e.s = s2 /\ e.term = FALSE
        /\ e.sent = Effect(s).sent /\ e.waves = Effect(s).waves
    <3> HIDE DEF s, s2, e
    <3> QED BY Zenon, <2>1, <2>2, <2>3
  <2>5. counts \ {} = counts /\ continues \ {} = continues
    BY Zenon
  <2> HIDE DEF e, s, s2
  <2>6. \A c : c \cup Effect(s).sent = c
    BY Zenon, <1>2, EffectFresh
  <2>7. \A c : c \cup [to : Node \ {Root}, wave : Effect(s).waves] = c
    BY Zenon, <1>2, EffectFresh
  <2> QED BY Zenon, <2>4, <2>5, <2>6, <2>7
<1>8. /\ s.cur_wave = state[n].cur_wave /\ s.submitted_wave = state[n].submitted_wave
      /\ s.recv_child_count = state[n].recv_child_count
      /\ s.g_prod1 = state[n].g_prod1 /\ s.g_cons1 = state[n].g_cons1
      /\ s.g_cons2 = state[n].g_cons2
      /\ s.l_prod = state[n].l_prod /\ s.l_cons = state[n].l_cons
      /\ state[n].epoch_active => s.epoch_active
  <2>1. CASE n \in known
    BY Zenon, <2>1 DEF FindOrCreate
  <2>2. CASE n \notin known
    <3>1. state[n] = NewState(FALSE) /\ s = NewState(b)
      BY Zenon, <2>2, <1>5 DEF FindOrCreate, Waving, Participation
    <3> QED BY SMTT(30), <3>1 DEF NewState
  <2> QED BY Zenon, <2>1, <2>2
<1>9. /\ s2.cur_wave = s.cur_wave /\ s2.submitted_wave = s.submitted_wave
      /\ s2.recv_child_count = s.recv_child_count
      /\ s2.g_prod1 = s.g_prod1 /\ s2.g_cons1 = s.g_cons1 /\ s2.g_cons2 = s.g_cons2
      /\ s2.l_prod = s.l_prod + 1 /\ s2.l_cons = s.l_cons
      /\ s2.epoch_active = s.epoch_active
      /\ s.l_prod \in Nat /\ s.l_cons \in Nat
  BY Zenon, <1>2 DEF Produced, TermStates
<1>10. /\ out2 \in [Node -> Nat] /\ out2[n] = Out[n] + 1 /\ Out[n] \in Nat
       /\ \A k \in Node \ {n} : out2[k] = Out[k]
  BY <1>2
<1>11. [state EXCEPT ![n] = s2] \in [Node -> TermStates]
  BY Zenon, <1>2, <1>6
<1> HIDE DEF s, s2, e, out2
<1>12. Aside(state[n], s2) /\ Shows(state[n], s2, Out, out2, n)
  BY SMTT(30), <1>8, <1>9, <1>10 DEF Aside, Shows
<1>13. Config(known, state, counts, continues, Out, created)
  BY Zenon, <1>1, <1>2 DEF Config, TypeOK
<1>14. Config(known \cup {n}, [state EXCEPT ![n] = s2], counts, continues, out2, cr2)
  BY Zenon, <1>1, <1>2, <1>10, <1>11 DEF Config, TypeOK
<1>15. /\ cr2 \in SUBSET Node /\ created \subseteq cr2 /\ n \in cr2
       /\ Root \in cr2 => Root \in created \/ (n = Root /\ s2.l_prod >= 1)
  BY <1>2, <1>9
<1>16. Waving(known \cup {n}, [state EXCEPT ![n] = s2], counts, continues, out2, cr2)
  <2> HIDE DEF cr2
  <2> QED BY Zenon, <1>3, <1>5, <1>6, <1>10, <1>12, <1>13, <1>15, LocalStep
<1>17. Midway(n, e, {}, {}, out2, cr2)
  BY Zenon, <1>4, <1>7, <1>14, <1>16 DEF Midway, WaveInv
<1>18. Midway(n, MaybePropagate(n, e), {}, {}, out2, cr2)
  BY Zenon, <1>1, <1>17, MidPropagate
<1> QED BY Zenon, <1>4, <1>18 DEF Produce, e, s, out2

\* A handler on the parent that has added a child's counts.
LEMMA MidChild ==
  ASSUME IndInv, NEW msg \in counts
  PROVE  LET p == Parent(msg.from)
             s == ChildReceived(FindOrCreate(p, FALSE), msg.prod, msg.cons)
         IN p \in Node /\ Midway(p, Effect(s), {msg}, {}, Out, created)
<1> DEFINE p == Parent(msg.from)
           s == ChildReceived(FindOrCreate(p, FALSE), msg.prod, msg.cons)
           s1 == ChildReceived(state[p], msg.prod, msg.cons)
           e == Effect(s)
<1>1. TypeOK /\ WaveInv(known, state, counts, continues, Out, created, Det)
  BY Zenon DEF IndInv
<1>2. /\ Out \in [Node -> Nat] /\ state \in [Node -> TermStates]
      /\ created \in SUBSET Node /\ msg \in CountMsg
  BY Zenon, <1>1, OutType DEF TypeOK
<1>3. ~Det
  BY Zenon, <1>1 DEF WaveInv, Over
<1>4. Waving(known, state, counts, continues, Out, created)
  BY Zenon, <1>1, <1>3 DEF WaveInv
<1>5. Config(known, state, counts, continues, Out, created)
  BY Zenon, <1>1, <1>2 DEF Config, TypeOK
<1>6. p \in Node
  BY Zenon, <1>4, <1>5, CountFinds
<1>7. s = s1
  BY Zenon, <1>1, <1>4, <1>6, FindFacts
<1>8. s1 \in TermStates
      /\ Waving(known \cup {p}, [state EXCEPT ![p] = s1], counts \ {msg}, continues, Out, created)
  BY Zenon, <1>4, <1>5, ChildStep
<1> HIDE DEF s1
<1>9. /\ e \in Effects /\ e.s = s /\ e.term = FALSE
      /\ (counts \ {msg}) \cup e.sent = counts \ {msg}
      /\ (continues \ {}) \cup [to : Node \ {Root}, wave : e.waves] = continues
  <2>1. continues \ {} = continues
    BY Zenon
  <2> HIDE DEF s
  <2> QED BY Zenon, <2>1, <1>7, <1>8, EffectFresh
<1>10. [state EXCEPT ![p] = s] \in [Node -> TermStates]
  BY Zenon, <1>2, <1>7, <1>8
<1> HIDE DEF s, e, p
<1>11. Config(known \cup {p}, [state EXCEPT ![p] = s], counts \ {msg}, continues, Out, created)
  BY Zenon, <1>5, <1>6, <1>10 DEF Config
<1>12. Midway(p, e, {msg}, {}, Out, created)
  BY Zenon, <1>3, <1>7, <1>8, <1>9, <1>11 DEF Midway, WaveInv
<1> QED BY Zenon, <1>6, <1>12 DEF p, e, s

\* A handler that has entered the wave of a continue.
LEMMA MidContinue ==
  ASSUME IndInv, NEW msg \in continues
  PROVE  /\ msg.to \in Node
         /\ msg.to \in known
         /\ Midway(msg.to, Effect([state[msg.to] EXCEPT !.cur_wave = msg.wave]),
                   {}, {msg}, Out, created)
<1> DEFINE n == msg.to
           s == [state[n] EXCEPT !.cur_wave = msg.wave]
           e == Effect(s)
<1>1. TypeOK /\ WaveInv(known, state, counts, continues, Out, created, Det)
  BY Zenon DEF IndInv
<1>2. /\ Out \in [Node -> Nat] /\ state \in [Node -> TermStates]
      /\ created \in SUBSET Node
  BY Zenon, <1>1, OutType DEF TypeOK
<1>3. ~Det
  BY Zenon, <1>1 DEF WaveInv, Over
<1>4. Waving(known, state, counts, continues, Out, created)
  BY Zenon, <1>1, <1>3 DEF WaveInv
<1>5. Config(known, state, counts, continues, Out, created)
  BY Zenon, <1>1, <1>2 DEF Config, TypeOK
<1>6. n \in Node /\ n \in known
  BY Zenon, <1>4, <1>5, ContinueFinds
<1>8. s \in TermStates
      /\ Waving(known \cup {n}, [state EXCEPT ![n] = s], counts, continues \ {msg}, Out, created)
  BY Zenon, <1>4, <1>5, ContinueStep
<1> HIDE DEF s
<1>9. /\ e \in Effects /\ e.s = s /\ e.term = FALSE
      /\ (counts \ {}) \cup e.sent = counts
      /\ (continues \ {msg}) \cup [to : Node \ {Root}, wave : e.waves] = continues \ {msg}
  <2>1. counts \ {} = counts
    BY Zenon
  <2>2. s \in TermStates
    BY Zenon, <1>8
  <2>3. \A c : c \cup e.sent = c
    BY Zenon, <2>2, EffectFresh
  <2>4. \A c : c \cup [to : Node \ {Root}, wave : e.waves] = c
    BY Zenon, <2>2, EffectFresh
  <2>5. e \in Effects /\ e.s = s /\ e.term = FALSE
    BY Zenon, <2>2, EffectFresh
  <2> QED BY Zenon, <2>1, <2>3, <2>4, <2>5
<1>10. [state EXCEPT ![n] = s] \in [Node -> TermStates]
  BY Zenon, <1>2, <1>8
<1> HIDE DEF e, n
<1>11. Config(known \cup {n}, [state EXCEPT ![n] = s], counts, continues \ {msg}, Out, created)
  BY Zenon, <1>5, <1>6, <1>10 DEF Config
<1>12. Midway(n, e, {}, {msg}, Out, created)
  BY Zenon, <1>3, <1>8, <1>9, <1>11 DEF Midway, WaveInv
<1> QED BY Zenon, <1>6, <1>12 DEF n, e, s

-----------------------------------------------------------------------------

\* How handlers end.

\* The work outstanding for given messages, runnables, dependencies and lists.
Outstanding(nt, q, h, cr, ready, win) ==
  [n \in Node |-> nt[n] + q[n] + h[n]
                    + (IF n \in cr /\ n \notin ready /\ n \notin win THEN 1 ELSE 0)]

LEMMA OutOutstanding ==
  /\ Out = Outstanding(net, queue, held, created, epoch_ready, terminated)
  /\ Out' = Outstanding(net', queue', held', created', epoch_ready', terminated')
BY Zenon DEF Out, Outstanding, Open

\* A handler that ends with Commit re-establishes the invariant.
LEMMA CommitInv ==
  ASSUME IndInv, NEW n \in Node, NEW e, NEW got, NEW cont, NEW cr,
         NEW ready \in SUBSET Node, NEW win \in SUBSET Node,
         net' \in [Node -> Nat], queue' \in [Node -> Nat], held' \in [Node -> Nat],
         disabled' \in SUBSET Node, ops' \in Nat, rooteds' \in SUBSET Node,
         created' = cr,
         Midway(n, e, got, cont, Outstanding(net', queue', held', cr, ready, win), cr),
         Commit(n, e, got, cont, ready, win),
         ready \subseteq cr, cr \cap rooteds' = {}, ~Rooted => rooteds' = {},
         cr \subseteq created \cup {n},
         cr \cap win = created \cap terminated,
         \A k \in Node : queue'[k] > 0 => queue[k] > 0 \/ k = n
  PROVE  IndInv'
<1> DEFINE out == Outstanding(net', queue', held', cr, ready, win)
<1>1. TypeOK /\ LifeCycle
  BY Zenon DEF IndInv
<1>2. /\ e \in Effects
      /\ Config(known \cup {n}, [state EXCEPT ![n] = e.s], (counts \ got) \cup e.sent,
                (continues \ cont) \cup [to : Node \ {Root}, wave : e.waves], out, cr)
      /\ WaveInv(known \cup {n}, [state EXCEPT ![n] = e.s], (counts \ got) \cup e.sent,
                 (continues \ cont) \cup [to : Node \ {Root}, wave : e.waves], out, cr,
                 Det \/ e.term)
  BY Zenon DEF Midway
<1>3. /\ known' = known \cup {n}
      /\ state' = [state EXCEPT ![n] = e.s]
      /\ counts' = (counts \ got) \cup e.sent
      /\ continues' = (continues \ cont) \cup [to : Node \ {Root}, wave : e.waves]
      /\ epoch_ready' = IF e.term THEN ready \ {Root} ELSE ready
      /\ terminated' = IF e.term THEN win \cup {Root} ELSE win
      /\ terms' = IF e.term THEN Node \ {Root} ELSE terms
      /\ cleanup' = (cleanup \/ e.term)
  BY Zenon DEF Commit
<1>4. e.term \in BOOLEAN /\ cleanup \in BOOLEAN
  BY Zenon, <1>1, <1>2 DEF Effects, TypeOK
<1>5. e.term => Quiet(out, cr)
  BY Zenon, <1>2 DEF WaveInv, Over
<1>6. e.term => cr = Node
  BY Zenon, <1>5 DEF Quiet
<1>7. Told' = created' \cap terminated' /\ (Det' <=> Root \in Told')
  BY Zenon DEF Told, Det
<1>8. Det' = (Det \/ e.term)
  <2>1. CASE e.term
    BY Zenon, <2>1, <1>3, <1>6, <1>7, TreeFacts
  <2>2. CASE ~e.term
    <3>1. Told' = Told
      BY Zenon, <2>2, <1>3, <1>7 DEF Told
    <3> QED BY <2>2, <3>1, <1>7 DEF Det
  <2> QED BY Zenon, <2>1, <2>2
<1>9. TypeOK'
  <2>1. /\ known' \subseteq Node /\ created' \subseteq Node
        /\ state' \in [Node -> TermStates]
        /\ counts' \subseteq CountMsg /\ continues' \subseteq ContinueMsg
    BY Zenon, <1>2, <1>3 DEF Config
  <2>2. epoch_ready' \subseteq Node /\ terminated' \subseteq Node /\ terms' \subseteq Node
    BY Zenon, <1>1, <1>3, TreeFacts DEF TypeOK
  <2>3. cleanup' \in BOOLEAN
    BY Zenon, <1>3, <1>4
  <2> QED BY Zenon, <2>1, <2>2, <2>3 DEF TypeOK
<1>10. LifeCycle'
  <2>1. epoch_ready' \subseteq created'
    BY Zenon, <1>3
  <2>2. ASSUME ~Det'
        PROVE  /\ Told' = {} /\ terms' = {} /\ ~cleanup' /\ created' \subseteq known'
               /\ \A k \in Node : queue'[k] > 0 => k \in known'
    <3>1. ~Det /\ ~e.term
      BY Zenon, <2>2, <1>8
    <3>2. Told = {} /\ terms = {} /\ ~cleanup /\ created \subseteq known
          /\ \A k \in Node : queue[k] > 0 => k \in known
      BY Zenon, <3>1, <1>1 DEF LifeCycle
    <3>3. Told' = Told
      BY Zenon, <3>1, <1>3, <1>7 DEF Told
    <3> QED BY Zenon, <3>1, <3>2, <3>3, <1>3
  <2> QED BY Zenon, <2>1, <2>2 DEF LifeCycle
<1>11. Out' = out
  <2>1. Out' = Outstanding(net', queue', held', created', epoch_ready', terminated')
    BY Zenon, OutOutstanding
  <2>2. CASE ~e.term
    BY Zenon, <2>1, <2>2, <1>3
  <2>3. CASE e.term
    <3>1. \A k \in Node : out[k] = 0
      BY Zenon, <2>3, <1>5 DEF Quiet
    <3>2. \A k \in Node : /\ net'[k] \in Nat /\ queue'[k] \in Nat /\ held'[k] \in Nat
      BY Zenon
    <3>3. ASSUME NEW k \in Node
          PROVE  Outstanding(net', queue', held', created', epoch_ready', terminated')[k] = out[k]
      <4>1. CASE k # Root
        BY Zenon, <4>1, <1>3 DEF Outstanding
      <4>2. CASE k = Root
        <5>1. k \in terminated'
          BY Zenon, <4>2, <2>3, <1>3
        <5>2. out[k] = 0 /\ net'[k] \in Nat /\ queue'[k] \in Nat /\ held'[k] \in Nat
          BY Zenon, <3>1, <3>2
        <5>3. net'[k] + queue'[k] + held'[k] = 0
          BY <5>2 DEF Outstanding
        <5> QED BY SMTT(30), <5>1, <5>2, <5>3 DEF Outstanding
      <4> QED BY Zenon, <4>1, <4>2
    <3> QED BY Zenon, <2>1, <3>3 DEF Outstanding
  <2> QED BY Zenon, <2>2, <2>3
<1>12. WaveInv(known', state', counts', continues', Out', created', Det')
  <2> HIDE DEF out
  <2> QED BY Zenon, <1>2, <1>3, <1>8, <1>11
<1> QED BY Zenon, <1>9, <1>10, <1>12 DEF IndInv

\* A change of one entry of the work, as a change of the work outstanding.
LEMMA OutstandingAt ==
  ASSUME NEW nt \in [Node -> Nat], NEW q \in [Node -> Nat], NEW h \in [Node -> Nat],
         NEW cr, NEW ready, NEW win, NEW n \in Node
  PROVE  /\ Outstanding(nt, q, h, cr, ready, win) \in [Node -> Nat]
         /\ Outstanding(nt, q, h, cr, ready, win)[n] >= nt[n] + q[n] + h[n]
         /\ n \in cr /\ n \notin ready /\ n \notin win
              => Outstanding(nt, q, h, cr, ready, win)[n] > 0
BY DEF Outstanding

\* Messages, runnables and dependencies change on node n only.
Moved(nt, q, h, nt2, q2, h2, n) ==
  /\ nt \in [Node -> Nat] /\ q \in [Node -> Nat] /\ h \in [Node -> Nat]
  /\ nt2 \in [Node -> Nat] /\ q2 \in [Node -> Nat] /\ h2 \in [Node -> Nat]
  /\ \A k \in Node \ {n} : nt2[k] = nt[k] /\ q2[k] = q[k] /\ h2[k] = h[k]

LEMMA OutstandingSame ==
  ASSUME NEW nt, NEW q, NEW h, NEW nt2, NEW q2, NEW h2, NEW cr, NEW ready, NEW win,
         NEW n \in Node, Moved(nt, q, h, nt2, q2, h2, n),
         nt2[n] + q2[n] + h2[n] = nt[n] + q[n] + h[n]
  PROVE  Outstanding(nt2, q2, h2, cr, ready, win) = Outstanding(nt, q, h, cr, ready, win)
BY Zenon DEF Outstanding, Moved

\* One unit less after one unit more is where the count was.
LEMMA MoreThenLess ==
  ASSUME NEW out \in [Node -> Nat], NEW n \in Node
  PROVE  /\ [out EXCEPT ![n] = @ + 1] \in [Node -> Nat]
         /\ [out EXCEPT ![n] = @ + 1][n] > 0
         /\ [[out EXCEPT ![n] = @ + 1] EXCEPT ![n] = @ - 1] = out
<1>1. out[n] \in Nat /\ (out[n] + 1) - 1 = out[n] /\ out[n] + 1 > 0 /\ out[n] + 1 \in Nat
  OBVIOUS
<1>2. [out EXCEPT ![n] = @ + 1] \in [Node -> Nat] /\ [out EXCEPT ![n] = @ + 1][n] = out[n] + 1
  BY Zenon, <1>1
<1>3. [[out EXCEPT ![n] = @ + 1] EXCEPT ![n] = @ - 1] = [out EXCEPT ![n] = (out[n] + 1) - 1]
  BY Zenon, <1>2
<1> QED BY Zenon, <1>1, <1>2, <1>3

\* With one unit more on node n alone, so changes the work outstanding.
LEMMA WorkMore ==
  ASSUME NEW n \in Node, Moved(net, queue, held, net', queue', held', n),
         net'[n] + queue'[n] + held'[n] = net[n] + queue[n] + held[n] + 1
  PROVE  Outstanding(net', queue', held', created, epoch_ready, terminated)
           = [Out EXCEPT ![n] = @ + 1]
<1> DEFINE o == Outstanding(net, queue, held, created, epoch_ready, terminated)
           o2 == Outstanding(net', queue', held', created, epoch_ready, terminated)
           open == IF Open(n) THEN 1 ELSE 0
<1>1. o = Out
  BY Zenon, OutOutstanding
<1>2. o \in [Node -> Nat] /\ o2 \in [Node -> Nat]
  BY DEF Outstanding, Moved
<1>3. /\ net[n] \in Nat /\ queue[n] \in Nat /\ held[n] \in Nat
      /\ net'[n] \in Nat /\ queue'[n] \in Nat /\ held'[n] \in Nat /\ open \in Nat
  BY Zenon DEF Moved
<1>4. /\ o[n] = net[n] + queue[n] + held[n] + open
      /\ o2[n] = net'[n] + queue'[n] + held'[n] + open
  BY Zenon DEF Outstanding, Open
<1>5. \A k \in Node \ {n} : o2[k] = o[k]
  BY Zenon DEF Outstanding, Moved
<1> HIDE DEF o, o2, open
<1>6. o2[n] = o[n] + 1
  BY SMTT(30), <1>3, <1>4
<1>7. o2 = [o EXCEPT ![n] = @ + 1]
  BY Zenon, <1>2, <1>5, <1>6
<1> QED BY Zenon, <1>1, <1>7 DEF o2

\* With one unit less on node n alone, so changes the work outstanding.
LEMMA WorkLess ==
  ASSUME NEW n \in Node, Moved(net, queue, held, net', queue', held', n),
         net'[n] + queue'[n] + held'[n] = net[n] + queue[n] + held[n] - 1
  PROVE  Outstanding(net', queue', held', created, epoch_ready, terminated)
           = [Out EXCEPT ![n] = @ - 1]
<1> DEFINE o == Outstanding(net, queue, held, created, epoch_ready, terminated)
           o2 == Outstanding(net', queue', held', created, epoch_ready, terminated)
           open == IF Open(n) THEN 1 ELSE 0
<1>1. o = Out
  BY Zenon, OutOutstanding
<1>2. o \in [Node -> Nat] /\ o2 \in [Node -> Nat]
  BY DEF Outstanding, Moved
<1>3. /\ net[n] \in Nat /\ queue[n] \in Nat /\ held[n] \in Nat
      /\ net'[n] \in Nat /\ queue'[n] \in Nat /\ held'[n] \in Nat /\ open \in Nat
  BY Zenon DEF Moved
<1>4. /\ o[n] = net[n] + queue[n] + held[n] + open
      /\ o2[n] = net'[n] + queue'[n] + held'[n] + open
  BY Zenon DEF Outstanding, Open
<1>5. \A k \in Node \ {n} : o2[k] = o[k]
  BY Zenon DEF Outstanding, Moved
<1> HIDE DEF o, o2, open
<1>6. o2[n] = o[n] - 1
  BY SMTT(30), <1>3, <1>4
<1>7. o2 = [o EXCEPT ![n] = @ - 1]
  BY Zenon, <1>2, <1>5, <1>6
<1> QED BY Zenon, <1>1, <1>7 DEF o2

\* A handler that leaves the life cycle alone re-establishes the invariant.
LEMMA LocalInv ==
  ASSUME IndInv, NEW n \in Node, NEW e, NEW got, NEW cont, UNCHANGED making,
         net' \in [Node -> Nat], queue' \in [Node -> Nat], held' \in [Node -> Nat],
         disabled' \in SUBSET Node, ops' \in Nat,
         Midway(n, e, got, cont,
                Outstanding(net', queue', held', created, epoch_ready, terminated), created),
         Commit(n, e, got, cont, epoch_ready, terminated),
         \A k \in Node : queue'[k] > 0 => queue[k] > 0 \/ k = n
  PROVE  IndInv'
<1>1. /\ epoch_ready \in SUBSET Node /\ terminated \in SUBSET Node /\ created \in SUBSET Node
      /\ created' = created /\ rooteds' = rooteds /\ rooteds' \in SUBSET Node
      /\ epoch_ready \subseteq created /\ created \cap rooteds = {} /\ (~Rooted => rooteds = {})
  BY Zenon DEF IndInv, TypeOK, LifeCycle, making
<1> QED BY Zenon, <1>1, CommitInv

\* A node where work of the epoch is outstanding has a record, and nothing has
\* been detected.
LEMMA Working ==
  ASSUME IndInv, NEW n \in Node, Out[n] > 0
  PROVE  /\ ~Quiet(Out, created)
         /\ ~Det
         /\ InScope(n) => n \in known
<1>1. ~Quiet(Out, created)
  BY OutType DEF Quiet, IndInv
<1>2. ~Det
  BY Zenon, <1>1 DEF IndInv, WaveInv, Over
<1>3. InScope(n) => n \in known
  BY Zenon, <1>2 DEF IndInv, LifeCycle, InScope, Open
<1> QED BY Zenon, <1>1, <1>2, <1>3

LEMMA ScopeWorks ==
  ASSUME IndInv, NEW n \in Node
  PROVE  /\ Out \in [Node -> Nat]
         /\ InScope(n) \/ net[n] > 0 \/ held[n] > 0 => Out[n] > 0
<1>1. net \in [Node -> Nat] /\ queue \in [Node -> Nat] /\ held \in [Node -> Nat]
  BY Zenon DEF IndInv, TypeOK
<1>2. net[n] \in Nat /\ queue[n] \in Nat /\ held[n] \in Nat
  BY Zenon, <1>1
<1>3. Out[n] = net[n] + queue[n] + held[n] + (IF Open(n) THEN 1 ELSE 0)
  BY Zenon DEF Out
<1>4. Out \in [Node -> Nat]
  BY <1>1 DEF Out
<1>5. net[n] > 0 \/ held[n] > 0 \/ queue[n] > 0 => Out[n] > 0
  BY <1>2, <1>3
<1>6. Open(n) => Out[n] > 0
  BY <1>2, <1>3
<1> QED BY Zenon, <1>4, <1>5, <1>6 DEF InScope

-----------------------------------------------------------------------------
\* Each action preserves the invariant.

LEMMA SendInv ==
  ASSUME IndInv, NEW n \in Node, NEW m \in Node, SendMsg(n, m) \/ (SendSelf(n) /\ m = n)
  PROVE  IndInv'
<1> DEFINE e == Produce(n, Effect(FindOrCreate(n, FALSE)))
<1>1. TypeOK /\ Out \in [Node -> Nat] /\ InScope(n) /\ Out[n] > 0
  BY Zenon, ScopeWorks DEF IndInv, SendMsg, SendSelf
<1>2. ~Quiet(Out, created)
  BY Zenon, <1>1, Working
<1>3. Midway(n, e, {}, {}, [Out EXCEPT ![m] = @ + 1], created)
  BY Zenon, <1>1, <1>2, MidStart, MidProduce
<1>4. /\ net' \in [Node -> Nat] /\ queue' \in [Node -> Nat] /\ held' \in [Node -> Nat]
      /\ disabled' \in SUBSET Node /\ ops' \in Nat /\ UNCHANGED making
      /\ Moved(net, queue, held, net', queue', held', m)
      /\ \A k \in Node : queue'[k] > 0 => queue[k] > 0 \/ k = n
  <2>1. CASE SendMsg(n, m)
    BY SMTT(30), <2>1, <1>1 DEF TypeOK, SendMsg, Moved
  <2>2. CASE SendSelf(n) /\ m = n
    BY SMTT(30), <2>2, <1>1 DEF TypeOK, SendSelf, Moved
  <2> QED BY Zenon, <2>1, <2>2
<1>5. net'[m] + queue'[m] + held'[m] = net[m] + queue[m] + held[m] + 1
  <2>1. CASE SendMsg(n, m)
    BY <2>1, <1>1 DEF TypeOK, SendMsg
  <2>2. CASE SendSelf(n) /\ m = n
    BY <2>2, <1>1 DEF TypeOK, SendSelf
  <2> QED BY Zenon, <2>1, <2>2
<1>6. Outstanding(net', queue', held', created, epoch_ready, terminated)
        = [Out EXCEPT ![m] = @ + 1]
  BY Zenon, <1>4, <1>5, WorkMore
<1>7. Commit(n, e, {}, {}, epoch_ready, terminated)
  BY Zenon DEF SendMsg, SendSelf, CommitLocal
<1> HIDE DEF e
<1> QED BY Zenon, <1>3, <1>4, <1>6, <1>7, LocalInv

LEMMA DeliverInv ==
  ASSUME IndInv, NEW n \in Node, Deliver(n)
  PROVE  IndInv'
<1> DEFINE p == Produce(n, Effect(FindOrCreate(n, FALSE)))
           e == Consume(n, p)
           more == [Out EXCEPT ![n] = @ + 1]
<1>1. TypeOK /\ Out \in [Node -> Nat] /\ Out[n] > 0
  BY Zenon, ScopeWorks DEF IndInv, Deliver
<1>2. ~Quiet(Out, created)
  BY Zenon, <1>1, Working
<1>3. Midway(n, p, {}, {}, more, created)
  BY Zenon, <1>1, <1>2, MidStart, MidProduce
<1>4. more[n] > 0 /\ [more EXCEPT ![n] = @ - 1] = Out
  BY Zenon, <1>1, MoreThenLess
<1> HIDE DEF p, more
<1>5. Midway(n, e, {}, {}, [more EXCEPT ![n] = @ - 1], created)
  BY Zenon, <1>1, <1>3, <1>4, MidConsume
<1>6. /\ net' \in [Node -> Nat] /\ queue' \in [Node -> Nat] /\ held' \in [Node -> Nat]
      /\ disabled' \in SUBSET Node /\ ops' \in Nat /\ UNCHANGED making
      /\ Moved(net, queue, held, net', queue', held', n)
      /\ \A k \in Node : queue'[k] > 0 => queue[k] > 0 \/ k = n
  BY <1>1 DEF TypeOK, Deliver, Moved
<1>7. net'[n] + queue'[n] + held'[n] = net[n] + queue[n] + held[n]
  BY <1>1 DEF TypeOK, Deliver
<1>8. Outstanding(net', queue', held', created, epoch_ready, terminated) = Out
  BY <1>6, <1>7, OutstandingSame, OutOutstanding
<1>9. Commit(n, e, {}, {}, epoch_ready, terminated)
  BY Zenon DEF Deliver, CommitLocal, p
<1> HIDE DEF e
<1> QED BY Zenon, <1>4, <1>5, <1>6, <1>8, <1>9, LocalInv

LEMMA RunnableDoneInv ==
  ASSUME IndInv, NEW n \in Node, RunnableDone(n)
  PROVE  IndInv'
<1> DEFINE e == Consume(n, Effect(FindOrCreate(n, FALSE)))
<1>1. TypeOK /\ Out \in [Node -> Nat] /\ Out[n] > 0
  BY Zenon, ScopeWorks DEF IndInv, RunnableDone, InScope
<1>2. Midway(n, e, {}, {}, [Out EXCEPT ![n] = @ - 1], created)
  BY Zenon, <1>1, MidStart, MidConsume
<1>3. /\ net' \in [Node -> Nat] /\ queue' \in [Node -> Nat] /\ held' \in [Node -> Nat]
      /\ disabled' \in SUBSET Node /\ ops' \in Nat /\ UNCHANGED making
      /\ Moved(net, queue, held, net', queue', held', n)
      /\ \A k \in Node : queue'[k] > 0 => queue[k] > 0 \/ k = n
  BY <1>1 DEF TypeOK, RunnableDone, Moved
<1>4. net'[n] + queue'[n] + held'[n] = net[n] + queue[n] + held[n] - 1
  BY <1>1 DEF TypeOK, RunnableDone
<1>5. Outstanding(net', queue', held', created, epoch_ready, terminated)
        = [Out EXCEPT ![n] = @ - 1]
  BY Zenon, <1>3, <1>4, WorkLess
<1>6. Commit(n, e, {}, {}, epoch_ready, terminated)
  BY Zenon DEF RunnableDone, CommitLocal
<1> HIDE DEF e
<1> QED BY Zenon, <1>2, <1>3, <1>5, <1>6, LocalInv

LEMMA AddLocalDependencyInv ==
  ASSUME IndInv, NEW n \in Node, AddLocalDependency(n)
  PROVE  IndInv'
<1> DEFINE s == FindOrCreate(n, FALSE)
           d == [Effect(s) EXCEPT !.s.deps = s.deps + 1]
           e == Produce(n, d)
<1>1. TypeOK /\ Out \in [Node -> Nat] /\ InScope(n) /\ Out[n] > 0
  BY Zenon, ScopeWorks DEF IndInv, AddLocalDependency
<1>2. ~Quiet(Out, created) /\ n \in known
  BY Zenon, <1>1, Working
<1>3. Midway(n, Effect(s), {}, {}, Out, created)
  BY Zenon, MidStart
<1>4. s \in TermStates /\ s.deps + 1 \in Int /\ s = state[n] /\ FindOrCreate(n, TRUE) = s
  BY <1>1, <1>2 DEF TypeOK, FindOrCreate, TermStates
<1>5. Midway(n, d, {}, {}, Out, created)
  <2> HIDE DEF s
  <2> QED BY Zenon, <1>1, <1>3, <1>4, MidFlags
<1>6. d = Effect([s EXCEPT !.deps = @ + 1])
  <2> HIDE DEF s
  <2> DEFINE t == [s EXCEPT !.deps = @ + 1]
             f == Effect(s)
             g == Effect(t)
  <2>1. t \in TermStates /\ t = [s EXCEPT !.deps = s.deps + 1]
    BY Zenon, <1>4 DEF TermStates
  <2>2. f \in Effects /\ f.s = s /\ f.sent = {} /\ f.waves = {} /\ f.term = FALSE
    BY Zenon, <1>4, EffectFresh DEF Effect
  <2>3. g \in Effects /\ g.s = t /\ g.sent = {} /\ g.waves = {} /\ g.term = FALSE
    <3> HIDE DEF t
    <3> QED BY Zenon, <2>1, EffectFresh DEF Effect
  <2> HIDE DEF f, g
  <2>4. [f EXCEPT !.s.deps = s.deps + 1] = [f EXCEPT !.s = t]
    BY Zenon, <2>1, <2>2 DEF Effects
  <2> HIDE DEF t
  <2>5. [f EXCEPT !.s = t] = g
    BY Zenon, <2>1, <2>2, <2>3 DEF Effects
  <2> QED BY Zenon, <2>4, <2>5 DEF f, g, t
<1> HIDE DEF d
<1>7. Midway(n, e, {}, {}, [Out EXCEPT ![n] = @ + 1], created)
  BY Zenon, <1>1, <1>2, <1>5, MidProduce
<1>8. /\ net' \in [Node -> Nat] /\ queue' \in [Node -> Nat] /\ held' \in [Node -> Nat]
      /\ disabled' \in SUBSET Node /\ ops' \in Nat /\ UNCHANGED making
      /\ Moved(net, queue, held, net', queue', held', n)
      /\ \A k \in Node : queue'[k] > 0 => queue[k] > 0 \/ k = n
  BY <1>1 DEF TypeOK, AddLocalDependency, Moved
<1>9. net'[n] + queue'[n] + held'[n] = net[n] + queue[n] + held[n] + 1
  BY <1>1 DEF TypeOK, AddLocalDependency
<1>10. Outstanding(net', queue', held', created, epoch_ready, terminated)
         = [Out EXCEPT ![n] = @ + 1]
  BY Zenon, <1>8, <1>9, WorkMore
<1>11. Commit(n, e, {}, {}, epoch_ready, terminated)
  <2> HIDE DEF s
  <2> QED BY Zenon, <1>4, <1>6 DEF AddLocalDependency, CommitLocal
<1> HIDE DEF e
<1> QED BY Zenon, <1>7, <1>8, <1>10, <1>11, LocalInv

LEMMA ReleaseLocalDependencyInv ==
  ASSUME IndInv, NEW n \in Node, ReleaseLocalDependency(n)
  PROVE  IndInv'
<1> DEFINE c == Consume(n, Effect(FindOrCreate(n, FALSE)))
           r == [c EXCEPT !.s.deps = @ - 1]
           e == IF r.s.deps = 0 THEN MaybePropagate(n, r) ELSE r
           out == [Out EXCEPT ![n] = @ - 1]
<1>1. TypeOK /\ Out \in [Node -> Nat] /\ Out[n] > 0
  BY Zenon, ScopeWorks DEF IndInv, ReleaseLocalDependency
<1>2. Midway(n, c, {}, {}, out, created)
  BY Zenon, <1>1, MidStart, MidConsume
<1>3. Midway(n, r, {}, {}, out, created)
  <2> HIDE DEF c, out
  <2>1. c.s.deps \in Int /\ \A d \in Int : Midway(n, [c EXCEPT !.s.deps = d], {}, {}, out, created)
    BY Zenon, <1>1, <1>2, MidFlags
  <2>2. c.s.deps - 1 \in Int
    BY <2>1
  <2> QED BY Zenon, <2>1, <2>2
<1>4. Midway(n, e, {}, {}, out, created)
  <2> HIDE DEF r, out
  <2> QED BY Zenon, <1>1, <1>3, MidPropagate
<1>5. /\ net' \in [Node -> Nat] /\ queue' \in [Node -> Nat] /\ held' \in [Node -> Nat]
      /\ disabled' \in SUBSET Node /\ ops' \in Nat /\ UNCHANGED making
      /\ Moved(net, queue, held, net', queue', held', n)
      /\ \A k \in Node : queue'[k] > 0 => queue[k] > 0 \/ k = n
  BY <1>1 DEF TypeOK, ReleaseLocalDependency, Moved
<1>6. net'[n] + queue'[n] + held'[n] = net[n] + queue[n] + held[n] - 1
  BY Zenon, <1>1 DEF TypeOK, ReleaseLocalDependency
<1>7. Outstanding(net', queue', held', created, epoch_ready, terminated) = out
  BY Zenon, <1>5, <1>6, WorkLess
<1>8. Commit(n, e, {}, {}, epoch_ready, terminated)
  BY Zenon DEF ReleaseLocalDependency, CommitLocal
<1> HIDE DEF e, out
<1> QED BY Zenon, <1>4, <1>5, <1>7, <1>8, LocalInv

LEMMA DisableInv ==
  ASSUME IndInv, NEW n \in Node, DisableTD(n) \/ EnableTD(n)
  PROVE  IndInv'
<1> DEFINE f == Effect(FindOrCreate(n, FALSE))
           up == [f EXCEPT !.s.deps = @ + 1]
           down == [f EXCEPT !.s.deps = @ - 1]
<1>1. TypeOK
  BY Zenon DEF IndInv
<1>2. Midway(n, f, {}, {}, Out, created)
  BY Zenon, MidStart
<1>3. Midway(n, up, {}, {}, Out, created) /\ Midway(n, down, {}, {}, Out, created)
  <2> HIDE DEF f
  <2>1. f.s.deps \in Int /\ \A d \in Int : Midway(n, [f EXCEPT !.s.deps = d], {}, {}, Out, created)
    BY Zenon, <1>1, <1>2, MidFlags
  <2>2. f.s.deps + 1 \in Int /\ f.s.deps - 1 \in Int
    BY <2>1
  <2> QED BY Zenon, <2>1, <2>2
<1>4. /\ net' \in [Node -> Nat] /\ queue' \in [Node -> Nat] /\ held' \in [Node -> Nat]
      /\ disabled' \in SUBSET Node /\ ops' \in Nat /\ UNCHANGED making
      /\ net' = net /\ queue' = queue /\ held' = held
  <2>1. CASE DisableTD(n)
    BY <2>1, <1>1 DEF TypeOK, DisableTD
  <2>2. CASE EnableTD(n)
    BY Zenon, <2>2, <1>1 DEF TypeOK, EnableTD
  <2> QED BY Zenon, <2>1, <2>2
<1>5. Outstanding(net', queue', held', created, epoch_ready, terminated) = Out
  BY Zenon, <1>4, OutOutstanding
<1>6. \/ Commit(n, up, {}, {}, epoch_ready, terminated)
      \/ Commit(n, down, {}, {}, epoch_ready, terminated)
  BY Zenon DEF DisableTD, EnableTD, CommitLocal
<1> HIDE DEF up, down
<1> QED BY Zenon, <1>3, <1>4, <1>5, <1>6, LocalInv

\* A step of the waves: work and life cycle stay as they are.
LEMMA WaveStepInv ==
  ASSUME IndInv, NEW n \in Node, NEW e, NEW got, NEW cont, UNCHANGED <<user, making>>,
         Midway(n, e, got, cont, Out, created),
         Commit(n, MaybePropagate(n, e), got, cont, epoch_ready, terminated)
  PROVE  IndInv'
<1> DEFINE p == MaybePropagate(n, e)
<1>1. TypeOK
  BY Zenon DEF IndInv
<1>2. Midway(n, p, got, cont, Out, created)
  BY Zenon, <1>1, MidPropagate
<1>3. /\ net' \in [Node -> Nat] /\ queue' \in [Node -> Nat] /\ held' \in [Node -> Nat]
      /\ disabled' \in SUBSET Node /\ ops' \in Nat /\ UNCHANGED making
      /\ net' = net /\ queue' = queue /\ held' = held
  BY Zenon, <1>1 DEF TypeOK, user
<1>4. Outstanding(net', queue', held', created, epoch_ready, terminated) = Out
  BY Zenon, <1>3, OutOutstanding
<1> HIDE DEF p
<1>5. Commit(n, p, got, cont, epoch_ready, terminated)
  BY Zenon DEF p
<1> QED BY Zenon, <1>2, <1>3, <1>4, <1>5, LocalInv

LEMMA IdleInv ==
  ASSUME IndInv, NEW n \in Node, Idle(n)
  PROVE  IndInv'
<1> DEFINE e == Effect(state[n])
<1>1. e = Effect(FindOrCreate(n, FALSE))
  BY Zenon DEF Idle, FindOrCreate
<1>2. Midway(n, e, {}, {}, Out, created)
  BY Zenon, <1>1, MidStart
<1>3. Commit(n, MaybePropagate(n, e), {}, {}, epoch_ready, terminated) /\ UNCHANGED <<user, making>>
  BY Zenon DEF Idle, CommitLocal
<1> HIDE DEF e
<1> QED BY Zenon, <1>2, <1>3, WaveStepInv

LEMMA PropagateEpochHandlerInv ==
  ASSUME IndInv, NEW msg \in counts, PropagateEpochHandler(msg)
  PROVE  IndInv'
<1> DEFINE p == Parent(msg.from)
           e == Effect(ChildReceived(FindOrCreate(p, FALSE), msg.prod, msg.cons))
<1>1. p \in Node /\ Midway(p, e, {msg}, {}, Out, created)
  BY Zenon, MidChild
<1>2. /\ Commit(p, MaybePropagate(p, e), {msg}, {}, epoch_ready, terminated)
      /\ UNCHANGED <<user, making>>
  BY Zenon DEF PropagateEpochHandler
<1> HIDE DEF p, e
<1> QED BY Zenon, <1>1, <1>2, WaveStepInv

LEMMA EpochContinueInv ==
  ASSUME IndInv, NEW msg \in continues, EpochContinue(msg)
  PROVE  IndInv'
<1> DEFINE n == msg.to
           e == Effect([state[n] EXCEPT !.cur_wave = msg.wave])
<1>1. n \in Node /\ n \in known /\ Midway(n, e, {}, {msg}, Out, created)
  BY Zenon, MidContinue
<1>2. /\ Commit(n, MaybePropagate(n, e), {}, {msg}, epoch_ready, terminated)
      /\ UNCHANGED <<user, making>>
  BY Zenon, <1>1 DEF EpochContinue
<1> HIDE DEF n, e
<1> QED BY Zenon, <1>1, <1>2, WaveStepInv

\* Once termination is detected a record may be dropped.
LEMMA CleanupInv ==
  ASSUME IndInv, Det, NEW n \in Node, CleanupEpoch(n), UNCHANGED <<user, making>>,
         NEW win \in SUBSET Node, terminated' = win, n \in win,
         terminated \subseteq win, win \subseteq terminated \cup {n},
         terms' \in SUBSET Node, cleanup' \in BOOLEAN
  PROVE  IndInv'
<1>1. TypeOK /\ LifeCycle /\ Over(state, counts, continues, Out, created)
  BY Zenon DEF IndInv, WaveInv
<1>2. Quiet(Out, created) /\ state \in [Node -> TermStates] /\ NewState(FALSE) \in TermStates
  BY Zenon, <1>1, RecordTypes DEF Over, TypeOK
<1>3. created' = created /\ created = Node /\ rooteds' = rooteds
      /\ net' = net /\ queue' = queue /\ held' = held
  BY Zenon, <1>2 DEF Quiet, user, making
<1>4. TypeOK'
  <2>1. state' \in [Node -> TermStates]
    BY Zenon, <1>2 DEF CleanupEpoch
  <2> QED BY Zenon, <2>1, <1>1, <1>3 DEF TypeOK, CleanupEpoch, user
<1>5. Det' /\ (Det' = TRUE)
  BY Zenon, <1>3 DEF Det, Told
<1>6. LifeCycle'
  BY Zenon, <1>1, <1>3, <1>5 DEF LifeCycle, CleanupEpoch
<1>7. Out' = Out
  <2>1. ASSUME NEW k \in Node PROVE ~Open(k)
    <3>1. /\ Out[k] = net[k] + queue[k] + held[k] + (IF Open(k) THEN 1 ELSE 0)
          /\ Out[k] = 0
      BY Zenon, <1>2 DEF Out, Quiet
    <3>2. net[k] \in Nat /\ queue[k] \in Nat /\ held[k] \in Nat
      BY Zenon, <1>1 DEF TypeOK
    <3> QED BY SMTT(30), <3>1, <3>2
  <2>2. ASSUME NEW k \in Node PROVE ~Open(k)'
    BY Zenon, <2>1, <1>3 DEF Open, CleanupEpoch
  <2> QED BY Zenon, <2>1, <2>2, <1>3 DEF Out
<1>8. Over(state', counts', continues', Out', created')
  <2>1. NewState(FALSE).epoch_active = FALSE
    BY Zenon DEF NewState
  <2>2. Over([state EXCEPT ![n] = NewState(FALSE)], counts, continues, Out, created)
    <3> DEFINE s2 == NewState(FALSE)
    <3>1. s2 \in TermStates /\ ~s2.epoch_active
      BY Zenon, <1>2, <2>1
    <3> HIDE DEF s2
    <3>2. Over([state EXCEPT ![n] = s2], counts, continues, Out, created)
      BY Zenon, <1>1, <1>2, <3>1, OverStep
    <3> QED BY Zenon, <3>2 DEF s2
  <2> QED BY Zenon, <2>2, <1>3, <1>7 DEF CleanupEpoch
<1>9. WaveInv(known', state', counts', continues', Out', created', Det')
  BY Zenon, <1>5, <1>8 DEF WaveInv
<1> QED BY Zenon, <1>4, <1>6, <1>9 DEF IndInv

LEMMA EpochTerminatedInv ==
  ASSUME IndInv, NEW n \in Node, EpochTerminated(n)
  PROVE  IndInv'
<1> DEFINE win == terminated \cup {n}
<1>1. Det
  BY Zenon DEF IndInv, LifeCycle, EpochTerminated
<1>2. /\ CleanupEpoch(n) /\ UNCHANGED <<user, making>> /\ win \in SUBSET Node
      /\ terminated' = win /\ n \in win /\ terminated \subseteq win
      /\ win \subseteq terminated \cup {n} /\ terms' \in SUBSET Node /\ cleanup' \in BOOLEAN
  BY Zenon DEF EpochTerminated, IndInv, TypeOK
<1> HIDE DEF win
<1> QED BY Zenon, <1>1, <1>2, CleanupInv

LEMMA RootCleanupInv ==
  ASSUME IndInv, RootCleanup
  PROVE  IndInv'
<1>1. Det /\ Root \in Node
  BY Zenon, TreeFacts DEF IndInv, LifeCycle, RootCleanup
<1>2. /\ CleanupEpoch(Root) /\ UNCHANGED <<user, making>> /\ terminated \in SUBSET Node
      /\ terminated' = terminated /\ Root \in terminated
      /\ terms' \in SUBSET Node /\ cleanup' \in BOOLEAN
  BY Zenon, <1>1 DEF RootCleanup, IndInv, TypeOK, Det, Told
<1> QED BY Zenon, <1>1, <1>2, CleanupInv

\* The work outstanding when a node makes the epoch, and when it finishes it.
LEMMA MakeWork ==
  ASSUME IndInv, NEW n \in Node, n \notin created
  PROVE  /\ Outstanding(net, queue, held, created \cup {n}, epoch_ready, terminated \ {n})
              = [Out EXCEPT ![n] = @ + 1]
         /\ Outstanding(net, queue, held, created \cup {n}, epoch_ready \cup {n}, terminated \ {n})
              = Out
<1>1. /\ net \in [Node -> Nat] /\ queue \in [Node -> Nat] /\ held \in [Node -> Nat]
      /\ epoch_ready \subseteq created
  BY Zenon DEF IndInv, TypeOK, LifeCycle
<1> DEFINE o == Outstanding(net, queue, held, created \cup {n}, epoch_ready, terminated \ {n})
           base == net[n] + queue[n] + held[n]
<1>2. o \in [Node -> Nat] /\ Out \in [Node -> Nat] /\ base \in Nat
  BY <1>1, ScopeWorks DEF Outstanding
<1>3. o[n] = base + 1 /\ Out[n] = base
  BY <1>1 DEF Outstanding, Out, Open
<1>4. \A k \in Node \ {n} : o[k] = Out[k]
  BY Zenon DEF Outstanding, Out, Open
<1>5. Outstanding(net, queue, held, created \cup {n}, epoch_ready \cup {n}, terminated \ {n}) = Out
  BY Zenon DEF Outstanding, Out, Open
<1> HIDE DEF o, base
<1>6. o = [Out EXCEPT ![n] = @ + 1]
  BY Zenon, <1>2, <1>3, <1>4
<1> QED BY Zenon, <1>5, <1>6 DEF o

LEMMA FinishWork ==
  ASSUME IndInv, NEW n \in Node, Open(n)
  PROVE  Outstanding(net, queue, held, created, epoch_ready \cup {n}, terminated)
           = [Out EXCEPT ![n] = @ - 1]
<1>1. net \in [Node -> Nat] /\ queue \in [Node -> Nat] /\ held \in [Node -> Nat]
  BY Zenon DEF IndInv, TypeOK
<1> DEFINE o == Outstanding(net, queue, held, created, epoch_ready \cup {n}, terminated)
           base == net[n] + queue[n] + held[n]
<1>2. o \in [Node -> Nat] /\ Out \in [Node -> Nat] /\ base \in Nat
  BY <1>1, ScopeWorks DEF Outstanding
<1>3. o[n] = base /\ Out[n] = base + 1
  BY <1>1 DEF Outstanding, Out, Open
<1>4. \A k \in Node \ {n} : o[k] = Out[k]
  BY Zenon DEF Outstanding, Out, Open
<1> HIDE DEF o, base
<1>5. o[n] = Out[n] - 1
  BY <1>2, <1>3
<1>6. o = [Out EXCEPT ![n] = @ - 1]
  BY Zenon, <1>2, <1>4, <1>5
<1> QED BY Zenon, <1>6 DEF o

\* What making the epoch on node n leaves of the life cycle.
LEMMA MakeInv ==
  ASSUME IndInv, NEW n \in Node, n \notin created, NEW e,
         NEW ready \in SUBSET Node, ready \subseteq created \cup {n},
         UNCHANGED user, created' = created \cup {n}, rooteds' \in SUBSET Node,
         (created \cup {n}) \cap rooteds' = {}, ~Rooted => rooteds' = {},
         Midway(n, e, {}, {},
                Outstanding(net, queue, held, created \cup {n}, ready, terminated \ {n}),
                created \cup {n}),
         Commit(n, e, {}, {}, ready, terminated \ {n})
  PROVE  IndInv'
<1> DEFINE cr == created \cup {n}
           win == terminated \ {n}
<1>1. /\ net' = net /\ queue' = queue /\ held' = held
      /\ net' \in [Node -> Nat] /\ queue' \in [Node -> Nat] /\ held' \in [Node -> Nat]
      /\ disabled' \in SUBSET Node /\ ops' \in Nat /\ win \in SUBSET Node
  BY Zenon DEF IndInv, TypeOK, user
<1>2. /\ cr \cap win = created \cap terminated /\ cr \subseteq created \cup {n}
      /\ created' = cr /\ ready \subseteq cr /\ cr \cap rooteds' = {}
  BY Zenon
<1>3. /\ Midway(n, e, {}, {}, Outstanding(net', queue', held', cr, ready, win), cr)
      /\ Commit(n, e, {}, {}, ready, win)
  BY Zenon, <1>1
<1>4. \A k \in Node : queue'[k] > 0 => queue[k] > 0 \/ k = n
  BY Zenon, <1>1
<1> HIDE DEF cr, win
<1> QED BY SMTT(30), <1>1, <1>2, <1>3, <1>4, CommitInv

LEMMA MakeEpochCollectiveInv ==
  ASSUME IndInv, NEW n \in Node, MakeEpochCollective(n)
  PROVE  IndInv'
<1> DEFINE p == Produce(n, Effect(FindOrCreate(n, FALSE)))
           e == [p EXCEPT !.s.local_terminated = TRUE]
           out == [Out EXCEPT ![n] = @ + 1]
<1>1. TypeOK /\ n \notin created /\ ~Rooted
  BY Zenon DEF IndInv, MakeEpochCollective
<1>2. Midway(n, p, {}, {}, out, created \cup {n})
  BY Zenon, <1>1, MidMake
<1> HIDE DEF p, out
<1>3. Midway(n, e, {}, {}, out, created \cup {n})
  BY Zenon, <1>1, <1>2, MidFlags
<1>4. Outstanding(net, queue, held, created \cup {n}, epoch_ready, terminated \ {n}) = out
  BY Zenon, <1>1, MakeWork DEF out
<1>5. /\ epoch_ready \in SUBSET Node /\ epoch_ready \subseteq created \cup {n}
      /\ rooteds = {} /\ rooteds' = {} /\ UNCHANGED user /\ created' = created \cup {n}
  BY Zenon, <1>1 DEF IndInv, TypeOK, LifeCycle, MakeEpochCollective
<1>6. Commit(n, e, {}, {}, epoch_ready, terminated \ {n})
  BY Zenon DEF MakeEpochCollective, p
<1> HIDE DEF e
<1> QED BY Zenon, <1>1, <1>3, <1>4, <1>5, <1>6, MakeInv

LEMMA MakeEpochRootedInv ==
  ASSUME IndInv, MakeEpochRooted
  PROVE  IndInv'
<1> DEFINE n == RootNode
           e == Produce(n, Effect(FindOrCreate(n, FALSE)))
           out == [Out EXCEPT ![n] = @ + 1]
<1>1. n \in Node /\ n \notin created /\ created = {} /\ Rooted
  BY Zenon, EpochAssumption DEF MakeEpochRooted
<1>2. /\ epoch_ready \in SUBSET Node /\ epoch_ready \subseteq created \cup {n}
      /\ rooteds' \in SUBSET Node /\ UNCHANGED user /\ created' = created \cup {n}
      /\ (created \cup {n}) \cap rooteds' = {}
  BY Zenon, <1>1 DEF IndInv, TypeOK, LifeCycle, MakeEpochRooted
<1>3. Commit(n, e, {}, {}, epoch_ready, terminated \ {n})
  BY Zenon DEF MakeEpochRooted
<1> HIDE DEF n
<1>4. Midway(n, e, {}, {}, out, created \cup {n})
  BY Zenon, <1>1, MidMake
<1>5. Outstanding(net, queue, held, created \cup {n}, epoch_ready, terminated \ {n}) = out
  BY Zenon, <1>1, MakeWork
<1> HIDE DEF e, out
<1> QED BY Zenon, <1>1, <1>2, <1>3, <1>4, <1>5, MakeInv

LEMMA MakeRootedHanInv ==
  ASSUME IndInv, NEW n \in Node, MakeRootedHan(n)
  PROVE  IndInv'
<1> DEFINE p == Produce(n, Effect(FindOrCreate(n, TRUE)))
           c == Consume(n, p)
           e == Activate(n, c)
           cr == created \cup {n}
           more == [Out EXCEPT ![n] = @ + 1]
<1>1. TypeOK /\ n \notin created /\ Rooted /\ Out \in [Node -> Nat]
  BY Zenon, ScopeWorks DEF IndInv, LifeCycle, MakeRootedHan
<1>2. ~Det /\ Midway(n, p, {}, {}, more, cr)
  BY Zenon, <1>1, MidMake
<1>3. more[n] > 0 /\ [more EXCEPT ![n] = @ - 1] = Out
  BY Zenon, <1>1, MoreThenLess
<1>4. n \in cr
  BY Zenon
<1>5. Outstanding(net, queue, held, cr, epoch_ready \cup {n}, terminated \ {n}) = Out
  BY Zenon, <1>1, MakeWork
<1>6. /\ epoch_ready \cup {n} \in SUBSET Node /\ epoch_ready \cup {n} \subseteq cr
      /\ rooteds' \in SUBSET Node /\ UNCHANGED user /\ created' = cr /\ cr \cap rooteds' = {}
  BY Zenon, <1>1 DEF IndInv, TypeOK, LifeCycle, MakeRootedHan
<1>7. Commit(n, e, {}, {}, epoch_ready \cup {n}, terminated \ {n})
  BY Zenon DEF MakeRootedHan
<1> HIDE DEF p, more
<1>8. Midway(n, c, {}, {}, [more EXCEPT ![n] = @ - 1], cr)
  <2> HIDE DEF cr
  <2> QED BY Zenon, <1>1, <1>2, <1>3, MidConsume
<1> HIDE DEF c
<1>9. Midway(n, e, {}, {}, Out, cr)
  <2> HIDE DEF cr
  <2> QED BY Zenon, <1>1, <1>2, <1>3, <1>4, <1>8, MidActivate
<1> HIDE DEF e
<1> DEFINE ready == epoch_ready \cup {n}
<1>10. /\ ready \in SUBSET Node /\ ready \subseteq created \cup {n}
       /\ Midway(n, e, {}, {},
                 Outstanding(net, queue, held, created \cup {n}, ready, terminated \ {n}),
                 created \cup {n})
       /\ Commit(n, e, {}, {}, ready, terminated \ {n})
  BY Zenon, <1>5, <1>6, <1>7, <1>9
<1> HIDE DEF ready
<1> QED BY Zenon, <1>1, <1>6, <1>10, MakeInv

LEMMA FinishedEpochInv ==
  ASSUME IndInv, NEW n \in Node, FinishedEpoch(n)
  PROVE  IndInv'
<1> DEFINE c == Consume(n, Effect(FindOrCreate(n, FALSE)))
           e == Activate(n, c)
           out == [Out EXCEPT ![n] = @ - 1]
           ready == epoch_ready \cup {n}
<1>1. TypeOK /\ Open(n) /\ n \in created /\ Out[n] > 0
  BY Zenon, ScopeWorks DEF IndInv, FinishedEpoch, InScope, Open
<1>2. ~Det
  BY Zenon, <1>1, Working
<1>3. Midway(n, c, {}, {}, out, created)
  BY Zenon, <1>1, MidStart, MidConsume
<1>4. Midway(n, e, {}, {}, out, created)
  <2> HIDE DEF c, out
  <2> QED BY Zenon, <1>1, <1>2, <1>3, MidActivate
<1>5. /\ net' = net /\ queue' = queue /\ held' = held
      /\ net' \in [Node -> Nat] /\ queue' \in [Node -> Nat] /\ held' \in [Node -> Nat]
      /\ disabled' \in SUBSET Node /\ ops' \in Nat /\ created' = created /\ rooteds' = rooteds
  BY Zenon, <1>1 DEF TypeOK, FinishedEpoch, user, making
<1>6. Outstanding(net', queue', held', created, ready, terminated) = out
  BY Zenon, <1>1, <1>5, FinishWork
<1>7. /\ ready \in SUBSET Node /\ ready \subseteq created /\ terminated \in SUBSET Node
      /\ rooteds' \in SUBSET Node /\ created \cap rooteds' = {} /\ (~Rooted => rooteds' = {})
  BY Zenon, <1>1, <1>5 DEF IndInv, TypeOK, LifeCycle
<1>8. Commit(n, e, {}, {}, ready, terminated)
  BY Zenon DEF FinishedEpoch
<1>9. \A k \in Node : queue'[k] > 0 => queue[k] > 0 \/ k = n
  BY Zenon, <1>5
<1> HIDE DEF e, out, ready
<1> QED BY SMTT(30), <1>4, <1>5, <1>6, <1>7, <1>8, <1>9, CommitInv

LEMMA InitInv == Init => IndInv
<1> SUFFICES ASSUME Init PROVE IndInv
  BY Zenon
<1>1. /\ 0 \in Wave /\ MaxWave \in Wave /\ MaxWave # 0 /\ NextWave(MaxWave) = 0
      /\ Root \in Node
  BY Zenon, NextWaveFacts, TreeFacts
<1>a. NewState(FALSE) \in TermStates
  BY SMTT(30), <1>1 DEF NewState, TermStates
<1>b. 0 - 0 - 0 = 0
  OBVIOUS
<1>2. \A n \in Node :
        /\ state[n] = NewState(FALSE)
        /\ state[n].l_prod = 0 /\ state[n].l_cons = 0
        /\ state[n].g_prod1 = 0 /\ state[n].g_cons1 = 0 /\ state[n].g_cons2 = 0
        /\ state[n].epoch_active = FALSE /\ state[n].recv_child_count = 0
        /\ state[n].cur_wave = 0 /\ state[n].submitted_wave = MaxWave
  <2>1. \A n \in Node : state[n] = NewState(FALSE)
    BY Zenon DEF Init
  <2>2. LET s == NewState(FALSE)
        IN /\ s.l_prod = 0 /\ s.l_cons = 0 /\ s.g_prod1 = 0 /\ s.g_cons1 = 0 /\ s.g_cons2 = 0
           /\ s.epoch_active = FALSE /\ s.recv_child_count = 0
           /\ s.cur_wave = 0 /\ s.submitted_wave = MaxWave
    BY Zenon DEF NewState
  <2> QED BY Zenon, <2>1, <2>2
<1>3. TypeOK
  BY Zenon, <1>a, EpochAssumption DEF Init, TypeOK
<1>4. ~Det /\ Told = {}
  BY Zenon DEF Init, Det, Told
<1>5. LifeCycle
  BY <1>4 DEF Init, LifeCycle
<1>6. \A n \in Node : ~Sub(state, n) /\ ~Up(counts, n) /\ ~Arrived(state, counts, n)
  BY Zenon, <1>1, <1>2 DEF Sub, Up, Arrived, Init
<1>7. \A n \in Node : Out[n] = 0
  BY DEF Out, Open, Init
<1>8. Coordination(state, continues) /\ InFlight(state, counts)
  BY Zenon, <1>1, <1>2 DEF Coordination, InFlight, Init
<1>9. Gathering(state, counts)
  <2>1. \A p \in Node : Heard(state, counts, p) = 0
    BY <1>6 DEF Heard, Arrived
  <2> QED BY Zenon, <2>1, <1>2, <1>6 DEF Gathering
<1>10. Participation(known, state, created)
  BY Zenon, <1>1, <1>2 DEF Participation
<1>11. Balance(state, Out)
  <2>1. BalanceAt(state, Out) = [n \in Node |-> 0]
    <3>1. \A n \in Node : state[n].l_prod - state[n].l_cons - Out[n] = 0
      BY Zenon, <1>2, <1>7, <1>b
    <3> QED BY Zenon, <3>1 DEF BalanceAt
  <2>2. [n \in Node |-> 0] \in [Node -> Int] /\ \A n \in Node : [k \in Node |-> 0][n] = 0
    OBVIOUS
  <2> QED BY Zenon, <2>1, <2>2, NodeSumZero DEF Balance
<1>12. Lower(state, counts)
  <2>1. GatheredCons(state, counts) = [n \in Node |-> 0]
    <3>1. \A n \in Node : GatheredCons(state, counts)[n] = 0 - state[n].g_cons1 - 0
      BY Zenon, <1>6 DEF GatheredCons
    <3>2. \A n \in Node : GatheredCons(state, counts)[n] = 0
      BY Zenon, <3>1, <1>2, <1>b
    <3> QED BY Zenon, <3>2 DEF GatheredCons
  <2>2. [n \in Node |-> 0] \in [Node -> Int] /\ \A n \in Node : [k \in Node |-> 0][n] = 0
    OBVIOUS
  <2>3. NodeSum(GatheredCons(state, counts)) = 0
    BY Zenon, <2>1, <2>2, NodeSumZero
  <2> QED BY <2>3 DEF Lower
<1>13. Upper(state, counts, Out, created)
  BY Zenon DEF Upper, Init
<1>14. WaveInv(known, state, counts, continues, Out, created, Det)
  BY Zenon, <1>4, <1>8, <1>9, <1>10, <1>11, <1>12, <1>13 DEF WaveInv, Waving
<1> QED BY Zenon, <1>3, <1>5, <1>14 DEF IndInv

LEMMA NextInv == IndInv /\ [Next]_vars => IndInv'
<1> SUFFICES ASSUME IndInv, [Next]_vars PROVE IndInv'
  BY Zenon
<1>1. CASE MakeEpochRooted
  BY Zenon, <1>1, MakeEpochRootedInv
<1>2. CASE RootCleanup
  BY Zenon, <1>2, RootCleanupInv
<1>3. ASSUME NEW n \in Node, MakeEpochCollective(n) PROVE IndInv'
  BY Zenon, <1>3, MakeEpochCollectiveInv
<1>4. ASSUME NEW n \in Node, MakeRootedHan(n) PROVE IndInv'
  BY Zenon, <1>4, MakeRootedHanInv
<1>5. ASSUME NEW n \in Node, FinishedEpoch(n) PROVE IndInv'
  BY Zenon, <1>5, FinishedEpochInv
<1>6. ASSUME NEW n \in Node, NEW m \in Node, SendMsg(n, m) PROVE IndInv'
  BY Zenon, <1>6, SendInv
<1>7. ASSUME NEW n \in Node, SendSelf(n) PROVE IndInv'
  BY Zenon, <1>7, SendInv
<1>8. ASSUME NEW n \in Node, Deliver(n) PROVE IndInv'
  BY Zenon, <1>8, DeliverInv
<1>9. ASSUME NEW n \in Node, RunnableDone(n) PROVE IndInv'
  BY Zenon, <1>9, RunnableDoneInv
<1>10. ASSUME NEW n \in Node, AddLocalDependency(n) PROVE IndInv'
  BY Zenon, <1>10, AddLocalDependencyInv
<1>11. ASSUME NEW n \in Node, ReleaseLocalDependency(n) PROVE IndInv'
  BY Zenon, <1>11, ReleaseLocalDependencyInv
<1>12. ASSUME NEW n \in Node, DisableTD(n) \/ EnableTD(n) PROVE IndInv'
  BY Zenon, <1>12, DisableInv
<1>13. ASSUME NEW n \in Node, Idle(n) PROVE IndInv'
  BY Zenon, <1>13, IdleInv
<1>14. ASSUME NEW n \in Node, EpochTerminated(n) PROVE IndInv'
  BY Zenon, <1>14, EpochTerminatedInv
<1>15. ASSUME NEW msg \in counts, PropagateEpochHandler(msg) PROVE IndInv'
  BY Zenon, <1>15, PropagateEpochHandlerInv
<1>16. ASSUME NEW msg \in continues, EpochContinue(msg) PROVE IndInv'
  BY Zenon, <1>16, EpochContinueInv
<1>17. CASE UNCHANGED vars
  <2>1. /\ known' = known /\ state' = state /\ counts' = counts /\ continues' = continues
        /\ epoch_ready' = epoch_ready /\ terminated' = terminated /\ terms' = terms
        /\ cleanup' = cleanup /\ net' = net /\ queue' = queue /\ held' = held
        /\ disabled' = disabled /\ ops' = ops /\ created' = created /\ rooteds' = rooteds
    BY Zenon, <1>17 DEF vars, td, ending, user, making
  <2>2. Told' = Told /\ Det' = Det /\ Out' = Out
    BY Zenon, <2>1 DEF Told, Det, Out, Open
  <2>3. TypeOK' /\ LifeCycle'
    BY Zenon, <2>1, <2>2 DEF IndInv, TypeOK, LifeCycle
  <2> QED BY Zenon, <2>1, <2>2, <2>3 DEF IndInv
<1> QED BY Zenon, <1>1, <1>2, <1>3, <1>4, <1>5, <1>6, <1>7, <1>8, <1>9, <1>10, <1>11, <1>12,
           <1>13, <1>14, <1>15, <1>16, <1>17 DEF Next

\* Once a node is told, no work is outstanding and all nodes made the epoch.
LEMMA IndInvSafe == IndInv => DetectionSafe
<1> SUFFICES ASSUME IndInv, Told # {} PROVE Quiescent
  BY Zenon DEF DetectionSafe
<1>1. Det
  BY Zenon DEF IndInv, LifeCycle
<1>2. Quiet(Out, created)
  BY Zenon, <1>1 DEF IndInv, WaveInv, Over
<1>3. created = Node /\ \A n \in Node : Out[n] = 0
  BY Zenon, <1>2 DEF Quiet
<1>4. ASSUME NEW n \in Node
      PROVE  ~Open(n) /\ net[n] = 0 /\ queue[n] = 0 /\ held[n] = 0
  <2>1. net[n] \in Nat /\ queue[n] \in Nat /\ held[n] \in Nat
    BY Zenon DEF IndInv, TypeOK
  <2>2. net[n] + queue[n] + held[n] + (IF Open(n) THEN 1 ELSE 0) = 0
    BY Zenon, <1>3 DEF Out
  <2> DEFINE a == net[n]
             b == queue[n]
             c == held[n]
  <2>3. ~Open(n)
    BY <2>1, <2>2
  <2>4. a \in Nat /\ b \in Nat /\ c \in Nat /\ a + b + c + 0 = 0
    BY Zenon, <2>1, <2>2, <2>3
  <2> HIDE DEF a, b, c
  <2>5. a = 0 /\ b = 0 /\ c = 0
    BY <2>4
  <2> QED BY Zenon, <2>3, <2>5 DEF a, b, c
<1> QED BY Zenon, <1>3, <1>4 DEF Quiescent

-----------------------------------------------------------------------------
\* The theorems.

\* The inductive invariant holds in every reachable state: waves stay in step
\* with the root, every child is counted once per wave, and what the waves have
\* gathered brackets what the nodes have produced and consumed.
THEOREM Invariance == Spec => []IndInv
BY InitInv, NextInv, PTL DEF Spec

\* Every variable keeps its type: in particular no counter of a record of
\* TermState goes negative.
THEOREM TypeCorrectness == Spec => []TypeOK
<1>1. IndInv => TypeOK
  BY Zenon DEF IndInv
<1> QED BY <1>1, Invariance, PTL

\* propagateEpoch never reports an epoch as terminated while a unit of its work
\* exists or may still be created, for any number of nodes and any traffic.
THEOREM SafeDetection == Spec => []DetectionSafe
<1> QED BY IndInvSafe, Invariance, PTL

\* The assertion of receiveContinueSignal never fails: continues arrive one wave
\* at a time, although nothing orders their delivery.
THEOREM ContinuesInOrder == Spec => []ContinueInOrder
<1>1. IndInv => ContinueInOrder
  <2> SUFFICES ASSUME IndInv, NEW msg \in continues
               PROVE  msg.to \in known /\ msg.wave = NextWave(state[msg.to].cur_wave)
    BY Zenon DEF ContinueInOrder
  <2>1. Config(known, state, counts, continues, Out, created)
    BY Zenon, OutType DEF IndInv, TypeOK, Config
  <2>2. Waving(known, state, counts, continues, Out, created)
    BY Zenon DEF IndInv, WaveInv, Over
  <2> QED BY SMTT(30), <2>1, <2>2, ContinueFinds
<1> QED BY <1>1, Invariance, PTL

\* The assertion of notifyChildReceive never fails, and a count is never added to
\* another wave than the one its sender counted for.
THEOREM CountsInOneWave == Spec => []CountsOfOneWave
<1>1. IndInv => CountsOfOneWave
  <2> SUFFICES ASSUME IndInv, NEW msg \in counts
               PROVE  /\ msg.wave = NextWave(state[Parent(msg.from)].submitted_wave)
                      /\ state[Parent(msg.from)].recv_child_count
                           < NumChildren(Parent(msg.from))
    BY Zenon DEF CountsOfOneWave
  <2>1. Config(known, state, counts, continues, Out, created)
    BY Zenon, OutType DEF IndInv, TypeOK, Config
  <2>2. Waving(known, state, counts, continues, Out, created)
    BY Zenon DEF IndInv, WaveInv, Over
  <2> QED BY Zenon, <2>1, <2>2, CountFinds
<1> QED BY <1>1, Invariance, PTL

\* A handler that leaves the nodes told alone, but for detection, tells at most
\* one more.
LEMMA CommitTold ==
  ASSUME NEW n, NEW e, NEW got, NEW cont, NEW ready, NEW win,
         Commit(n, e, got, cont, ready, win), created' \cap win = Told
  PROVE  \E k \in Node : Told' = Told \/ Told' = Told \cup {k}
<1>1. Root \in Node
  BY NumNodesAssumption DEF Root, Node
<1>2. terminated' = win \/ terminated' = win \cup {Root}
  BY Zenon DEF Commit
<1>3. Told' = Told \/ Told' = Told \cup {Root}
  BY Zenon, <1>2 DEF Told
<1> QED BY Zenon, <1>1, <1>3

LEMMA NextTold ==
  ASSUME IndInv, [Next]_vars
  PROVE  \E k \in Node : Told' = Told \/ Told' = Told \cup {k}
<1>0. Root \in Node
  BY NumNodesAssumption DEF Root, Node
<1>1. CASE MakeEpochRooted
  <2>1. created' \cap (terminated \ {RootNode}) = Told
    BY Zenon, <1>1 DEF MakeEpochRooted, Told
  <2> QED BY Zenon, <1>1, <2>1, CommitTold DEF MakeEpochRooted
<1>2. CASE RootCleanup
  BY Zenon, <1>0, <1>2 DEF RootCleanup, making, Told
<1>3. ASSUME NEW n \in Node, MakeEpochCollective(n)
      PROVE  \E k \in Node : Told' = Told \/ Told' = Told \cup {k}
  <2>1. created' \cap (terminated \ {n}) = Told
    BY Zenon, <1>3 DEF MakeEpochCollective, Told
  <2> QED BY Zenon, <1>3, <2>1, CommitTold DEF MakeEpochCollective
<1>4. ASSUME NEW n \in Node, MakeRootedHan(n)
      PROVE  \E k \in Node : Told' = Told \/ Told' = Told \cup {k}
  <2>1. n \notin created
    BY Zenon, <1>4 DEF MakeRootedHan, IndInv, LifeCycle
  <2>2. created' \cap (terminated \ {n}) = Told
    BY Zenon, <1>4, <2>1 DEF MakeRootedHan, Told
  <2> QED BY Zenon, <1>4, <2>2, CommitTold DEF MakeRootedHan
<1>5. ASSUME NEW n \in Node, NEW e, NEW got, NEW cont, NEW ready,
             Commit(n, e, got, cont, ready, terminated), created' = created
      PROVE  \E k \in Node : Told' = Told \/ Told' = Told \cup {k}
  BY Zenon, <1>5, CommitTold DEF Told
<1>6. ASSUME NEW n \in Node, FinishedEpoch(n)
      PROVE  \E k \in Node : Told' = Told \/ Told' = Told \cup {k}
  BY Zenon, <1>5, <1>6 DEF FinishedEpoch, making
<1>7. ASSUME NEW n \in Node,
             \/ \E m \in Node : SendMsg(n, m)
             \/ SendSelf(n)
             \/ Deliver(n)
             \/ RunnableDone(n)
             \/ AddLocalDependency(n)
             \/ ReleaseLocalDependency(n)
             \/ DisableTD(n)
             \/ EnableTD(n)
             \/ Idle(n)
      PROVE  \E k \in Node : Told' = Told \/ Told' = Told \cup {k}
  <2>1. created' = created
    BY Zenon, <1>7 DEF SendMsg, SendSelf, Deliver, RunnableDone, AddLocalDependency,
                ReleaseLocalDependency, DisableTD, EnableTD, Idle, making
  <2>2. \E e : CommitLocal(n, e)
    BY Zenon, <1>7 DEF SendMsg, SendSelf, Deliver, RunnableDone, AddLocalDependency,
                ReleaseLocalDependency, DisableTD, EnableTD, Idle
  <2> QED BY Zenon, <1>5, <2>1, <2>2 DEF CommitLocal
<1>8. ASSUME NEW n \in Node, EpochTerminated(n)
      PROVE  \E k \in Node : Told' = Told \/ Told' = Told \cup {k}
  BY Zenon, <1>8 DEF EpochTerminated, making, Told
<1>9. ASSUME NEW msg \in counts, PropagateEpochHandler(msg)
      PROVE  \E k \in Node : Told' = Told \/ Told' = Told \cup {k}
  <2>1. created' = created
    BY Zenon, <1>9 DEF PropagateEpochHandler, making
  <2>2. \E e, got : Commit(Parent(msg.from), e, got, {}, epoch_ready, terminated)
    BY Zenon, <1>9 DEF PropagateEpochHandler
  <2> QED BY Zenon, <2>1, <2>2, CommitTold DEF Told
<1>10. ASSUME NEW msg \in continues, EpochContinue(msg)
       PROVE  \E k \in Node : Told' = Told \/ Told' = Told \cup {k}
  <2>1. created' = created
    BY Zenon, <1>10 DEF EpochContinue, making
  <2>2. CASE msg.to \in known
    <3>1. \E e, cont : Commit(msg.to, e, {}, cont, epoch_ready, terminated)
      BY Zenon, <1>10, <2>2 DEF EpochContinue
    <3> QED BY Zenon, <2>1, <3>1, CommitTold DEF Told
  <2>3. CASE msg.to \notin known
    BY Zenon, <1>0, <1>10, <2>1, <2>3 DEF EpochContinue, ending, Told
  <2> QED BY Zenon, <2>2, <2>3
<1>11. CASE UNCHANGED vars
  BY Zenon, <1>0, <1>11 DEF vars, ending, making, Told
<1> QED BY Zenon, <1>1, <1>2, <1>3, <1>4, <1>6, <1>7, <1>8, <1>9, <1>10, <1>11 DEF Next

\* A quiet epoch stays quiet: whatever could create work is disabled, and no
\* node re-opens the epoch when its entries are cleaned up.
LEMMA WaveStaysQuiet ==
  ASSUME IndInv, [Next]_vars, Quiescent
  PROVE  Quiescent'
<1>1. /\ created = Node
      /\ \A n \in Node : /\ ~Open(n) /\ ~InScope(n)
                         /\ ~(net[n] > 0) /\ ~(queue[n] > 0) /\ ~(held[n] > 0)
  BY DEF Quiescent, InScope
<1>2. Root \in Node /\ Node \cap rooteds = {}
  BY <1>1, NumNodesAssumption DEF Root, Node, IndInv, LifeCycle
<1>3. ASSUME UNCHANGED <<created, net, queue, held>>, \A n \in Node : ~Open(n)'
      PROVE  Quiescent'
  BY Zenon, <1>3 DEF Quiescent
<1>4. ASSUME NEW n, NEW e, NEW got, NEW cont,
             Commit(n, e, got, cont, epoch_ready, terminated), created' = created
      PROVE  \A k \in Node : ~Open(k)'
  <2>1. \/ epoch_ready' = epoch_ready /\ terminated' = terminated
        \/ epoch_ready' = epoch_ready \ {Root} /\ terminated' = terminated \cup {Root}
    BY Zenon, <1>4 DEF Commit
  <2> QED BY Zenon, <1>1, <1>4, <2>1 DEF Open
<1>5. CASE RootCleanup
  <2>1. Root \in terminated
    BY Zenon, <1>5 DEF RootCleanup, IndInv, LifeCycle, Det, Told
  <2>2. epoch_ready' = epoch_ready \ {Root} /\ terminated' = terminated /\ created' = created
    BY Zenon, <1>5 DEF RootCleanup, CleanupEpoch, making
  <2>3. \A n \in Node : ~Open(n)'
    BY Zenon, <1>1, <2>1, <2>2 DEF Open
  <2> QED BY Zenon, <1>3, <1>5, <2>3 DEF RootCleanup, user, making
<1>6. CASE \E n \in Node : EpochTerminated(n)
  <2> PICK n \in Node : EpochTerminated(n)
    BY Zenon, <1>6
  <2>1. /\ epoch_ready' = epoch_ready \ {n} /\ terminated' = terminated \cup {n}
        /\ created' = created
    BY Zenon DEF EpochTerminated, CleanupEpoch, making
  <2>2. \A k \in Node : ~Open(k)'
    BY Zenon, <1>1, <2>1 DEF Open
  <2> QED BY Zenon, <1>3, <2>2 DEF EpochTerminated, user, making
<1>7. CASE \E n \in Node : DisableTD(n) \/ EnableTD(n) \/ Idle(n)
  <2> PICK n \in Node : DisableTD(n) \/ EnableTD(n) \/ Idle(n)
    BY Zenon, <1>7
  <2>1. UNCHANGED <<created, net, queue, held>>
    BY Zenon DEF DisableTD, EnableTD, Idle, user, making
  <2>2. \E e : CommitLocal(n, e)
    BY Zenon DEF DisableTD, EnableTD, Idle
  <2> QED BY Zenon, <1>3, <1>4, <2>1, <2>2 DEF CommitLocal
<1>8. CASE \E msg \in counts : PropagateEpochHandler(msg)
  <2> PICK msg \in counts : PropagateEpochHandler(msg)
    BY Zenon, <1>8
  <2>1. UNCHANGED <<created, net, queue, held>>
    BY Zenon DEF PropagateEpochHandler, user, making
  <2>2. \E e, got : Commit(Parent(msg.from), e, got, {}, epoch_ready, terminated)
    BY Zenon DEF PropagateEpochHandler
  <2> QED BY Zenon, <1>3, <1>4, <2>1, <2>2
<1>9. CASE \E msg \in continues : EpochContinue(msg)
  <2> PICK msg \in continues : EpochContinue(msg)
    BY Zenon, <1>9
  <2>1. UNCHANGED <<created, net, queue, held>>
    BY Zenon DEF EpochContinue, user, making
  <2>2. CASE msg.to \in known
    <3>1. \E e, cont : Commit(msg.to, e, {}, cont, epoch_ready, terminated)
      BY Zenon, <2>2 DEF EpochContinue
    <3> QED BY Zenon, <1>3, <1>4, <2>1, <3>1
  <2>3. CASE msg.to \notin known
    <3>1. UNCHANGED <<epoch_ready, terminated>>
      BY Zenon, <2>3 DEF EpochContinue, ending
    <3> QED BY Zenon, <1>1, <1>3, <2>1, <3>1 DEF Open
  <2> QED BY Zenon, <2>2, <2>3
<1>10. ~MakeEpochRooted /\ \A n \in Node :
         ~(\/ MakeEpochCollective(n) \/ MakeRootedHan(n) \/ FinishedEpoch(n)
           \/ (\E m \in Node : SendMsg(n, m)) \/ SendSelf(n) \/ Deliver(n) \/ RunnableDone(n)
           \/ AddLocalDependency(n) \/ ReleaseLocalDependency(n))
  BY Zenon, <1>1, <1>2 DEF MakeEpochRooted, MakeEpochCollective, MakeRootedHan, FinishedEpoch, SendMsg,
                    SendSelf, Deliver, RunnableDone, AddLocalDependency, ReleaseLocalDependency
<1>11. CASE UNCHANGED vars
  BY Zenon, <1>11 DEF vars, ending, making, user, Quiescent, Open
<1> QED BY Zenon, <1>5, <1>6, <1>7, <1>8, <1>9, <1>10, <1>11 DEF Next

\* The waves implement the promise of termination detection: a node is told only
\* when the epoch is quiet on all nodes, and it never becomes busy again.
THEOREM Refinement == Spec => ImplementsTD
<1>1. Init => TD!Init
  <2> SUFFICES ASSUME Init PROVE TD!Init
    BY Zenon
  <2>1. created = {}
    BY Zenon DEF Init
  <2>2. 0 \in Node
    BY NumNodesAssumption DEF Node
  <2> QED BY Zenon, <2>1, <2>2 DEF Quiescent, Told, TD!Init
<1>2. IndInv /\ IndInv' /\ [Next]_vars => [TD!Next]_(TD!vars)
  <2> SUFFICES ASSUME IndInv, IndInv', [Next]_vars
               PROVE  [TD!Next]_(TD!vars)
    BY Zenon
  <2>1. Quiescent => Quiescent'
    BY Zenon, WaveStaysQuiet
  <2>2. Told' # {} => Quiescent'
    <3>1. DetectionSafe'
      BY IndInvSafe, PTL
    <3> QED BY Zenon, <3>1 DEF DetectionSafe
  <2>3. PICK k \in Node : Told' = Told \/ Told' = Told \cup {k}
    BY Zenon, NextTold
  <2>4. Quiescent \in BOOLEAN /\ Quiescent' \in BOOLEAN
    BY Zenon DEF Quiescent
  <2>5. CASE Told' = Told /\ Quiescent = Quiescent'
    BY Zenon, <2>5 DEF TD!vars
  <2>6. CASE Told' = Told /\ ~Quiescent /\ Quiescent'
    BY Zenon, <2>6 DEF TD!Next, TD!Quiesce
  <2>7. CASE Told' # Told
    <3>1. k \notin Told /\ Told' = Told \cup {k} /\ Quiescent'
      BY Zenon, <2>2, <2>3, <2>7
    <3> QED BY Zenon, <3>1 DEF TD!Next, TD!Announce
  <2> QED BY Zenon, <2>1, <2>4, <2>5, <2>6, <2>7
<1> QED BY <1>1, <1>2, Invariance, PTL DEF Spec, ImplementsTD, TD!Spec
=============================================================================
