---------------------------- MODULE TermWaveInv -----------------------------
(***************************************************************************)
(* The inductive invariant behind the safety of wave termination.  It is   *)
(* stated of a configuration given by arguments rather than of the         *)
(* variables, because one handler makes several calls that each change     *)
(* counters and may each hand counts on: the invariant holds between those *)
(* calls too, with the arguments standing for what the handler has done.   *)
(*                                                                         *)
(*   kn, st     the nodes with a record, and the records                   *)
(*   cts, cns   counts and continues in flight                             *)
(*   out, cr    units of work outstanding on each node; nodes that made    *)
(*              the epoch                                                  *)
(*   det        the root has detected termination                          *)
(***************************************************************************)
EXTENDS TermWave, NodeSum

\* Node n has submitted its counts for the root's current wave.
Sub(st, n) == n # Root /\ st[n].submitted_wave = st[Root].cur_wave

\* Those counts are on their way to n's parent, or have reached it.
Up(cts, n) == \E m \in cts : m.from = n
UpMsg(cts, n) == CHOOSE m \in cts : m.from = n
Arrived(st, cts, n) == n \in Node /\ Sub(st, n) /\ ~Up(cts, n)

\* No work is left anywhere and every node has made the epoch.
Quiet(out, cr) == cr = Node /\ \A n \in Node : out[n] = 0

-----------------------------------------------------------------------------
\* The root is always one wave ahead of what it completed; any other node has
\* caught up with it or a continue of the root's wave is on its way, and then
\* the node has submitted the wave before.
Coordination(st, cns) ==
  LET wave == st[Root].cur_wave
  IN /\ wave = NextWave(st[Root].submitted_wave)
     /\ \A n \in Node \ {Root} :
          /\ \/ st[n].cur_wave = wave /\ [to |-> n, wave |-> wave] \notin cns
             \/ /\ st[n].submitted_wave = st[n].cur_wave
                /\ NextWave(st[n].cur_wave) = wave
                /\ [to |-> n, wave |-> wave] \in cns
          /\ \/ st[n].submitted_wave = st[n].cur_wave
             \/ NextWave(st[n].submitted_wave) = st[n].cur_wave
     /\ \A msg \in cns : msg.wave = wave

\* Counts in flight are of the root's wave, one message per sender.
InFlight(st, cts) ==
  /\ \A msg \in cts : Sub(st, msg.from) /\ msg.wave = st[Root].cur_wave
  /\ \A m1, m2 \in cts : m1.from = m2.from => m1 = m2

\* A node that has yet to submit has counted the children that arrived; one
\* that has submitted had heard all of them, and starts over.
Heard(st, cts, p) ==
    (IF Arrived(st, cts, 2 * p + 1) THEN 1 ELSE 0)
  + (IF Arrived(st, cts, 2 * p + 2) THEN 1 ELSE 0)

Gathering(st, cts) ==
  \A p \in Node :
    /\ ~Sub(st, p) => st[p].recv_child_count = Heard(st, cts, p)
    /\ Sub(st, p) =>
         /\ \A c \in Children(p) : Arrived(st, cts, c)
         /\ st[p].recv_child_count = 0
         /\ st[p].g_prod1 = 0
         /\ st[p].g_cons1 = 0

\* A node takes part only once it has made the epoch, and until all do the root
\* stays in the first wave, with nothing to compare against.
Participation(kn, st, cr) ==
  \A n \in Node :
    /\ st[n].epoch_active => n \in cr /\ n \in kn
    /\ ~st[n].epoch_active =>
         /\ st[n].submitted_wave = MaxWave
         /\ st[Root].cur_wave = 0
         /\ n = Root => st[n].g_cons2 = 0
    /\ n \notin kn => st[n] = NewState(FALSE)

\* Every unit produced and not consumed is outstanding somewhere.
BalanceAt(st, out) == [n \in Node |-> st[n].l_prod - st[n].l_cons - out[n]]
Balance(st, out) == NodeSum(BalanceAt(st, out)) = 0

\* What this wave has gathered of consumption is no more than what the nodes
\* that submitted have consumed by now.
GatheredCons(st, cts) ==
  [n \in Node |-> (IF Sub(st, n) THEN st[n].l_cons ELSE 0) - st[n].g_cons1
                    - (IF Up(cts, n) THEN UpMsg(cts, n).cons ELSE 0)]
Lower(st, cts) == NodeSum(GatheredCons(st, cts)) >= 0

\* If work was left when this wave started, then what it has gathered or will
\* gather of production exceeds the consumption that the last wave gathered.
GatheredProd(st, cts) ==
  [n \in Node |-> (IF Sub(st, n) THEN 0 ELSE st[n].l_prod) + st[n].g_prod1
                    + (IF Up(cts, n) THEN UpMsg(cts, n).prod ELSE 0)]
Upper(st, cts, out, cr) ==
  \/ Quiet(out, cr)
  \/ Root \notin cr
  \/ NodeSum(GatheredProd(st, cts)) > st[Root].g_cons2

Waving(kn, st, cts, cns, out, cr) ==
  /\ Coordination(st, cns)
  /\ InFlight(st, cts)
  /\ Gathering(st, cts)
  /\ Participation(kn, st, cr)
  /\ Balance(st, out)
  /\ Lower(st, cts)
  /\ Upper(st, cts, out, cr)

\* After detection nothing is in flight and no record can submit again.
Over(st, cts, cns, out, cr) ==
  /\ Quiet(out, cr)
  /\ cts = {}
  /\ cns = {}
  /\ \A n \in Node : st[n].epoch_active =>
       st[n].term_detected \/ st[n].cur_wave = st[n].submitted_wave

WaveInv(kn, st, cts, cns, out, cr, det) ==
  IF det THEN Over(st, cts, cns, out, cr) ELSE Waving(kn, st, cts, cns, out, cr)

-----------------------------------------------------------------------------
\* The invariant of the variables.

\* A message, runnable or dependency of the epoch, or its user's own unit.
Out == [n \in Node |-> net[n] + queue[n] + held[n] + (IF Open(n) THEN 1 ELSE 0)]

Det == Root \in Told

\* How the epoch's life cycle fits together on each node.
LifeCycle ==
  /\ epoch_ready \subseteq created
  /\ created \cap rooteds = {}
  /\ ~Rooted => rooteds = {}
  /\ ~Det => /\ Told = {}
             /\ terms = {}
             /\ ~cleanup
             /\ created \subseteq known
             /\ \A n \in Node : queue[n] > 0 => n \in known

\* The inductive invariant: it holds initially, every handler of the detector
\* and every step of the epoch's work preserves it, and it implies the safety
\* properties of TermWave.
IndInv ==
  /\ TypeOK
  /\ LifeCycle
  /\ WaveInv(known, state, counts, continues, Out, created, Det)
=============================================================================
