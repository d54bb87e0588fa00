------------------------------ MODULE TermState ------------------------------
(***************************************************************************)
(* The per-node record the wave algorithm keeps for an epoch               *)
(* (vt::term::TermState) and the pure part of the operations on it.        *)
(*                                                                         *)
(* Waves are numbered by a counter of MaxWave + 1 values that wraps, so    *)
(* that an epoch may run any number of idle waves in a finite state space; *)
(* MaxWave itself stands for the initial submitted_wave_ of -1.            *)
(***************************************************************************)
EXTENDS Tree

CONSTANT MaxWave

ASSUME MaxWaveAssumption == MaxWave \in Nat /\ MaxWave >= 1

Wave == 0 .. MaxWave

NextWave(w) == IF w = MaxWave THEN 0 ELSE w + 1

TermStates ==
  [l_prod : Nat, l_cons : Nat,
   g_prod1 : Nat, g_cons1 : Nat, g_prod2 : Nat, g_cons2 : Nat,
   epoch_active : BOOLEAN, local_terminated : BOOLEAN, term_detected : BOOLEAN,
   deps : Int, recv_child_count : Nat, cur_wave : Wave, submitted_wave : Wave]

\* TermState{epoch, is_ready, is_ready, num_children}, as findOrCreateState builds it.
NewState(is_ready) ==
  [l_prod |-> 0, l_cons |-> 0,
   g_prod1 |-> 0, g_cons1 |-> 0, g_prod2 |-> 0, g_cons2 |-> 0,
   epoch_active |-> is_ready, local_terminated |-> is_ready, term_detected |-> FALSE,
   deps |-> 0, recv_child_count |-> 0, cur_wave |-> 0, submitted_wave |-> MaxWave]

\* Mutant: does not wait for the children's counts.
ReadySubmitParentNoChildren(n, s) ==
  /\ s.epoch_active
  /\ s.local_terminated
  /\ s.deps = 0
  /\ s.cur_wave = NextWave(s.submitted_wave)
  /\ ~s.term_detected

\* isActive() and readySubmitParent(): node n may hand its counts of this wave on.
ReadySubmitParent(n, s) ==
  /\ s.epoch_active
  /\ s.local_terminated
  /\ s.deps = 0
  /\ s.recv_child_count = NumChildren(n)
  /\ s.cur_wave = NextWave(s.submitted_wave)
  /\ ~s.term_detected

Produced(s) == [s EXCEPT !.l_prod = @ + 1]

Consumed(s) == [s EXCEPT !.l_cons = @ + 1]

\* propagateEpochExternalState and notifyChildReceive: a child's counts arrive.
ChildReceived(s, prod, cons) ==
  [s EXCEPT !.g_prod1 = @ + prod, !.g_cons1 = @ + cons, !.recv_child_count = @ + 1]

\* activateEpoch() then notifyLocalTerminated().
Activated(s) == [s EXCEPT !.epoch_active = TRUE, !.local_terminated = TRUE]

\* Mutant: trusts a single wave.
IsTermOneWave(s) == s.g_prod1 + s.l_prod = s.g_cons1 + s.l_cons

\* The four-counter test the root makes at the end of a wave: produced and
\* consumed agree, and neither moved since the previous wave.
IsTerm(s) ==
  /\ s.g_prod1 + s.l_prod = s.g_cons1 + s.l_cons
  /\ s.g_prod2 = s.g_cons2
  /\ s.g_prod1 + s.l_prod = s.g_prod2

\* Mutant: submitToParent does not reset the number of children heard.
SubmittedNoReset(s) ==
  [s EXCEPT !.g_prod1 = 0, !.g_cons1 = 0, !.submitted_wave = NextWave(@)]

\* What propagateEpoch leaves on a node other than the root.
Submitted(s) ==
  [s EXCEPT !.g_prod1 = 0, !.g_cons1 = 0,
            !.submitted_wave = NextWave(@), !.recv_child_count = 0]

\* Mutant: the totals of the finished wave are not kept for the next one.
StartedWaveForgets(s) ==
  [s EXCEPT !.g_prod1 = 0, !.g_cons1 = 0, !.cur_wave = NextWave(@),
            !.submitted_wave = NextWave(@), !.recv_child_count = 0]

\* What propagateEpoch leaves on the root that starts another wave.
StartedWave(s) ==
  [s EXCEPT !.g_prod2 = s.g_prod1 + s.l_prod, !.g_cons2 = s.g_cons1 + s.l_cons,
            !.g_prod1 = 0, !.g_cons1 = 0, !.cur_wave = NextWave(@),
            !.submitted_wave = NextWave(@), !.recv_child_count = 0]

\* What propagateEpoch leaves on the root that detects termination.
Detected(s) ==
  [s EXCEPT !.g_prod1 = @ + s.l_prod, !.g_cons1 = @ + s.l_cons, !.term_detected = TRUE]
=============================================================================
