------------------------------ MODULE Spinners ------------------------------
(***************************************************************************)
(* The round-robin demo: tasks of one level that never sleep share the     *)
(* processor by their time slices until their deadline is over.            *)
(***************************************************************************)
EXTENDS TaskSystem

VARIABLES spinPc,  \* where each task is
          share    \* ghost: ticks a spinner got since another one last ran

\* The spinners are spawned at one and the same level.
PeersAssumption == \A t, u \in Tasks : Prio[t] = Prio[u]

spinvars == << sysvars, spinPc, share >>

SpinBuilt ==
  /\ spinPc = [t \in Tasks |-> "start"]
  /\ share = [t \in Tasks |-> 0]

SpinInit == SystemInit /\ SpinBuilt

Moves(t, from, to) ==
  /\ Runs(t) /\ spinPc[t] = from
  /\ spinPc' = [spinPc EXCEPT ![t] = to]

\* spinner computes its deadline and spins until now() has reached it.
spinner(t) ==
  /\ Moves(t, "start", "spin")
  /\ ahead' = [ahead EXCEPT ![t] = TRUE]
  /\ UNCHANGED << k, mode, alarm, share >>

\* It blocks, and nobody wakes it.
spinner_done(t) ==
  /\ ~ahead[t]
  /\ Moves(t, "spin", "done")
  /\ k' = block(k, t)
  /\ UNCHANGED << mode, alarm, ahead, share >>

Peers(t) == {u \in Tasks : u # t /\ k.state[u] = "Ready"}

\* A tick goes to the share of the spinner it finds running with a peer waiting.
Tick ==
  /\ SysTick_on_tick
  /\ share' = [t \in Tasks |-> IF t = k.current /\ Peers(t) # {}
                               THEN share[t] + 1 ELSE share[t]]
  /\ UNCHANGED spinPc

\* A spinner that gets the processor ends the share of the others.
PendSV ==
  /\ PendSV_Handler
  /\ share' = [t \in Tasks |-> IF k'.current \notin {t, Idle} THEN 0 ELSE share[t]]
  /\ UNCHANGED spinPc

SpinNext ==
  \/ (SVC_Handler \/ SysTick_Elapsed) /\ UNCHANGED << spinPc, share >>
  \/ Tick \/ PendSV
  \/ \E t \in Tasks : spinner(t) \/ spinner_done(t)

SpinSpec == SpinInit /\ [][SpinNext]_spinvars

-----------------------------------------------------------------------------
\* A spinner has to let its peers run after one slice, and a peer has its whole
\* slice: nobody gets more ticks in a row than kSliceTicks while another waits.
TurnsAreFair == \A t \in Tasks : share[t] <= kSliceTicks

=============================================================================
