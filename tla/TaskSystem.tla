---------------------------- MODULE TaskSystem ----------------------------
(***************************************************************************)
(* What a blocking call of kernel/sync runs on: the scheduler of           *)
(* SchedulerCore, the handlers that move it, and the one alarm node each   *)
(* TCB owns.  A module that EXTENDS this one adds its object's state and   *)
(* the critical sections of its calls.                                     *)
(*                                                                         *)
(* Time is abstracted to what the waiting loops tell apart: whether the    *)
(* deadline of the task's current timed call is still ahead, and whether   *)
(* its alarm node is booked for that deadline (live) or was left behind by *)
(* a timed call that ended early (stale): no call ever cancels the alarm   *)
(* it booked.  A live alarm is booked for exactly ddl - now ticks, so it   *)
(* fires in the tick in which the deadline passes.                         *)
(***************************************************************************)
EXTENDS SchedulerCore, FiniteSets

CONSTANT Prio   \* the priorities tasks are spawned with

ASSUME PrioAssumption == Prio \in [Tasks -> Levels]
ASSUME SystemAssumption == IsFiniteSet(Tasks) /\ Letters # {}

VARIABLES k, mode, alarm, ahead

sysvars == << k, mode, alarm, ahead >>

SystemType ==
  /\ IsKernel(k)
  /\ mode \in {"boot", "thread", "tick"}
  /\ alarm \in [Tasks -> {"none", "live", "stale"}]
  /\ ahead \in [Tasks -> BOOLEAN]

\* The wiring code has spawned these tasks; the first pick is still to come.
Spawned(S, prio) ==
  /\ LET order == SetToSeq(S)
         added[i \in 0 .. Len(order)] ==
           IF i = 0 THEN InitialKernel(prio, CHOOSE v \in Letters : TRUE)
           ELSE add(added[i - 1], order[i])
     IN  k = added[Len(order)]
  /\ mode = "boot"
  /\ alarm = [t \in Tasks |-> "none"]
  /\ ahead = [t \in Tasks |-> FALSE]

SystemInit == Spawned(Tasks, Prio)

\* t executes: the next critical section may be its own.
Runs(t) == mode = "thread" /\ ~k.pend /\ k.current = t

-----------------------------------------------------------------------------
(* sleep_for: book the task's alarm node and block, in one section.        *)

sleep_for_unbooked(t) == k' = block(k, t) /\ UNCHANGED alarm

sleep_for(t) ==
  /\ k' = block(k, t)
  /\ alarm' = [alarm EXCEPT ![t] = "live"]

\* A timed call computes its deadline; with timeout 0 it is not ahead.
StartDeadline(t) == \E later \in BOOLEAN : ahead' = [ahead EXCEPT ![t] = later]

\* A timed call returns, and leaves behind the alarm that has not fired.
LeaveAlarm(t) ==
  /\ alarm' = [alarm EXCEPT ![t] = IF @ = "none" THEN @ ELSE "stale"]
  /\ ahead' = [ahead EXCEPT ![t] = FALSE]

-----------------------------------------------------------------------------
(* The handlers.                                                           *)

SVC_Handler ==
  /\ mode = "boot"
  /\ k' = pick_next_locked(k)
  /\ mode' = "thread"
  /\ UNCHANGED << alarm, ahead >>

PendSV_Handler ==
  /\ mode = "thread" /\ k.pend
  /\ k' = pick_next_locked([k EXCEPT !.pend = FALSE])
  /\ UNCHANGED << mode, alarm, ahead >>

\* Waking each task of a sequence in turn, as on_elapsed does for the due.
wake_from_sleep(kk, due) ==
  LET woken[i \in 0 .. Len(due)] ==
        IF i = 0 THEN kk ELSE ready(woken[i - 1], due[i])
  IN  woken[Len(due)]

\* SysTick, first section: deadlines pass and the alarms that are due fire, in
\* the order of their deadlines.
SysTick_on_elapsed(passed, forgotten) ==
  LET due == {t \in passed : alarm[t] = "live"} \cup forgotten
  IN  /\ mode = "thread" /\ ~k.pend
      /\ ahead' = [t \in Tasks |-> ahead[t] /\ t \notin passed]
      /\ alarm' = [t \in Tasks |-> IF t \in due THEN "none" ELSE alarm[t]]
      /\ \E order \in SetToSeqs(due) : k' = wake_from_sleep(k, order)
      /\ mode' = "tick"

SysTick_Elapsed ==
  \E passed \in SUBSET {t \in Tasks : ahead[t]} :
  \E forgotten \in SUBSET {t \in Tasks : alarm[t] = "stale"} :
    SysTick_on_elapsed(passed, forgotten)

\* SysTick, second section.
SysTick_on_tick ==
  /\ mode = "tick"
  /\ k' = on_tick(k)
  /\ mode' = "thread"
  /\ UNCHANGED << alarm, ahead >>

\* Anybody, interrupts included, may drop a letter into a task's mailbox.
Notify(t) ==
  /\ \E v \in Letters : k' = notify(k, t, v)
  /\ UNCHANGED << mode, alarm, ahead >>

Handlers ==
  \/ SVC_Handler
  \/ PendSV_Handler
  \/ SysTick_Elapsed
  \/ SysTick_on_tick

=============================================================================
