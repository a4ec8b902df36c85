------------------------------ MODULE MCClock ------------------------------
(***************************************************************************)
(* Time, in three parts, one of them in each behaviour.                    *)
(*                                                                         *)
(* "timers": two timers and one sleeping task on a counter that wraps at   *)
(* 10: spans of up to 2 ticks, interrupts that report up to 2, so the      *)
(* counter wraps within a few bookings and every order of deadlines across *)
(* the wrap occurs.  "calm": the same, but nobody starts the second timer; *)
(* here time has to go on.  "idle": tickless idle with two tasks, whose    *)
(* naps are longer than the threshold, shorter than a one-shot or longer   *)
(* than LOAD holds.                                                        *)
(***************************************************************************)
EXTENDS TimeKernel

CONSTANTS t1, t2, a1,
          Nappers, MinNap, MaxNap, kTicklessThreshold, Cycles, MaxLoad

VARIABLES part, ledger, waiting, idle, one_shot, ticking, reload, count, flag,
          pending, owed, lag

idlevars == << ledger, waiting, idle, one_shot, ticking, reload, count, flag,
               pending, owed, lag >>
clockvars == << part, vars, idlevars >>

MCTimers == {t1, t2}
MCAlarms == {a1}
MCWaiters == MCTimers \cup MCAlarms

Sleep == INSTANCE Tickless WITH
           Tasks <- Nappers, running <- ticking

ASSUME SleepAssumption == Sleep!TicklessAssumption

ClockInit == part \in {"timers", "calm", "idle"} /\ Init /\ Sleep!Init

Timers_do(A) == part = "timers" /\ A /\ UNCHANGED << part, idlevars >>
Calm_does(A) == part = "calm" /\ A /\ UNCHANGED << part, idlevars >>
Idle_does(A) == part = "idle" /\ A /\ UNCHANGED << part, vars >>

ClockNext ==
  \/ Timers_do(Next)
  \/ Calm_does(Next /\ ~running'[t2])
  \/ Idle_does(Sleep!Next)

\* Ticks go on, masked loops run to their end, the processor takes SysTick, and
\* idle, when nobody else is ready, runs.
ClockSpec ==
  /\ ClockInit /\ [][ClockNext]_clockvars
  /\ WF_clockvars(Calm_does(\E n \in 1 .. MaxElapsed : Elapse(n)))
  /\ WF_clockvars(Calm_does(Loop))
  /\ WF_clockvars(Idle_does(Sleep!Tick))
  /\ WF_clockvars(Idle_does(Sleep!SysTick_Handler))
  /\ WF_clockvars(Idle_does(Sleep!Arm))
  /\ WF_clockvars(Idle_does(Sleep!Wfi))
  /\ WF_clockvars(Idle_does(Sleep!Wake))

-----------------------------------------------------------------------------

\* Tickless idle: a one-shot in flight owes the ledger what SysTick was
\* programmed for, and as long as SysTick runs no nap is late by more than a nap
\* begun under a one-shot can fall short of it: a lone task is never late.
LatenessIsBounded == Sleep!OwesWhatRuns /\ Sleep!LateByAShot

\* on_elapsed, which runs with interrupts masked, comes to its end.
ElapsedReturns == part = "calm" /\ popping ~> ~popping

\* Every sleep ends, on the periodic tick and under tickless idle; there, unless
\* idle has stopped SysTick, which it does when it sees no deadline.
SleepsEnd ==
  /\ \A a \in Alarms : part = "calm" /\ a \in asleep ~> a \notin asleep
  /\ Sleep!NapEndsIfTicking

\* Idle stops SysTick because nothing ever comes due (time_kernel_cm3.cpp:99): no
\* nap is left waiting for it.
NapEnds == Sleep!NapEnds

=============================================================================
