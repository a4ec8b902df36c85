------------------------------ MODULE ThisTask ------------------------------
(***************************************************************************)
(* What a task asks of the kernel for itself: sleep_for, yield, block and  *)
(* wait_notify of the ThisTask face, and Trap, where a task ends whose     *)
(* entry function returns.  wait_notify probes the mailbox, looks at the   *)
(* clock and goes to sleep in three separate sections.                     *)
(***************************************************************************)
EXTENDS TaskSystem

CONSTANTS Readers,    \* the tasks that call wait_notify
          Addressees  \* the tasks that somebody notifies

VARIABLES pc,    \* where each task is
          got    \* the letter its last wait_notify returned, None for TimedOut

facevars == << pc, got >>
vars == << sysvars, facevars >>

Built ==
  /\ pc = [t \in Tasks |-> "out"]
  /\ got = [t \in Tasks |-> None]

Init == SystemInit /\ Built

Goto(t, from, to) ==
  /\ Runs(t) /\ pc[t] = from
  /\ pc' = [pc EXCEPT ![t] = to]

-----------------------------------------------------------------------------
CallYield(t) ==
  /\ Runs(t) /\ pc[t] = "out"
  /\ k' = yield(k)
  /\ UNCHANGED << mode, alarm, ahead, facevars >>

CallBlock(t) ==
  /\ Runs(t) /\ pc[t] = "out"
  /\ k' = block(k, t)
  /\ UNCHANGED << mode, alarm, ahead, facevars >>

\* sleep_for parks once: whatever wakes the task ends the sleep.
CallSleep(t) ==
  /\ Goto(t, "out", "sleep")
  /\ sleep_for(t)
  /\ ahead' = [ahead EXCEPT ![t] = TRUE]
  /\ UNCHANGED << mode, got >>

SleepReturns(t) ==
  /\ Goto(t, "sleep", "out")
  /\ LeaveAlarm(t)
  /\ UNCHANGED << k, mode, got >>

-----------------------------------------------------------------------------
(* wait_notify.                                                            *)

CallWait(t) ==
  /\ t \in Readers
  /\ Goto(t, "out", "probe")
  /\ StartDeadline(t)
  /\ UNCHANGED << k, mode, alarm, got >>

\* A letter is taken with the flag, or there is none.
Probe(t) ==
  \/ /\ k.has[t]
     /\ Goto(t, "probe", "out")
     /\ k' = wait_notify(k)
     /\ got' = [got EXCEPT ![t] = k.letter[t]]
     /\ LeaveAlarm(t)
     /\ UNCHANGED mode
  \/ /\ ~k.has[t]
     /\ Goto(t, "probe", "look")
     /\ UNCHANGED << sysvars, got >>

\* The time left is computed, or used up.
Look(t) ==
  \/ /\ ahead[t]
     /\ Goto(t, "look", "park")
     /\ UNCHANGED << sysvars, got >>
  \/ /\ ~ahead[t]
     /\ Goto(t, "look", "out")
     /\ got' = [got EXCEPT ![t] = None]
     /\ LeaveAlarm(t)
     /\ UNCHANGED << k, mode >>

Park_unbooked(t) ==
  /\ Goto(t, "park", "probe")
  /\ k' = block(k, t)
  /\ UNCHANGED << mode, alarm, ahead, got >>

\* sleep_for with the time that was left: ticks since then make the alarm
\* later than the deadline, which "stale" stands for here.
Park(t) ==
  /\ Goto(t, "park", "probe")
  /\ k' = block(k, t)
  /\ \E a \in {"live", "stale"} :
       /\ a = "live" => ahead[t]
       /\ alarm' = [alarm EXCEPT ![t] = a]
  /\ UNCHANGED << mode, ahead, got >>

-----------------------------------------------------------------------------
\* The entry function returned: block, then wfi for ever.
Trap(t) ==
  /\ Goto(t, "out", "ended")
  /\ k' = block(k, t)
  /\ UNCHANGED << mode, alarm, ahead, got >>

Turn(t) == SleepReturns(t) \/ Probe(t) \/ Look(t) \/ Park(t)

Calls(t) == CallYield(t) \/ CallBlock(t) \/ CallSleep(t) \/ CallWait(t) \/ Trap(t)

Next ==
  \/ Handlers /\ UNCHANGED facevars
  \/ \E t \in Tasks : Calls(t) \/ Turn(t)
  \/ \E t \in Addressees : Notify(t) /\ UNCHANGED facevars

Spec == Init /\ [][Next]_vars

\* Tasks that only wait for letters and end.
WaitersNext ==
  \/ Handlers /\ UNCHANGED facevars
  \/ \E t \in Tasks : CallWait(t) \/ Turn(t) \/ Trap(t)
  \/ \E t \in Addressees : Notify(t) /\ UNCHANGED facevars

-----------------------------------------------------------------------------
(* Properties.                                                             *)

Waiting(t) == pc[t] \in {"probe", "look", "park"}

\* Every variable holds a value of its type.
TypeOK ==
  /\ SystemType
  /\ pc \in [Tasks -> {"out", "sleep", "probe", "look", "park", "ended"}]
  /\ got \in [Tasks -> Letters \cup {None}]

\* Whoever sleeps in a timed call has an alarm booked, although notifies and
\* alarms of earlier calls wake it at any time: no sleep can be endless.
SleepIsBooked ==
  \A t \in Tasks :
    (pc[t] = "sleep" \/ Waiting(t)) /\ k.state[t] = "Blocked" => alarm[t] # "none"

\* A wait ends, by a letter or by its deadline, even when the letter fell
\* between the probe and the sleep.
WaitEnds == \A t \in Tasks : Waiting(t) ~> pc[t] = "out"

=============================================================================
