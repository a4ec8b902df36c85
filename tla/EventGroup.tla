----------------------------- MODULE EventGroup -----------------------------
(***************************************************************************)
(* The event group of kernel/sync/event_group.hpp: waiters sleep until any *)
(* or all bits of their mask are lit, a set wakes every waiter to look for *)
(* itself.  A waiter's node is on its own stack and named by its task.     *)
(***************************************************************************)
EXTENDS TaskSystem

CONSTANTS Bits,
          Wishes,    \* the masks and all_of flags tasks wait with
          Timed,     \* tasks that call wait(mask, all_of, timeout)
          Forever    \* tasks that call wait(mask, all_of)

VARIABLES bits,      \* bits_, the lit ones
          waiters,   \* waiters_
          want,      \* the mask and all_of of each task's call
          pc         \* where each task is

evtvars == << bits, waiters, want, pc >>
vars == << sysvars, evtvars >>

Built ==
  /\ bits = {}
  /\ waiters = << >>
  /\ want = [t \in Tasks |-> [mask |-> {}, all |-> FALSE]]
  /\ pc = [t \in Tasks |-> "out"]

Init == SystemInit /\ Built

\* satisfied_or: some bit of the mask is lit, or all of them.
satisfied(wish) ==
  LET hit == bits \cap wish.mask
  IN  hit # {} /\ (wish.all => hit = wish.mask)

-----------------------------------------------------------------------------
CallWait(t, wish) ==
  /\ Runs(t) /\ t \in Forever /\ pc[t] = "out"
  /\ pc' = [pc EXCEPT ![t] = "wait"]
  /\ want' = [want EXCEPT ![t] = wish]
  /\ UNCHANGED << sysvars, bits, waiters >>

CallWaitFor(t, wish) ==
  /\ Runs(t) /\ t \in Timed /\ pc[t] = "out"
  /\ pc' = [pc EXCEPT ![t] = "wait_for"]
  /\ want' = [want EXCEPT ![t] = wish]
  /\ StartDeadline(t)
  /\ UNCHANGED << k, mode, alarm, bits, waiters >>

\* insert: the order of the list is that of arrival.
park(t) == waiters' = Append(waiters, t) /\ UNCHANGED << bits, want, pc >>

\* A turn of the endless wait.  Its node is a local of the loop's body: on the
\* way out nothing is unlinked.
wait(t) ==
  /\ Runs(t) /\ pc[t] = "wait"
  /\ \/ /\ satisfied(want[t])
        /\ pc' = [pc EXCEPT ![t] = "out"]
        /\ UNCHANGED << sysvars, bits, waiters, want >>
     \/ /\ ~satisfied(want[t])
        /\ park(t)
        /\ k' = block(k, t)
        /\ UNCHANGED << mode, alarm, ahead >>

\* The bits are there, or the time is up: unlink and return.
leave(t) ==
  /\ satisfied(want[t]) \/ ~ahead[t]
  /\ waiters' = remove(waiters, t)
  /\ pc' = [pc EXCEPT ![t] = "out"]
  /\ LeaveAlarm(t)
  /\ UNCHANGED << k, mode, bits, want >>

\* A turn of the timed wait.
wait_for(t) ==
  /\ Runs(t) /\ pc[t] = "wait_for"
  /\ \/ leave(t)
     \/ /\ ~satisfied(want[t]) /\ ahead[t]
        /\ park(t)
        /\ sleep_for(t)
        /\ UNCHANGED << mode, ahead >>

set_wakes_one(lit) ==
  /\ bits' = bits \cup lit
  /\ waiters' = IF waiters = << >> THEN waiters ELSE Tail(waiters)
  /\ k' = IF waiters = << >> THEN k ELSE ready(k, Head(waiters))
  /\ UNCHANGED << mode, alarm, ahead, want, pc >>

\* By any task or interrupt: light the bits, wake everybody.
set(lit) ==
  /\ bits' = bits \cup lit
  /\ waiters' = << >>
  /\ k' = wake_from_sleep(k, waiters)
  /\ UNCHANGED << mode, alarm, ahead, want, pc >>

clear(dark) ==
  /\ bits' = bits \ dark
  /\ UNCHANGED << sysvars, waiters, want, pc >>

-----------------------------------------------------------------------------
Turn(t) == wait(t) \/ wait_for(t)

Next ==
  \/ Handlers /\ UNCHANGED evtvars
  \/ \E t \in Tasks :
       \/ Turn(t)
       \/ \E wish \in Wishes : CallWait(t, wish) \/ CallWaitFor(t, wish)
  \/ \E b \in Bits : set({b}) \/ clear({b})

Spec == Init /\ [][Next]_vars

-----------------------------------------------------------------------------
(* Properties.                                                             *)

\* Every variable holds a value of its type.
TypeOK ==
  /\ SystemType
  /\ bits \subseteq Bits
  /\ waiters \in Seq(Tasks)
  /\ want \in [Tasks -> [mask : SUBSET Bits, all : BOOLEAN]]
  /\ pc \in [Tasks -> {"out", "wait", "wait_for"}]

\* Whoever is still in the list lacks its bits: nobody sleeps through the set
\* that lit what it waits for, and the endless wait may leave its node alone.
LinkedLackTheirBits ==
  \A i \in 1 .. Len(waiters) : ~satisfied(want[waiters[i]])

\* Whoever sleeps inside a wait can be woken: it is in the list, and a
\* timed sleeper's alarm is booked as well.
SleepersAreReachable ==
  \A t \in Tasks : pc[t] # "out" /\ k.state[t] = "Blocked" =>
    /\ t \in Range(waiters)
    /\ pc[t] = "wait_for" => alarm[t] = "live"

\* The node of a wait that returned is not in the list, although the endless
\* wait never unlinks its own, and no node is in it twice, although a timed
\* wait that its alarm woke is still linked when it looks again.
NodesAreSound ==
  /\ \A i \in 1 .. Len(waiters) : pc[waiters[i]] # "out"
  /\ \A i, j \in 1 .. Len(waiters) : waiters[i] = waiters[j] => i = j

\* Bits that stay lit are noticed: a wait they satisfy returns, or somebody
\* clears them first.
LitBitsAreSeen ==
  \A t \in Tasks :
    pc[t] # "out" /\ satisfied(want[t]) ~> pc[t] = "out" \/ ~satisfied(want[t])

\* A timed wait ends, whatever is set and cleared meanwhile.
TimedWaitEnds == \A t \in Timed : pc[t] = "wait_for" ~> pc[t] = "out"

=============================================================================
