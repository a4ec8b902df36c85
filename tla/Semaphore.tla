----------------------------- MODULE Semaphore -----------------------------
(***************************************************************************)
(* The counting semaphore of kernel/sync/semaphore.hpp.  The waiter node   *)
(* me lives on the stack of the task inside the call, so a node is named   *)
(* by its task.  A woken task re-enters its loop: pc names the loop it is  *)
(* in, and the scheduler decides when its next section runs.               *)
(***************************************************************************)
EXTENDS TaskSystem, FiniteSets

CONSTANTS Initial,   \* the count the semaphore is built with
          MaxCount,  \* bound on count_, see release
          Timed,     \* tasks that call try_acquire with a timeout
          Forever    \* tasks that call acquire

ASSUME CountAssumption == Initial \in 0 .. MaxCount /\ MaxCount \in Nat

VARIABLES count,     \* count_
          waiters,   \* waiters_, the tasks whose node is linked, head first
          pc         \* where each task is

vars == << sysvars, count, waiters, pc >>

\* A semaphore as it is built, and nobody inside a call.
Built ==
  /\ count = Initial
  /\ waiters = << >>
  /\ pc = [t \in Tasks |-> "out"]

Init == SystemInit /\ Built

Inside == {t \in Tasks : pc[t] # "out"}

-----------------------------------------------------------------------------
\* acquire(): the task enters the loop.
CallAcquire(t) ==
  /\ Runs(t) /\ t \in Forever /\ pc[t] = "out"
  /\ pc' = [pc EXCEPT ![t] = "acquire"]
  /\ UNCHANGED << sysvars, count, waiters >>

\* try_acquire(timeout): the deadline is taken outside the lock.
CallTryAcquire(t) ==
  /\ Runs(t) /\ t \in Timed /\ pc[t] = "out"
  /\ pc' = [pc EXCEPT ![t] = "try_acquire"]
  /\ StartDeadline(t)
  /\ UNCHANGED << k, mode, alarm, count, waiters >>

\* A unit is there: take it, unlink the node, leave.
take(t) ==
  /\ count > 0
  /\ count' = count - 1
  /\ waiters' = remove(waiters, t)
  /\ pc' = [pc EXCEPT ![t] = "out"]

\* No unit: link the node behind the others.
park(t) ==
  /\ waiters' = Append(waiters, t)
  /\ UNCHANGED << count, pc >>

\* One turn of acquire's loop.
acquire(t) ==
  /\ Runs(t) /\ pc[t] = "acquire"
  /\ \/ /\ take(t)
        /\ UNCHANGED sysvars
     \/ /\ count = 0
        /\ park(t)
        /\ k' = block(k, t)
        /\ UNCHANGED << mode, alarm, ahead >>

give_up_keeps_node(t) ==
  /\ pc' = [pc EXCEPT ![t] = "out"]
  /\ UNCHANGED << count, waiters >>

\* The deadline has passed: unlink the node, return TimedOut.
give_up(t) ==
  /\ waiters' = remove(waiters, t)
  /\ pc' = [pc EXCEPT ![t] = "out"]
  /\ UNCHANGED count

\* One turn of try_acquire's loop.
try_acquire(t) ==
  /\ Runs(t) /\ pc[t] = "try_acquire"
  /\ \/ /\ take(t)
        /\ LeaveAlarm(t)
        /\ UNCHANGED << k, mode >>
     \/ /\ count = 0 /\ ~ahead[t]
        /\ give_up(t)
        /\ LeaveAlarm(t)
        /\ UNCHANGED << k, mode >>
     \/ /\ count = 0 /\ ahead[t]
        /\ park(t)
        /\ sleep_for(t)
        /\ UNCHANGED << mode, ahead >>

release_wakes_nobody ==
  /\ count < MaxCount
  /\ count' = count + 1
  /\ waiters' = IF waiters = << >> THEN waiters ELSE Tail(waiters)
  /\ UNCHANGED << sysvars, pc >>

release_wakes_for_the_first_unit ==
  /\ count < MaxCount
  /\ count' = count + 1
  /\ \/ /\ waiters = << >> \/ count > 0
        /\ UNCHANGED << k, waiters >>
     \/ /\ waiters # << >> /\ count = 0
        /\ waiters' = Tail(waiters)
        /\ k' = ready(k, Head(waiters))
  /\ UNCHANGED << mode, alarm, ahead, pc >>

\* release(), by any task or interrupt: the unit lands in the counter and the
\* first waiter is woken to race for it.
release ==
  /\ count < MaxCount
  /\ count' = count + 1
  /\ \/ /\ waiters = << >>
        /\ UNCHANGED << k, waiters >>
     \/ /\ waiters # << >>
        /\ waiters' = Tail(waiters)
        /\ k' = ready(k, Head(waiters))
  /\ UNCHANGED << mode, alarm, ahead, pc >>

-----------------------------------------------------------------------------
Turn(t) == acquire(t) \/ try_acquire(t)

Next ==
  \/ Handlers /\ UNCHANGED << count, waiters, pc >>
  \/ \E t \in Tasks : CallAcquire(t) \/ CallTryAcquire(t) \/ Turn(t)
  \/ release

Spec == Init /\ [][Next]_vars

\* The same, with tasks that somebody notifies while they wait here.
NotifiedSpec ==
  Init /\ [][Next \/ \E t \in Tasks : Notify(t) /\ UNCHANGED << count, waiters, pc >>]_vars

-----------------------------------------------------------------------------
(* Properties.                                                             *)

\* Every variable holds a value of its type.
TypeOK ==
  /\ SystemType
  /\ count \in 0 .. MaxCount
  /\ waiters \in Seq(Tasks)
  /\ pc \in [Tasks -> {"out", "acquire", "try_acquire"}]

\* Units cannot outnumber the awake contenders while somebody sleeps in the
\* list: each release since then woke one, and none of those has gone back to
\* sleep with a unit left for it.  A unit and a sleeper never face each other
\* with nobody on the way.
NoLostWakeup ==
  waiters # << >> =>
    count <= Cardinality({t \in Inside : t \notin Range(waiters)})

\* A task that sleeps in a call can be found by whoever may wake it: its node
\* is linked, and a timed sleeper's alarm is booked as well.
SleepersAreReachable ==
  \A t \in Inside : k.state[t] = "Blocked" =>
    /\ t \in Range(waiters)
    /\ pc[t] = "try_acquire" => alarm[t] = "live"

\* The node of a call that returned is not in the list: it was on a stack
\* frame that is gone.
NoDanglingWaiter == Range(waiters) \subseteq Inside

\* Waking by mistake is harmless: a loop that goes back to sleep finds its
\* node unlinked, so that linking it again keeps the list a list.
WaiterLinkedOnce ==
  \A i, j \in 1 .. Len(waiters) : waiters[i] = waiters[j] => i = j

\* A timed wait ends: with a unit or with its deadline, whatever the other
\* contenders do.
TimedWaitEnds == \A t \in Timed : pc[t] = "try_acquire" ~> pc[t] = "out"

\* A unit with sleepers beside it is taken, or the sleepers leave.
UnitIsTaken == (count > 0 /\ waiters # << >>) ~> (count = 0 \/ waiters = << >>)

=============================================================================
