----------------------------- MODULE TimeLedger -----------------------------
(***************************************************************************)
(* The clock kernel of kernel/clock/kernel.hpp: a wrapping tick counter, a *)
(* queue of waiters sorted by deadline, and the one alarm it keeps asking  *)
(* its driver for, which must never be later than the head of the queue.   *)
(* Its fields are a record c, its calls operators on c; each call is one   *)
(* critical section.                                                       *)
(*                                                                         *)
(* tick_t is uint32_t; the model counts modulo Wrap, an even number, and   *)
(* reads differences as tick_diff_t does, as signed numbers of that width. *)
(***************************************************************************)
EXTENDS ListOps

CONSTANTS Waiters,  \* the TimeWaiter nodes: timers' and tasks' alarms
          Wrap      \* 2^32 in the code

ASSUME WrapAssumption == Wrap \in Nat /\ Wrap > 0 /\ Wrap % 2 = 0

Ticks == 0 .. Wrap - 1

IsLedger(c) ==
  c \in [ now : Ticks,
          queue : Seq(Waiters),
          deadline : [Waiters -> Ticks],
          armed : Ticks,
          arm_valid : BOOLEAN ]

InitialLedger ==
  [ now |-> 0,
    queue |-> << >>,
    deadline |-> [w \in Waiters |-> 0],
    armed |-> 0,
    arm_valid |-> FALSE ]

-----------------------------------------------------------------------------
(* Tick arithmetic.                                                        *)

\* static_cast<tick_diff_t>(a - b)
Diff(a, b) ==
  LET d == (a - b) % Wrap
  IN  IF d < Wrap \div 2 THEN d ELSE d - Wrap

Forward(a, steps) == (a + steps) % Wrap

is_after_strictly(deadline, now) == Diff(now, deadline) > 0

\* Ticks::is_after: the deadline is due.
is_after(deadline, now) == Diff(now, deadline) >= 0

DeadLineOrder_by_value(c, lhs, rhs) == c.deadline[lhs] < c.deadline[rhs]

\* TimerQueue::DeadLineOrder
DeadLineOrder(c, lhs, rhs) == Diff(c.deadline[rhs], c.deadline[lhs]) > 0

Insert(c, w) ==
  [c EXCEPT !.queue = Inserted(@, w, {m \in Waiters : DeadLineOrder(c, w, m)})]

-----------------------------------------------------------------------------
(* The driver, CortexM3Armable: SysTick is periodic and needs no alarm.    *)

arm(c, ticks) == c
disarm(c) == c

-----------------------------------------------------------------------------
(* The kernel's calls.                                                     *)

update_alarm_keeps_pending(c) ==
  IF c.queue = << >>
  THEN IF c.arm_valid THEN [disarm(c) EXCEPT !.arm_valid = FALSE] ELSE c
  ELSE LET due == c.deadline[Head(c.queue)]
           remaining == Diff(due, c.now)
       IN  IF c.arm_valid /\ Diff(c.armed, c.now) > 0 THEN c
           ELSE [arm(c, IF remaining < 1 THEN 1 ELSE remaining)
                   EXCEPT !.armed = due, !.arm_valid = TRUE]

\* An alarm that is still to come and comes no later than the head is kept,
\* even when nobody waits for it any more; any other is replaced.
update_alarm(c) ==
  IF c.queue = << >>
  THEN IF c.arm_valid THEN [disarm(c) EXCEPT !.arm_valid = FALSE] ELSE c
  ELSE LET due == c.deadline[Head(c.queue)]
           armed_pending == c.arm_valid /\ Diff(c.armed, c.now) > 0
           head_earlier == c.arm_valid /\ Diff(c.armed, due) > 0
           remaining == Diff(due, c.now)
       IN  IF armed_pending /\ ~head_earlier THEN c
           ELSE [arm(c, IF remaining < 1 THEN 1 ELSE remaining)
                   EXCEPT !.armed = due, !.arm_valid = TRUE]

enqueue_locked(c, w, span) ==
  update_alarm(Insert([c EXCEPT !.queue = remove(@, w),
                                !.deadline[w] = Forward(c.now, span)], w))

cancel(c, w) == update_alarm([c EXCEPT !.queue = remove(@, w)])

\* on_elapsed: the clock moves, the due waiters leave the queue one by one.
tick_forward(c, n) == [c EXCEPT !.now = Forward(@, n)]

Due(c) == c.queue # << >> /\ is_after(c.deadline[Head(c.queue)], c.now)

pop_due_peeks(c) == c

pop_due(c) == [c EXCEPT !.queue = Tail(@)]

=============================================================================
