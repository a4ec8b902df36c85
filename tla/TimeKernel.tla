----------------------------- MODULE TimeKernel -----------------------------
(***************************************************************************)
(* The clock kernel at work: software timers (kernel/clock/timer.hpp) and  *)
(* the alarms of sleeping tasks share its queue.  on_elapsed pops the due  *)
(* waiters in a loop, with interrupts masked; the reaction of a timer is a *)
(* user callback, which may start and stop timers, itself included, in the *)
(* middle of that loop.                                                    *)
(*                                                                         *)
(* left is not state of the program: it counts, without wrapping, the      *)
(* ticks until each booked waiter is due, for the properties to compare.   *)
(***************************************************************************)
EXTENDS TimeLedger

CONSTANTS Timers, Alarms,  \* the two kinds of waiters
          NoFn,            \* no callback runs
          MaxSpan,         \* bound on the spans callers ask for
          MaxElapsed       \* bound on the ticks one interrupt reports

ASSUME WaitersAssumption ==
  /\ Waiters = Timers \cup Alarms /\ Timers \cap Alarms = {}
  /\ NoFn \notin Waiters

\* Deadlines stay comparable: what has passed and what is booked lie less
\* than half the counter apart.
ASSUME HalfRangeAssumption ==
  MaxSpan \in Nat /\ MaxElapsed \in Nat \ {0} /\ MaxSpan + MaxElapsed < Wrap \div 2

VARIABLES c,        \* the ledger
          period,   \* period_ of each timer
          running,  \* running_ of each timer
          asleep,   \* tasks parked on their alarm
          popping,  \* on_elapsed is in its loop
          fn,       \* the timer whose callback runs, or NoFn
          left      \* ghost: ticks until each booked waiter is due

vars == << c, period, running, asleep, popping, fn, left >>

Booked(w) == Contains(c.queue, w)

Init ==
  /\ c = InitialLedger
  /\ period = [t \in Timers |-> 0]
  /\ running = [t \in Timers |-> FALSE]
  /\ asleep = {}
  /\ popping = FALSE /\ fn = NoFn
  /\ left = [w \in Waiters |-> 0]

\* User code runs: a task, or a callback in the middle of on_elapsed.  A
\* callback that asks for a span of 0 would be due again in the same loop.
UserCode == popping => fn # NoFn
Spans == IF popping THEN 1 .. MaxSpan ELSE 0 .. MaxSpan

Book(w, span) ==
  /\ c' = enqueue_locked(c, w, span)
  /\ left' = [left EXCEPT ![w] = span]

Unbooked(w) == left' = [left EXCEPT ![w] = 0]

-----------------------------------------------------------------------------
(* Timers.                                                                 *)

arm_me(t, per, span) ==
  /\ UserCode
  /\ period' = [period EXCEPT ![t] = per]
  /\ running' = [running EXCEPT ![t] = TRUE]
  /\ Book(t, span)
  /\ UNCHANGED << asleep, popping, fn >>

oneshot(t) == \E span \in Spans : arm_me(t, 0, span)
periodic(t) == \E span \in Spans : arm_me(t, span, span)

stop_keeps_period(t) ==
  /\ UserCode
  /\ running' = [running EXCEPT ![t] = FALSE]
  /\ c' = cancel(c, t)
  /\ Unbooked(t)
  /\ UNCHANGED << period, asleep, popping, fn >>

stop(t) ==
  /\ UserCode
  /\ period' = [period EXCEPT ![t] = 0]
  /\ running' = [running EXCEPT ![t] = FALSE]
  /\ c' = cancel(c, t)
  /\ Unbooked(t)
  /\ UNCHANGED << asleep, popping, fn >>

-----------------------------------------------------------------------------
(* Sleeping tasks.                                                         *)

\* park_for: the alarm is booked and the task blocked in one section.
park_for(a) ==
  /\ ~popping /\ a \notin asleep
  /\ \E span \in 0 .. MaxSpan : Book(a, span)
  /\ asleep' = asleep \cup {a}
  /\ UNCHANGED << period, running, popping, fn >>

\* Somebody else readies the task; its alarm stays booked.
WokenEarly(a) ==
  /\ UserCode /\ a \in asleep
  /\ asleep' = asleep \ {a}
  /\ UNCHANGED << c, period, running, popping, fn, left >>

-----------------------------------------------------------------------------
(* on_elapsed.                                                             *)

Elapse(n) ==
  /\ ~popping
  /\ c' = tick_forward(c, n)
  /\ left' = [w \in Waiters |-> IF Booked(w) THEN left[w] - n ELSE left[w]]
  /\ popping' = TRUE
  /\ UNCHANGED << period, running, asleep, fn >>

FireAlarm_wakes_nobody ==
  /\ popping /\ fn = NoFn /\ Due(c) /\ Head(c.queue) \in Alarms
  /\ c' = pop_due(c)
  /\ Unbooked(Head(c.queue))
  /\ UNCHANGED << period, running, asleep, popping, fn >>

\* The head is due and its reaction runs: a task is woken ...
FireAlarm ==
  /\ popping /\ fn = NoFn /\ Due(c) /\ Head(c.queue) \in Alarms
  /\ c' = pop_due(c)
  /\ asleep' = asleep \ {Head(c.queue)}
  /\ Unbooked(Head(c.queue))
  /\ UNCHANGED << period, running, popping, fn >>

\* ... or a timer cools off and its callback starts.
FireTimer ==
  /\ popping /\ fn = NoFn /\ Due(c) /\ Head(c.queue) \in Timers
  /\ c' = pop_due(c)
  /\ running' = [running EXCEPT ![Head(c.queue)] = FALSE]
  /\ fn' = Head(c.queue)
  /\ Unbooked(Head(c.queue))
  /\ UNCHANGED << period, asleep, popping >>

\* The callback returns; a timer that is still periodic is booked again.
FnReturns ==
  /\ fn # NoFn
  /\ fn' = NoFn
  /\ \/ /\ period[fn] # 0
        /\ running' = [running EXCEPT ![fn] = TRUE]
        /\ Book(fn, period[fn])
     \/ /\ period[fn] = 0
        /\ UNCHANGED << c, running, left >>
  /\ UNCHANGED << period, asleep, popping >>

ElapseEnds ==
  /\ popping /\ fn = NoFn /\ ~Due(c)
  /\ c' = update_alarm(c)
  /\ popping' = FALSE
  /\ UNCHANGED << period, running, asleep, fn, left >>

-----------------------------------------------------------------------------
Loop == FireAlarm \/ FireTimer \/ FnReturns \/ ElapseEnds

Next ==
  \/ \E t \in Timers : oneshot(t) \/ periodic(t) \/ stop(t)
  \/ \E a \in Alarms : park_for(a) \/ WokenEarly(a)
  \/ \E n \in 1 .. MaxElapsed : Elapse(n)
  \/ Loop

Spec == Init /\ [][Next]_vars

-----------------------------------------------------------------------------
(* Properties.                                                             *)

\* Every variable holds a value of its type.
TypeOK ==
  /\ IsLedger(c)
  /\ period \in [Timers -> 0 .. MaxSpan]
  /\ running \in [Timers -> BOOLEAN]
  /\ asleep \subseteq Alarms
  /\ popping \in BOOLEAN
  /\ fn \in Timers \cup {NoFn}
  /\ left \in [Waiters -> -MaxElapsed .. MaxSpan]

\* However often the counter has wrapped, the queue is in the order in which
\* its waiters are really due, and holds each of them once.
QueueIsInOrder ==
  /\ IsInjective(c.queue)
  /\ \A i \in 1 .. Len(c.queue) - 1 : left[c.queue[i]] <= left[c.queue[i + 1]]

\* A waiter fires in the interrupt in which its span is over: never before,
\* and none that is over is left in the queue when the loop ends.
FiresOnTime ==
  [][ /\ FireAlarm \/ FireTimer => left[Head(c.queue)] <= 0
      /\ ElapseEnds => \A w \in Waiters : Booked(w) => left[w] > 0 ]_vars

\* running_ tells the truth about the queue, through every nesting of a
\* callback with the calls it makes; and a periodic timer nobody stopped is
\* booked unless its callback runs.
RunningIsBooked ==
  \A t \in Timers :
    /\ running[t] <=> Booked(t)
    /\ period[t] # 0 /\ fn # t => running[t]

\* A task that sleeps has an alarm that will end its sleep.
SleeperIsBooked == \A a \in asleep : Booked(a)

\* The alarm update_alarm last asked the driver for, which armed_ remembers, is
\* still to come and no later than the first deadline, although alarms of
\* cancelled waiters are kept; a deadline that is due already is the one asked
\* for.  Without waiters nothing is asked.  A one-shot driver could sleep on
\* this; the repository's own ignores it and ticks.
AlarmInTime ==
  LET asked == Diff(c.armed, c.now)
      due == left[Head(c.queue)]
  IN  ~popping =>
        /\ c.arm_valid <=> c.queue # << >>
        /\ c.arm_valid => asked \in 1 .. due \/ asked = due

\* The queue holds what it should, in the order of its deadlines, across the
\* wrap of the counter too.
QueueIsSound == TypeOK /\ QueueIsInOrder

\* Between any two calls running_ is the truth about a timer, and every task
\* that sleeps has its alarm in the queue.
BookingsAreTrue == RunningIsBooked /\ SleeperIsBooked

=============================================================================
