----------------------------- MODULE Scheduler -----------------------------
(***************************************************************************)
(* The scheduler on its uniprocessor.  Four kinds of context call it:      *)
(*   - the running task, between critical sections;                        *)
(*   - a device interrupt (priority 0x80), whenever no section is open;    *)
(*   - PendSV, which carries out the switch request_switch asked for;      *)
(*   - SysTick, whose handler reports elapsed time and then calls on_tick. *)
(* PendSV and SysTick share the lowest priority: neither preempts the      *)
(* other, and PendSV goes first when both are pending.  A pended PendSV    *)
(* therefore runs before the interrupted task takes another step.          *)
(***************************************************************************)
EXTENDS SchedulerCore

VARIABLES k,        \* the scheduler state, see SchedulerCore
          mode,     \* which context the processor is in, below interrupts
          spawned   \* the TCBs handed to add so far

vars == << k, mode, spawned >>

Modes == {"boot", "thread", "pendsv", "tick"}

Init ==
  /\ \E p \in [Tasks -> Levels], blank \in Letters : k = InitialKernel(p, blank)
  /\ mode = "boot"
  /\ spawned = {}

\* A task is executing and no switch is due.
TaskRuns == mode = "thread" /\ ~k.pend /\ k.current \in Tasks

-----------------------------------------------------------------------------
(* Calls of the running task.                                              *)

\* spawn: wiring code before start_scheduler, or a running task.
Spawn(t) ==
  /\ mode = "boot" \/ TaskRuns
  /\ t \notin spawned
  /\ spawned' = spawned \cup {t}
  /\ k' = add(k, t)
  /\ UNCHANGED mode

\* block takes any task, but leaves one that waits in a ring where it is: the
\* next ready would link it twice.  Its contract (test_mutex.cpp:121) is that
\* the task is off the rings.  Every sleep of the kernel, and Trap when a task's
\* entry returns, ends in block(current_task()).
Block(t) ==
  /\ TaskRuns
  /\ t \in spawned /\ k.state[t] # "Ready"
  /\ k' = block(k, t)
  /\ UNCHANGED << mode, spawned >>

Yield ==
  /\ TaskRuns
  /\ k' = yield(k)
  /\ UNCHANGED << mode, spawned >>

WaitNotify ==
  /\ TaskRuns
  /\ k' = wait_notify(k)
  /\ UNCHANGED << mode, spawned >>

Reprioritize(t, p) ==
  /\ TaskRuns
  /\ t \in spawned
  /\ k' = reprioritize(k, t, p)
  /\ UNCHANGED << mode, spawned >>

\* Mutex::lock lends the caller's priority to an owner ranked below it.
Boost(t) ==
  /\ t # k.current
  /\ k.current \in Tasks /\ k.prio[k.current] < k.prio[t]
  /\ Reprioritize(t, k.prio[k.current])

-----------------------------------------------------------------------------
(* Calls from the running task, an interrupt or a timer callback alike.    *)

Ready(t) ==
  /\ t \in spawned
  /\ k' = ready(k, t)
  /\ UNCHANGED << mode, spawned >>

Notify(t, value) ==
  /\ t \in spawned
  /\ k' = notify(k, t, value)
  /\ UNCHANGED << mode, spawned >>

-----------------------------------------------------------------------------
(* The handlers.                                                           *)

\* start_scheduler issues svc 0, whose handler makes the first pick.
SVC_Handler ==
  /\ mode = "boot"
  /\ k' = pick_next_locked(k)
  /\ mode' = "thread"
  /\ UNCHANGED spawned

\* Exception entry withdraws the pending bit; an interrupt may still slip in
\* before cpsid and pend the switch anew.
PendSV_Enter ==
  /\ mode = "thread" /\ k.pend
  /\ k' = [k EXCEPT !.pend = FALSE]
  /\ mode' = "pendsv"
  /\ UNCHANGED spawned

context_switch ==
  /\ mode = "pendsv"
  /\ k' = pick_next_locked(k)
  /\ mode' = "thread"
  /\ UNCHANGED spawned

\* SysTick_Handler: on_elapsed is a section of its own, whose wake-ups are
\* Ready steps of this mode; interrupts may come before the on_tick section.
SysTick_Enter ==
  /\ mode = "thread" /\ ~k.pend
  /\ mode' = "tick"
  /\ UNCHANGED << k, spawned >>

SysTick_on_tick ==
  /\ mode = "tick"
  /\ k' = on_tick(k)
  /\ mode' = "thread"
  /\ UNCHANGED spawned

-----------------------------------------------------------------------------
Handlers == SVC_Handler \/ PendSV_Enter \/ context_switch \/ SysTick_Enter \/ SysTick_on_tick

Calls ==
  \/ \E t \in Tasks : Spawn(t) \/ Ready(t) \/ Block(t)
  \/ \E t \in Tasks, value \in Letters : Notify(t, value)
  \/ Yield
  \/ WaitNotify

\* The scheduler under every call its interface offers, block under its contract.
Next == Handlers \/ Calls \/ \E t \in Tasks, p \in Levels : Reprioritize(t, p)

Spec == Init /\ [][Next]_vars

\* The scheduler when priorities only ever move the way a waiter moves them.
BoostNext == Handlers \/ Calls \/ \E t \in Tasks : Boost(t)

\* The processor takes a pended exception, and the tick keeps coming while a
\* task runs; tasks and devices promise nothing.
HandlerFairness ==
  /\ WF_vars(SVC_Handler)
  /\ WF_vars(PendSV_Enter)
  /\ WF_vars(context_switch)
  /\ WF_vars(SysTick_Enter)
  /\ WF_vars(SysTick_on_tick)

-----------------------------------------------------------------------------
(* Properties.                                                             *)

\* Every field holds a value of its type; the slice counter stays below
\* kSliceTicks and idle alone carries kIdlePrio.
TypeOK ==
  /\ IsKernel(k)
  /\ mode \in Modes
  /\ spawned \in SUBSET Tasks

\* The rings tell the truth: present_ marks exactly the non-empty levels, and
\* every Ready task sits in the ring of its own priority, once, while no ring
\* holds a task that runs, sleeps or was never added.  No sequence of calls
\* from tasks, interrupts and handlers loses a task or queues it twice, as long
\* as nobody blocks a task that waits in a ring.
RingsAreHonest == HonestRings(k, spawned)

\* on_tick and pick_next_locked trust current_: it is the only task whose
\* state_ is Running, and it is Running whenever it executes and whenever the
\* tick handler is about to put it back into a ring.
RunnerIsRunning ==
  /\ \A t \in Tasks : k.state[t] = "Running" => t = k.current
  /\ k.current \in Tasks /\ (mode = "tick" \/ (mode = "thread" /\ ~k.pend))
       => k.state[k.current] = "Running"

\* Strict priority: when no switch is pending, no Ready task outranks the one
\* that runs, whatever interrupts did since the last pick.
StrictPriority ==
  k.current # None /\ ~k.pend /\ mode # "pendsv" =>
    \A t \in spawned : k.state[t] = "Ready" => k.prio[k.current] <= k.prio[t]

\* t waits ahead of u in the ring of their common level.
Ahead(ker, t, u) ==
  \E l \in Levels : \E i, j \in 1 .. Len(ker.fifo[l]) :
    i < j /\ ker.fifo[l][i] = t /\ ker.fifo[l][j] = u

Waiting(ker, t, l) == \E i \in 1 .. Len(ker.fifo[l]) : ker.fifo[l][i] = t

\* Rings are first come, first served: no step puts a task ahead of one that
\* was already waiting in that ring, but for the preempted runner, which
\* takes its place in front again when the switch is made.
FirstComeFirstServed ==
  [][\A t, u \in Tasks, l \in Levels :
       Waiting(k, u, l) /\ Waiting(k', u, l) /\ Ahead(k', t, u)
         => Ahead(k, t, u) \/ (t = k.current /\ mode = "pendsv")]_vars

\* A task that neither blocked, yielded nor used up its slice loses the
\* processor only to a task of strictly higher priority: after a preemption
\* the front of the ring gives it its place back.
PreemptedOnlyByHigher ==
  [][k.current \in Tasks /\ k.state[k.current] = "Running" /\ k'.current # k.current
       => k'.prio[k'.current] < k'.prio[k.current]]_vars

Outranked(t) ==
  \E u \in spawned : k.state[u] \in {"Ready", "Running"} /\ k.prio[u] < k.prio[t]

=============================================================================
