# ZerOS in TLA+

ZerOS is a small real-time kernel in C++23 for one Cortex-M3 core: a preemptive
scheduler, a tick-driven clock with software timers, and blocking
synchronisation objects, all on intrusive lists and one kind of critical
section; around it a block pool, a task factory with stack guards, tickless
idle, a log formatter and a polled UART. This directory models it in TLA+,
checks the models with TLC on small instances, and proves with TLAPS, for every
size, the safety of the scheduler, the clock kernel, tickless idle, the
semaphore, the event group, the message queue, the mutex, the intrusive list,
the block pool, the arena, the stack guard, the critical section's counter, the
wire and four demos. `PROJECT.json` maps each definition to the lines it
models.

## 1. The system

### Components

| Component | State | Operations | Correct when |
|---|---|---|---|
| Scheduler (`kernel/sched/scheduler.hpp`) | ready rings `fifo_`, bitmap `present_`, `current_`, `ticks_served_`; per task `state_`, `task_priority_`, mailbox | `add`, `ready`, `block`, `yield`, `reprioritize`, `notify`, `wait_notify`, `pick_next_locked`, `on_tick` | a Ready task is in exactly one ring, once, at its priority; the highest runs; peers take turns |
| Switch (`arch/.../switch.cpp`) | the PendSV pending bit, stack pointers | `request_switch`, PendSV, SVC, `spawn`, `Trap` | a requested switch happens, between sections and never inside one |
| Intrusive list (`base/self_list.hpp`) | `stuff`, `tail_`, each node's `next_` | `insert`, `push_back`, `push_front`, `remove`, `pop_head` | behaves as a sequence; every walk ends |
| Clock kernel (`kernel/clock/kernel.hpp`, `timequeue.hpp`, `ticks.hpp`) | tick counter, queue of deadlines, the alarm last asked of the driver | `call_after_span`, `park_for`, `cancel`, `on_elapsed` | nothing fires early, late or never, across the wrap of the counter |
| Timer (`kernel/clock/timer.hpp`) | `period_`, `running_`, callback | `oneshot`, `periodic`, `stop`, `fired` | `running_` agrees with the queue whatever the callback does |
| Critical section (`arch/.../cm3_irq.hpp`) | `nest_`, `saved_basepri_`, BASEPRI | `lock`, `unlock` | sections exclude each other; the mask is lifted when the last guard goes |
| Semaphore (`kernel/sync/semaphore.hpp`) | `count_`, `waiters_` (nodes on the callers' stacks) | `acquire`, `try_acquire`, `release` | no lost wake-up, no node that outlives its call, a timed wait ends |
| Mutex (`kernel/sync/mutex.hpp`) | `owner_`, `saved_prio_`, `boosted_`, sorted `waiters_` | `lock`, `unlock` | one owner; hand-over by priority; a boost is undone |
| Message queue, work queue (`msg_queue.hpp`, `user_worker.hpp`) | ring, two semaphores | `post`, `post_for`, `receive_one`, `defer` | messages come out once, in order; the ring never overruns |
| Event group (`event_group.hpp`) | bits, waiters | `wait`, `set`, `clear` | every waiter sees a set it waits for |
| Notification (`system.cpp`) | the mailbox | `notify`, `wait_notify` | a letter ends the wait |
| SysTick, tickless idle (`time_kernel_cm3.cpp`) | `one_shot_ticks_`, the counter's registers | `SysTick_Handler`, `idle_sleep`, `init_time` | no tick is lost, so that a nap is not overslept; every nap ends |
| Bitmap and block pool (`base/bitmap.hpp`, `kernel/mem`) | two-level bitmap, poison record, count | `raw_allocate`, `raw_deallocate` | no block twice; levels, count and search agree; a tampered block is held back |
| Task factory, arena, launch (`task.hpp`, `arena.hpp`, `launch.cpp`) | the builder's stage, the arena's cursor | the builder's stages, `launch`, `spawn_into` | control blocks and stacks are apart and aligned; a dry arena halts |
| Stack guard, faults (`stack_guard.hpp`, `fault.cpp`, `testaments.hpp`) | the canary words | bury, patrol at the switch, watermark, report | a sentinel that was written is seen at the next switch and the right task named |
| Logging (`log/`) | none | `format_to`, `print` | placeholders are filled in order; a line is cut, never overrun |
| UART and event stream (`uart.cpp`, `event_stream`) | SR, DR; a queue | `uart1_putc`, the receive interrupt, the demo's consumer | no character lost, bytes echoed in order, the handler lets go |
| Boards, startup | none shared | | not modelled: register writes |

### How they interact

Everything runs on one core. Tasks call the synchronisation objects; these take
a `CriticalGuard`, look at their own state and call `ready`, `block` or
`sleep_for` through the system face. Interrupts call the same objects' wakers.
`sleep_for` books the alarm node of the task's control block with the clock kernel and
blocks the task inside one guard. SysTick runs `on_elapsed`, which fires the
due waiters (waking tasks, running timers' callbacks), then `on_tick`, which
ends time slices: two guarded sections with room for an interrupt in between.
Nobody switches directly: `request_switch` pends PendSV, which has the lowest
priority, so it runs when no handler does and no section masks it.

The model's atomic step is therefore the guarded section. A blocking call is
a loop of such sections with the scheduler in control between two turns.
`CriticalSection` is the one module that looks below that level.

### What is hard

- A `ready`, `notify` or alarm reaching a task in a state its author did not
  have in mind: already Ready, Running with a switch pending, woken and not yet
  run, inside another call.
- The wake-up that loses the race for what it was woken for, and deadlines that
  pass between the wake-up and the turn in which the task looks.
- Alarms that stay booked after the call that booked them has returned.
- Callbacks that change the queue that is being emptied.
- Comparisons of a counter that wraps.
- The two or three instructions before the mask is up.
- What idle decided about SysTick before an interrupt changed the deadlines.
- Priorities lent through two mutexes and returned in another order.
- A register or a bitmap looked at in one step and written in the next.

`PROJECT.json` lists these under `hazards`, each at its line, with the
properties that would catch it.

## 2. Modules

| Module | Models | State and actions |
|---|---|---|
| `SchedulerCore` | `Scheduler`'s methods | The fields are a record `k` (`prio`, `state`, `fifo`, `present`, `current`, `served`, mailbox `letter`/`has`, and `pend`, the PendSV bit); each method is an operator from `k` to the new `k`. `HonestRings` says what the rings promise. |
| `Scheduler` | the scheduler with its callers | `mode` tells boot, thread, and the two handlers apart. Tasks call only when they run; `Ready`, `Notify` and `Block` come from anybody and name any task, `Block` one that does not wait in a ring. `PendSV_Enter`/`context_switch` and `SysTick_Enter`/`SysTick_on_tick` are separate, so an interrupt can fall between. `Next` lets priorities move freely, `BoostNext` only as a mutex waiter moves its owner's; `MCScheduler` has a behaviour choose one. |
| `RingProofs`, `TaskSystemProofs` | | lemmas about lists, ready rings, and the handlers under the synchronisation objects |
| `SchedulerProofs`, `TimeKernelProofs`, `MutexProofs`, `SyncProofs`, `BaseProofs`, `DemoProofs` | | theorems about `Scheduler`; `TimeKernel` and the idle part of `MCClock`; `Mutex` and `Inversion`; the four parts of `MCSync`; the three of `MCMemory` and the two of `MCBase`; `Spinners`, `PerfDemo` and `Uart` |
| `TaskSystem` | scheduler, handlers and alarms under the synchronisation objects | Time is abstracted: a call's deadline is `ahead` or not, the task's alarm is `none`, booked for this call (`live`) or left behind (`stale`). In SysTick any set of deadlines may pass; the alarms booked for them fire in that step, because both were computed from the same `now`. |
| `Semaphore` | the semaphore on `TaskSystem` | `count`, `waiters` (a node is named by the task whose stack holds it), `pc`: the loop a task is in. One action per call's entry, per turn of each loop, and `release`. |
| `ListOps`, `ListSpec` | what a list promises | sorted insertion and `remove` as operators, which the ready rings, the clock's queue and the waiting lists share; a sequence with five calls |
| `SelfList` | the list's pointers | `head`, `tail`, `next`; a walk advances one slot per step, `prev` being the node whose `next_` the slot is |
| `TimeLedger` | `Kernel`'s methods | record `c`: counter, queue, deadlines, and `armed_` with `arm_valid_`; the driver's `arm` and `disarm` do nothing, as in `cm3_time_port.hpp` |
| `TimeKernel` | clock kernel, timers and sleepers | on_elapsed is a loop of steps (`popping`), a callback runs between `FireTimer` and `FnReturns` and may call `oneshot`, `periodic`, `stop`. `left` is a ghost: the true number of ticks until a waiter is due, without wrap. |
| `CriticalSection` | `lock`/`unlock` by instruction | contexts are threads and handlers with priorities; `active` is the stack of handlers; `nest_++` and `--nest_` are a load into `reg` and a store each; `torn` is a ghost: a switch of threads fell between the two |
| `Mutex` | the mutex on `TaskSystem` | per mutex `owner`, `boosted`, `saved`, the sorted `waiters` with the priority each node carries; `lock` is a turn of the loop, `unlock` restores and hands over |
| `Inversion` | the inversion demo | a low owner, an urgent waiter and a middle task that may hog for ever, on `Mutex` |
| `ThisTask` | `ThisTask` and the loop of `wait_notify` | `Probe`, `Look` and `Park` are the three sections of the loop; `Trap` is where a task ends |
| `PerfDemo` | the measurement demo | ping, pong and the reporter on `TaskSystem`, with and without SysTick |
| `MsgQueue` | the message queue on `TaskSystem` | two unit counters with their waiters and a ring; `Reserve`, `Copy`, `TakeUnit` and `pop_ring` are the sections of a post and a receive |
| `BoundedFifo` | what the queue promises | a sequence with `Put` and `Get` |
| `Worker` | the work queue | `defer` and `Loop` on `MsgQueue`, jobs that sleep |
| `EventGroup` | the event group on `TaskSystem` | `bits`, `waiters`, each call's mask; a turn of either wait, `set`, `clear` |
| `Bitmap`, `BitmapPool` | bitmap and pool | words of `W` bits with the tail mask; an allocation looks in one step and marks in the next, one caller at a time; `owners` is a ghost |
| `Launch` | builder, arena, launch | one chain of builder calls at a time, the arena's cursor in bytes with the code's sizes |
| `StackGuard` | canary, patrol, reports | each stack as its depth and the words written so far, which need not be all of a frame; words below 0 are the task's control block, and once one is written (`Trampled`) the patrol may find anything; `deepest` and `held` are ghosts |
| `Tickless` | SysTick and `idle_sleep` | COUNTFLAG, the pending bit, what LOAD holds, `one_shot`; idle is in front of, between or behind its two sections; tasks nap or wait for a peripheral that stays silent; `owed` and `lag` are ghosts |
| `Format` | the formatter | operators from format string, arguments and limit to text; a behaviour grows a call |
| `Uart` | USART1 and the event stream demo | RXNE, ORE and TXE; the handler's reads of SR and DR are two steps, and so are the poll and the write of `uart1_putc` |
| `Spinners` | the round-robin demo | spinners on `TaskSystem`; `share` is a ghost: the ticks a spinner got since another one ran |

The `MC...` modules give the parameters their values, and six of them put parts
together. `MCBase`, `MCClock`, `MCSync`, `MCApplications`, `MCMemory` and
`MCConsole` are sums: a variable fixed at the start (`part`, `use`, `memory`,
`end`) says which part a behaviour is about, and the state of the others
stays as it was built. Parts that share no state lose nothing by this, because
a joint behaviour would only interleave two independent ones. For the
synchronisation objects it is a restriction, and a deliberate one: a task that
uses two kinds of objects carries stale alarms from one into the loop of
another, which is the first disagreement below.

A definition whose name continues another's (`give_up_keeps_node` before `give_up`)
is a deliberately wrong variant, used to show that a property can fail.

`SelfList` implements `ListSpec` under the mapping `list <- Walk`, the chain
read from the head (`ImplementsListSpec`). Refinement alone would let one call
do another's work, so `CallsDoWhatTheySay` ties each call to its own action.
`MsgQueue` implements `BoundedFifo` (`ImplementsFifo`): a message is in the
abstract queue from the step that copies it into the ring to the step that pops
it, however the two semaphores stand.

`TaskSystem` is the common ground of the composed modules: `Semaphore`, `Mutex`,
`MsgQueue`, `EventGroup`, `ThisTask`, `PerfDemo` and `Spinners` extend it, so each
of them runs on the same scheduler operators the proofs are about.

## 3. Runs

| Run | Instance | Shows |
|---|---|---|
| `scheduler` | 3 tasks, 2 levels, slices of 2; priorities moved freely, or by boosts only, fair handlers | ring honesty, `RunnerIsRunning`, order among peers, preemption by rank only; with boosts `NobodyOutranks`: no Ready task outranks the runner without a switch pending; `RoundRobin` |
| `base` | 2 threads, SysTick, USART, guards nested twice, `nest_` modulo 9; a list of 4 nodes, two with equal keys | `GuardsAddUp`: until a thread is switched out between a load and a store of `nest_` the counter loses no guard, and quiet means unmasked; `ListIsASequence`: the pointers refine a sequence; `WalkEnds` |
| `clock` | 2 timers, 1 sleeper, counter modulo 10, spans up to 2, interrupts of 1 or 2 ticks; the same with one timer where time has to go on; tickless idle with two nappers, naps of 3 to 9 ticks, one-shots of up to 5 | `QueueIsSound`, `FiresOnTime`, `AlarmInTime`: order and punctuality across the wrap; `BookingsAreTrue`: `running_` and every sleep agree with the queue; `ElapsedReturns`, `SleepsEnd`: `on_elapsed` returns, sleeps end, naps too unless SysTick was stopped; `LatenessIsBounded`: handler and idle agree on what is owed, and no nap is later than the shortest falls short of the longest one-shot (2 ticks here, and TLC reaches it) |
| `sync` | 3 tasks, one urgent, slices of 1: a semaphore with 1 timed and 2 untimed contenders; an event group with 2 bits; a queue with a ring of 2, a sender, a patient and a hasty receiver and posting interrupts; two tasks that sleep, yield, wait, end and notify | `NothingIsSleptOn`: no unit, lit bit, message or slot beside its sleeper; `SleepersAreFound`: each in the list its waker looks at, and by an alarm if timed; `NodesAreSound`: no dangling or doubly linked node in any of the four lists; `SlotsAreConserved`, `ImplementsFifo`: the queue is a bounded FIFO |
| `applications` | the same objects among peers; a worker above a task that defers; the measurement demo with and without ticks; the inversion demo; 3 spinners; slices of 2 ticks, 5 rounds | `WaitsEnd`, `OffersAreTaken`: timed waits end and the urgent task gets its lock, units are taken, lit bits seen; `JobsAreDone`: accepted jobs run, the ring drains, the measurement is reported; `EveryRoundMeasured`: each round once, against its own stamp; `TurnsAreFair`: nobody has more than a slice while a peer waits |
| `mutex` | 3 levels; 4 clients on one mutex, or 3 that nest two | `LockIsSound`: exclusion, and the waiters are the sleepers; `HandedToTheMostUrgent` by the level a waiter came with, then by arrival; without nesting `StrictPriority` also after a boost ends, `LoansAreHonest`: the owner inherits, a boost is undone, and `InversionIsBounded`: nobody in between runs while the owner of a wanted lock could |
| `memory` | 6 blocks in words of 2 bits; the arena's 2048 bytes, three stack sizes and an odd one, two hand-laid slots; 2 stacks of 5 words with a canary of 2, frames of 1, and a word of the control block | `PoolIsSound`: levels, count and search of the pool agree; `TamperedIsHeldBack`; `ArenaIsSound`: control blocks and stacks apart and aligned, nothing leaks; `StacksAreWatched`: a written sentinel is caught at the next switch and reported, the watermark lies between the deepest switch and the deepest point |
| `console` | 3 bytes, ring of 2, lines of 3, one printer; 5 tokens, 2 arguments, buffers of 0 to 12 | `WireIsHonest`: no character lost, bytes echoed in order; `BytesAreServed`: the handler returns and the ring is echoed; `LinesAreRight`: the formatter meets its reference at every size, lines are terminated, digits read back |
| `semaphore_notified` | the semaphore with `notify` | **violation** of `WaiterLinkedOnce`, see below |
| `critical_section_exclusion` | the critical section of `base` | **violation** of `Exclusion`, see below |
| `nest_returns_to_zero` | the critical section of `base` | **violation** of `NestReturnsToZero`, see below |
| `nap_ends` | tickless idle with one napper and naps of 2 ticks | **violation** of `NapEnds`, see below |

The numbers of an instance are in its `.cfg`: `MCSync`, `MCClock`, `MCMemory`
and `MCBase` take who calls what, capacities, spans, sizes, nodes and keys as
constants, so that the theorems about them are about every instance.

A property of a sum joins what its parts promise about one thing; the parts are
defined, each with its comment, in the modules of the components (`NothingIsSleptOn`
is `NoLostWakeup` of the semaphore, `LinkedLackTheirBits` of the event group and
`NobodyIsForgotten` of the queue).

Bounds. Two levels suffice to have a higher, an equal and a lower competitor,
three tasks to have one that is neither the waker nor the woken. A slice of one
or two ticks lets a slice end between any two sections. `MaxCount` caps the
semaphore's counter: 2 units against 3 contenders covers a unit taken by a third
party and two wake-ups under way at once. `Wrap` replaces 2^32; what matters is that
`MaxSpan + MaxElapsed < Wrap / 2`, which is stated as an assumption, because
from there on the code's comparisons do not order deadlines any more. In the
run the counter wraps every few bookings. Callbacks ask for spans of at least
1 (`Spans`): with 0 a timer is due again in the loop that fired it.

Three levels and four clients give the mutex an owner, two waiters of one rank,
so that arrival decides between them, and a more urgent one; two mutexes are
enough to nest. A ring of two is full and empty within a few posts, and wraps.
Six blocks in words of two bits end on the edge of a word, and their three
summary bits in the middle of one, so both kinds of tail occur. `Launch` runs
with the sizes of the 32-bit build. `Tickless` counts whole ticks: a masked
section, and the code of idle between two waits, is shorter than one, so at
most one tick falls into it and none after the counter was just restarted.
Its run has two nappers, so that one may nap under a one-shot armed for the other,
with naps longer than the threshold, shorter than a one-shot and longer than two. The
liveness of the clock kernel is checked with one timer and one sleeper (`calm`):
with two timers the graph is too large for it, and safety has both.
A stack of five words has two of canary, and its frames leave room for a
frame that reaches the sentinel, steps over it, or runs into the control block.
`Wrap` of `nest_` is one more than all guards that can be held at once.
`Format` uses numbers up to 2^31 - 1, TLC's largest, where the code goes to
2^32 - 1: both have ten digits. In `Uart` a line has three characters, so that
one is neither first nor last, and the letters of the timer cycle through two
instead of six.

Fairness. Handlers run once they are pending (weak fairness): the hardware does
that. Ticks go on, and a deadline is a finite number of ticks away, so it does not stay
ahead for ever although other steps come in between (`TimeGoesOn`). A task in a
blocking call takes its turn if it is given the processor again and again
(strong fairness on `Turn`): a slice is
thousands of instructions, a section a few dozen. Nothing is assumed about
tasks outside a call or about who releases. The demos' own tasks (`Inversion`,
`PerfDemo`, the worker's loop, the consumer of `Uart`) get on when they have the
processor again and again, because their code has no other way to go; the
hogging task of `Inversion` promises nothing. In `Tickless` time, the handler
and the code of idle go on; in `Uart` the handler and the transmitter do, and
bytes promise nothing. `MCApplications`, `MCClock` and `MCConsole` state these
assumptions per part: an action owes progress only in the behaviours it is in.
`on_elapsed` and callbacks make progress when they run. `RoundRobin` assumes no more than handlers that run. It promises
a Ready task the processor until a higher priority wants it, and no longer:
`pick_next_locked` starts each pick with a fresh slice and a preempted task
returns to the front of its ring, so frequent preemption can keep a slice from
ending.

### Disagreements found

- **A wake-up by mistake is not harmless** (`semaphore_notified`). The comment at
  `scheduler.hpp:126-130` says every waiter re-checks and goes back to sleep. The
  semaphore's loops do go back to sleep, but they link their node again while
  it is still linked. In `SelfList` terms: inserting the last node again makes
  it its own successor, inserting another one cuts off those behind it. The
  same happens without `notify` when a task calls `try_acquire`, gets its unit
  early and then calls `acquire`: the old alarm is still booked. The run
  `sync` keeps timed and untimed callers apart and has no notifier, and
  there the node is linked once.
- **The critical section has a gap** (`critical_section_exclusion`). `lock()`
  raises `nest_` before it writes BASEPRI. An interrupt in between finds the
  counter raised, does not mask, and a more urgent handler can enter its
  section. A thread that PendSV switches in meanwhile is in the same position.
  All other modules take sections for atomic: their results hold of the code
  up to this gap.
- **The counter can lose a guard** (`nest_returns_to_zero`). `nest_++` and `--nest_`
  load and store a counter all threads share. A handler that comes in between gives
  back what it takes. A thread that PendSV switches in need not have: its store
  comes first, and the first thread then writes back an old count. In the trace two
  threads use the gap above and a slice ends between a load and its store; all guards
  are given back, `nest_` is 1, and no later guard masks anything. In the
  other direction `--nest_` falls below zero and BASEPRI stays up. `system.hpp:41`
  calls the guard "nest-friendly". `GuardsAddUp` is what is left: handlers alone
  never disturb the counter.
- **Idle stops SysTick under a task** (`nap_ends`). The periodic handler
  settles its tick and leaves COUNTFLAG set, since nothing reads CSR or writes CVR
  there. Idle's `drain_pending_expiry(1)` takes the flag for a tick nobody settled and
  counts it again. A nap of 2 ticks then ends after one, inside the
  arming section; `next_due_in` finds no deadline and SysTick is stopped
  ("nothing ever comes due", `time_kernel_cm3.cpp:99`). The task runs, naps again,
  and nothing ever wakes it.

### Where the runs stop

The passing runs leave the following cases out, each because the code does
there what a comment of the repository, or a caller, would not expect. They
were met while modelling.

- The other waiting loops link twice as the semaphore does: `lock()` of the mutex
  when a notify wakes the waiter (`mutex.hpp:49`), and the endless `wait` of the
  event group when an alarm left by an earlier timed wait fires
  (`event_group.hpp:31`). `Mutex` has no notifier, and in `EventGroup` no task is
  in both `Timed` and `Forever`.
- A borrowed priority can stay. Each mutex saves the priority it finds
  (`mutex.hpp:52`). A task boosted through two saves a boosted one in the second
  and, unlocking in the order of locking, restores it last. `test_mutex.cpp:198`
  expects "restored, not left boosted". `RestoredNotLeftBoosted` and
  `OwnerInheritsFromWaiters` are therefore stated for clients that do not nest.
- Nesting also disturbs the order of waiters. A waiter's node keeps the level it
  was filled in with (`mutex.hpp:33`), before the loop. With five clients and two
  mutexes: a task that holds the other mutex fills in its node, is boosted, and
  is then linked by its old level behind a less urgent waiter, while the owner
  is boosted by its new one. `unlock` restores the owner's level, readies
  the waiter in front, which is too low to request a switch, and a Ready task
  in between waits for the next tick. `StrictPriority` is therefore stated for
  clients that do not nest, and `HandedToTheMostUrgent` goes by the level in the
  node. The three nesting clients of the run are too few to show it; the
  attempt to prove it did.
- A letter between the probe and the sleep of `wait_notify` (`system.cpp:81`) is
  slept on. `WaitsEnd` shows that it costs the timeout and no more.
- A notify ends a plain `sleep_for`, which does not look at the clock again
  (`this_task.cpp:19`). The model has this; no property excludes it.
- A task that returned and is woken by mistake stays in the loop of `Trap`
  (`switch.cpp:54`) and keeps the levels below from running. The model has this
  too; the demos of `applications` never notify a task that ended.
- Two callers of the pool, one an interrupt, can be given the same block: look
  and mark are two steps without a section (`bitmap_allocate.hpp:45`), although
  `pool.hpp:18` names interrupts. `BitmapPool` has one caller at a time.
- The arena holds six tasks of 64 words, not the eight of the comment at
  `launch.cpp:15`: 56 and 256 bytes each of 2048.
- `block(t)` takes any task (`scheduler.hpp:80`). One that waits in its ring stays
  linked when it becomes Blocked, and the next `ready()` links it twice.
  `test_sched.cpp:168-184` blocks such a task, and `test_mutex.cpp:121-124` says that
  it is not detached; all callers outside the tests block the running
  task. `Block` takes every task but a Ready one.
- A frame that reserves words without writing them (`print.hpp:24` has one of 128
  bytes) steps over the one sentinel the patrol looks at (`stack_guard.hpp:18`),
  which the comment there calls the first thing an overflow eats. The model has such
  frames: `OverflowIsCaught` is about a sentinel that was written, or that lies
  under the frames of a switch. For the same reason the watermark flatters:
  `test_stack_watermark.cpp:87-98` expects one word, a larger frame gives more.
  `WatermarkIsFair` has the two bounds that hold.
- Below a stack lies the control block of its own task (`launch.cpp:29-32`,
  `task.hpp:37-41`), with the span the patrol reads. An overflow that gets there may
  pass for anything; the properties of the stacks end where it begins.
- A peripheral's interrupt disturbs tickless idle: the ticks between its wake-up
  and idle's next run are dropped (`time_kernel_cm3.cpp:111`), a task readied
  between `cpsie` and `wfi` is slept on with SysTick stopped (line 99), and a tick
  that expires inside the arming section stays pending, because line 51 writes
  the NVIC and not ICSR. `Tickless` has no peripheral that speaks up.
- Idle may count a tick twice, as in `nap_ends`: a nap then ends a tick early.
  `LatenessIsBounded` is about ticks that are lost, not about those.
- Idle settles an expiry by hand and then programs SysTick for the deadlines that
  are left, although the settling may just have made a task ready
  (`time_kernel_cm3.cpp:84`). That task runs with the one-shot in flight, or
  with SysTick stopped, and what it books then nobody programs. A nap of 3 ticks
  begun under a one-shot of 5 ends 2 ticks late; on the board, where a one-shot has
  up to 233 ticks, naps of 100 ms can be 133 ms late. `LatenessIsBounded` says that it
  is never more than that (`Slack`), and `SleepsEnd` of the run excepts naps
  under a stopped SysTick.
- An opening brace that is no placeholder silences the arguments behind it
  (`format_impl.cpp:45`). It is not among the tokens.
- A second printer can overwrite a character between poll and write
  (`uart.cpp:35`), and a byte between the handler's reads of SR and DR keeps the
  interrupt raised until another comes (`event_stream/main.cpp:53`). The run has
  one printer and spaced bytes; `EchoIsHonest` needs the one printer only.
- Slices do not add up over preemptions: each pick starts a fresh one
  (`scheduler.hpp:63`). `TurnsAreFair` is about spinners nobody preempts, and `RoundRobin` gives up when
  somebody does.

## 4. Proofs

The theorems are about the specifications the runs check, and name the runs'
own properties (`Spec` of `Scheduler` and of `TimeKernel` is what the runs `scheduler`
and `clock` do in the behaviours without boosts, and of the part `timers`); the constants are arbitrary up to the assumptions below.
`MiddleStaysSilent` and the theorems of `DemoProofs` are about a demo by itself
(`Inversion`, `Spinners`, `PerfDemo`, `Uart`), which `MCApplications` and `MCConsole`
run as one use of a sum.

| Module | Theorem | States |
|---|---|---|
| `SchedulerProofs` | `TypeCorrect` | `Spec => []TypeOK` |
| | `RingsStayHonest` | `Spec => []RingsAreHonest` |
| | `RunnerStaysRunning` | `Spec => []RunnerIsRunning` |
| | `PreemptionIsByRank` | `Spec => PreemptedOnlyByHigher` |
| | `RingsAreFirstComeFirstServed` | `Spec => FirstComeFirstServed` |
| | `PriorityIsStrict` | `SchedulerSpec => []NobodyOutranks` |
| `TimeKernelProofs` | `QueueStaysSound` | `Spec => []QueueIsSound` |
| | `BookingsStayTrue` | `Spec => []BookingsAreTrue` |
| | `AlarmComesInTime` | `Spec => []AlarmInTime` |
| | `FiringIsOnTime` | `Spec => FiresOnTime` |
| | `NapsAreLateByAShotAtMost` | `ClockSpec => []LatenessIsBounded` |
| `MutexProofs` | `LockStaysSound` | `Spec => []LockIsSound` |
| | `LoansStayHonest` | `Spec => []LoansAreHonest` |
| | `PriorityStaysStrict` | `Spec => []StrictPriority` |
| | `HandedOverInOrder` | `Spec => HandedToTheMostUrgent` |
| | `InversionStaysBounded` | `Spec => []InversionIsBounded` |
| | `MiddleStaysSilent` | `DemoSpec => []MiddleIsSilent` |
| `SyncProofs` | `SyncLosesNoWakeup` | `SyncSpec => []NothingIsSleptOn` |
| | `SyncFindsSleepers` | `SyncSpec => []SleepersAreFound` |
| | `SyncNodesSound` | `SyncSpec => []NodesAreSound` |
| | `SyncConservesSlots` | `SyncSpec => []SlotsAreConserved` |
| | `SyncImplementsFifo` | `SyncSpec => ImplementsFifo` |
| `BaseProofs` | `StacksStayWatched` | `MemorySpec => []StacksAreWatched` |
| | `ArenaStaysSound` | `MemorySpec => []ArenaIsSound` |
| | `PoolStaysSound` | `MemorySpec => []PoolIsSound` |
| | `TamperedStaysBack` | `MemorySpec => TamperedIsHeldBack` |
| | `GuardsStayCounted` | `BaseSpec => []GuardsAddUp` |
| | `PointersAreASequence` | `BaseSpec => ListIsASequence` |
| `DemoProofs` | `SlicesAreFair` | `SpinSpec => []TurnsAreFair` |
| | `RoundsAreMeasured` | `EveryRoundMeasured` of both builds, `TickSpec` and `NoTickSpec` |
| | `EchoIsHonest` | `UartSpec => WireIsHonest` |

**Scheduler.** `RingsAreHonest` is not inductive alone: `on_tick` and `yield`
push `current_` without looking at its state, which is right only because the
current task is Running and hence in no ring; and a task that is not spawned
yet must not be readied into one. The inductive invariant `IInv` adds
`RunnerIsRunning`, `CurrentIsKnown` and `UnspawnedIsReady` to the types and the
rings. `RingProofs` shows, operator by operator, what push, pop and remove do
to the four parts of `HonestRings`; `SchedulerProofs` then has one step per
action. For `FirstComeFirstServed` a step is looked at ring by ring: a `Steady` ring
loses a task, or gains one at its end that was not in it, so two tasks that
stay in it keep their order. All steps leave all rings steady but a pick, whose
`push_front` puts the displaced runner, and nobody else, before the others;
the theorem says just that. `PriorityIsStrict` is about the behaviours with boosts: with free lowering of
priorities it is false, since `reprioritize` requests no switch. A `Block` from outside keeps
`IInv` because a task that is not Ready is in no ring.

**Clock kernel.** The code compares wrapped deadlines. `SoundLedger` says that each
booked deadline is the wrapped image of the ticks really left (the ghost `left`),
that the queue is sorted by those, and that the deadline in `armed_` is near enough
to be compared. With spans and reported ticks below half of the counter
(`HalfRangeAssumption`), a signed difference of images has the sign of the true
one, so an insertion compares as it should and `update_alarm` may keep an early
alarm. `Settled` says that outside `on_elapsed` nothing is overdue. None of
these is inductive without the others. `RingProofs` supplies what a sorted insertion and
a removal do to a list.

**Tickless idle.** `SleepInv` measures what SysTick has counted and the ledger has
not heard of (`Unsettled`): a nap is owed at least what the ledger still counts,
less that, and the ledger counts, for every nap, at least a whole round of SysTick
but for `Slack`. `Slack` is 0 for a lone task, which cannot nap under a one-shot, since
idle arms one only when somebody naps; for several it is what the shortest nap falls short of the
longest one-shot, since a nap is booked whole and a one-shot never exceeds what LOAD holds. A restart of the counter therefore may not follow an unsettled tick, which
is what `drain_pending_expiry` sees to, and `RoundIsSpan` shows that a span
clamped to what LOAD holds is programmed as such, whatever the cycles per tick.
That SysTick once stopped stays stopped is part of it: nothing then raises it.

**Semaphore, event group, queue, face.** A call that waits is a node in a list, a
state in the scheduler and, when it is timed, an alarm. `Ease` says how the
three go together for one task: out of a call it is not linked; in one it
is asleep only while it is linked, and asleep in a timed one only with
its alarm booked. Handlers keep it (`HandlersKeepEase`) because an alarm
fires in the step in which its deadline passes. `SemaphoreSound` is the
counting argument against the lost wake-up: when somebody is
linked there are at least as many contenders on their way to the counter as it has
units. A release adds a unit and unlinks one task, which becomes a contender; a
contender that leaves takes a unit with it unless there is none (its deadline
has passed), and goes back to the list only when it finds none. The queue has this twice,
and `QueueCount` ties the two counters to the ring: free slots, slots reserved by
a poster that has not copied yet and filled slots add up to the capacity, and so
do messages on offer and messages promised to a receiver that has not popped. From
this follows that a copy never overruns and a pop never finds the ring empty.
The refinement maps the ring from `head_` on to a sequence (`Content`); a copy
appends to it, a pop takes its first, every other step leaves it alone. `SyncInv`
puts the parts together and adds that what a behaviour does not use stays as
it was built.

**Mutex.** `TaskSystemProofs` shows that the handlers keep the kernel sound
(`SystemSound`) whatever the objects above do, and what `Spawned` and
`wake_from_sleep` come to; a mutex never sees an alarm in its loop, because
only nappers are booked (`OnlyNappersAreBooked`). Exclusion rests on `HolderOwns`
(whoever has lock()'s Ok is the owner), `FreeIsBare` (a free mutex has no
waiter and no boost) and `OwnerIsAwake` (hand-over wakes the new owner,
which its next turn in the loop relies on). These hold for nesting clients too. For
the others `LInv` adds that a task owns one mutex at a time and does not wait
while it does, that who owns nothing is at its own level, and that an owner's
level is the more urgent of its own and its waiters', with its own one
saved. From this the restored level and the level of the new owner decide whether
a switch is requested, and `StrictPriority` follows.

**Inversion.** `InversionIsBounded` follows from `LInv`: the owner of a lock that
somebody waits for is at the waiter's level or above, a task that owns nothing is
at its own, and strict priority decides between the two as long as the owner
is not asleep. The demo's steps are steps of clients that do not nest, so `IInv`
and `LInv` are invariants of it too. `DemoInv` adds that L and H sleep with empty
hands only, and that nobody else has to do with the lock: then M has no turn
at all while H sleeps in `lock()` (`MiddleIsSilent`), whatever M, the other tasks and
the ticks do.

**Intrusive list.** `ListInv` says that the pointers lead along some sequence of
distinct nodes (`Chain`), that `tail_` is its last one, and that a walk under way
stands behind a place of it and has passed nothing it looks for. `WalkReads`
shows that following `next_` from the head reads this sequence back, by
induction along the chain, which is no longer than there are nodes. `GrowChain`
and `ShrinkChain` show what a store into one slot does to a chain, at any
place; `insert`, `push_back` and `push_front` are instances of the first,
`remove` and `pop_head` of the second. Where the walk of `insert` stops is the
one place `ListSpec` allows, behind its equals, which makes the insertion stable. The
mapping is `list <- Walk`, as in the run.

**Stacks.** Frames skip words, so what was written of a stack has gaps. `StackInv` keeps
what is certain: nothing is written below the deepest point, the frames of a switch
are written whole (`Parked`), and the lowest of them (`held`) is therefore
a word the watermark's search cannot pass. The patrol runs after the frames
are saved, so a sentinel that was written, or lies among them, is seen at that switch,
and a task that waits has not written it. All this ends with the first word
of the control block (`Trampled`), from which on the patrol's answer is arbitrary.

**Arena.** `ArenaInv` orders the beds: each task's box and stack lie one
behind the other, and behind those of the tasks launched before from the same
memory; the slot in the builder's hands is nobody's yet. `Round8` and
`SlotWords % 2 = 0` give the alignment.

**Pool.** A place i is position `i % W` of word `i \div W`; `ValidIs` shows that
the tail mask leaves exactly the places below the size, `LowestByWords` that
the lowest place lies in the lowest word that has any. `PoolInv` adds to the books
what `raw_allocate` relies on between its two steps: the block it found is still
free, or none was. And it ties poison to the record of poisoning: a free block that was
ever poisoned holds poison or was tampered with.

**Critical section.** Guards are counted as a set, pairs of a context and a
number up to its depth, so that a step of one context adds or removes at most one
pair. What makes a load and its store one step after all is that handlers
nest (`HandlersNest`): whoever comes above a context that has loaded (`Over`) has
given back all its guards when that context goes on, so what was loaded
counts the guards below (`LoadsAreFresh`), and a store finds `nest_` as it was. A thread
that waits has stored (`RestIsIdle`), unless a switch fell in between, which sets `torn`
and ends the argument. `MaskFollowsNest` says who is responsible for
BASEPRI: whoever raised `nest_` from zero masks, whoever brought it back to
zero lifts. The one on its way to mask is alone in that and finds no mask,
although handlers, and threads that PendSV switches in, may come and go with
guards of their own meanwhile; it is still counted, so none of them brings
`nest_` to zero. The one on its way to lift runs under the mask, hence nobody
gets between, and what it restores is the 0 that was saved. The theorem
says that the counter survives the gap which `Exclusion` shows; it does
not say that the gap is closed, and the run `nest_returns_to_zero` shows where it ends.

**Round robin.** `SpinInv` ties the ghost `share` to `ticks_served_`: who does not
run has none, the runner has no more than was served of its slice unless it has no
peer to hand on to, and a switch is pending only when the runner is done or
stands behind a peer. That the tasks are peers is what keeps a pick from
restarting the slice of the one that was displaced.

**Measurement demo.** `PerfInv`: pong has tallied its own rounds, in
order; ping's stamp is the round pong is about to answer, from the moment the
flag is handed over until it comes back; the reporter's letter is sent
after the last round. The flag is the only thing the two players share, and a preemption
between any two of their accesses is allowed for.

**Wire.** `RxInv`: the bytes in the ring come after the last one echoed and
before the one in DR, in the order of arrival. `TxInv`: a writer that saw TXE
has the register to itself, because there is one. The theorem lets bytes come at
any time, also between the handler's two reads, which the run does not.

Assumptions on the constants, each evaluated by the runs: `TasksAssumption` (the
idle task and the null pointer are no tasks), `LevelsAssumption` (1 to 32
levels, the code's `static_assert`), `SliceAssumption` (a slice has at least one
tick), `SystemAssumption` (finitely many tasks), `PrioAssumption`,
`MutexesAssumption` (there is a mutex), `WrapAssumption` and
`HalfRangeAssumption` (an even width of the counter, spans below half of it),
`WaitersAssumption` (timers and tasks are different waiters), `TicklessAssumption`
(a tick has cycles, LOAD holds at least one tick, naps are not empty), `SemaphoreClients`, `EventClients` and `QueueClients` (who waits without a
timeout makes no timed call on the same object: the alarm that such a call may
leave behind would wake the endless one, which then links its node twice, the
first disagreement of section 3; a ring has a slot), `FaceClients` (who calls is
a task), `WordAssumption` and
`PoolAssumption` (words and pools are not empty), `LaunchAssumption`
(sizes are numbers, an alignment is not 0, a slot's stack has an even number of words,
which `stack.hpp:16` asserts, and no slot is the arena), `StackAssumption` (a stack has
room for its canary and two frames), `PriorityAssumption` (finitely many threads and
handlers, and no handler above the mask level or below PendSV: the code puts
SysTick and the USART between the two; `nest_` can count all guards), `NodesAssumption` (finitely many nodes, keys
that can be compared). The demos' theorems state theirs as hypotheses:
`InversionAssumption` (H is more urgent than M, which is neither L nor H),
`PeersAssumption` (all spinners at one level), `CastAssumption` (three different
players), which `MCApplications` evaluates for its casts, and `Printers = {}` (one
task prints), which is the console run's choice.

Loops. What a loop of calls does (`Spawned`, `wake_from_sleep`) is a recursive
function in the model; its lemmas go by the least step at which they fail
(`UpTo`), since the prover cannot instantiate an induction rule.

Only model-checked: liveness (the prover has no support for fairness), that is
`RoundRobin`, `WalkEnds`, `ElapsedReturns`, `SleepsEnd`, `WaitsEnd`, `OffersAreTaken`,
`JobsAreDone` and `BytesAreServed`; and `LinesAreRight`, whose formatter is a fold over
the tokens, checked against a reference: what it computes for every format
string would take an induction over data.

## 5. Not modelled

Registers and stack pointers of a context switch beyond the words a stack
holds; names, diagnostics and the text of reports; the constructors and
destructors the typed pool runs. Startup, vector tables, the clock tree and GPIO
of the boards: register writes in a fixed order before anything runs
concurrently. The vendor's `system_stm32f1xx.c`. The demos `events_notify`,
`testaments`, `timers`, `heartbeat` and `blink`: straight-line uses of
components whose models allow all that these do. Concepts and static
assertions, which the compiler checks.

Two limits of the clock kernel are excluded. A span of 2^31 ticks or more breaks the order of
deadlines; `HalfRangeAssumption` excludes it. A callback that starts a timer with
a span of 0 again and again keeps `on_elapsed` from returning; callbacks of the
model ask for at least 1.

Tickless idle drops less than a tick at every restart of the counter. `Tickless`
does not see this drift, since it counts whole ticks.

## 6. Plan

Done: all components of the kernel and their main demos; proofs of every
safety property the passing runs check but `LinesAreRight`. Left is a peripheral
that ends `wfi` in `Tickless`, once the code settles the ticks of a one-shot cut short.
