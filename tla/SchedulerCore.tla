--------------------------- MODULE SchedulerCore ---------------------------
(***************************************************************************)
(* The ready-ring scheduler of kernel/sched/scheduler.hpp as functions     *)
(* from one scheduler state to the next.  A scheduler state is a record k: *)
(*   prio, state   the task_priority_ and state_ fields of every TCB       *)
(*   fifo, present the per-level rings and the bitmap of non-empty levels  *)
(*   current       current_, with None for nullptr before the first pick   *)
(*   served        ticks_served_, the ticks of the slice already used      *)
(*   pend          the PendSV pending bit request_switch sets              *)
(*   letter, has   notify_ and has_notify_, the one-slot mailbox           *)
(* Every operation of the code runs under CriticalGuard, so each is one    *)
(* function here and one atomic step of the modules built on it.           *)
(***************************************************************************)
EXTENDS ListOps

CONSTANTS Tasks,            \* the TCBs an application spawns
          Idle,             \* the scheduler's own idle_ TCB
          None,             \* nullptr
          kPriorityLevels,  \* number of ready rings, 32 in the code
          kSliceTicks,      \* ticks in a slice, 10 in the code
          Letters           \* values a notification may carry

ASSUME TasksAssumption == /\ Idle \notin Tasks
                          /\ None \notin Tasks \cup {Idle}
ASSUME LevelsAssumption == kPriorityLevels \in 1..32
ASSUME SliceAssumption == kSliceTicks \in Nat \ {0}

Threads == Tasks \cup {Idle}
Levels == 0 .. kPriorityLevels - 1
kIdlePrio == 255
TaskState == {"Ready", "Running", "Blocked"}

\* Every value the scheduler's fields can hold.
KernelType ==
  [ prio    : [Threads -> Levels \cup {kIdlePrio}],
    state   : [Threads -> TaskState],
    fifo    : [Levels -> Seq(Tasks)],
    present : SUBSET Levels,
    current : Threads \cup {None},
    served  : 0 .. kSliceTicks - 1,
    pend    : BOOLEAN,
    letter  : [Tasks -> Letters],
    has     : [Tasks -> BOOLEAN] ]

IsKernel(k) ==
  /\ k \in KernelType
  /\ \A t \in Tasks : k.prio[t] \in Levels
  /\ k.prio[Idle] = kIdlePrio

\* A freshly constructed Scheduler beside TCBs filled in with priorities p:
\* state_ is zero-initialised, that is Ready, although no ring holds the TCB.
InitialKernel(p, blank) ==
  [ prio    |-> [t \in Threads |-> IF t = Idle THEN kIdlePrio ELSE p[t]],
    state   |-> [t \in Threads |-> "Ready"],
    fifo    |-> [l \in Levels |-> << >>],
    present |-> {},
    current |-> None,
    served  |-> 0,
    pend    |-> FALSE,
    letter  |-> [t \in Tasks |-> blank],
    has     |-> [t \in Tasks |-> FALSE] ]

-----------------------------------------------------------------------------
(* What the rings promise about a set S of tasks.                          *)

PresentIsNonEmpty(k) == k.present = {l \in Levels : k.fifo[l] # << >>}

RingsHoldReadyTasks(k, S) ==
  \A l \in Levels : \A i \in 1 .. Len(k.fifo[l]) :
    /\ k.fifo[l][i] \in S
    /\ k.state[k.fifo[l][i]] = "Ready"
    /\ k.prio[k.fifo[l][i]] = l

RingsHaveNoDuplicate(k) ==
  \A l \in Levels : \A i, j \in 1 .. Len(k.fifo[l]) :
    k.fifo[l][i] = k.fifo[l][j] => i = j

ReadyTasksAreInRings(k, S) ==
  \A t \in S : k.state[t] = "Ready" =>
    \E i \in 1 .. Len(k.fifo[k.prio[t]]) : k.fifo[k.prio[t]][i] = t

HonestRings(k, S) ==
  /\ PresentIsNonEmpty(k)
  /\ RingsHoldReadyTasks(k, S)
  /\ RingsHaveNoDuplicate(k)
  /\ ReadyTasksAreInRings(k, S)

-----------------------------------------------------------------------------
(* The rings.                                                              *)

request_switch(k) == [k EXCEPT !.pend = TRUE]

push_back_at_the_front(k, t) ==
  [k EXCEPT !.state[t] = "Ready",
            !.fifo[k.prio[t]] = << t >> \o @,
            !.present = @ \cup {k.prio[t]}]

push_back(k, t) ==
  IF k.prio[t] >= kPriorityLevels THEN k
  ELSE [k EXCEPT !.state[t] = "Ready",
                 !.fifo[k.prio[t]] = Append(@, t),
                 !.present = @ \cup {k.prio[t]}]

push_front_at_the_back(k, t) == push_back(k, t)

push_front(k, t) ==
  IF k.prio[t] >= kPriorityLevels THEN k
  ELSE [k EXCEPT !.state[t] = "Ready",
                 !.fifo[k.prio[t]] = << t >> \o @,
                 !.present = @ \cup {k.prio[t]}]

find_first_set(present) == CHOOSE l \in present : \A m \in present : l <= m

\* The ring's head comes off; the level's bit goes with its last task.
pop_level(k, l) ==
  [k EXCEPT !.fifo[l] = Tail(@),
            !.present = IF Len(k.fifo[l]) = 1 THEN @ \ {l} ELSE @]

-----------------------------------------------------------------------------
(* The operations.                                                         *)

\* What add and ready share: into the ring, and a switch if t outranks the
\* task that runs.
admit(k, t) ==
  LET q == push_back(k, t)
  IN  IF q.current # None /\ q.prio[t] < q.prio[q.current]
      THEN request_switch(q) ELSE q

add(k, t) == admit(k, t)

ready_without_state_check(k, t) == admit(k, t)

ready_never_preempts(k, t) ==
  IF k.state[t] = "Blocked" THEN push_back(k, t) ELSE k

ready(k, t) == IF k.state[t] = "Blocked" THEN admit(k, t) ELSE k

block(k, t) ==
  LET q == [k EXCEPT !.state[t] = "Blocked"]
  IN  IF t = k.current THEN request_switch(q) ELSE q

yield(k) ==
  IF k.current \in {None, Idle} THEN k
  ELSE request_switch(push_back(k, k.current))

reprioritize_keeps_ring(k, t, new_prio) == [k EXCEPT !.prio[t] = new_prio]

reprioritize(k, t, new_prio) ==
  IF k.prio[t] = new_prio THEN k
  ELSE IF k.state[t] # "Ready" THEN [k EXCEPT !.prio[t] = new_prio]
  ELSE LET old == k.prio[t]
           ring == remove(k.fifo[old], t)
       IN  push_back([k EXCEPT !.fifo[old] = ring,
                               !.present = IF ring = << >> THEN @ \ {old} ELSE @,
                               !.prio[t] = new_prio], t)

notify(k, t, value) ==
  IF t \in {None, Idle} THEN k
  ELSE LET q == [k EXCEPT !.letter[t] = value, !.has[t] = TRUE]
       IN  ready(q, t)

\* One probe of the running task's mailbox; the letter, if any, is taken.
wait_notify(k) ==
  IF k.current \in Tasks THEN [k EXCEPT !.has[k.current] = FALSE] ELSE k

\* A task that still runs is put back at the front of its ring, then the
\* head of the highest non-empty ring runs, or idle when all are empty.
pick_next_locked(k) ==
  LET q == IF k.current \in Tasks /\ k.state[k.current] = "Running"
           THEN push_front(k, k.current) ELSE k
      level == find_first_set(q.present)
      next == IF q.present = {} THEN Idle ELSE Head(q.fifo[level])
      r == IF q.present = {} THEN q ELSE pop_level(q, level)
  IN  [r EXCEPT !.current = next, !.served = 0, !.state[next] = "Running"]

on_tick_never_rotates(k) ==
  IF k.current \in {None, Idle} THEN k
  ELSE [k EXCEPT !.served = (@ + 1) % kSliceTicks]

on_tick_slice_one_late(k) ==
  IF k.current \in {None, Idle} THEN k
  ELSE IF k.served + 1 <= kSliceTicks THEN [k EXCEPT !.served = @ + 1]
  ELSE IF k.fifo[k.prio[k.current]] = << >> THEN [k EXCEPT !.served = 0]
  ELSE request_switch(push_back([k EXCEPT !.served = 0], k.current))

on_tick(k) ==
  IF k.current \in {None, Idle} THEN k
  ELSE IF k.served + 1 < kSliceTicks THEN [k EXCEPT !.served = @ + 1]
  ELSE IF k.fifo[k.prio[k.current]] = << >> THEN [k EXCEPT !.served = 0]
  ELSE request_switch(push_back([k EXCEPT !.served = 0], k.current))

=============================================================================
