-------------------------- MODULE SchedulerProofs --------------------------
(***************************************************************************)
(* The safety of the scheduler for any number of tasks, up to 32 levels    *)
(* and any slice length.  RingsAreHonest and RunnerIsRunning are not       *)
(* inductive apart: a runner that is really queued would be queued twice   *)
(* by the next tick.  Together with where current_ may point, and with     *)
(* what holds of TCBs not yet added, they are.                             *)
(***************************************************************************)
EXTENDS MCScheduler, RingProofs

\* Before the first pick nobody runs and nothing is pending; afterwards
\* current_ is never null, and it never is a TCB outside the scheduler.
CurrentIsKnown ==
  /\ k.current \in spawned \cup {Idle, None}
  /\ mode = "boot" <=> k.current = None
  /\ mode = "boot" => ~k.pend

\* state_ of a TCB that was not added yet.
UnspawnedIsReady == \A t \in Tasks \ spawned : k.state[t] = "Ready"

IInv ==
  /\ TypeOK
  /\ RingsAreHonest
  /\ RunnerIsRunning
  /\ CurrentIsKnown
  /\ UnspawnedIsReady

\* The constructor leaves every ring empty and nobody running.
LEMMA InitIInv == Init => IInv
<1> SUFFICES ASSUME Init PROVE IInv
  OBVIOUS
<1>1. PICK p \in [Tasks -> Levels], blank \in Letters : k = InitialKernel(p, blank)
  BY DEF Init
<1> DEFINE prio == [t \in Threads |-> IF t = Idle THEN kIdlePrio ELSE p[t]]
           state == [t \in Threads |-> "Ready"]
           fifo == [l \in Levels |-> << >>]
           letter == [t \in Tasks |-> blank]
           has == [t \in Tasks |-> FALSE]
<1>2. /\ prio \in [Threads -> Levels \cup {kIdlePrio}]
      /\ \A t \in Tasks : prio[t] \in Levels
      /\ prio[Idle] = kIdlePrio
  BY TasksAssumption DEF Threads
<1>3. /\ state \in [Threads -> TaskState]
      /\ fifo \in [Levels -> Seq(Tasks)]
      /\ letter \in [Tasks -> Letters]
      /\ has \in [Tasks -> BOOLEAN]
      /\ 0 \in 0 .. kSliceTicks - 1
  BY SliceAssumption DEF TaskState
<1>4. k = [prio |-> prio, state |-> state, fifo |-> fifo, present |-> {}, current |-> None,
           served |-> 0, pend |-> FALSE, letter |-> letter, has |-> has]
  BY <1>1 DEF InitialKernel
<1>5. /\ \A l \in Levels : fifo[l] = << >> /\ Len(fifo[l]) = 0
      /\ \A t \in Tasks : state[t] = "Ready"
  BY DEF Threads
<1>6. spawned = {} /\ mode = "boot"
  BY DEF Init
<1> HIDE DEF prio, state, fifo, letter, has
<1>7. TypeOK
  BY <1>2, <1>3, <1>4, <1>6 DEF TypeOK, IsKernel, KernelType, Modes
<1>8. RingsAreHonest
  BY <1>4, <1>5, <1>6
     DEF RingsAreHonest, HonestRings, PresentIsNonEmpty, RingsHoldReadyTasks,
         RingsHaveNoDuplicate, ReadyTasksAreInRings
<1>9. RunnerIsRunning /\ CurrentIsKnown /\ UnspawnedIsReady
  BY <1>4, <1>5, <1>6, TasksAssumption DEF RunnerIsRunning, CurrentIsKnown, UnspawnedIsReady
<1> QED BY <1>7, <1>8, <1>9 DEF IInv

\* The task that takes a step is in the scheduler and Running.
LEMMA TaskRunsFacts ==
  ASSUME IInv, TaskRuns
  PROVE  k.current \in spawned /\ k.current \in Tasks /\ k.state[k.current] = "Running"
BY TasksAssumption DEF IInv, TaskRuns, RunnerIsRunning, CurrentIsKnown

\* block under its contract: the runner goes to sleep, or nothing happens.
LEMMA BlockCases ==
  ASSUME IInv, NEW t \in Tasks, Block(t)
  PROVE  /\ mode = "thread" /\ mode' = mode /\ spawned' = spawned
         /\ k' = block(k, k.current) \/ k' = k
<1>1. TaskRuns /\ k.state[t] # "Ready" /\ k' = block(k, t) /\ mode' = mode /\ spawned' = spawned
  BY DEF Block
<1>2. IsKernel(k) /\ k.state[k.current] = "Running" /\ k.state[t] \in TaskState
  BY <1>1, TaskRunsFacts DEF IInv, IsKernel, KernelType, Threads, TypeOK
<1>3. CASE t = k.current
  BY <1>1, <1>3 DEF TaskRuns
<1>4. CASE t # k.current
  <2>1. k.state[t] = "Blocked"
    BY <1>1, <1>2, <1>4 DEF IInv, RunnerIsRunning, TaskState
  <2>2. [k.state EXCEPT ![t] = "Blocked"] = k.state
    BY <1>2, <2>1 DEF IsKernel, KernelType, Threads
  <2>3. block(k, t) = k
    BY <1>2, <1>4, <2>2 DEF block, IsKernel, KernelType
  <2> QED BY <1>1, <2>3 DEF TaskRuns
<1> QED BY <1>3, <1>4

\* Unfolding of the invariant, as the operation lemmas want it.
LEMMA IInvFacts ==
  ASSUME IInv
  PROVE  /\ IsKernel(k) /\ spawned \in SUBSET Tasks /\ HonestRings(k, spawned)
         /\ k.current \in spawned \cup {Idle, None}
         /\ \A t \in spawned : k.state[t] = "Running" => t = k.current
         /\ k.state \in [Threads -> TaskState]
         /\ mode \in Modes
BY DEF IInv, TypeOK, RingsAreHonest, RunnerIsRunning, CurrentIsKnown, IsKernel, KernelType

\* A call that readies at most one task, keeps priorities and current_, and
\* only ever adds a pending switch keeps the invariant.
LEMMA WakeKeepsIInv ==
  ASSUME IInv, NEW t \in spawned, spawned' = spawned, mode' = mode,
         mode = "boot" => ~k'.pend,
         IsKernel(k'), HonestRings(k', spawned), k'.current = k.current,
         k.pend => k'.pend,
         \/ k'.state = k.state
         \/ k.state[t] = "Blocked" /\ k'.state = [k.state EXCEPT ![t] = "Ready"]
  PROVE  IInv'
<1>1. TypeOK' /\ RingsAreHonest' /\ CurrentIsKnown'
  BY DEF IInv, TypeOK, RingsAreHonest, CurrentIsKnown
<1>2. k.state \in [Threads -> TaskState] /\ t \in Threads /\ Tasks \subseteq Threads
  BY DEF IInv, TypeOK, IsKernel, KernelType, Threads
<1>3. \A u \in Tasks : k'.state[u] = k.state[u] \/ (u = t /\ k.state[u] = "Blocked" /\ k'.state[u] = "Ready")
  BY <1>2
<1>4. RunnerIsRunning'
  BY <1>3 DEF IInv, RunnerIsRunning
<1>5. UnspawnedIsReady'
  BY <1>3 DEF IInv, UnspawnedIsReady
<1> QED BY <1>1, <1>4, <1>5 DEF IInv

\* A pick keeps the invariant, and leaves no Ready task above the runner.
LEMMA PickKeepsIInv ==
  ASSUME IInv, k' = pick_next_locked(k), mode' = "thread", spawned' = spawned
  PROVE  /\ IInv'
         /\ \A t \in spawned : k'.state[t] = "Ready" => k'.prio[k'.current] <= k'.prio[t]
         /\ k.current \in Tasks /\ k.state[k.current] = "Running" /\ k'.current # k.current
              => k'.prio[k'.current] < k'.prio[k.current]
<1>1. /\ IsKernel(k') /\ HonestRings(k', spawned)
      /\ k'.current \in spawned \cup {Idle}
      /\ k'.state[k'.current] = "Running"
      /\ \A t \in spawned : k'.state[t] = "Running" => t = k'.current
      /\ \A t \in Tasks \ spawned : k'.state[t] = k.state[t]
      /\ \A t \in spawned : k'.state[t] = "Ready" => k'.prio[k'.current] <= k'.prio[t]
      /\ k.current \in Tasks /\ k.state[k.current] = "Running" /\ k'.current # k.current
           => k'.prio[k'.current] < k'.prio[k.current]
  BY IInvFacts, PickOp
<1>2. TypeOK' /\ RingsAreHonest'
  BY <1>1 DEF IInv, TypeOK, RingsAreHonest, Modes
<1>3. CurrentIsKnown'
  BY <1>1, IInvFacts, TasksAssumption DEF CurrentIsKnown
<1>4. UnspawnedIsReady'
  BY <1>1 DEF IInv, UnspawnedIsReady
<1>5. RunnerIsRunning'
  BY <1>1, <1>4 DEF RunnerIsRunning, UnspawnedIsReady
<1> QED BY <1>1, <1>2, <1>3, <1>4, <1>5 DEF IInv

\* The running task leaves the Running state and a switch is pending: block,
\* yield and the end of a slice.
LEMMA StepDownKeepsIInv ==
  ASSUME IInv, NEW s \in {"Ready", "Blocked"}, k.current \in spawned,
         spawned' = spawned, mode' = "thread", mode # "boot",
         IsKernel(k'), HonestRings(k', spawned), k'.current = k.current, k'.pend,
         k'.state = [k.state EXCEPT ![k.current] = s]
  PROVE  IInv'
<1>1. TypeOK' /\ RingsAreHonest' /\ CurrentIsKnown'
  BY DEF IInv, TypeOK, RingsAreHonest, CurrentIsKnown, Modes
<1>2. k.state \in [Threads -> TaskState] /\ spawned \subseteq Tasks /\ Tasks \subseteq Threads
  BY DEF IInv, TypeOK, IsKernel, KernelType, Threads
<1>3. \A u \in Tasks : k'.state[u] = IF u = k.current THEN s ELSE k.state[u]
  BY <1>2
<1>4. RunnerIsRunning' /\ UnspawnedIsReady'
  BY <1>2, <1>3 DEF IInv, RunnerIsRunning, UnspawnedIsReady
<1> QED BY <1>1, <1>4 DEF IInv

\* Exception entry clears the pending bit and nothing else.
LEMMA ClearPend ==
  ASSUME NEW ker, IsKernel(ker), NEW q, q = [ker EXCEPT !.pend = FALSE]
  PROVE  /\ IsKernel(q) /\ Untouched(q, ker) /\ q.fifo = ker.fifo /\ q.present = ker.present
         /\ q.state = ker.state /\ q.pend = FALSE
BY DEF IsKernel, KernelType, Untouched

\* Every step of the scheduler, one action at a time.
LEMMA NextIInv == IInv /\ [Next]_vars => IInv'
<1> SUFFICES ASSUME IInv, [Next]_vars PROVE IInv'
  OBVIOUS
<1> USE IInvFacts
<1>1. ASSUME NEW t \in Tasks, Spawn(t) PROVE IInv'
  <2>1. t \in Tasks \ spawned /\ k' = admit(k, t) /\ spawned' = spawned \cup {t} /\ mode' = mode
    BY <1>1 DEF Spawn, add
  <2>2. /\ IsKernel(k') /\ HonestRings(k', spawned') /\ Untouched(k', k)
        /\ k'.state = [k.state EXCEPT ![t] = "Ready"]
        /\ k.pend => k'.pend
        /\ k.current = None => k'.pend = k.pend
    BY <2>1, Admit
  <2>3. k.state[t] = "Ready" /\ k'.state = k.state
    BY <2>1, <2>2 DEF IInv, UnspawnedIsReady, Threads
  <2>4. TypeOK' /\ RingsAreHonest'
    BY <2>1, <2>2 DEF IInv, TypeOK, RingsAreHonest
  <2>5. CurrentIsKnown'
    BY <2>1, <2>2 DEF IInv, CurrentIsKnown, Untouched
  <2>6. RunnerIsRunning' /\ UnspawnedIsReady'
    BY <2>1, <2>2, <2>3 DEF IInv, RunnerIsRunning, UnspawnedIsReady, Untouched
  <2> QED BY <2>4, <2>5, <2>6 DEF IInv
<1>2. ASSUME NEW t \in Tasks, Ready(t) PROVE IInv'
  <2>1. t \in spawned /\ k' = ready(k, t) /\ spawned' = spawned /\ mode' = mode
    BY <1>2 DEF Ready
  <2>2. /\ IsKernel(k') /\ HonestRings(k', spawned) /\ Untouched(k', k)
        /\ k.pend => k'.pend
        /\ k.current = None => k'.pend = k.pend
        /\ \/ k'.state = k.state
           \/ k.state[t] = "Blocked" /\ k'.state = [k.state EXCEPT ![t] = "Ready"]
    BY <2>1, ReadyOp
  <2>3. mode = "boot" => ~k'.pend
    BY <2>2 DEF IInv, CurrentIsKnown
  <2> QED BY <2>1, <2>2, <2>3, WakeKeepsIInv DEF Untouched
<1>3. ASSUME NEW t \in Tasks, NEW v \in Letters, Notify(t, v) PROVE IInv'
  <2>1. t \in spawned /\ k' = notify(k, t, v) /\ spawned' = spawned /\ mode' = mode
    BY <1>3 DEF Notify
  <2>2. /\ IsKernel(k') /\ HonestRings(k', spawned) /\ k'.current = k.current
        /\ k.pend => k'.pend
        /\ k.current = None => k'.pend = k.pend
        /\ \/ k'.state = k.state
           \/ k.state[t] = "Blocked" /\ k'.state = [k.state EXCEPT ![t] = "Ready"]
    BY <2>1, NotifyOp
  <2>3. mode = "boot" => ~k'.pend
    BY <2>2 DEF IInv, CurrentIsKnown
  <2> QED BY <2>1, <2>2, <2>3, WakeKeepsIInv
<1>4. ASSUME NEW t \in Tasks, Block(t) PROVE IInv'
  <2>0. CASE k' = k
    BY <1>4, <2>0, BlockCases DEF IInv, TypeOK, RingsAreHonest, RunnerIsRunning, CurrentIsKnown,
                                  UnspawnedIsReady
  <2> SUFFICES ASSUME k' # k PROVE IInv'
    BY <2>0
  <2>1. k' = block(k, k.current) /\ spawned' = spawned /\ mode' = "thread" /\ mode = "thread"
    BY <1>4, BlockCases
  <2>2. k.current \in spawned /\ k.state[k.current] = "Running"
    BY <1>4, TaskRunsFacts DEF Block
  <2>3. /\ IsKernel(k') /\ HonestRings(k', spawned) /\ Untouched(k', k) /\ k'.pend
        /\ k'.state = [k.state EXCEPT ![k.current] = "Blocked"]
    BY <2>1, <2>2, BlockOp
  <2> QED BY <2>1, <2>2, <2>3, StepDownKeepsIInv DEF Untouched
<1>5. ASSUME Yield PROVE IInv'
  <2>1. k' = yield(k) /\ spawned' = spawned /\ mode' = "thread" /\ mode = "thread"
    BY <1>5 DEF Yield, TaskRuns
  <2>2. k.current \in spawned /\ k.state[k.current] = "Running"
    BY <1>5, TaskRunsFacts DEF Yield
  <2>3. /\ IsKernel(k') /\ HonestRings(k', spawned) /\ Untouched(k', k) /\ k'.pend
        /\ k'.state = [k.state EXCEPT ![k.current] = "Ready"]
    BY <2>1, <2>2, YieldOp
  <2> QED BY <2>1, <2>2, <2>3, StepDownKeepsIInv DEF Untouched
<1>6. ASSUME WaitNotify PROVE IInv'
  <2>1. k' = wait_notify(k) /\ spawned' = spawned /\ mode' = mode
    BY <1>6 DEF WaitNotify
  <2>2. /\ IsKernel(k') /\ HonestRings(k', spawned) /\ k'.current = k.current
        /\ k'.state = k.state /\ k'.pend = k.pend
    BY <2>1, WaitNotifyOp
  <2>3. k.current \in spawned
    BY <1>6, TaskRunsFacts DEF WaitNotify
  <2>4. mode = "boot" => ~k'.pend
    BY <2>2 DEF IInv, CurrentIsKnown
  <2> QED BY <2>1, <2>2, <2>3, <2>4, WakeKeepsIInv
<1>7. ASSUME NEW t \in Tasks, NEW p \in Levels, Reprioritize(t, p) PROVE IInv'
  <2>1. t \in spawned /\ k' = reprioritize(k, t, p) /\ spawned' = spawned /\ mode' = mode
    BY <1>7 DEF Reprioritize
  <2>2. /\ IsKernel(k') /\ HonestRings(k', spawned) /\ k'.current = k.current
        /\ k'.state = k.state /\ k'.pend = k.pend
    <3>1. IsKernel(k) /\ spawned \in SUBSET Tasks /\ t \in spawned /\ HonestRings(k, spawned)
      BY <2>1
    <3>2. /\ IsKernel(reprioritize(k, t, p)) /\ HonestRings(reprioritize(k, t, p), spawned)
          /\ reprioritize(k, t, p).current = k.current
          /\ reprioritize(k, t, p).state = k.state
          /\ reprioritize(k, t, p).pend = k.pend
      BY <3>1, ReprioritizeOp
    <3> QED BY <2>1, <3>2
  <2>3. mode = "boot" => ~k'.pend
    BY <2>2 DEF IInv, CurrentIsKnown
  <2> QED BY <2>1, <2>2, <2>3, WakeKeepsIInv
<1>8. ASSUME SVC_Handler \/ context_switch PROVE IInv'
  BY <1>8, PickKeepsIInv DEF SVC_Handler, context_switch
<1>9. ASSUME PendSV_Enter PROVE IInv'
  <2>1. k' = [k EXCEPT !.pend = FALSE] /\ spawned' = spawned /\ mode' = "pendsv" /\ mode = "thread"
    BY <1>9 DEF PendSV_Enter
  <2>2. /\ IsKernel(k') /\ Untouched(k', k) /\ k'.fifo = k.fifo /\ k'.present = k.present
        /\ k'.state = k.state /\ k'.pend = FALSE
    <3>1. IsKernel(k)
      BY IInvFacts
    <3> QED BY <2>1, <3>1, ClearPend
  <2>3. HonestRings(k', spawned)
    BY <2>2, FrameHonest DEF Untouched
  <2> QED BY <2>1, <2>2, <2>3
          DEF IInv, TypeOK, RingsAreHonest, RunnerIsRunning, CurrentIsKnown, UnspawnedIsReady,
              Modes, Untouched
<1>10. ASSUME SysTick_Enter PROVE IInv'
  BY <1>10 DEF SysTick_Enter, IInv, TypeOK, RingsAreHonest, RunnerIsRunning, CurrentIsKnown,
               UnspawnedIsReady, Modes
<1>11. ASSUME SysTick_on_tick PROVE IInv'
  <2>1. k' = on_tick(k) /\ spawned' = spawned /\ mode' = "thread" /\ mode = "tick"
    BY <1>11 DEF SysTick_on_tick
  <2>2. k.current \in spawned => k.state[k.current] = "Running"
    BY <2>1 DEF IInv, RunnerIsRunning, TypeOK
  <2>3. /\ IsKernel(k') /\ HonestRings(k', spawned) /\ Untouched(k', k)
        /\ \/ k'.state = k.state /\ k'.pend = k.pend
           \/ /\ k.current \in spawned /\ k'.pend
              /\ k'.state = [k.state EXCEPT ![k.current] = "Ready"]
    BY <2>1, <2>2, OnTickOp
  <2>4. CASE k'.state = k.state /\ k'.pend = k.pend
    BY <2>1, <2>3, <2>4
       DEF IInv, TypeOK, RingsAreHonest, RunnerIsRunning, CurrentIsKnown, UnspawnedIsReady,
           Modes, Untouched
  <2>5. CASE k.current \in spawned /\ k'.pend /\ k'.state = [k.state EXCEPT ![k.current] = "Ready"]
    BY <2>1, <2>3, <2>5, StepDownKeepsIInv DEF Untouched
  <2> QED BY <2>3, <2>4, <2>5
<1>12. ASSUME UNCHANGED vars PROVE IInv'
  BY <1>12 DEF vars, IInv, TypeOK, RingsAreHonest, RunnerIsRunning, CurrentIsKnown, UnspawnedIsReady
<1> QED
  BY <1>1, <1>2, <1>3, <1>4, <1>5, <1>6, <1>7, <1>8, <1>9, <1>10, <1>11, <1>12
     DEF Next, Handlers, Calls

\* The inductive invariant holds of every reachable state.
LEMMA Invariance == Spec => []IInv
<1>1. Init => IInv
  BY InitIInv
<1>2. IInv /\ [Next]_vars => IInv'
  BY NextIInv
<1> QED BY <1>1, <1>2, PTL DEF Spec

\* Type correctness of the scheduler's fields: among them, that the slice
\* counter never passes kSliceTicks and that rings hold tasks only.
THEOREM TypeCorrect == Spec => []TypeOK
<1>1. IInv => TypeOK
  BY DEF IInv
<1> QED BY <1>1, Invariance, PTL

\* Whatever tasks, interrupts and handlers call in whatever order, no task
\* is lost from the ready rings or queued twice, and present_ never lies.
THEOREM RingsStayHonest == Spec => []RingsAreHonest
<1>1. IInv => RingsAreHonest
  BY DEF IInv
<1> QED BY <1>1, Invariance, PTL

\* current_ is the one Running task whenever the tick or a call trusts it.
THEOREM RunnerStaysRunning == Spec => []RunnerIsRunning
<1>1. IInv => RunnerIsRunning
  BY DEF IInv
<1> QED BY <1>1, Invariance, PTL

\* notify never moves current_.
LEMMA NotifyKeepsCurrent ==
  ASSUME NEW ker, IsKernel(ker), NEW t \in Tasks, NEW v \in Letters
  PROVE  notify(ker, t, v).current = ker.current
BY TasksAssumption DEF notify, ready, admit, push_back, request_switch, IsKernel, KernelType

\* A preempted task lost the processor to a strictly higher priority: only
\* pick_next_locked moves current_, and it puts a runner back in front.
THEOREM PreemptionIsByRank == Spec => PreemptedOnlyByHigher
<1> DEFINE A == k.current \in Tasks /\ k.state[k.current] = "Running" /\ k'.current # k.current
                  => k'.prio[k'.current] < k'.prio[k.current]
<1>1. ASSUME IInv, [Next]_vars PROVE A \/ UNCHANGED vars
  <2> USE IInvFacts, <1>1
  <2>1. ASSUME NEW t \in Tasks, Spawn(t) PROVE k'.current = k.current
    <3>1. t \in Tasks \ spawned /\ k' = admit(k, t)
      BY <2>1 DEF Spawn, add
    <3> QED BY <3>1, Admit DEF Untouched
  <2>2. ASSUME NEW t \in Tasks, Ready(t) PROVE k'.current = k.current
    <3>1. t \in spawned /\ k' = ready(k, t)
      BY <2>2 DEF Ready
    <3>2. Untouched(ready(k, t), k)
      BY <3>1, ReadyOp
    <3> QED BY <3>1, <3>2 DEF Untouched
  <2>3. ASSUME NEW t \in Tasks, NEW v \in Letters, Notify(t, v) PROVE k'.current = k.current
    <3>1. t \in spawned /\ k' = notify(k, t, v)
      BY <2>3 DEF Notify
    <3> QED BY <3>1, NotifyKeepsCurrent
  <2>4. ASSUME NEW t \in Tasks, Block(t) PROVE k'.current = k.current
    <3>1. k.current \in spawned /\ k.state[k.current] = "Running"
      BY <2>4, TaskRunsFacts DEF Block
    <3>2. block(k, k.current).current = k.current
      BY <3>1, BlockOp DEF Untouched
    <3> QED BY <2>4, <3>2, BlockCases
  <2>5. ASSUME Yield PROVE k'.current = k.current
    <3>1. k.current \in spawned /\ k.state[k.current] = "Running"
      BY <2>5, TaskRunsFacts DEF Yield
    <3> QED BY <2>5, <3>1, YieldOp DEF Yield, Untouched
  <2>6. ASSUME WaitNotify PROVE k'.current = k.current
    BY <2>6, WaitNotifyOp DEF WaitNotify
  <2>7. ASSUME NEW t \in Tasks, NEW p \in Levels, Reprioritize(t, p) PROVE k'.current = k.current
    BY <2>7, ReprioritizeOp DEF Reprioritize
  <2>8. ASSUME SVC_Handler \/ context_switch PROVE A
    BY <2>8, PickKeepsIInv DEF SVC_Handler, context_switch
  <2>9. ASSUME PendSV_Enter PROVE k'.current = k.current
    BY <2>9, ClearPend DEF PendSV_Enter, Untouched
  <2>10. ASSUME SysTick_Enter PROVE k'.current = k.current
    BY <2>10 DEF SysTick_Enter
  <2>11. ASSUME SysTick_on_tick PROVE k'.current = k.current
    <3>1. k.current \in spawned => k.state[k.current] = "Running"
      BY <2>11 DEF IInv, RunnerIsRunning, TypeOK, SysTick_on_tick
    <3> QED BY <2>11, <3>1, OnTickOp DEF SysTick_on_tick, Untouched
  <2> QED
    BY <2>1, <2>2, <2>3, <2>4, <2>5, <2>6, <2>7, <2>8, <2>9, <2>10, <2>11
       DEF Next, Handlers, Calls
<1>2. IInv /\ [Next]_vars => [A]_vars
  BY <1>1
<1> QED BY <1>2, Invariance, PTL DEF Spec, PreemptedOnlyByHigher

-----------------------------------------------------------------------------
(* First come, first served.                                               *)

\* t is linked before u.
Before(s, t, u) == \E i, j \in 1 .. Len(s) : i < j /\ s[i] = t /\ s[j] = u

\* Nobody overtakes in a ring that stands still, grows at its end or shrinks.
Steady(s, r) ==
  \/ r = s
  \/ \E e \in Tasks : r = Append(s, e) /\ ~Contains(s, e)
  \/ \E m, e : InsertedAt(s, r, m, e)

\* A node more does not change who is before whom among the others; at the
\* end it is before nobody.
LEMMA InsertedOrder ==
  ASSUME NEW r, NEW s, NEW m, NEW e, InsertedAt(r, s, m, e)
  PROVE  /\ \A t, u : Before(s, t, u) => Before(r, t, u)
         /\ \A t, u : Before(r, t, u) /\ t # e /\ u # e => Before(s, t, u)
         /\ \A t, u : m = Len(s) + 1 /\ Before(r, t, u) /\ u # e => Before(s, t, u)
<1>1. /\ Len(s) \in Nat /\ m \in 1 .. Len(s) + 1 /\ Len(r) = Len(s) + 1
      /\ \A i \in 1 .. Len(s) + 1 :
           r[i] = IF i < m THEN s[i] ELSE IF i = m THEN e ELSE s[i - 1]
  BY DEF InsertedAt
<1>2. ASSUME NEW t, NEW u, Before(s, t, u) PROVE Before(r, t, u)
  <2>1. PICK i, j \in 1 .. Len(s) : i < j /\ s[i] = t /\ s[j] = u
    BY <1>2 DEF Before
  <2> DEFINE a == IF i < m THEN i ELSE i + 1
             b == IF j < m THEN j ELSE j + 1
  <2>2. a \in 1 .. Len(r) /\ b \in 1 .. Len(r) /\ a < b
    BY <1>1, <2>1
  <2>3. r[a] = t
    BY <1>1, <2>1
  <2>4. r[b] = u
    BY <1>1, <2>1
  <2> HIDE DEF a, b
  <2> QED BY <2>2, <2>3, <2>4 DEF Before
<1>3. ASSUME NEW t, NEW u, Before(r, t, u), u # e, t # e \/ m = Len(s) + 1 PROVE Before(s, t, u)
  <2>1. PICK i, j \in 1 .. Len(r) : i < j /\ r[i] = t /\ r[j] = u
    BY <1>3 DEF Before
  <2>2. i # m /\ j # m
    BY <1>1, <1>3, <2>1
  <2> DEFINE a == IF i < m THEN i ELSE i - 1
             b == IF j < m THEN j ELSE j - 1
  <2>3. a \in 1 .. Len(s) /\ b \in 1 .. Len(s) /\ a < b
    BY <1>1, <2>1, <2>2
  <2>4. s[a] = t
    BY <1>1, <2>1, <2>2
  <2>5. s[b] = u
    BY <1>1, <2>1, <2>2
  <2> HIDE DEF a, b
  <2> QED BY <2>3, <2>4, <2>5 DEF Before
<1> QED BY <1>2, <1>3

\* In a steady ring nobody gets ahead of one that waits.
LEMMA SteadyOrder ==
  ASSUME NEW s \in Seq(Tasks), NEW r, Steady(s, r), NEW t, NEW u, Contains(s, u), Before(r, t, u)
  PROVE  Before(s, t, u)
<1>1. CASE r = s
  BY <1>1
<1>2. ASSUME NEW e \in Tasks, r = Append(s, e), ~Contains(s, e) PROVE Before(s, t, u)
  <2>1. InsertedAt(Append(s, e), s, Len(s) + 1, e)
    BY AppendInserts
  <2> DEFINE m == Len(s) + 1
  <2>2. InsertedAt(r, s, m, e) /\ u # e /\ m = Len(s) + 1
    BY <1>2, <2>1
  <2> HIDE DEF m
  <2> QED BY <2>2, InsertedOrder
<1>3. ASSUME NEW m, NEW e, InsertedAt(s, r, m, e) PROVE Before(s, t, u)
  BY <1>3, InsertedOrder
<1> QED BY <1>1, <1>2, <1>3 DEF Steady

\* What a step must do to every ring, but for the runner a switch puts back.
NoOvertaking ==
  \A t, u \in Tasks, l \in Levels :
    Waiting(k, u, l) /\ Waiting(k', u, l) /\ Ahead(k', t, u)
      => Ahead(k, t, u) \/ (t = k.current /\ mode = "pendsv")

\* Whoever waits in a ring waits in one only.
LEMMA AheadInRing ==
  ASSUME NEW ker, IsKernel(ker), NEW S, HonestRings(ker, S), NEW t, NEW u, NEW l \in Levels,
         Waiting(ker, u, l), Ahead(ker, t, u)
  PROVE  Before(ker.fifo[l], t, u)
<1>1. PICK m \in Levels : \E i, j \in 1 .. Len(ker.fifo[m]) :
        i < j /\ ker.fifo[m][i] = t /\ ker.fifo[m][j] = u
  BY DEF Ahead
<1>2. m = l
  BY <1>1 DEF Waiting, HonestRings, RingsHoldReadyTasks
<1> QED BY <1>1, <1>2 DEF Before

\* Steady rings.
LEMMA SteadyRings ==
  ASSUME IInv, IInv', \A l \in Levels : Steady(k.fifo[l], k'.fifo[l])
  PROVE  NoOvertaking
<1> SUFFICES ASSUME NEW t \in Tasks, NEW u \in Tasks, NEW l \in Levels,
                    Waiting(k, u, l), Waiting(k', u, l), Ahead(k', t, u)
             PROVE  Ahead(k, t, u)
  BY DEF NoOvertaking
<1>1. Before(k'.fifo[l], t, u)
  <2>1. IsKernel(k') /\ HonestRings(k', spawned')
    BY DEF IInv, TypeOK, RingsAreHonest
  <2> QED BY <2>1, AheadInRing
<1>2. k.fifo[l] \in Seq(Tasks)
  BY IInvFacts DEF IsKernel, KernelType
<1>3. Contains(k.fifo[l], u)
  BY DEF Waiting, Contains
<1>4. Before(k.fifo[l], t, u)
  BY <1>1, <1>2, <1>3, SteadyOrder
<1> QED BY <1>4 DEF Ahead, Before

\* One ring grows by a task that no ring holds.
LEMMA GrowingRing ==
  ASSUME IInv, NEW e \in Tasks, NEW p \in Levels, k.state[e] # "Ready" \/ e \notin spawned,
         k'.fifo = [k.fifo EXCEPT ![p] = Append(k.fifo[p], e)]
  PROVE  \A l \in Levels : Steady(k.fifo[l], k'.fifo[l])
<1>1. k.fifo \in [Levels -> Seq(Tasks)]
  BY IInvFacts DEF IsKernel, KernelType
<1>2. ~Contains(k.fifo[p], e)
  BY IInvFacts DEF Contains, HonestRings, RingsHoldReadyTasks
<1>3. k'.fifo[p] = Append(k.fifo[p], e) /\ \A l \in Levels \ {p} : k'.fifo[l] = k.fifo[l]
  BY <1>1
<1> QED BY <1>2, <1>3 DEF Steady

\* What push_back, and the calls built on it, do to the rings.
LEMMA PushBackRings ==
  ASSUME NEW ker, IsKernel(ker), NEW t \in Tasks
  PROVE  /\ ker.prio[t] \in Levels
         /\ push_back(ker, t).fifo = [ker.fifo EXCEPT ![ker.prio[t]] = Append(ker.fifo[ker.prio[t]], t)]
         /\ request_switch(push_back(ker, t)).fifo = push_back(ker, t).fifo
<1> DEFINE p == ker.prio[t]
           fifo == [ker.fifo EXCEPT ![p] = Append(ker.fifo[p], t)]
           q == push_back(ker, t)
<1>1. p \in Levels
  BY DEF IsKernel
<1>2. q = [ker EXCEPT !.state[t] = "Ready", !.fifo = fifo, !.present = ker.present \cup {p}]
  BY <1>1, LevelsAssumption DEF push_back, Levels
<1>3. q.fifo = fifo
  <2> HIDE DEF fifo
  <2> QED BY <1>2 DEF IsKernel, KernelType
<1>4. request_switch(q).fifo = q.fifo
  <2>1. q = [ker EXCEPT !.state[t] = "Ready", !.fifo = fifo, !.present = ker.present \cup {p}]
    BY <1>2
  <2> HIDE DEF q, fifo
  <2> QED BY <2>1 DEF request_switch, IsKernel, KernelType
<1> QED BY <1>1, <1>3, <1>4

\* admit and ready do to the rings what push_back does, or nothing.
LEMMA AdmitRings ==
  ASSUME NEW ker, IsKernel(ker), NEW t \in Tasks
  PROVE  /\ admit(ker, t).fifo = push_back(ker, t).fifo
         /\ ker.state[t] = "Blocked" => ready(ker, t).fifo = push_back(ker, t).fifo
         /\ ker.state[t] # "Blocked" => ready(ker, t).fifo = ker.fifo
<1> DEFINE q == push_back(ker, t)
<1>1. request_switch(q).fifo = q.fifo
  BY PushBackRings
<1>2. admit(ker, t) = q \/ admit(ker, t) = request_switch(q)
  BY DEF admit
<1> HIDE DEF q
<1>3. admit(ker, t).fifo = q.fifo
  BY <1>1, <1>2
<1> QED BY <1>3 DEF ready, q

\* push_front puts the task before everybody of its ring.
LEMMA PushFrontRings ==
  ASSUME NEW ker, IsKernel(ker), NEW t \in Tasks, NEW l \in Levels
  PROVE  LET after == push_front(ker, t).fifo[l] IN
           after = ker.fifo[l] \/ InsertedAt(after, ker.fifo[l], 1, t)
<1> DEFINE p == ker.prio[t]
           ring == << t >> \o ker.fifo[p]
           fifo == [ker.fifo EXCEPT ![p] = ring]
           state == [ker.state EXCEPT ![t] = "Ready"]
           present == ker.present \cup {p}
           q == [ker EXCEPT !.state = state, !.fifo = fifo, !.present = present]
<1>1. p \in Levels
  BY DEF IsKernel
<1>k. ker.fifo \in [Levels -> Seq(Tasks)] /\ ker \in KernelType
  BY DEF IsKernel, KernelType
<1>2. push_front(ker, t) = q
  BY <1>1, LevelsAssumption DEF push_front, Levels
<1>3. InsertedAt(ring, ker.fifo[p], 1, t)
  <2> HIDE DEF p
  <2> QED BY <1>1, <1>k, PrependInserts
<1>4. q.fifo = fifo
  <2> HIDE DEF fifo, state, present
  <2> QED BY <1>k DEF KernelType
<1>5. fifo[l] = IF l = p THEN ring ELSE ker.fifo[l]
  <2> HIDE DEF ring, p
  <2> QED BY <1>1, <1>k
<1> HIDE DEF q, fifo, ring
<1>6. push_front(ker, t).fifo[l] = fifo[l]
  BY <1>2, <1>4
<1> QED BY <1>3, <1>5, <1>6

\* What a move between rings does to them.
LEMMA ReprioritizeRings ==
  ASSUME IInv, NEW t \in spawned, NEW p \in Levels, k' = reprioritize(k, t, p)
  PROVE  \A l \in Levels : Steady(k.fifo[l], k'.fifo[l])
<1>1. IsKernel(k) /\ HonestRings(k, spawned) /\ t \in Tasks /\ k.fifo \in [Levels -> Seq(Tasks)]
  BY IInvFacts DEF IsKernel, KernelType
<1>2. CASE k.prio[t] = p \/ k.state[t] # "Ready"
  <2>1. k'.fifo = k.fifo
    BY <1>1, <1>2 DEF reprioritize, IsKernel, KernelType
  <2> QED BY <2>1 DEF Steady
<1>3. CASE k.prio[t] # p /\ k.state[t] = "Ready"
  <2> DEFINE old == k.prio[t]
             ring == remove(k.fifo[old], t)
             fifo == [k.fifo EXCEPT ![old] = ring]
             prio == [k.prio EXCEPT ![t] = p]
             present == IF ring = << >> THEN k.present \ {old} ELSE k.present
             z == [k EXCEPT !.fifo = fifo, !.present = present, !.prio = prio]
  <2>1. k' = push_back(z, t)
    BY <1>3 DEF reprioritize
  <2>2. old \in Levels /\ old # p /\ k.fifo[old] \in Seq(Tasks)
    BY <1>1, <1>3 DEF IsKernel
  <2>3. ring \in Seq(Tasks) /\ (ring = k.fifo[old] \/ \E m : InsertedAt(k.fifo[old], ring, m, t))
    <3> HIDE DEF old
    <3> QED BY <2>2, RemoveRemoves
  <2> HIDE DEF ring
  <2>4. /\ fifo \in [Levels -> Seq(Tasks)] /\ fifo[old] = ring
        /\ \A l \in Levels \ {old} : fifo[l] = k.fifo[l]
        /\ present \in SUBSET Levels
        /\ prio \in [Threads -> Levels \cup {kIdlePrio}] /\ prio[t] = p
        /\ (\A u \in Tasks : prio[u] \in Levels) /\ prio[Idle] = kIdlePrio
    BY <1>1, <2>2, <2>3, TasksAssumption DEF IsKernel, KernelType, Threads
  <2> HIDE DEF fifo, present, prio, old
  <2>5. IsKernel(z) /\ z.fifo = fifo /\ z.prio = prio
    BY <1>1, <2>4 DEF IsKernel, KernelType
  <2> HIDE DEF z
  <2>6. k'.fifo = [fifo EXCEPT ![p] = Append(fifo[p], t)]
    <3>1. t \in Tasks /\ IsKernel(z)
      BY <1>1, <2>5
    <3>2. push_back(z, t).fifo = [z.fifo EXCEPT ![z.prio[t]] = Append(z.fifo[z.prio[t]], t)]
      BY <3>1, PushBackRings
    <3> QED BY <2>1, <2>4, <2>5, <3>2
  <2>7. k'.fifo[p] = Append(k.fifo[p], t) /\ k'.fifo[old] = ring
        /\ \A l \in Levels \ {old, p} : k'.fifo[l] = k.fifo[l]
    BY <2>2, <2>4, <2>6
  <2>8. ~Contains(k.fifo[p], t)
    BY <1>1, <1>3 DEF Contains, HonestRings, RingsHoldReadyTasks
  <2>9. Steady(k.fifo[p], k'.fifo[p])
    BY <1>1, <2>7, <2>8 DEF Steady
  <2>10. Steady(k.fifo[old], k'.fifo[old])
    BY <2>3, <2>7 DEF Steady
  <2>11. ASSUME NEW l \in Levels \ {old, p} PROVE Steady(k.fifo[l], k'.fifo[l])
    BY <2>7 DEF Steady
  <2> QED BY <2>9, <2>10, <2>11
<1> QED BY <1>2, <1>3

\* A pick takes the head off one ring, after a runner went back to the front.
LEMMA PickOrder ==
  ASSUME NEW ker, IsKernel(ker), NEW S \in SUBSET Tasks, HonestRings(ker, S),
         ker.current \in S \cup {Idle, None},
         \A x \in S : ker.state[x] = "Running" => x = ker.current,
         NEW q, q = pick_next_locked(ker), NEW t, NEW u, NEW l \in Levels,
         Waiting(ker, u, l), Before(q.fifo[l], t, u)
  PROVE  Before(ker.fifo[l], t, u) \/ (t = ker.current /\ ker.current \in Tasks)
<1> DEFINE b == IF ker.current \in Tasks /\ ker.state[ker.current] = "Running"
                THEN push_front(ker, ker.current) ELSE ker
           top == find_first_set(b.present)
           next == IF b.present = {} THEN Idle ELSE Head(b.fifo[top])
           r == IF b.present = {} THEN b ELSE pop_level(b, top)
           state == [r.state EXCEPT ![next] = "Running"]
<1>2. IsKernel(b) /\ HonestRings(b, S)
  BY PutBack
<1>3. q = [r EXCEPT !.current = next, !.served = 0, !.state = state]
  BY DEF pick_next_locked
<1>4. \/ b.fifo[l] = ker.fifo[l]
      \/ /\ ker.current \in Tasks /\ ker.state[ker.current] = "Running"
         /\ InsertedAt(b.fifo[l], ker.fifo[l], 1, ker.current)
  <2>1. CASE ker.current \in Tasks /\ ker.state[ker.current] = "Running"
    <3>1. b = push_front(ker, ker.current)
      BY <2>1
    <3> HIDE DEF b
    <3> QED BY <2>1, <3>1, PushFrontRings
  <2>2. CASE ~(ker.current \in Tasks /\ ker.state[ker.current] = "Running")
    BY <2>2
  <2> QED BY <2>1, <2>2
<1> HIDE DEF b
<1>5. q.fifo = r.fifo
  <2>1. b \in KernelType
    BY <1>2 DEF IsKernel
  <2>2. CASE b.present = {}
    BY <1>3, <2>1, <2>2 DEF KernelType
  <2>3. CASE b.present # {}
    <3> DEFINE fifo == [b.fifo EXCEPT ![top] = Tail(b.fifo[top])]
               present == IF Len(b.fifo[top]) = 1 THEN b.present \ {top} ELSE b.present
    <3>1. r = [b EXCEPT !.fifo = fifo, !.present = present]
      BY <2>3 DEF pop_level
    <3> HIDE DEF fifo, present, next, top, r, state
    <3> QED BY <1>3, <2>1, <3>1 DEF KernelType
  <2> QED BY <2>2, <2>3
<1>6. r.fifo[l] = b.fifo[l] \/ \E m, e : InsertedAt(b.fifo[l], r.fifo[l], m, e)
  <2>1. CASE b.present = {}
    BY <2>1
  <2>2. CASE b.present # {}
    <3>1. top \in Levels /\ TopLevel(b) = top /\ top \in b.present
      <4>1. TopLevel(b) \in Levels
        BY <1>2, <2>2, PopHighest
      <4>2. b.present \in SUBSET Levels
        BY <1>2 DEF IsKernel, KernelType
      <4>3. find_first_set(b.present) \in b.present
        BY <2>2, <4>2, FirstSet
      <4> QED BY <4>1, <4>3 DEF TopLevel
    <3>2. b.fifo[top] # << >> /\ b.fifo \in [Levels -> Seq(Tasks)]
      BY <1>2, <3>1 DEF HonestRings, PresentIsNonEmpty, IsKernel, KernelType
    <3>3. InsertedAt(b.fifo[top], Tail(b.fifo[top]), 1, Head(b.fifo[top]))
      BY <3>1, <3>2, TailRemoves
    <3>4. r.fifo = [b.fifo EXCEPT ![top] = Tail(b.fifo[top])]
      <4> DEFINE fifo == [b.fifo EXCEPT ![top] = Tail(b.fifo[top])]
                 present == IF Len(b.fifo[top]) = 1 THEN b.present \ {top} ELSE b.present
      <4>1. r = [b EXCEPT !.fifo = fifo, !.present = present] /\ b \in KernelType
        BY <1>2, <2>2 DEF pop_level, IsKernel
      <4> HIDE DEF fifo, present, top, r
      <4>2. r.fifo = fifo
        BY <4>1 DEF KernelType
      <4> QED BY <4>2 DEF fifo
    <3> HIDE DEF top, r
    <3>5. r.fifo[l] = IF l = top THEN Tail(b.fifo[top]) ELSE b.fifo[l]
      BY <3>2, <3>4
    <3> QED BY <3>3, <3>5
  <2> QED BY <2>1, <2>2
<1>7. Before(b.fifo[l], t, u)
  BY <1>5, <1>6, InsertedOrder
<1>8. ker.state[u] = "Ready"
  BY DEF Waiting, HonestRings, RingsHoldReadyTasks
<1> QED BY <1>4, <1>7, <1>8, InsertedOrder

\* No step but a pick lets anybody overtake, and a pick only the runner.
LEMMA NextOvertakesNobody ==
  ASSUME IInv, Next
  PROVE  NoOvertaking
<1>0. IInv'
  BY NextIInv
<1>1. IsKernel(k) /\ spawned \in SUBSET Tasks /\ k \in KernelType
  BY IInvFacts DEF IsKernel
<1>2. ASSUME k'.fifo = k.fifo PROVE NoOvertaking
  BY <1>0, <1>2, SteadyRings DEF Steady
<1>3. ASSUME NEW e \in Tasks, NEW p \in Levels, k.state[e] # "Ready" \/ e \notin spawned,
             k'.fifo = [k.fifo EXCEPT ![p] = Append(k.fifo[p], e)]
      PROVE  NoOvertaking
  BY <1>0, <1>3, GrowingRing, SteadyRings
<1>p. ASSUME NEW ker, IsKernel(ker), ker.fifo = k.fifo, ker.prio = k.prio, NEW e \in Tasks,
             k.state[e] # "Ready" \/ e \notin spawned, k'.fifo = push_back(ker, e).fifo
      PROVE  NoOvertaking
  <2> DEFINE p == k.prio[e]
  <2>1. IsKernel(ker) /\ e \in Tasks
    BY <1>p
  <2>2. /\ ker.prio[e] \in Levels
        /\ push_back(ker, e).fifo = [ker.fifo EXCEPT ![ker.prio[e]] = Append(ker.fifo[ker.prio[e]], e)]
    BY <2>1, PushBackRings
  <2>3. p \in Levels /\ k'.fifo = [k.fifo EXCEPT ![p] = Append(k.fifo[p], e)]
    BY <1>p, <2>2
  <2> HIDE DEF p
  <2> QED BY <1>p, <1>3, <2>3
<1>4. ASSUME NEW t \in Tasks, Spawn(t) PROVE NoOvertaking
  <2>1. t \notin spawned /\ k' = admit(k, t)
    BY <1>4 DEF Spawn, add
  <2>2. k'.fifo = push_back(k, t).fifo
    BY <1>1, <2>1, AdmitRings
  <2> QED BY <1>1, <1>p, <2>1, <2>2
<1>5. ASSUME NEW t \in Tasks, Ready(t) PROVE NoOvertaking
  <2>1. k' = ready(k, t)
    BY <1>5 DEF Ready
  <2>2. CASE k.state[t] = "Blocked"
    <3>1. k'.fifo = push_back(k, t).fifo
      BY <1>1, <2>1, <2>2, AdmitRings
    <3> QED BY <1>1, <1>p, <2>2, <3>1
  <2>3. CASE k.state[t] # "Blocked"
    <3>1. k'.fifo = k.fifo
      BY <1>1, <2>1, <2>3, AdmitRings
    <3> QED BY <1>2, <3>1
  <2> QED BY <2>2, <2>3
<1>6. ASSUME NEW t \in Tasks, NEW v \in Letters, Notify(t, v) PROVE NoOvertaking
  <2> DEFINE z == [k EXCEPT !.letter[t] = v, !.has[t] = TRUE]
  <2>1. k' = ready(z, t)
    BY <1>6, TasksAssumption DEF Notify, notify
  <2>2. IsKernel(z) /\ z.prio = k.prio /\ z.state = k.state /\ z.fifo = k.fifo
    <3> DEFINE letter == [k.letter EXCEPT ![t] = v]
               has == [k.has EXCEPT ![t] = TRUE]
    <3>1. z = [k EXCEPT !.letter = letter, !.has = has]
      OBVIOUS
    <3>2. letter \in [Tasks -> Letters] /\ has \in [Tasks -> BOOLEAN]
      BY <1>1 DEF KernelType
    <3> HIDE DEF letter, has, z
    <3> QED BY <1>1, <3>1, <3>2 DEF IsKernel, KernelType
  <2> HIDE DEF z
  <2>3. CASE k.state[t] = "Blocked"
    <3>1. k'.fifo = push_back(z, t).fifo
      BY <2>1, <2>2, <2>3, AdmitRings
    <3> QED BY <1>p, <2>2, <2>3, <3>1
  <2>4. CASE k.state[t] # "Blocked"
    <3>1. k'.fifo = z.fifo
      BY <2>1, <2>2, <2>4, AdmitRings
    <3> QED BY <1>2, <2>2, <3>1
  <2> QED BY <2>3, <2>4
<1>7. ASSUME NEW t \in Tasks, Block(t) PROVE NoOvertaking
  <2>1. k'.fifo = k.fifo
    BY <1>1, <1>7 DEF Block, block, request_switch, KernelType
  <2> QED BY <1>2, <2>1
<1>8. ASSUME NEW ker, IsKernel(ker), ker.fifo = k.fifo, ker.prio = k.prio, ker.current = k.current,
             k.current \in Tasks, k.state[k.current] = "Running",
             k' = request_switch(push_back(ker, ker.current))
      PROVE  NoOvertaking
  <2>1. IsKernel(ker) /\ ker.current \in Tasks
    BY <1>8
  <2>2. request_switch(push_back(ker, ker.current)).fifo = push_back(ker, ker.current).fifo
    BY <2>1, PushBackRings
  <2>3. k'.fifo = push_back(ker, k.current).fifo
    BY <1>8, <2>2
  <2> QED BY <1>p, <1>8, <2>3
<1>9. ASSUME Yield PROVE NoOvertaking
  <2>1. k.current \in Tasks /\ k.state[k.current] = "Running"
    BY <1>9, TaskRunsFacts DEF Yield
  <2>2. k' = request_switch(push_back(k, k.current))
    BY <1>9, <2>1, TasksAssumption DEF Yield, yield
  <2> QED BY <1>1, <1>8, <2>1, <2>2
<1>10. ASSUME WaitNotify PROVE NoOvertaking
  <2>1. k'.fifo = k.fifo
    BY <1>1, <1>10 DEF WaitNotify, wait_notify, KernelType
  <2> QED BY <1>2, <2>1
<1>11. ASSUME NEW t \in Tasks, NEW p \in Levels, Reprioritize(t, p) PROVE NoOvertaking
  <2>1. t \in spawned /\ k' = reprioritize(k, t, p)
    BY <1>11 DEF Reprioritize
  <2> QED BY <1>0, <2>1, ReprioritizeRings, SteadyRings
<1>12. ASSUME SVC_Handler \/ context_switch PROVE NoOvertaking
  <2> SUFFICES ASSUME NEW t \in Tasks, NEW u \in Tasks, NEW l \in Levels,
                      Waiting(k, u, l), Waiting(k', u, l), Ahead(k', t, u)
               PROVE  Ahead(k, t, u) \/ (t = k.current /\ mode = "pendsv")
    BY DEF NoOvertaking
  <2>1. k' = pick_next_locked(k) /\ mode \in {"boot", "pendsv"}
    BY <1>12 DEF SVC_Handler, context_switch
  <2>2. Before(k'.fifo[l], t, u)
    <3>1. IsKernel(k') /\ HonestRings(k', spawned')
      BY <1>0 DEF IInv, TypeOK, RingsAreHonest
    <3> QED BY <3>1, AheadInRing
  <2>3. Before(k.fifo[l], t, u) \/ (t = k.current /\ k.current \in Tasks)
    <3>1. /\ IsKernel(k) /\ HonestRings(k, spawned) /\ spawned \in SUBSET Tasks
          /\ k.current \in spawned \cup {Idle, None}
          /\ \A x \in spawned : k.state[x] = "Running" => x = k.current
      BY IInvFacts
    <3> DEFINE q == pick_next_locked(k)
    <3>2. Before(q.fifo[l], t, u)
      BY <2>1, <2>2
    <3> HIDE DEF q
    <3>3. \A p : p = q => Before(k.fifo[l], t, u) \/ (t = k.current /\ k.current \in Tasks)
      BY <3>1, <3>2, PickOrder DEF q
    <3> QED BY <3>3
  <2>4. mode = "boot" => k.current \notin Tasks
    BY TasksAssumption DEF IInv, CurrentIsKnown
  <2> QED BY <2>1, <2>3, <2>4 DEF Ahead, Before
<1>13. ASSUME PendSV_Enter \/ SysTick_Enter PROVE NoOvertaking
  <2>1. k'.fifo = k.fifo
    BY <1>1, <1>13 DEF PendSV_Enter, SysTick_Enter, KernelType
  <2> QED BY <1>2, <2>1
<1>14. ASSUME SysTick_on_tick PROVE NoOvertaking
  <2> DEFINE z == [k EXCEPT !.served = 0]
  <2>1. /\ IsKernel(z) /\ z.fifo = k.fifo /\ z.prio = k.prio /\ z.current = k.current
    <3>1. 0 \in 0 .. kSliceTicks - 1
      BY SliceAssumption
    <3> QED BY <1>1, <3>1 DEF IsKernel, KernelType
  <2>2. \/ k' = k \/ k' = [k EXCEPT !.served = k.served + 1] \/ k' = z
        \/ k.current \notin {None, Idle} /\ k' = request_switch(push_back(z, k.current))
    BY <1>14 DEF SysTick_on_tick, on_tick
  <2>3. CASE k' = k \/ k' = [k EXCEPT !.served = k.served + 1] \/ k' = z
    <3>1. k'.fifo = k.fifo
      BY <1>1, <2>3 DEF KernelType
    <3> QED BY <1>2, <3>1
  <2>4. CASE k.current \notin {None, Idle} /\ k' = request_switch(push_back(z, k.current))
    <3>1. k.current \in Tasks
      BY <2>4, IInvFacts
    <3>2. k.state[k.current] = "Running"
      BY <1>14, <3>1 DEF IInv, RunnerIsRunning, SysTick_on_tick
    <3> HIDE DEF z
    <3> QED BY <1>8, <2>1, <2>4, <3>1, <3>2
  <2> QED BY <2>2, <2>3, <2>4
<1> QED BY <1>4, <1>5, <1>6, <1>7, <1>9, <1>10, <1>11, <1>12, <1>13, <1>14
        DEF Next, Handlers, Calls

\* Nobody gets ahead of a task that waits in a ring, whatever tasks,
\* interrupts and handlers call: push_back links behind everyone, removals
\* keep the order, and push_front is for the runner a pick displaces.
THEOREM RingsAreFirstComeFirstServed == Spec => FirstComeFirstServed
<1>1. IInv /\ [Next]_vars => [NoOvertaking]_vars
  BY NextOvertakesNobody
<1>2. [NoOvertaking]_vars =>
        [\A t, u \in Tasks, l \in Levels :
           Waiting(k, u, l) /\ Waiting(k', u, l) /\ Ahead(k', t, u)
             => Ahead(k, t, u) \/ (t = k.current /\ mode = "pendsv")]_vars
  BY DEF NoOvertaking
<1> QED BY <1>1, <1>2, Invariance, PTL DEF Spec, FirstComeFirstServed

-----------------------------------------------------------------------------
(* Strict priority, when only waiters move priorities.                     *)

\* A boost is one of the scheduler's steps.
LEMMA BoostIsNext == IInv /\ [BoostNext]_vars => [Next]_vars
<1> SUFFICES ASSUME IInv, BoostNext PROVE Next
  BY DEF vars
<1>1. ASSUME NEW t \in Tasks, Boost(t) PROVE Next
  <2>1. k.prio[k.current] \in Levels /\ Reprioritize(t, k.prio[k.current])
    BY <1>1, IInvFacts DEF Boost, IsKernel
  <2> QED BY <2>1 DEF Next
<1> QED BY <1>1 DEF BoostNext, Next

\* A step that readies at most one task, and pends a switch if that task
\* outranks the runner, keeps strict priority.
LEMMA WakeKeepsPriority ==
  ASSUME IInv, StrictPriority, NEW t \in Tasks, mode' = mode, spawned' \subseteq spawned \cup {t},
         k'.prio = k.prio, k'.current = k.current, k.pend => k'.pend,
         k.current # None /\ k.prio[t] < k.prio[k.current] => k'.pend,
         k'.state = k.state \/ k'.state = [k.state EXCEPT ![t] = "Ready"]
  PROVE  StrictPriority'
<1> SUFFICES ASSUME k.current # None, ~k'.pend, mode # "pendsv",
                    NEW u \in spawned', k'.state[u] = "Ready"
             PROVE  k.prio[k.current] <= k.prio[u]
  BY DEF StrictPriority
<1>1. /\ \A v \in Threads : k.prio[v] \in Int
      /\ k.current \in Threads /\ t \in Threads
      /\ k.state \in [Threads -> TaskState] /\ spawned \subseteq Threads
  BY IInvFacts, LevelsAssumption DEF IsKernel, KernelType, Levels, kIdlePrio, Threads
<1>2. CASE u = t
  BY <1>1, <1>2
<1>3. CASE u # t
  <2>1. u \in spawned /\ k.state[u] = "Ready"
    BY <1>1, <1>3
  <2> QED BY <2>1 DEF StrictPriority
<1> QED BY <1>2, <1>3

\* Every step of the boosting scheduler keeps strict priority.
LEMMA NextStrict == IInv /\ StrictPriority /\ [BoostNext]_vars => StrictPriority'
<1> SUFFICES ASSUME IInv, StrictPriority, [BoostNext]_vars PROVE StrictPriority'
  OBVIOUS
<1> USE IInvFacts
<1>1. ASSUME NEW t \in Tasks, Spawn(t) PROVE StrictPriority'
  <2>1. t \in Tasks \ spawned /\ k' = admit(k, t) /\ spawned' = spawned \cup {t} /\ mode' = mode
    BY <1>1 DEF Spawn, add
  <2>2. /\ Untouched(k', k) /\ k'.state = [k.state EXCEPT ![t] = "Ready"]
        /\ k.pend => k'.pend
        /\ k.current # None /\ k.prio[t] < k.prio[k.current] => k'.pend
    BY <2>1, Admit
  <2> QED BY <2>1, <2>2, WakeKeepsPriority DEF Untouched
<1>2. ASSUME NEW t \in Tasks, Ready(t) PROVE StrictPriority'
  <2>1. t \in spawned /\ k' = ready(k, t) /\ spawned' = spawned /\ mode' = mode
    BY <1>2 DEF Ready
  <2>2. /\ Untouched(k', k)
        /\ k.pend => k'.pend
        /\ \/ k' = k
           \/ /\ k'.state = [k.state EXCEPT ![t] = "Ready"]
              /\ k.current # None /\ k.prio[t] < k.prio[k.current] => k'.pend
    BY <2>1, ReadyOp
  <2>3. CASE k' = k
    BY <2>1, <2>3 DEF StrictPriority
  <2>4. CASE k' # k
    BY <2>1, <2>2, <2>4, WakeKeepsPriority DEF Untouched
  <2> QED BY <2>3, <2>4
<1>3. ASSUME NEW t \in Tasks, NEW v \in Letters, Notify(t, v) PROVE StrictPriority'
  <2>1. t \in spawned /\ k' = notify(k, t, v) /\ spawned' = spawned /\ mode' = mode
    BY <1>3 DEF Notify
  <2>2. /\ k'.prio = k.prio /\ k'.current = k.current
        /\ k.pend => k'.pend
        /\ \/ k'.state = k.state
           \/ /\ k'.state = [k.state EXCEPT ![t] = "Ready"]
              /\ k.current # None /\ k.prio[t] < k.prio[k.current] => k'.pend
    BY <2>1, NotifyOp
  <2>3. CASE k'.state = k.state
    BY <2>1, <2>2, <2>3 DEF StrictPriority
  <2>4. CASE k'.state # k.state
    BY <2>1, <2>2, <2>4, WakeKeepsPriority
  <2> QED BY <2>3, <2>4
<1>4. ASSUME NEW t \in Tasks, Block(t) PROVE StrictPriority'
  <2>1. k.current \in spawned /\ k.state[k.current] = "Running"
    BY <1>4, TaskRunsFacts DEF Block
  <2>2. CASE k' = block(k, k.current)
    <3>1. k'.pend
      BY <2>1, <2>2, BlockOp
    <3> QED BY <3>1 DEF StrictPriority
  <2>3. CASE k' = k
    BY <1>4, <2>3, BlockCases DEF StrictPriority
  <2> QED BY <1>4, <2>2, <2>3, BlockCases
<1>5. ASSUME Yield PROVE StrictPriority'
  <2>1. k.current \in spawned /\ k.state[k.current] = "Running"
    BY <1>5, TaskRunsFacts DEF Yield
  <2>2. k'.pend
    BY <1>5, <2>1, YieldOp DEF Yield
  <2> QED BY <2>2 DEF StrictPriority
<1>6. ASSUME WaitNotify PROVE StrictPriority'
  <2>1. k'.prio = k.prio /\ k'.current = k.current /\ k'.state = k.state /\ k'.pend = k.pend
    BY <1>6, WaitNotifyOp DEF WaitNotify
  <2> QED BY <1>6, <2>1 DEF StrictPriority, WaitNotify
<1>7. ASSUME NEW t \in Tasks, Boost(t) PROVE StrictPriority'
  <2> DEFINE p == k.prio[k.current]
  <2>1. /\ t \in spawned /\ t # k.current /\ p \in Levels /\ k.current \in Tasks
        /\ k' = reprioritize(k, t, p) /\ spawned' = spawned /\ mode' = mode
    BY <1>7 DEF Boost, Reprioritize, IsKernel
  <2> HIDE DEF p
  <2>2. /\ reprioritize(k, t, p).prio[t] = p
        /\ \A u \in Threads \ {t} : reprioritize(k, t, p).prio[u] = k.prio[u]
        /\ reprioritize(k, t, p).state = k.state
        /\ reprioritize(k, t, p).current = k.current
        /\ reprioritize(k, t, p).pend = k.pend
    BY <2>1, ReprioritizeOp
  <2>3. k.current \in Threads /\ spawned \subseteq Threads /\ p \in Int
    BY <2>1, LevelsAssumption DEF Threads, Levels
  <2> QED BY <2>1, <2>2, <2>3 DEF StrictPriority, p
<1>8. ASSUME SVC_Handler \/ context_switch PROVE StrictPriority'
  <2>1. \A t \in spawned : k'.state[t] = "Ready" => k'.prio[k'.current] <= k'.prio[t]
    BY <1>8, PickKeepsIInv DEF SVC_Handler, context_switch
  <2> QED BY <1>8, <2>1 DEF StrictPriority, SVC_Handler, context_switch
<1>9. ASSUME PendSV_Enter PROVE StrictPriority'
  BY <1>9 DEF PendSV_Enter, StrictPriority
<1>10. ASSUME SysTick_Enter PROVE StrictPriority'
  BY <1>10 DEF SysTick_Enter, StrictPriority
<1>11. ASSUME SysTick_on_tick PROVE StrictPriority'
  <2>1. k' = on_tick(k) /\ spawned' = spawned /\ mode = "tick"
    BY <1>11 DEF SysTick_on_tick
  <2>2. k.current \in spawned => k.state[k.current] = "Running"
    BY <2>1 DEF IInv, RunnerIsRunning, TypeOK
  <2>3. /\ Untouched(k', k)
        /\ \/ k'.state = k.state /\ k'.pend = k.pend
           \/ k'.pend
    BY <2>1, <2>2, OnTickOp
  <2> QED BY <2>1, <2>3 DEF StrictPriority, Untouched
<1>12. ASSUME UNCHANGED vars PROVE StrictPriority'
  BY <1>12 DEF vars, StrictPriority
<1> QED
  BY <1>1, <1>2, <1>3, <1>4, <1>5, <1>6, <1>7, <1>8, <1>9, <1>10, <1>11, <1>12
     DEF BoostNext, Handlers, Calls

\* No Ready task ever outranks the running one while no switch is pending,
\* as long as priorities move only by a waiter's boost.
THEOREM PriorityIsStrict == SchedulerSpec => []NobodyOutranks
<1> DEFINE Inv == IInv /\ NobodyOutranks
<1>1. SchedulerInit => Inv
  <2>1. Init => k.current = None
    BY DEF Init, InitialKernel
  <2> QED BY <2>1, InitIInv DEF SchedulerInit, StrictPriority, NobodyOutranks
<1>2. Inv /\ [SchedulerNext]_<< vars, boosts >> => Inv'
  <2> SUFFICES ASSUME Inv, [SchedulerNext]_<< vars, boosts >> PROVE Inv'
    OBVIOUS
  <2>1. boosts' = boosts /\ [Next]_vars /\ (boosts => [BoostNext]_vars)
    BY BoostIsNext DEF SchedulerNext, vars
  <2>2. IInv'
    BY <2>1, NextIInv
  <2>3. NobodyOutranks'
    BY <2>1, NextStrict DEF NobodyOutranks
  <2> QED BY <2>2, <2>3
<1> QED BY <1>1, <1>2, PTL DEF SchedulerSpec
=============================================================================
