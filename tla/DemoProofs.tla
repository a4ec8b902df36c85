----------------------------- MODULE DemoProofs -----------------------------
(***************************************************************************)
(* What the round-robin demo and the measurement demo are there to show,   *)
(* for any number of tasks, ticks in a slice and rounds.                   *)
(***************************************************************************)
EXTENDS PerfDemo, Spinners, Uart, TaskSystemProofs

-----------------------------------------------------------------------------
(* The round-robin demo.                                                   *)

\* Nobody ever sleeps, so the spinners that are not done stand in one ring.
AllPeers ==
  /\ \A t, u \in Tasks : k.prio[t] = k.prio[u]
  /\ \A t \in Tasks : alarm[t] = "none"

\* Whoever waits for the processor starts from nothing, and whoever has it
\* got no more than the slice has lasted, unless nobody waits.
ShareInSlice ==
  /\ share \in [Tasks -> 0 .. kSliceTicks]
  /\ \A t \in Tasks : t # k.current /\ k.state[t] # "Blocked" => share[t] = 0
  /\ k.current \in Tasks /\ ~k.pend =>
       share[k.current] <= k.served \/ Peers(k.current) = {}

\* A switch is due only when the runner is done or stands behind a peer.
SwitchHandsOn ==
  /\ k.pend =>
       /\ k.current \in Tasks /\ k.state[k.current] # "Running"
       /\ k.state[k.current] = "Ready" => k.fifo[k.prio[k.current]][1] # k.current
  /\ mode = "tick" => ~k.pend

SpinInv == SystemSound(Tasks) /\ AllPeers /\ ShareInSlice /\ SwitchHandsOn

\* A pick that puts nobody back takes the head of the highest ring, and gives
\* it a whole slice.
LEMMA FreshPick ==
  ASSUME NEW ker, IsKernel(ker), ~(ker.current \in Tasks /\ ker.state[ker.current] = "Running"),
         NEW q, q = pick_next_locked(ker)
  PROVE  /\ q.served = 0
         /\ ker.present = {} => q.current = Idle
         /\ ker.present # {} => q.current = TopTask(ker)
<1> DEFINE b == IF ker.current \in Tasks /\ ker.state[ker.current] = "Running"
                THEN push_front(ker, ker.current) ELSE ker
           next == IF b.present = {} THEN Idle ELSE TopTask(b)
           r == IF b.present = {} THEN b ELSE Popped(b)
<1>a. q = [r EXCEPT !.current = next, !.served = 0, !.state[next] = "Running"]
  BY DEF pick_next_locked, Popped, TopTask, TopLevel
<1>b. b = ker
  OBVIOUS
<1> HIDE DEF b
<1>1. CASE ker.present = {}
  <2>1. r = ker /\ next = Idle
    BY <1>1, <1>b
  <2> HIDE DEF r, next
  <2> QED BY <1>1, <1>a, <2>1 DEF IsKernel, KernelType
<1>2. CASE ker.present # {}
  <2>1. r = Popped(ker) /\ next = TopTask(ker)
    BY <1>2, <1>b
  <2>2. "current" \in DOMAIN Popped(ker) /\ "served" \in DOMAIN Popped(ker)
    BY DEF Popped, pop_level, IsKernel, KernelType
  <2> HIDE DEF r, next
  <2> QED BY <1>2, <1>a, <2>1, <2>2
<1> QED BY <1>1, <1>2

\* Waking nobody changes nothing.
LEMMA WakingNobody ==
  ASSUME NEW order \in SetToSeqs({})
  PROVE  wake_from_sleep(k, order) = k
<1>1. Len(order) \in Nat /\ \A i \in 1 .. Len(order) : order[i] \in {}
  BY EnumerationFacts
<1>2. Len(order) = 0
  BY <1>1
<1>3. WakeRun(k, order)[0] = k
  BY <1>2, WakeRunExists
<1> QED BY <1>2, <1>3, WakeRunIs

\* With no alarm booked a tick wakes nobody.
LEMMA NobodyWakes ==
  ASSUME AllPeers, SysTick_Elapsed
  PROVE  /\ k' = k /\ alarm' = [t \in Tasks |-> alarm[t]]
         /\ mode = "thread" /\ ~k.pend /\ mode' = "tick"
<1>1. PICK passed \in SUBSET {t \in Tasks : ahead[t]},
           forgotten \in SUBSET {t \in Tasks : alarm[t] = "stale"} :
             SysTick_on_elapsed(passed, forgotten)
  BY DEF SysTick_Elapsed
<1> DEFINE due == {t \in passed : alarm[t] = "live"} \cup forgotten
<1>2. /\ mode = "thread" /\ ~k.pend /\ mode' = "tick"
      /\ alarm' = [t \in Tasks |-> IF t \in due THEN "none" ELSE alarm[t]]
      /\ \E order \in SetToSeqs(due) : k' = wake_from_sleep(k, order)
  BY <1>1 DEF SysTick_on_elapsed
<1>3. due = {}
  BY <1>1 DEF AllPeers
<1> HIDE DEF due
<1>4. PICK order \in SetToSeqs({}) : k' = wake_from_sleep(k, order)
  BY <1>2, <1>3
<1>5. k' = k
  BY <1>4, WakingNobody
<1> QED BY <1>2, <1>3, <1>5

\* The first pick and every switch hand the processor to one who starts afresh.
LEMMA PicksHandOn ==
  ASSUME SpinInv, k' = pick_next_locked([k EXCEPT !.pend = FALSE]),
         mode' = "thread", alarm' = alarm, ahead' = ahead,
         k.current \in Tasks => k.pend,
         \/ share' = share /\ k.current = None
         \/ share' = [t \in Tasks |-> IF k'.current \notin {t, Idle} THEN 0 ELSE share[t]]
  PROVE  SpinInv'
<1> DEFINE ker == [k EXCEPT !.pend = FALSE]
<1>1. /\ SystemSound(Tasks) /\ IsKernel(k) /\ HonestRings(k, Tasks) /\ RunnerIsKnown(Tasks)
      /\ AllPeers /\ ShareInSlice /\ SwitchHandsOn
  BY DEF SpinInv, SystemSound, SystemType
<1>2. SystemSound(Tasks)' /\ HandlerEffect(Tasks)
  BY <1>1, PickIsSound
<1>3. /\ IsKernel(ker) /\ Untouched(ker, k) /\ ker.fifo = k.fifo /\ ker.present = k.present
      /\ ker.state = k.state /\ ker.pend = FALSE
  BY <1>1 DEF IsKernel, KernelType, Untouched
<1>4. k' = pick_next_locked(ker)
  OBVIOUS
<1> HIDE DEF ker
<1>5. HonestRings(ker, Tasks)
  BY <1>1, <1>3, FrameHonest DEF Untouched
<1>6. /\ ker.current = k.current /\ ker.prio = k.prio
      /\ ker.current \in Tasks \cup {Idle, None}
      /\ \A t \in Tasks : ker.state[t] = "Running" => t = ker.current
  BY <1>1, <1>3 DEF RunnerIsKnown, Untouched
<1>7. ~(ker.current \in Tasks /\ ker.state[ker.current] = "Running")
  BY <1>1, <1>3, <1>6 DEF SwitchHandsOn
<1>8. /\ k'.served = 0
      /\ ker.present = {} => k'.current = Idle
      /\ ker.present # {} => k'.current = TopTask(ker)
  BY <1>3, <1>4, <1>7, FreshPick
<1>9. /\ k'.pend = FALSE /\ k'.prio = k.prio /\ k'.current \in Tasks \cup {Idle}
      /\ \A t \in Tasks : k'.state[t] = "Blocked" <=> k.state[t] = "Blocked"
  <2> DEFINE q == pick_next_locked(ker)
  <2>1. /\ q.prio = ker.prio /\ q.pend = ker.pend /\ q.current \in Tasks \cup {Idle}
        /\ \A t \in Tasks : q.state[t] = "Blocked" <=> ker.state[t] = "Blocked"
    BY <1>3, <1>5, <1>6, PickOp
  <2>2. k' = q
    BY <1>4
  <2> HIDE DEF q
  <2> QED BY <1>3, <1>6, <2>1, <2>2
<1>10. k'.current \in Tasks => k'.current # k.current /\ k.state[k'.current] = "Ready"
  <2> SUFFICES ASSUME k'.current \in Tasks PROVE k'.current # k.current /\ k.state[k'.current] = "Ready"
    OBVIOUS
  <2>1. ker.present # {}
    BY <1>8, TasksAssumption
  <2> DEFINE c == TopTask(ker)
  <2>2. /\ c \in Tasks /\ ker.prio[c] = TopLevel(ker)
        /\ c = ker.fifo[TopLevel(ker)][1] /\ ker.state[c] = "Ready"
    BY <1>3, <1>5, <2>1, PopHighest
  <2>3. k'.current = c
    BY <1>8, <2>1
  <2> HIDE DEF c
  <2>4. ASSUME c = k.current PROVE FALSE
    <3>1. k.pend /\ k.state[k.current] = "Ready"
      BY <1>3, <2>2, <2>4
    <3>2. k.fifo[k.prio[k.current]][1] # k.current
      BY <1>1, <3>1 DEF SwitchHandsOn
    <3> QED BY <1>3, <1>6, <2>2, <2>4, <3>2
  <2> QED BY <1>3, <2>2, <2>3, <2>4
<1>11. k'.current = Idle => \A t \in Tasks : k.state[t] = "Blocked"
  <2> SUFFICES ASSUME k'.current = Idle, NEW t \in Tasks PROVE k.state[t] = "Blocked"
    OBVIOUS
  <2>1. ker.present = {}
    <3> SUFFICES ASSUME ker.present # {} PROVE FALSE
      OBVIOUS
    <3>1. TopTask(ker) \in Tasks
      BY <1>3, <1>5, PopHighest
    <3> QED BY <1>8, <3>1, TasksAssumption
  <2>2. ker.prio[t] \in Levels /\ ker.state[t] \in TaskState
    BY <1>3 DEF IsKernel, KernelType, Threads
  <2>3. ker.fifo[ker.prio[t]] = << >>
    BY <1>5, <2>1, <2>2 DEF HonestRings, PresentIsNonEmpty
  <2>4. ker.state[t] # "Ready"
    BY <1>5, <2>3 DEF HonestRings, ReadyTasksAreInRings
  <2>5. ker.state[t] # "Running"
    BY <1>6, <1>7
  <2> QED BY <1>3, <2>2, <2>4, <2>5 DEF TaskState
<1>12. AllPeers'
  BY <1>1, <1>9 DEF AllPeers
<1>13. SwitchHandsOn'
  BY <1>9 DEF SwitchHandsOn
<1>14. ShareInSlice'
  <2>1. /\ share \in [Tasks -> 0 .. kSliceTicks]
        /\ \A t \in Tasks : t # k.current /\ k.state[t] # "Blocked" => share[t] = 0
    BY <1>1 DEF ShareInSlice
  <2>2. share' \in [Tasks -> 0 .. kSliceTicks]
    BY <2>1, SliceAssumption
  <2>3. ASSUME NEW t \in Tasks, t # k'.current, k'.state[t] # "Blocked"
        PROVE  share'[t] = 0
    <3>1. k.state[t] # "Blocked" /\ k'.current # Idle
      BY <1>9, <1>11, <2>3
    <3>2. CASE share' = share /\ k.current = None
      BY <2>1, <3>1, <3>2, TasksAssumption
    <3>3. CASE share' = [u \in Tasks |-> IF k'.current \notin {u, Idle} THEN 0 ELSE share[u]]
      BY <2>3, <3>1, <3>3
    <3> QED BY <3>2, <3>3
  <2>4. ASSUME k'.current \in Tasks PROVE share'[k'.current] = 0
    <3>1. share[k'.current] = 0
      BY <1>10, <2>1, <2>4
    <3> QED BY <2>4, <3>1
  <2>5. k'.current \in Tasks => share'[k'.current] <= k'.served
    BY <1>8, <2>4
  <2> QED BY <2>2, <2>3, <2>5 DEF ShareInSlice
<1> QED BY <1>2, <1>12, <1>13, <1>14 DEF SpinInv

\* A tick that ends a slice puts the runner behind the peers that wait.
LEMMA TicksAreCounted ==
  ASSUME SpinInv, Tick
  PROVE  SpinInv'
<1>1. /\ SystemSound(Tasks) /\ IsKernel(k) /\ HonestRings(k, Tasks) /\ RunnerIsKnown(Tasks)
      /\ AllPeers /\ ShareInSlice /\ SwitchHandsOn
  BY DEF SpinInv, SystemSound, SystemType
<1>2. /\ SysTick_on_tick /\ mode = "tick" /\ mode' = "thread" /\ k' = on_tick(k) /\ alarm' = alarm
      /\ share' = [t \in Tasks |-> IF t = k.current /\ Peers(t) # {}
                                   THEN share[t] + 1 ELSE share[t]]
  BY DEF Tick, SysTick_on_tick
<1>3. SystemSound(Tasks)' /\ HandlerEffect(Tasks)
  BY <1>1, <1>2, TickIsSound
<1>4. /\ ~k.pend /\ k.served \in 0 .. kSliceTicks - 1 /\ kSliceTicks \in Nat
      /\ share \in [Tasks -> 0 .. kSliceTicks]
      /\ k.current \in Tasks \cup {Idle, None}
  BY <1>1, <1>2, SliceAssumption DEF SwitchHandsOn, ShareInSlice, RunnerIsKnown, IsKernel, KernelType
<1>5. AllPeers'
  BY <1>1, <1>2, <1>3 DEF AllPeers, HandlerEffect
<1>6. CASE k.current \notin Tasks
  <2>1. k' = k /\ share' = share
    BY <1>2, <1>4, <1>6, TasksAssumption DEF on_tick
  <2>2. SwitchHandsOn' /\ ShareInSlice'
    BY <1>1, <1>4, <2>1 DEF SwitchHandsOn, ShareInSlice, Peers
  <2> QED BY <1>3, <1>5, <2>2 DEF SpinInv
<1>7. CASE k.current \in Tasks
  <2> DEFINE t == k.current
             p == k.prio[t]
  <2>1. /\ t \in Tasks /\ t \notin {None, Idle} /\ k.state[t] = "Running"
        /\ p \in Levels /\ t \in Threads
    BY <1>1, <1>2, <1>7, TasksAssumption DEF RunnerIsKnown, IsKernel, Threads
  <2>2. /\ \A u \in Tasks \ {t} : share'[u] = share[u]
        /\ share'[t] = IF Peers(t) # {} THEN share[t] + 1 ELSE share[t]
        /\ DOMAIN share' = Tasks
    BY <1>2, <2>1
  <2>3. /\ share[t] \in 0 .. kSliceTicks
        /\ share[t] <= k.served \/ Peers(t) = {}
    BY <1>1, <1>4, <2>1 DEF ShareInSlice
  <2>4. share'[t] \in 0 .. kSliceTicks /\ (share'[t] <= k.served + 1 \/ Peers(t) = {})
    BY <1>4, <2>2, <2>3
  <2>5. share' \in [Tasks -> 0 .. kSliceTicks]
    BY <1>2, <1>4, <2>2, <2>4
  <2>6. \A u \in Tasks : u # t /\ k.state[u] # "Blocked" => share'[u] = 0
    BY <1>1, <2>2 DEF ShareInSlice
  <2> HIDE DEF t, p
  <2>7. CASE k.served + 1 < kSliceTicks
    <3>1. k' = [k EXCEPT !.served = @ + 1]
      BY <1>2, <2>1, <2>7 DEF on_tick, t
    <3>2. /\ k'.served = k.served + 1 /\ k'.current = t /\ k'.state = k.state /\ k'.pend = FALSE
      BY <1>1, <1>4, <3>1 DEF IsKernel, KernelType, t
    <3>3. ShareInSlice'
      BY <2>4, <2>5, <2>6, <3>2 DEF ShareInSlice, Peers
    <3>4. SwitchHandsOn'
      BY <1>2, <3>2 DEF SwitchHandsOn
    <3> QED BY <1>3, <1>5, <3>3, <3>4 DEF SpinInv
  <2>8. CASE ~(k.served + 1 < kSliceTicks) /\ k.fifo[p] = << >>
    <3>1. k' = [k EXCEPT !.served = 0]
      BY <1>2, <2>1, <2>8 DEF on_tick, t, p
    <3>2. /\ k'.served = 0 /\ k'.current = t /\ k'.state = k.state /\ k'.pend = FALSE
      BY <1>1, <1>4, <3>1 DEF IsKernel, KernelType, t
    <3>3. Peers(t) = {}
      <4> SUFFICES ASSUME NEW u \in Tasks, u # t, k.state[u] = "Ready" PROVE FALSE
        BY DEF Peers
      <4>1. k.prio[u] = p
        BY <1>1, <2>1 DEF AllPeers, p
      <4> QED BY <1>1, <2>8, <4>1 DEF HonestRings, ReadyTasksAreInRings
    <3>4. ShareInSlice'
      BY <2>5, <2>6, <3>2, <3>3 DEF ShareInSlice, Peers
    <3>5. SwitchHandsOn'
      BY <1>2, <3>2 DEF SwitchHandsOn
    <3> QED BY <1>3, <1>5, <3>4, <3>5 DEF SpinInv
  <2>9. CASE ~(k.served + 1 < kSliceTicks) /\ k.fifo[p] # << >>
    <3> DEFINE z == [k EXCEPT !.served = 0]
    <3>1. k' = request_switch(push_back(z, t))
      BY <1>2, <2>1, <2>9 DEF on_tick, t, p
    <3>a. 0 \in 0 .. kSliceTicks - 1
      BY SliceAssumption
    <3>2. /\ z.prio = k.prio /\ z.fifo = k.fifo /\ z.state = k.state /\ z.current = t
          /\ z \in KernelType
      BY <1>1, <3>a DEF IsKernel, KernelType, t
    <3> HIDE DEF z
    <3>3. ~(z.prio[t] >= kPriorityLevels) /\ z.prio[t] = p
      BY <2>1, <3>2, LevelsAssumption DEF Levels, p
    <3>4. k' = [[z EXCEPT !.state[t] = "Ready", !.fifo[p] = Append(@, t),
                          !.present = @ \cup {p}] EXCEPT !.pend = TRUE]
      BY <3>1, <3>3 DEF push_back, request_switch
    <3>5. /\ k'.pend = TRUE /\ k'.current = t
          /\ k'.fifo[p] = Append(k.fifo[p], t)
          /\ k'.state = [k.state EXCEPT ![t] = "Ready"]
          /\ k'.prio = k.prio
      BY <2>1, <3>2, <3>4 DEF KernelType
    <3>6. k.fifo[p] \in Seq(Tasks) /\ Len(k.fifo[p]) \in Nat /\ Len(k.fifo[p]) >= 1
      BY <1>1, <2>1, <2>9 DEF IsKernel, KernelType
    <3>7. k'.fifo[p][1] = k.fifo[p][1]
      BY <2>1, <3>5, <3>6
    <3>8. k.state[k.fifo[p][1]] = "Ready"
      BY <1>1, <2>1, <3>6 DEF HonestRings, RingsHoldReadyTasks
    <3>9. \A u \in Tasks : u # t => k'.state[u] = k.state[u]
      BY <1>1, <3>5 DEF IsKernel, KernelType, Threads
    <3>10. k'.state[t] = "Ready"
      BY <1>1, <2>1, <3>5 DEF IsKernel, KernelType
    <3>11. SwitchHandsOn'
      BY <1>2, <2>1, <3>5, <3>7, <3>8, <3>10 DEF SwitchHandsOn, p
    <3>12. ShareInSlice'
      BY <2>5, <2>6, <3>5, <3>9 DEF ShareInSlice
    <3> QED BY <1>3, <1>5, <3>11, <3>12 DEF SpinInv
  <2> QED BY <2>7, <2>8, <2>9
<1> QED BY <1>6, <1>7

\* A spinner that computes its deadline, or is done, leaves every share as it is.
LEMMA SpinnersStep ==
  ASSUME SpinInv, NEW t \in Tasks, spinner(t) \/ spinner_done(t)
  PROVE  SpinInv'
<1>1. /\ SystemSound(Tasks) /\ AllPeers /\ ShareInSlice /\ SwitchHandsOn
      /\ alarm \in [Tasks -> {"none", "live", "stale"}] /\ ahead \in [Tasks -> BOOLEAN]
  BY DEF SpinInv, SystemSound, SystemType
<1>2. CASE spinner(t)
  <2>1. k' = k /\ mode' = mode /\ alarm' = alarm /\ share' = share /\ ahead' \in [Tasks -> BOOLEAN]
    BY <1>1, <1>2 DEF spinner
  <2>2. SystemSound(Tasks)'
    BY <1>1, <2>1 DEF SystemSound, SystemType, RunnerIsKnown
  <2>3. AllPeers' /\ SwitchHandsOn'
    BY <1>1, <2>1 DEF AllPeers, SwitchHandsOn
  <2>4. ShareInSlice'
    BY <1>1, <2>1 DEF ShareInSlice, Peers
  <2> QED BY <2>2, <2>3, <2>4 DEF SpinInv
<1>3. CASE spinner_done(t)
  <2>1. /\ Runs(t) /\ k' = block(k, t) /\ mode' = mode /\ alarm' = alarm /\ ahead' = ahead
        /\ share' = share
    BY <1>3 DEF spinner_done, Moves
  <2>2. /\ SystemSound(Tasks)'
        /\ k'.prio = k.prio /\ k'.current = k.current /\ k'.pend
        /\ k'.state[t] = "Blocked"
        /\ \A u \in Threads \ {t} : k'.state[u] = k.state[u]
    BY <1>1, <2>1, BlockIsSound
  <2>3. k.current = t /\ mode = "thread"
    BY <2>1 DEF Runs
  <2>4. AllPeers'
    BY <1>1, <2>1, <2>2 DEF AllPeers
  <2>5. SwitchHandsOn'
    BY <2>1, <2>2, <2>3 DEF SwitchHandsOn
  <2>6. ShareInSlice'
    BY <1>1, <2>1, <2>2, <2>3 DEF ShareInSlice, Threads
  <2> QED BY <2>2, <2>4, <2>5, <2>6 DEF SpinInv
<1> QED BY <1>2, <1>3

\* The demo starts with nobody served.
LEMMA SpinStarts ==
  ASSUME PeersAssumption, SpinInit
  PROVE  SpinInv
<1>1. /\ Spawned(Tasks, Prio) /\ Prio \in [Tasks -> Levels]
      /\ share = [t \in Tasks |-> 0]
  BY PrioAssumption DEF SpinInit, SystemInit, SpinBuilt
<1>2. /\ SystemSound(Tasks)
      /\ \A t \in Tasks : k.prio[t] = Prio[t] /\ k.state[t] = "Ready"
      /\ \A t \in Tasks : alarm[t] = "none"
  BY <1>1, SpawnedIsSound
<1>3. k.current = None /\ ~k.pend /\ mode = "boot"
  BY <1>1, <1>2 DEF SystemSound, RunnerIsKnown, Spawned
<1>4. AllPeers
  BY <1>2 DEF AllPeers, PeersAssumption
<1>5. ShareInSlice
  BY <1>1, <1>3, SliceAssumption, TasksAssumption DEF ShareInSlice
<1>6. SwitchHandsOn
  BY <1>3 DEF SwitchHandsOn
<1> QED BY <1>2, <1>4, <1>5, <1>6 DEF SpinInv

\* Every step of the demo keeps the shares within the slice.
LEMMA SpinStep ==
  ASSUME SpinInv, [SpinNext]_spinvars
  PROVE  SpinInv'
<1>1. /\ SystemSound(Tasks) /\ IsKernel(k) /\ RunnerIsKnown(Tasks)
      /\ AllPeers /\ ShareInSlice /\ SwitchHandsOn
      /\ alarm \in [Tasks -> {"none", "live", "stale"}]
  BY DEF SpinInv, SystemSound, SystemType
<1>2. CASE SVC_Handler /\ UNCHANGED << spinPc, share >>
  <2>1. mode = "boot" /\ k.current = None /\ ~k.pend
    BY <1>1, <1>2 DEF SVC_Handler, RunnerIsKnown
  <2>2. k = [k EXCEPT !.pend = FALSE]
    BY <1>1, <2>1 DEF IsKernel, KernelType
  <2>3. /\ k' = pick_next_locked([k EXCEPT !.pend = FALSE]) /\ mode' = "thread"
        /\ alarm' = alarm /\ ahead' = ahead /\ share' = share
    BY <1>2, <2>2 DEF SVC_Handler
  <2> QED BY <2>1, <2>3, TasksAssumption, PicksHandOn
<1>3. CASE SysTick_Elapsed /\ UNCHANGED << spinPc, share >>
  <2>1. /\ k' = k /\ alarm' = [t \in Tasks |-> alarm[t]] /\ share' = share
        /\ mode = "thread" /\ ~k.pend /\ mode' = "tick"
    BY <1>1, <1>3, NobodyWakes
  <2>2. SystemSound(Tasks)'
    BY <1>1, <1>3, ElapsedIsSound
  <2>3. AllPeers'
    BY <1>1, <2>1 DEF AllPeers
  <2>4. SwitchHandsOn'
    BY <2>1 DEF SwitchHandsOn
  <2>5. ShareInSlice'
    BY <1>1, <2>1 DEF ShareInSlice, Peers
  <2> QED BY <2>2, <2>3, <2>4, <2>5 DEF SpinInv
<1>4. CASE Tick
  BY <1>4, TicksAreCounted
<1>5. CASE PendSV
  <2>1. /\ mode = "thread" /\ k.pend /\ k' = pick_next_locked([k EXCEPT !.pend = FALSE])
        /\ mode' = "thread" /\ alarm' = alarm /\ ahead' = ahead
        /\ share' = [t \in Tasks |-> IF k'.current \notin {t, Idle} THEN 0 ELSE share[t]]
    BY <1>5 DEF PendSV, PendSV_Handler
  <2> QED BY <2>1, PicksHandOn
<1>6. ASSUME NEW t \in Tasks, spinner(t) \/ spinner_done(t)
      PROVE  SpinInv'
  BY <1>6, SpinnersStep
<1>7. CASE UNCHANGED spinvars
  <2>1. k' = k /\ mode' = mode /\ alarm' = alarm /\ ahead' = ahead /\ share' = share
    BY <1>7 DEF spinvars, sysvars
  <2>2. SystemSound(Tasks)'
    BY <1>1, <2>1 DEF SystemSound, SystemType, RunnerIsKnown
  <2>3. AllPeers' /\ SwitchHandsOn'
    BY <1>1, <2>1 DEF AllPeers, SwitchHandsOn
  <2>4. ShareInSlice'
    BY <1>1, <2>1 DEF ShareInSlice, Peers
  <2> QED BY <2>2, <2>3, <2>4 DEF SpinInv
<1> QED BY <1>2, <1>3, <1>4, <1>5, <1>6, <1>7 DEF SpinNext

\* The slices of on_tick share the processor out: no spinner gets more ticks in
\* a row than a slice has while a peer waits.
THEOREM SlicesAreFair ==
  ASSUME PeersAssumption
  PROVE  SpinSpec => []TurnsAreFair
<1>1. SpinInit => SpinInv
  BY SpinStarts
<1>2. SpinInv /\ [SpinNext]_spinvars => SpinInv'
  BY SpinStep
<1>3. SpinInv => TurnsAreFair
  <2> SUFFICES ASSUME SpinInv, NEW t \in Tasks PROVE share[t] <= kSliceTicks
    BY DEF TurnsAreFair
  <2>1. share[t] \in 0 .. kSliceTicks
    BY DEF SpinInv, ShareInSlice
  <2> QED BY <2>1, SliceAssumption
<1> QED BY <1>1, <1>2, <1>3, PTL DEF SpinSpec

-----------------------------------------------------------------------------
(* The measurement demo.                                                   *)

\* The mailbox flags of the kernel are what they were.
MailKept(q, ker) == "has" \in DOMAIN q /\ q.has = ker.has

\* Whatever else an operation does, only notify and wait_notify touch a mailbox.
LEMMA OpsKeepMail ==
  ASSUME NEW ker, "has" \in DOMAIN ker
  PROVE  /\ \A t : MailKept(block(ker, t), ker)
         /\ \A t : MailKept(ready(ker, t), ker)
         /\ MailKept(yield(ker), ker)
         /\ MailKept(on_tick(ker), ker)
         /\ MailKept(pick_next_locked(ker), ker)
         /\ MailKept(pick_next_locked([ker EXCEPT !.pend = FALSE]), ker)
<1>1. ASSUME NEW q, "has" \in DOMAIN q
      PROVE  MailKept(request_switch(q), q)
  BY <1>1 DEF MailKept, request_switch
<1>2. ASSUME NEW q, "has" \in DOMAIN q, NEW t
      PROVE  MailKept(push_back(q, t), q) /\ MailKept(push_front(q, t), q)
  BY <1>2 DEF MailKept, push_back, push_front
<1>3. ASSUME NEW t PROVE MailKept(block(ker, t), ker)
  BY DEF MailKept, block, request_switch
<1>r. ASSUME NEW t PROVE MailKept(ready(ker, t), ker)
  <2>1. \/ ready(ker, t) = ker \/ ready(ker, t) = push_back(ker, t)
        \/ ready(ker, t) = request_switch(push_back(ker, t))
    BY DEF ready, admit
  <2> QED BY <1>1, <1>2, <2>1 DEF MailKept
<1>4. MailKept(yield(ker), ker)
  BY <1>1, <1>2 DEF MailKept, yield
<1>5. MailKept(on_tick(ker), ker)
  <2> DEFINE z == [ker EXCEPT !.served = 0]
             y == [ker EXCEPT !.served = @ + 1]
  <2>1. MailKept(z, ker) /\ MailKept(y, ker) /\ MailKept(ker, ker)
    BY DEF MailKept
  <2>2. \/ on_tick(ker) = ker \/ on_tick(ker) = z \/ on_tick(ker) = y
        \/ on_tick(ker) = request_switch(push_back(z, ker.current))
    BY DEF on_tick
  <2> HIDE DEF z, y
  <2> QED BY <1>1, <1>2, <2>1, <2>2 DEF MailKept
<1>6. ASSUME NEW q, "has" \in DOMAIN q
      PROVE  MailKept(pick_next_locked(q), q)
  <2> DEFINE b == IF q.current \in Tasks /\ q.state[q.current] = "Running"
                  THEN push_front(q, q.current) ELSE q
             next == IF b.present = {} THEN Idle ELSE TopTask(b)
             r == IF b.present = {} THEN b ELSE Popped(b)
  <2>1. pick_next_locked(q) = [r EXCEPT !.current = next, !.served = 0, !.state[next] = "Running"]
    BY DEF pick_next_locked, Popped, TopTask, TopLevel
  <2>2. MailKept(b, q)
    BY <1>2, <1>6 DEF MailKept
  <2> HIDE DEF b
  <2>3. MailKept(Popped(b), q)
    BY <2>2 DEF MailKept, Popped, pop_level
  <2>4. MailKept(r, q)
    BY <2>2, <2>3
  <2> HIDE DEF r, next
  <2> QED BY <2>1, <2>4 DEF MailKept
<1>7. MailKept([ker EXCEPT !.pend = FALSE], ker)
  BY DEF MailKept
<1>8. MailKept(pick_next_locked([ker EXCEPT !.pend = FALSE]), ker)
  BY <1>6, <1>7 DEF MailKept
<1> QED BY <1>3, <1>r, <1>4, <1>5, <1>6, <1>8

\* The reporter's letter, wherever it is, was written after pong's last round.
LetterIsLast ==
  /\ "has" \in DOMAIN k /\ DOMAIN k.has = Tasks /\ DOMAIN got = Tasks
  /\ k.has[reporter] => step[pong] = "done"
  /\ got[reporter] # None => step[pong] = "done"
  /\ report => step[pong] = "done"

PlayersType ==
  /\ ping_turn \in BOOLEAN
  /\ rounds \in [Players -> 0 .. kRounds]
  /\ step \in [Players -> {"spin", "turn", "yield", "done"}]
  /\ stamp \in Nat
  /\ tallied \in Seq(Nat)

\* pong has tallied the rounds it has played, and the one it is about to end.
PongCounts ==
  /\ step[pong] \in {"spin", "yield", "done"}
  /\ step[pong] = "yield" => rounds[pong] < kRounds /\ Len(tallied) = rounds[pong] + 1
  /\ step[pong] # "yield" => Len(tallied) = rounds[pong]
  /\ step[pong] = "done" => rounds[pong] = kRounds

\* With its turn ping is about to stamp, or has stamped, the round after those
\* that are tallied; when the turn is pong's, that round carries its stamp.
PingKeepsPace ==
  LET n == Len(tallied)
  IN  /\ step[ping] \in {"spin", "turn", "yield"}
      /\ ping_turn =>
           /\ step[ping] \in {"spin", "turn"} => rounds[ping] = n
           /\ step[ping] = "turn" => stamp = n + 1
           /\ step[ping] = "yield" => rounds[ping] + 1 = n
      /\ ~ping_turn =>
           /\ stamp = n + 1
           /\ step[ping] # "turn"
           /\ step[ping] = "yield" => rounds[ping] = n
           /\ step[ping] = "spin" => rounds[ping] = n + 1

TalliesAreOwn == \A i \in 1 .. Len(tallied) : tallied[i] = i

Game == PlayersType /\ PongCounts /\ PingKeepsPace /\ TalliesAreOwn

PerfInv == LetterIsLast /\ Game

\* Whatever leaves the players alone leaves the game as it is.
LEMMA GameStands ==
  ASSUME Game, UNCHANGED demovars
  PROVE  Game'
BY DEF Game, demovars, PlayersType, PongCounts, PingKeepsPace, TalliesAreOwn

\* The players' own steps, wherever a slice ends between them.
LEMMA GameGoesOn ==
  ASSUME CastAssumption, Game,
         \/ PingStamps \/ PingTurns \/ PongTallies \/ PongNotifies
         \/ \E p \in Players : Yields(p)
  PROVE  Game' /\ (step[pong] = "done" => step'[pong] = "done") /\ report' = report
<1> DEFINE n == Len(tallied)
<1>1. /\ ping \in Players /\ pong \in Players /\ ping # pong /\ kRounds \in Nat
      /\ \A p \in Players : p = ping \/ p = pong
  BY DEF CastAssumption, Players
<1>2. /\ PlayersType /\ PongCounts /\ PingKeepsPace /\ TalliesAreOwn /\ n \in Nat
      /\ rounds[ping] \in 0 .. kRounds /\ rounds[pong] \in 0 .. kRounds
  BY <1>1 DEF Game, PlayersType
<1>3. CASE PingStamps
  <2>1. /\ step[ping] = "spin" /\ ping_turn /\ rounds[ping] < kRounds
        /\ stamp' = rounds[ping] + 1 /\ step' = [step EXCEPT ![ping] = "turn"]
        /\ ping_turn' = ping_turn /\ rounds' = rounds /\ tallied' = tallied /\ report' = report
    BY <1>3 DEF PingStamps, Plays
  <2>2. step'[ping] = "turn" /\ step'[pong] = step[pong] /\ rounds[ping] = n /\ stamp' = n + 1
    BY <1>1, <1>2, <2>1 DEF PlayersType, PingKeepsPace
  <2>3. PlayersType'
    BY <1>1, <1>2, <2>1 DEF PlayersType
  <2>4. PongCounts' /\ TalliesAreOwn'
    BY <1>2, <2>1, <2>2 DEF PongCounts, TalliesAreOwn
  <2>5. PingKeepsPace'
    BY <1>2, <2>1, <2>2 DEF PingKeepsPace
  <2> QED BY <2>1, <2>2, <2>3, <2>4, <2>5 DEF Game
<1>4. CASE PingTurns
  <2>1. /\ step[ping] = "turn" /\ ping_turn' = FALSE /\ step' = [step EXCEPT ![ping] = "yield"]
        /\ rounds' = rounds /\ stamp' = stamp /\ tallied' = tallied /\ report' = report
    BY <1>4 DEF PingTurns, Plays
  <2>2. /\ step'[ping] = "yield" /\ step'[pong] = step[pong]
        /\ rounds[ping] = n /\ stamp = n + 1
    BY <1>1, <1>2, <2>1 DEF PlayersType, PingKeepsPace
  <2>3. PlayersType'
    BY <1>1, <1>2, <2>1 DEF PlayersType
  <2>4. PongCounts' /\ TalliesAreOwn'
    BY <1>2, <2>1, <2>2 DEF PongCounts, TalliesAreOwn
  <2>5. PingKeepsPace'
    BY <1>2, <2>1, <2>2 DEF PingKeepsPace
  <2> QED BY <2>1, <2>2, <2>3, <2>4, <2>5 DEF Game
<1>5. CASE PongTallies
  <2>1. /\ step[pong] = "spin" /\ ~ping_turn /\ rounds[pong] < kRounds
        /\ tallied' = Append(tallied, stamp) /\ ping_turn' = TRUE
        /\ step' = [step EXCEPT ![pong] = "yield"]
        /\ rounds' = rounds /\ stamp' = stamp /\ report' = report
    BY <1>5 DEF PongTallies, Plays
  <2>2. step'[pong] = "yield" /\ step'[ping] = step[ping] /\ stamp = n + 1 /\ n = rounds[pong]
    BY <1>1, <1>2, <2>1 DEF PlayersType, PingKeepsPace, PongCounts
  <2>3. /\ Len(tallied') = n + 1 /\ tallied' \in Seq(Nat)
        /\ \A i \in 1 .. n : tallied'[i] = tallied[i]
        /\ tallied'[n + 1] = stamp
    BY <1>2, <2>1 DEF PlayersType
  <2>4. PlayersType'
    BY <1>1, <1>2, <2>1, <2>3 DEF PlayersType
  <2>5. TalliesAreOwn'
    <3> SUFFICES ASSUME NEW i \in 1 .. n + 1 PROVE tallied'[i] = i
      BY <2>3 DEF TalliesAreOwn
    <3>1. CASE i \in 1 .. n
      BY <1>2, <2>3, <3>1 DEF TalliesAreOwn
    <3>2. CASE i = n + 1
      BY <2>2, <2>3, <3>2
    <3> QED BY <1>2, <3>1, <3>2
  <2>6. PongCounts'
    BY <1>2, <2>1, <2>2, <2>3 DEF PongCounts
  <2>7. PingKeepsPace'
    BY <1>2, <2>1, <2>2, <2>3 DEF PingKeepsPace
  <2> QED BY <2>1, <2>2, <2>4, <2>5, <2>6, <2>7 DEF Game
<1>6. CASE PongNotifies
  <2>1. /\ rounds[pong] = kRounds /\ step[pong] = "spin" /\ step' = [step EXCEPT ![pong] = "done"]
        /\ ping_turn' = ping_turn /\ rounds' = rounds /\ stamp' = stamp /\ tallied' = tallied
        /\ report' = report
    BY <1>6 DEF PongNotifies
  <2>2. step'[pong] = "done" /\ step'[ping] = step[ping]
    BY <1>1, <1>2, <2>1 DEF PlayersType
  <2>3. PlayersType'
    BY <1>1, <1>2, <2>1 DEF PlayersType
  <2>4. PongCounts' /\ TalliesAreOwn'
    BY <1>2, <2>1, <2>2 DEF PongCounts, TalliesAreOwn
  <2>5. PingKeepsPace'
    BY <1>2, <2>1, <2>2 DEF PingKeepsPace
  <2> QED BY <2>1, <2>2, <2>3, <2>4, <2>5 DEF Game
<1>7. ASSUME NEW p \in Players, Yields(p)
      PROVE  Game' /\ (step[pong] = "done" => step'[pong] = "done") /\ report' = report
  <2>1. /\ step[p] = "yield" /\ rounds[p] < kRounds
        /\ rounds' = [rounds EXCEPT ![p] = @ + 1] /\ step' = [step EXCEPT ![p] = "spin"]
        /\ ping_turn' = ping_turn /\ stamp' = stamp /\ tallied' = tallied /\ report' = report
    BY <1>7 DEF Yields, Plays
  <2>2. PlayersType'
    <3>1. rounds[p] + 1 \in 0 .. kRounds
      BY <1>1, <1>2, <2>1 DEF PlayersType
    <3> QED BY <1>1, <1>2, <2>1, <3>1 DEF PlayersType
  <2>3. TalliesAreOwn'
    BY <1>2, <2>1 DEF TalliesAreOwn
  <2>4. CASE p = ping
    <3>1. /\ step'[ping] = "spin" /\ step'[pong] = step[pong]
          /\ rounds'[ping] = rounds[ping] + 1 /\ rounds'[pong] = rounds[pong]
      BY <1>1, <1>2, <2>1, <2>4 DEF PlayersType
    <3>2. PongCounts'
      BY <1>2, <2>1, <3>1 DEF PongCounts
    <3>3. PingKeepsPace'
      BY <1>2, <2>1, <2>4, <3>1 DEF PingKeepsPace
    <3> QED BY <2>1, <2>2, <2>3, <3>1, <3>2, <3>3 DEF Game
  <2>5. CASE p = pong
    <3>1. /\ step'[pong] = "spin" /\ step'[ping] = step[ping]
          /\ rounds'[pong] = rounds[pong] + 1 /\ rounds'[ping] = rounds[ping]
      BY <1>1, <1>2, <2>1, <2>5 DEF PlayersType
    <3>2. PongCounts'
      BY <1>2, <2>1, <2>5, <3>1 DEF PongCounts
    <3>3. PingKeepsPace'
      BY <1>2, <2>1, <3>1 DEF PingKeepsPace
    <3> QED BY <2>1, <2>2, <2>3, <2>5, <3>1, <3>2, <3>3 DEF Game
  <2> QED BY <1>1, <2>4, <2>5
<1> QED BY <1>3, <1>4, <1>5, <1>6, <1>7

\* A step that writes no letter and takes none.
LEMMA LetterStays ==
  ASSUME LetterIsLast, MailKept(k', k), got' = got,
         report' => report \/ got[reporter] # None,
         step[pong] = "done" => step'[pong] = "done"
  PROVE  LetterIsLast'
BY DEF LetterIsLast, MailKept

\* The demo starts with empty mailboxes and no round played.
LEMMA PerfStarts ==
  ASSUME CastAssumption, DemoInit
  PROVE  PerfInv
<1>1. /\ Spawned(Tasks, Prio) /\ Prio \in [Tasks -> Levels]
      /\ got = [t \in Tasks |-> None] /\ ping_turn = TRUE /\ rounds = [p \in Players |-> 0]
      /\ step = [p \in Players |-> "spin"] /\ stamp = 0 /\ tallied = << >> /\ report = FALSE
  BY PrioAssumption DEF DemoInit, SystemInit, DemoBuilt, Built
<1>2. IsKernel(k) /\ k.has = [t \in Tasks |-> FALSE]
  BY <1>1, SpawnAll
<1>3. reporter \in Tasks /\ ping \in Players /\ pong \in Players /\ kRounds \in Nat
  BY DEF CastAssumption, Players
<1>4. LetterIsLast
  BY <1>1, <1>2, <1>3 DEF LetterIsLast, IsKernel, KernelType
<1>5. PlayersType
  BY <1>1, <1>3 DEF PlayersType
<1>6. Len(tallied) = 0
  BY <1>1
<1>7. PongCounts /\ PingKeepsPace /\ TalliesAreOwn
  BY <1>1, <1>3, <1>6 DEF PongCounts, PingKeepsPace, TalliesAreOwn
<1> QED BY <1>4, <1>5, <1>7 DEF PerfInv, Game

\* The reporter's wait: it takes the letter that lies there, or sleeps.
LEMMA ReporterReads ==
  ASSUME CastAssumption, LetterIsLast, Turn(reporter), UNCHANGED demovars
  PROVE  LetterIsLast'
<1>1. /\ "has" \in DOMAIN k /\ DOMAIN k.has = Tasks /\ DOMAIN got = Tasks /\ reporter \in Tasks
      /\ k.has[reporter] => step[pong] = "done"
      /\ got[reporter] # None => step[pong] = "done"
      /\ report => step[pong] = "done"
      /\ step' = step /\ report' = report
  BY DEF LetterIsLast, CastAssumption, demovars
<1>2. CASE SleepReturns(reporter)
  BY <1>1, <1>2 DEF SleepReturns, LetterIsLast
<1>3. CASE Probe(reporter)
  <2>1. CASE k.has[reporter] /\ k' = wait_notify(k) /\ got' = [got EXCEPT ![reporter] = k.letter[reporter]]
             /\ k.current = reporter
    <3>1. k' = [k EXCEPT !.has[reporter] = FALSE]
      BY <1>1, <2>1 DEF wait_notify
    <3>2. "has" \in DOMAIN k' /\ k'.has = [k.has EXCEPT ![reporter] = FALSE]
      BY <1>1, <3>1
    <3>3. DOMAIN k'.has = Tasks /\ DOMAIN got' = Tasks
      BY <1>1, <2>1, <3>2
    <3> QED BY <1>1, <2>1, <3>2, <3>3 DEF LetterIsLast
  <2>2. CASE k' = k /\ got' = got
    BY <1>1, <2>2 DEF LetterIsLast
  <2> QED BY <1>3, <2>1, <2>2 DEF Probe, Goto, Runs, sysvars
<1>4. CASE Look(reporter)
  <2>1. k' = k /\ (got' = got \/ got' = [got EXCEPT ![reporter] = None])
    BY <1>4 DEF Look, sysvars
  <2> QED BY <1>1, <2>1 DEF LetterIsLast
<1>5. CASE Park(reporter)
  <2>1. k' = block(k, reporter) /\ got' = got
    BY <1>5 DEF Park
  <2>2. MailKept(k', k)
    BY <1>1, <2>1, OpsKeepMail
  <2> QED BY <1>1, <2>1, <2>2 DEF LetterIsLast, MailKept
<1> QED BY <1>2, <1>3, <1>4, <1>5 DEF Turn

\* Every step of the demo, with or without a tick.
LEMMA PerfStep ==
  ASSUME CastAssumption, PerfInv, [TickNext]_allvars
  PROVE  PerfInv'
<1>1. /\ LetterIsLast /\ Game /\ "has" \in DOMAIN k /\ DOMAIN k.has = Tasks /\ DOMAIN got = Tasks
      /\ reporter \in Tasks
  BY DEF PerfInv, LetterIsLast, CastAssumption
<1>2. ASSUME MailKept(k', k), got' = got, UNCHANGED demovars
      PROVE  PerfInv'
  BY <1>1, <1>2, GameStands, LetterStays DEF PerfInv, demovars
<1>3. CASE Bare(SVC_Handler) \/ Bare(PendSV_Handler) \/ Bare(SysTick_on_tick)
  <2>1. /\ got' = got /\ UNCHANGED demovars
        /\ \/ k' = pick_next_locked(k)
           \/ k' = pick_next_locked([k EXCEPT !.pend = FALSE])
           \/ k' = on_tick(k)
    BY <1>3 DEF Bare, SVC_Handler, PendSV_Handler, SysTick_on_tick, facevars
  <2>2. MailKept(k', k)
    BY <1>1, <2>1, OpsKeepMail
  <2> QED BY <1>2, <2>1, <2>2
<1>4. CASE Bare(SysTick_on_elapsed({}, {}))
  <2> DEFINE due == {t \in {} : alarm[t] = "live"} \cup {}
  <2>1. got' = got /\ UNCHANGED demovars /\ \E order \in SetToSeqs(due) : k' = wake_from_sleep(k, order)
    BY <1>4 DEF Bare, SysTick_on_elapsed, facevars
  <2>2. due = {}
    OBVIOUS
  <2> HIDE DEF due
  <2>3. k' = k
    BY <2>1, <2>2, WakingNobody
  <2>4. MailKept(k', k)
    BY <1>1, <2>3 DEF MailKept
  <2> QED BY <1>2, <2>1, <2>4
<1>5. CASE PingStamps \/ PingTurns \/ PongTallies
  <2>1. Game' /\ (step[pong] = "done" => step'[pong] = "done") /\ report' = report
    BY <1>1, <1>5, GameGoesOn
  <2>2. k' = k /\ got' = got
    BY <1>5 DEF PingStamps, PingTurns, PongTallies, vars, sysvars, facevars
  <2>3. LetterIsLast'
    BY <1>1, <2>1, <2>2, LetterStays DEF MailKept
  <2> QED BY <2>1, <2>3 DEF PerfInv
<1>6. CASE PongNotifies
  <2>1. Game' /\ report' = report
    BY <1>1, <1>6, GameGoesOn
  <2>2. /\ k' = notify(k, reporter, CHOOSE v \in Letters : TRUE) /\ got' = got
        /\ step' = [step EXCEPT ![pong] = "done"]
    BY <1>6 DEF PongNotifies, facevars
  <2> DEFINE val == CHOOSE v \in Letters : TRUE
             q == [k EXCEPT !.letter[reporter] = val, !.has[reporter] = TRUE]
  <2>3. k' = ready(q, reporter)
    BY <1>1, <2>2, TasksAssumption DEF notify
  <2> HIDE DEF val
  <2>4. "has" \in DOMAIN q /\ DOMAIN q.has = Tasks
    BY <1>1
  <2> HIDE DEF q
  <2>5. MailKept(k', q)
    BY <2>3, <2>4, OpsKeepMail
  <2>6. step'[pong] = "done"
    BY <1>1, <2>2 DEF Game, PlayersType, Players
  <2>7. LetterIsLast'
    BY <1>1, <2>2, <2>4, <2>5, <2>6 DEF LetterIsLast, MailKept
  <2> QED BY <2>1, <2>7 DEF PerfInv
<1>7. ASSUME NEW p \in Players, Yields(p)
      PROVE  PerfInv'
  <2>1. Game' /\ (step[pong] = "done" => step'[pong] = "done") /\ report' = report
    BY <1>1, <1>7, GameGoesOn
  <2>2. k' = yield(k) /\ got' = got
    BY <1>7 DEF Yields, CallYield, facevars
  <2>3. MailKept(k', k)
    BY <1>1, <2>2, OpsKeepMail
  <2>4. LetterIsLast'
    BY <1>1, <2>1, <2>2, <2>3, LetterStays
  <2> QED BY <2>1, <2>4 DEF PerfInv
<1>8. ASSUME NEW p \in Players, Returns(p)
      PROVE  PerfInv'
  <2>1. k' = block(k, p) /\ got' = got /\ UNCHANGED demovars
    BY <1>8 DEF Returns, Trap
  <2>2. MailKept(k', k)
    BY <1>1, <2>1, OpsKeepMail
  <2> QED BY <1>2, <2>1, <2>2
<1>9. CASE ReporterWaits
  <2>1. k' = k /\ got' = got /\ UNCHANGED demovars
    BY <1>9 DEF ReporterWaits, CallWait
  <2> QED BY <1>1, <1>2, <2>1 DEF MailKept
<1>10. CASE ReporterTurns
  <2>1. LetterIsLast' /\ UNCHANGED demovars
    BY <1>1, <1>10, ReporterReads DEF ReporterTurns
  <2> QED BY <1>1, <2>1, GameStands DEF PerfInv
<1>11. CASE Reports
  <2>1. /\ got[reporter] # None /\ k' = block(k, reporter) /\ got' = got
        /\ ping_turn' = ping_turn /\ rounds' = rounds /\ step' = step /\ stamp' = stamp
        /\ tallied' = tallied
    BY <1>11 DEF Reports, CallBlock, facevars
  <2>2. MailKept(k', k)
    BY <1>1, <2>1, OpsKeepMail
  <2>3. LetterIsLast'
    BY <1>1, <2>1, <2>2, LetterStays
  <2>4. Game'
    BY <1>1, <2>1 DEF Game, PlayersType, PongCounts, PingKeepsPace, TalliesAreOwn
  <2> QED BY <2>3, <2>4 DEF PerfInv
<1>12. CASE UNCHANGED allvars
  <2>1. k' = k /\ got' = got /\ UNCHANGED demovars
    BY <1>12 DEF allvars, vars, sysvars, facevars
  <2> QED BY <1>1, <1>2, <2>1 DEF MailKept
<1> QED BY <1>3, <1>4, <1>5, <1>6, <1>7, <1>8, <1>9, <1>10, <1>11, <1>12 DEF TickNext, DemoNext

\* Wherever slices end, and without a tick: each round is tallied once, against
\* its own stamp, and the letter that lets the report out is about all of them.
THEOREM RoundsAreMeasured ==
  ASSUME CastAssumption
  PROVE  /\ TickSpec => []EveryRoundMeasured
         /\ NoTickSpec => []EveryRoundMeasured
<1>1. DemoInit => PerfInv
  BY PerfStarts
<1>2. PerfInv /\ [TickNext]_allvars => PerfInv'
  BY PerfStep
<1>3. PerfInv => EveryRoundMeasured
  BY DEF PerfInv, Game, LetterIsLast, PongCounts, TalliesAreOwn, EveryRoundMeasured
<1>4. [DemoNext]_allvars => [TickNext]_allvars
  BY DEF TickNext
<1>5. TickSpec => []EveryRoundMeasured
  BY <1>1, <1>2, <1>3, PTL DEF TickSpec
<1>6. NoTickSpec => []EveryRoundMeasured
  BY <1>1, <1>2, <1>3, <1>4, PTL DEF NoTickSpec
<1> QED BY <1>5, <1>6

-----------------------------------------------------------------------------
(* The event stream.                                                       *)

\* The bytes of a sequence come in the order of the wire; letters do not count.
Rising(s) ==
  \A i, j \in 1 .. Len(s) : i < j /\ s[i] > 0 /\ s[j] > 0 => s[i] < s[j]

\* What is in the ring came after what was echoed, and before what is in DR
\* and not yet read.
RxInv ==
  /\ arrived \in Nat /\ dr \in Nat /\ last \in Nat /\ g_next \in Nat /\ stream \in Seq(Int)
  /\ isr # "off" => rxne
  /\ dr <= arrived /\ last <= dr /\ (rxne => last < dr)
  /\ \A i \in 1 .. Len(stream) : stream[i] > 0 =>
       last < stream[i] /\ stream[i] <= dr /\ (rxne => stream[i] < dr)
  /\ Rising(stream)

\* One writer that has seen TXE still has the register to itself.
TxInv ==
  /\ at \in [Writers -> 0 .. Length - 1] /\ left \in [Writers -> 0 .. Length - 1]
  /\ saw \in [Writers -> BOOLEAN]
  /\ tdr \in {{}, {Consumer}}
  /\ saw[Consumer] => tdr = {}
  /\ at[Consumer] = (left[Consumer] + (IF tdr = {} THEN 0 ELSE 1)) % Length

WireInv == RxInv /\ TxInv

\* What post does to a ring: nothing, or one entry more.
LEMMA PostAppends ==
  ASSUME stream \in Seq(Int), Rising(stream), NEW b \in Int, post(b),
         b > 0 => \A i \in 1 .. Len(stream) : stream[i] > 0 => stream[i] < b
  PROVE  /\ stream' \in Seq(Int) /\ Rising(stream')
         /\ \A i \in 1 .. Len(stream') :
              (i \in 1 .. Len(stream) /\ stream'[i] = stream[i]) \/ stream'[i] = b
<1>1. CASE stream' = stream
  BY <1>1
<1>2. CASE stream' = Append(stream, b)
  <2> DEFINE n == Len(stream)
  <2>1. /\ n \in Nat /\ stream' \in Seq(Int) /\ Len(stream') = n + 1
        /\ \A i \in 1 .. n : stream'[i] = stream[i] /\ stream[i] \in Int
        /\ stream'[n + 1] = b
    BY <1>2
  <2>2. \A i \in 1 .. n + 1 : i \in 1 .. n \/ i = n + 1
    BY <2>1
  <2>3. Rising(stream')
    <3> SUFFICES ASSUME NEW i \in 1 .. n + 1, NEW j \in 1 .. n + 1, i < j,
                        stream'[i] > 0, stream'[j] > 0
                 PROVE  stream'[i] < stream'[j]
      BY <2>1 DEF Rising
    <3>1. i \in 1 .. n
      BY <2>1
    <3>2. CASE j \in 1 .. n
      BY <2>1, <3>1, <3>2 DEF Rising
    <3>3. CASE j = n + 1
      BY <2>1, <3>1, <3>3
    <3> QED BY <2>2, <3>2, <3>3
  <2> QED BY <2>1, <2>2, <2>3
<1> QED BY <1>1, <1>2 DEF post

\* The receiving side keeps its order whatever comes in, is lost or refused.
LEMMA RxStep ==
  ASSUME RxInv, Steps \/ Arrive
  PROVE  RxInv' /\ (echo' # echo /\ echo' > 0 => echo' > last)
<1>1. /\ arrived \in Nat /\ dr \in Nat /\ last \in Nat /\ g_next \in Nat /\ stream \in Seq(Int)
      /\ isr # "off" => rxne
      /\ dr <= arrived /\ last <= dr /\ (rxne => last < dr)
      /\ \A i \in 1 .. Len(stream) : stream[i] > 0 =>
           last < stream[i] /\ stream[i] <= dr /\ (rxne => stream[i] < dr)
      /\ Rising(stream) /\ Len(stream) \in Nat
      /\ \A i \in 1 .. Len(stream) : stream[i] \in Int
  BY DEF RxInv
<1>2. CASE Arrive
  <2>1. /\ arrived' = arrived + 1 /\ isr' = isr /\ stream' = stream /\ g_next' = g_next
        /\ last' = last /\ echo' = echo
        /\ \/ rxne /\ dr' = dr /\ rxne' = rxne
           \/ ~rxne /\ dr' = arrived + 1 /\ rxne' = TRUE
    BY <1>2 DEF Arrive, appvars
  <2>2. CASE rxne /\ dr' = dr /\ rxne' = rxne
    BY <1>1, <2>1, <2>2 DEF RxInv
  <2>3. CASE ~rxne /\ dr' = arrived + 1 /\ rxne' = TRUE
    <3>1. dr' \in Nat /\ dr < dr' /\ dr' = arrived' /\ last < dr'
      BY <1>1, <2>1, <2>3
    <3>2. \A i \in 1 .. Len(stream) : stream[i] > 0 => last < stream[i] /\ stream[i] < dr'
      BY <1>1, <3>1
    <3> QED BY <1>1, <2>1, <2>3, <3>1, <3>2 DEF RxInv
  <2> QED BY <2>1, <2>2, <2>3
<1>3. CASE ReadSR
  BY <1>1, <1>3 DEF ReadSR, appvars, RxInv
<1>4. CASE USART1_IRQHandler
  <2>1. /\ rxne /\ rxne' = FALSE /\ isr' = "off" /\ post(dr)
        /\ arrived' = arrived /\ dr' = dr /\ g_next' = g_next /\ last' = last /\ echo' = echo
    BY <1>1, <1>4 DEF USART1_IRQHandler, uart1_getc
  <2>2. /\ stream' \in Seq(Int) /\ Rising(stream')
        /\ \A i \in 1 .. Len(stream') :
             (i \in 1 .. Len(stream) /\ stream'[i] = stream[i]) \/ stream'[i] = dr
    <3>1. /\ dr \in Int
          /\ dr > 0 => \A i \in 1 .. Len(stream) : stream[i] > 0 => stream[i] < dr
      BY <1>1, <2>1
    <3> QED BY <1>1, <2>1, <3>1, PostAppends
  <2>3. ASSUME NEW i \in 1 .. Len(stream'), stream'[i] > 0
        PROVE  last < stream'[i] /\ stream'[i] <= dr
    <3>1. CASE i \in 1 .. Len(stream) /\ stream'[i] = stream[i]
      BY <1>1, <2>3, <3>1
    <3>2. CASE stream'[i] = dr
      BY <1>1, <2>1, <3>2
    <3> QED BY <2>2, <3>1, <3>2
  <2> QED BY <1>1, <2>1, <2>2, <2>3 DEF RxInv
<1>5. CASE Drain
  BY <1>1, <1>5 DEF Drain, uart1_getc, appvars, RxInv
<1>6. CASE drop_one
  <2> DEFINE b == -1 - g_next
  <2>1. /\ post(b) /\ g_next' = (g_next + 1) % kLetters
        /\ echo' = echo /\ last' = last /\ arrived' = arrived /\ dr' = dr /\ rxne' = rxne
        /\ isr' = isr
    BY <1>6 DEF drop_one, rxvars
  <2>2. b \in Int /\ ~(b > 0)
    BY <1>1
  <2> HIDE DEF b
  <2>3. /\ stream' \in Seq(Int) /\ Rising(stream')
        /\ \A i \in 1 .. Len(stream') :
             (i \in 1 .. Len(stream) /\ stream'[i] = stream[i]) \/ stream'[i] = b
    BY <1>1, <2>1, <2>2, PostAppends
  <2>4. g_next' \in Nat
    BY <1>1, <2>1, UartAssumption
  <2>5. \A i \in 1 .. Len(stream') : stream'[i] > 0 =>
          last < stream'[i] /\ stream'[i] <= dr /\ (rxne => stream'[i] < dr)
    BY <1>1, <2>2, <2>3
  <2> QED BY <1>1, <2>1, <2>3, <2>4, <2>5 DEF RxInv
<1>7. CASE consumer
  <2> DEFINE h == Head(stream)
  <2>1. /\ stream # << >> /\ echo' = h /\ last' = (IF h > 0 THEN h ELSE last)
        /\ stream' = Tail(stream) /\ g_next' = g_next
        /\ arrived' = arrived /\ dr' = dr /\ rxne' = rxne /\ isr' = isr
    BY <1>7 DEF consumer, rxvars
  <2>2. /\ h = stream[1] /\ 1 \in 1 .. Len(stream)
        /\ stream' \in Seq(Int) /\ Len(stream') = Len(stream) - 1
        /\ \A i \in 1 .. Len(stream') :
             stream'[i] = stream[i + 1] /\ i + 1 \in 1 .. Len(stream) /\ 1 < i + 1
    BY <1>1, <2>1
  <2> HIDE DEF h
  <2>3. h \in Int /\ (h > 0 => last < h /\ h <= dr /\ (rxne => h < dr))
    BY <1>1, <2>2
  <2>4. last' \in Nat /\ last' <= dr /\ (rxne => last' < dr)
    BY <1>1, <2>1, <2>3
  <2>5. \A i \in 1 .. Len(stream') : stream'[i] > 0 =>
          last' < stream'[i] /\ stream'[i] <= dr /\ (rxne => stream'[i] < dr)
    BY <1>1, <2>1, <2>2 DEF Rising
  <2>6. Rising(stream')
    <3> SUFFICES ASSUME NEW i \in 1 .. Len(stream'), NEW j \in 1 .. Len(stream'), i < j,
                        stream'[i] > 0, stream'[j] > 0
                 PROVE  stream'[i] < stream'[j]
      BY DEF Rising
    <3>1. /\ i + 1 \in 1 .. Len(stream) /\ j + 1 \in 1 .. Len(stream)
          /\ stream'[i] = stream[i + 1] /\ stream'[j] = stream[j + 1]
      BY <2>2
    <3>2. i \in Int /\ j \in Int
      OBVIOUS
    <3>3. i + 1 < j + 1
      BY <3>2
    <3> QED BY <1>1, <3>1, <3>3 DEF Rising
  <2> QED BY <1>1, <2>1, <2>2, <2>3, <2>4, <2>5, <2>6 DEF RxInv
<1>8. CASE ShiftOut
  BY <1>1, <1>8 DEF ShiftOut, rxvars, appvars, RxInv
<1>9. ASSUME NEW w \in Writers, Poll(w) \/ uart1_putc(w)
      PROVE  RxInv' /\ (echo' # echo /\ echo' > 0 => echo' > last)
  <2>1. /\ arrived' = arrived /\ dr' = dr /\ rxne' = rxne /\ isr' = isr
        /\ stream' = stream /\ g_next' = g_next /\ last' = last
        /\ echo' = echo \/ echo' = 0
    BY <1>9 DEF Poll, uart1_putc, rxvars, appvars, NoByte
  <2> QED BY <1>1, <2>1 DEF RxInv
<1> QED BY <1>2, <1>3, <1>4, <1>5, <1>6, <1>7, <1>8, <1>9 DEF Steps

\* A remainder is its own remainder.
LEMMA PlaceInLine ==
  ASSUME NEW x \in Nat
  PROVE  /\ x % Length \in 0 .. Length - 1
         /\ x \in 0 .. Length - 1 => x % Length = x
         /\ (x % Length) % Length = x % Length
BY UartAssumption

\* The transmitting side, with nobody else to write between poll and write.
LEMMA TxStep ==
  ASSUME Printers = {}, TxInv, Steps \/ Arrive
  PROVE  TxInv'
<1> DEFINE c == Consumer
<1>1. /\ Writers = {c} /\ Length \in Nat /\ Length > 2
      /\ at[c] \in 0 .. Length - 1 /\ left[c] \in 0 .. Length - 1
      /\ at \in [Writers -> 0 .. Length - 1] /\ left \in [Writers -> 0 .. Length - 1]
      /\ saw \in [Writers -> BOOLEAN] /\ tdr \in {{}, {c}}
      /\ saw[c] => tdr = {}
      /\ at[c] = (left[c] + (IF tdr = {} THEN 0 ELSE 1)) % Length
  BY UartAssumption DEF TxInv, Writers
<1> HIDE DEF c
<1>2. CASE UNCHANGED txvars
  BY <1>2 DEF txvars, TxInv
<1>3. CASE ShiftOut
  <2>1. /\ tdr = {c} /\ tdr' = {} /\ at' = at /\ saw' = saw
        /\ left' = [w \in Writers |-> (left[w] + 1) % Length]
    BY <1>1, <1>3 DEF ShiftOut
  <2>2. left'[c] = (left[c] + 1) % Length /\ at[c] = (left[c] + 1) % Length
    BY <1>1, <2>1
  <2>3. left'[c] \in 0 .. Length - 1 /\ left'[c] % Length = left'[c]
    BY <1>1, <2>2, PlaceInLine
  <2>4. left' \in [Writers -> 0 .. Length - 1]
    BY <1>1, <2>1, <2>2, <2>3
  <2>5. at'[c] = (left'[c] + 0) % Length
    BY <2>1, <2>2, <2>3
  <2> QED BY <1>1, <2>1, <2>4, <2>5 DEF TxInv, c
<1>4. ASSUME NEW w \in Writers, Poll(w)
      PROVE  TxInv'
  <2>1. /\ w = c /\ tdr = {} /\ saw' = [saw EXCEPT ![c] = TRUE] /\ at' = at /\ tdr' = tdr
        /\ left' = left
    BY <1>1, <1>4 DEF Poll
  <2> QED BY <1>1, <2>1 DEF TxInv, c
<1>5. ASSUME NEW w \in Writers, uart1_putc(w)
      PROVE  TxInv'
  <2>1. /\ w = c /\ saw[c] /\ saw' = [saw EXCEPT ![c] = FALSE] /\ tdr' = {c}
        /\ at' = [at EXCEPT ![c] = (at[c] + 1) % Length] /\ left' = left
    BY <1>1, <1>5 DEF uart1_putc
  <2>2. at[c] = left[c]
    <3>1. at[c] = (left[c] + 0) % Length
      BY <1>1, <2>1
    <3> QED BY <1>1, <3>1, PlaceInLine
  <2>3. (left[c] + 1) % Length \in 0 .. Length - 1
    BY <1>1, PlaceInLine
  <2>4. at' \in [Writers -> 0 .. Length - 1] /\ at'[c] = (left'[c] + 1) % Length
    BY <1>1, <2>1, <2>2, <2>3
  <2>5. saw' \in [Writers -> BOOLEAN] /\ ~saw'[c] /\ tdr' # {}
    BY <1>1, <2>1
  <2> QED BY <1>1, <2>1, <2>4, <2>5 DEF TxInv, c
<1>6. CASE Arrive \/ ReadSR \/ USART1_IRQHandler \/ Drain \/ drop_one \/ consumer
  BY <1>2, <1>6 DEF Arrive, ReadSR, USART1_IRQHandler, Drain, drop_one, consumer
<1> QED BY <1>3, <1>4, <1>5, <1>6 DEF Steps

\* With one task that prints, and bytes that come at any time, the handler's
\* two reads included: no character is overwritten between the poll and the
\* write of uart1_putc, and the consumer echoes bytes in the order of the wire.
THEOREM EchoIsHonest ==
  ASSUME Printers = {}
  PROVE  UartSpec => WireIsHonest
<1>1. ASSUME UartInit PROVE WireInv
  <2>1. RxInv
    BY <1>1 DEF UartInit, RxInv, Rising, NoByte
  <2>2. Length \in Nat /\ Length > 2 /\ Writers = {Consumer} /\ 0 % Length = 0
    BY UartAssumption, PlaceInLine DEF Writers
  <2>3. TxInv
    BY <1>1, <2>2 DEF UartInit, TxInv
  <2> QED BY <2>1, <2>3 DEF WireInv
<1>2. ASSUME WireInv, [Steps \/ Arrive]_uartvars
      PROVE  WireInv' /\ [echo' # echo /\ echo' > 0 => echo' > last]_uartvars
  <2>1. CASE Steps \/ Arrive
    BY <1>2, <2>1, RxStep, TxStep DEF WireInv
  <2>2. CASE UNCHANGED uartvars
    <3>1. RxInv'
      BY <1>2, <2>2 DEF WireInv, RxInv, uartvars, rxvars, appvars
    <3>2. TxInv'
      BY <1>2, <2>2 DEF WireInv, TxInv, uartvars, txvars
    <3> QED BY <2>2, <3>1, <3>2 DEF WireInv
  <2> QED BY <1>2, <2>1, <2>2
<1>3. ASSUME WireInv PROVE NoCharacterLost
  <2> SUFFICES ASSUME NEW w \in Writers
               PROVE  at[w] = (left[w] + (IF w \in tdr THEN 1 ELSE 0)) % Length
    BY DEF NoCharacterLost
  <2>1. w = Consumer /\ (w \in tdr <=> tdr # {})
    BY <1>3 DEF WireInv, TxInv, Writers
  <2> QED BY <1>3, <2>1 DEF WireInv, TxInv
<1>4. UartInit => WireInv
  BY <1>1
<1>5. WireInv /\ [Steps \/ Arrive]_uartvars =>
        WireInv' /\ [echo' # echo /\ echo' > 0 => echo' > last]_uartvars
  BY <1>2
<1>6. WireInv => NoCharacterLost
  BY <1>3
<1> QED BY <1>4, <1>5, <1>6, PTL DEF UartSpec, WireIsHonest, EchoedInOrder

=============================================================================
