------------------------- MODULE TaskSystemProofs --------------------------
(***************************************************************************)
(* What every application of TaskSystem may rely on, whatever its objects  *)
(* do: the kernel is sound about the set S of tasks that were spawned.     *)
(* The handlers keep it so, and lemmas say what each of them changes; the  *)
(* proofs of the modules that extend TaskSystem rest on them.              *)
(***************************************************************************)
EXTENDS TaskSystem, RingProofs, FiniteSetTheorems

-----------------------------------------------------------------------------
(* Loops of calls.                                                         *)

\* Induction along an interval, for a set of places.
LEMMA UpTo ==
  ASSUME NEW n \in Nat, NEW G, 0 \in G, \A i \in 0 .. n - 1 : i \in G => i + 1 \in G
  PROVE  \A i \in 0 .. n : i \in G
<1> SUFFICES ASSUME NEW z \in 0 .. n, z \notin G PROVE FALSE
  OBVIOUS
<1> DEFINE R == {ss \in Nat \X Nat : ss[1] < ss[2]}
           Bad == {i \in 0 .. n : i \notin G}
<1>1. Bad \subseteq Nat /\ Bad # {}
  OBVIOUS
<1>2. IsWellFoundedOn(R, Nat)
  BY NatLessThanWellFounded DEF OpToRel
<1>3. \A x, y \in Nat : << y, x >> \in R <=> y < x
  OBVIOUS
<1> HIDE DEF R
<1>4. PICK x \in Bad : \A y \in Bad : ~(<< y, x >> \in R)
  <2> HIDE DEF Bad
  <2> QED BY <1>1, <1>2, WFMin
<1>5. x # 0 /\ x \in 0 .. n
  BY <1>4
<1>a. x \in Nat /\ x - 1 \in Nat /\ x - 1 \in 0 .. n - 1 /\ x - 1 < x /\ x - 1 \in 0 .. n
  BY <1>5
<1>6. x - 1 \notin Bad
  BY <1>3, <1>4, <1>a
<1>7. x - 1 \in G
  BY <1>a, <1>6
<1>8. (x - 1) + 1 \in G
  BY <1>a, <1>7
<1>9. (x - 1) + 1 = x
  BY <1>a
<1> QED BY <1>4, <1>8, <1>9

\* The kernels that waking a sequence of tasks goes through.
WakeRun(ker, due) ==
  CHOOSE f : f = [i \in 0 .. Len(due) |-> IF i = 0 THEN ker ELSE ready(f[i - 1], due[i])]

\* There is such a run.
LEMMA WakeRunExists ==
  ASSUME NEW ker, NEW due, Len(due) \in Nat
  PROVE  WakeRun(ker, due) =
           [i \in 0 .. Len(due) |->
              IF i = 0 THEN ker ELSE ready(WakeRun(ker, due)[i - 1], due[i])]
<1> DEFINE Upto(n) == \E f : f = [i \in 0 .. n |-> IF i = 0 THEN ker ELSE ready(f[i - 1], due[i])]
           G == {n \in Nat : Upto(n)}
<1>1. 0 \in G
  <2> DEFINE f == [i \in 0 .. 0 |-> ker]
  <2>1. f = [i \in 0 .. 0 |-> IF i = 0 THEN ker ELSE ready(f[i - 1], due[i])]
    OBVIOUS
  <2> QED BY <2>1
<1>2. ASSUME NEW n \in 0 .. Len(due) - 1, n \in G
      PROVE  n + 1 \in G
  <2>1. PICK f : f = [i \in 0 .. n |-> IF i = 0 THEN ker ELSE ready(f[i - 1], due[i])]
    BY <1>2
  <2> DEFINE g == [i \in 0 .. n + 1 |-> IF i <= n THEN f[i] ELSE ready(f[n], due[n + 1])]
  <2>2. ASSUME NEW i \in 0 .. n + 1
        PROVE  g[i] = IF i = 0 THEN ker ELSE ready(g[i - 1], due[i])
    <3>1. CASE i <= n
      <4>1. g[i] = f[i] /\ (i # 0 => g[i - 1] = f[i - 1])
        BY <3>1
      <4>2. f[i] = IF i = 0 THEN ker ELSE ready(f[i - 1], due[i])
        BY <2>1, <3>1
      <4> QED BY <4>1, <4>2
    <3>2. CASE i = n + 1
      BY <3>2
    <3> QED BY <3>1, <3>2
  <2>3. g = [i \in 0 .. n + 1 |-> g[i]]
    OBVIOUS
  <2> HIDE DEF g
  <2>4. g = [i \in 0 .. n + 1 |-> IF i = 0 THEN ker ELSE ready(g[i - 1], due[i])]
    BY <2>2, <2>3
  <2> QED BY <2>4
<1> HIDE DEF G
<1>a. \A n \in 0 .. Len(due) - 1 : n \in G => n + 1 \in G
  BY <1>2
<1>b. \A n \in 0 .. Len(due) : n \in G
  BY <1>1, <1>a, UpTo
<1>3. Len(due) \in G
  BY <1>b
<1>4. Upto(Len(due))
  BY <1>3 DEF G
<1> QED BY <1>4 DEF WakeRun

\* wake_from_sleep ends where the run ends.
LEMMA WakeRunIs ==
  ASSUME NEW ker, NEW due
  PROVE  wake_from_sleep(ker, due) = WakeRun(ker, due)[Len(due)]
BY DEF wake_from_sleep, WakeRun

\* What waking some tasks of S may do to a kernel: Blocked tasks become Ready,
\* with a switch pending if one of them outranks the running task.
Wakes(q, ker, S) ==
  /\ IsKernel(q) /\ HonestRings(q, S) /\ Untouched(q, ker)
  /\ ker.pend => q.pend
  /\ ker.current = None => q.pend = ker.pend
  /\ \A u \in Threads :
       \/ q.state[u] = ker.state[u]
       \/ u \in S /\ ker.state[u] = "Blocked" /\ q.state[u] = "Ready"
  /\ \A u \in S :
       /\ q.state[u] # ker.state[u] /\ ker.current # None
       /\ ker.prio[u] < ker.prio[ker.current]
       => q.pend

\* Waking one task.
LEMMA ReadyWakes ==
  ASSUME NEW ker, IsKernel(ker), NEW S \in SUBSET Tasks, HonestRings(ker, S), NEW t \in S
  PROVE  /\ Wakes(ready(ker, t), ker, S)
         /\ ready(ker, t).state[t] # "Blocked"
         /\ \A u \in Threads \ {t} : ready(ker, t).state[u] = ker.state[u]
<1> DEFINE q == ready(ker, t)
<1>1. /\ IsKernel(q) /\ HonestRings(q, S) /\ Untouched(q, ker)
      /\ ker.pend => q.pend
      /\ ker.current = None => q.pend = ker.pend
      /\ \/ q = ker
         \/ /\ ker.state[t] = "Blocked"
            /\ q.state = [ker.state EXCEPT ![t] = "Ready"]
            /\ ker.current # None /\ ker.prio[t] < ker.prio[ker.current] => q.pend
  BY ReadyOp
<1>2. ker.state[t] # "Blocked" => q = ker
  BY DEF ready
<1>3. ker.state[t] = "Blocked" => q # ker
  <2> SUFFICES ASSUME ker.state[t] = "Blocked" PROVE q.state[t] = "Ready"
    OBVIOUS
  <2>1. q = admit(ker, t)
    BY DEF ready
  <2>2. HonestRings(ker, S \ {t}) /\ t \in Tasks \ (S \ {t}) /\ S \ {t} \in SUBSET Tasks
    BY NotReadyIsOut
  <2>3. q.state = [ker.state EXCEPT ![t] = "Ready"]
    BY <2>1, <2>2, Admit
  <2> QED BY <2>3 DEF IsKernel, KernelType, Threads
<1>4. ker.state \in [Threads -> TaskState] /\ t \in Threads
  BY DEF IsKernel, KernelType, Threads
<1> HIDE DEF q
<1>5. \A u \in Threads \ {t} : q.state[u] = ker.state[u]
  BY <1>1, <1>4
<1>6. q.state[t] = ker.state[t] \/ (ker.state[t] = "Blocked" /\ q.state[t] = "Ready")
  BY <1>1, <1>4
<1>7. q.state[t] # "Blocked"
  BY <1>1, <1>2, <1>3, <1>4
<1>8. q.state[t] # ker.state[t] /\ ker.current # None /\ ker.prio[t] < ker.prio[ker.current]
        => q.pend
  BY <1>1, <1>4
<1>9. S \subseteq Threads
  BY DEF Threads
<1>a. Wakes(q, ker, S)
  BY <1>1, <1>5, <1>6, <1>8, <1>9 DEF Wakes
<1> QED BY <1>a, <1>5, <1>7 DEF q

\* One wake-up after another.
LEMMA WakesTwice ==
  ASSUME NEW ker, NEW q, NEW r, NEW S \in SUBSET Tasks, IsKernel(ker),
         Wakes(q, ker, S), Wakes(r, q, S)
  PROVE  Wakes(r, ker, S)
<1>1. /\ IsKernel(r) /\ HonestRings(r, S) /\ Untouched(r, ker)
      /\ ker.pend => r.pend
      /\ ker.current = None => r.pend = ker.pend
  BY DEF Wakes, Untouched
<1>2. \A u \in Threads :
        \/ r.state[u] = ker.state[u]
        \/ u \in S /\ ker.state[u] = "Blocked" /\ r.state[u] = "Ready"
  BY DEF Wakes
<1>3. \A u \in S :
        /\ r.state[u] # ker.state[u] /\ ker.current # None
        /\ ker.prio[u] < ker.prio[ker.current]
        => r.pend
  BY DEF Wakes, Untouched
<1> QED BY <1>1, <1>2, <1>3 DEF Wakes

\* A loop of ready() calls wakes, and leaves none of its tasks asleep.
LEMMA WakeAll ==
  ASSUME NEW ker, IsKernel(ker), NEW S \in SUBSET Tasks, HonestRings(ker, S), NEW due,
         Len(due) \in Nat, \A i \in 1 .. Len(due) : due[i] \in S
  PROVE  /\ Wakes(wake_from_sleep(ker, due), ker, S)
         /\ \A i \in 1 .. Len(due) : wake_from_sleep(ker, due).state[due[i]] # "Blocked"
         /\ \A u \in Threads : (\A i \in 1 .. Len(due) : due[i] # u) =>
              wake_from_sleep(ker, due).state[u] = ker.state[u]
<1> DEFINE f == WakeRun(ker, due)
           Good(n) == /\ Wakes(f[n], ker, S)
                      /\ \A i \in 1 .. n : f[n].state[due[i]] # "Blocked"
                      /\ \A u \in Threads : (\A i \in 1 .. n : due[i] # u) =>
                           f[n].state[u] = ker.state[u]
           G == {n \in 0 .. Len(due) : Good(n)}
<1>1. f = [i \in 0 .. Len(due) |-> IF i = 0 THEN ker ELSE ready(f[i - 1], due[i])]
  BY WakeRunExists
<1> HIDE DEF f
<1>2. /\ f[0] = ker
      /\ \A n \in 0 .. Len(due) - 1 : f[n + 1] = ready(f[n], due[n + 1])
  <2>1. 0 \in 0 .. Len(due) /\ f[0] = ker
    BY <1>1
  <2>2. ASSUME NEW n \in 0 .. Len(due) - 1
        PROVE  f[n + 1] = ready(f[n], due[n + 1])
    <3>1. n + 1 \in 0 .. Len(due) /\ n + 1 # 0 /\ (n + 1) - 1 = n
      OBVIOUS
    <3> QED BY <1>1, <3>1
  <2> QED BY <2>1, <2>2
<1>3. 0 \in G
  <2>1. Wakes(ker, ker, S)
    BY DEF Wakes, Untouched
  <2> QED BY <1>2, <2>1
<1>4. ASSUME NEW n \in 0 .. Len(due) - 1, n \in G
      PROVE  n + 1 \in G
  <2> DEFINE t == due[n + 1]
             q == f[n]
             r == f[n + 1]
  <2>1. t \in S /\ n + 1 \in 0 .. Len(due)
    OBVIOUS
  <2>2. Good(n) /\ r = ready(q, t)
    BY <1>2, <1>4
  <2>3. IsKernel(q) /\ HonestRings(q, S)
    BY <2>2 DEF Wakes
  <2> HIDE DEF q, r, t
  <2>4. /\ Wakes(r, q, S) /\ r.state[t] # "Blocked"
        /\ \A u \in Threads \ {t} : r.state[u] = q.state[u]
    BY <2>1, <2>2, <2>3, ReadyWakes
  <2>5. Wakes(q, ker, S)
    BY <2>2 DEF q
  <2>6. Wakes(r, ker, S)
    BY <2>4, <2>5, WakesTwice
  <2>7. ASSUME NEW i \in 1 .. n + 1
        PROVE  r.state[due[i]] # "Blocked"
    <3>1. due[i] \in Threads
      BY DEF Threads
    <3>2. CASE due[i] = t
      BY <3>2, <2>4
    <3>3. CASE due[i] # t
      <4>1. i \in 1 .. n
        BY <3>3 DEF t
      <4>2. q.state[due[i]] # "Blocked"
        BY <4>1, <2>2 DEF q
      <4> QED BY <3>1, <3>3, <4>2, <2>4
    <3> QED BY <3>2, <3>3
  <2>8. ASSUME NEW u \in Threads, \A i \in 1 .. n + 1 : due[i] # u
        PROVE  r.state[u] = ker.state[u]
    <3>1. u # t
      BY <2>8 DEF t
    <3>2. \A i \in 1 .. n : due[i] # u
      BY <2>8
    <3>3. q.state[u] = ker.state[u]
      BY <3>2, <2>2 DEF q
    <3> QED BY <3>1, <3>3, <2>4
  <2>9. Good(n + 1)
    BY <2>6, <2>7, <2>8 DEF r
  <2> QED BY <2>1, <2>9
<1>5. \A n \in 0 .. Len(due) - 1 : n \in G => n + 1 \in G
  BY <1>4
<1> HIDE DEF G
<1>6. \A n \in 0 .. Len(due) : n \in G
  BY <1>3, <1>5, UpTo
<1>7. Good(Len(due))
  BY <1>6 DEF G
<1> QED BY <1>7, WakeRunIs DEF f

-----------------------------------------------------------------------------
(* Spawning.                                                               *)

\* The kernels that adding a sequence of tasks to ker goes through.
SpawnRun(ker, order) ==
  CHOOSE f : f = [i \in 0 .. Len(order) |-> IF i = 0 THEN ker ELSE add(f[i - 1], order[i])]

\* There is such a run.
LEMMA SpawnRunExists ==
  ASSUME NEW ker, NEW order, Len(order) \in Nat
  PROVE  SpawnRun(ker, order) =
           [i \in 0 .. Len(order) |->
              IF i = 0 THEN ker ELSE add(SpawnRun(ker, order)[i - 1], order[i])]
<1> DEFINE Upto(n) == \E f : f = [i \in 0 .. n |-> IF i = 0 THEN ker ELSE add(f[i - 1], order[i])]
           G == {n \in Nat : Upto(n)}
<1>1. 0 \in G
  <2> DEFINE f == [i \in 0 .. 0 |-> ker]
  <2>1. f = [i \in 0 .. 0 |-> IF i = 0 THEN ker ELSE add(f[i - 1], order[i])]
    OBVIOUS
  <2> QED BY <2>1
<1>2. ASSUME NEW n \in 0 .. Len(order) - 1, n \in G
      PROVE  n + 1 \in G
  <2>1. PICK f : f = [i \in 0 .. n |-> IF i = 0 THEN ker ELSE add(f[i - 1], order[i])]
    BY <1>2
  <2> DEFINE g == [i \in 0 .. n + 1 |-> IF i <= n THEN f[i] ELSE add(f[n], order[n + 1])]
  <2>2. ASSUME NEW i \in 0 .. n + 1
        PROVE  g[i] = IF i = 0 THEN ker ELSE add(g[i - 1], order[i])
    <3>1. CASE i <= n
      <4>1. g[i] = f[i] /\ (i # 0 => g[i - 1] = f[i - 1])
        BY <3>1
      <4>2. f[i] = IF i = 0 THEN ker ELSE add(f[i - 1], order[i])
        BY <2>1, <3>1
      <4> QED BY <4>1, <4>2
    <3>2. CASE i = n + 1
      BY <3>2
    <3> QED BY <3>1, <3>2
  <2>3. g = [i \in 0 .. n + 1 |-> g[i]]
    OBVIOUS
  <2> HIDE DEF g
  <2>4. g = [i \in 0 .. n + 1 |-> IF i = 0 THEN ker ELSE add(g[i - 1], order[i])]
    BY <2>2, <2>3
  <2> QED BY <2>4
<1> HIDE DEF G
<1>3. \A n \in 0 .. Len(order) - 1 : n \in G => n + 1 \in G
  BY <1>2
<1>4. \A n \in 0 .. Len(order) : n \in G
  BY <1>1, <1>3, UpTo
<1>5. Upto(Len(order))
  BY <1>4 DEF G
<1> QED BY <1>5 DEF SpawnRun

\* The order SetToSeq chooses names every task once.
LEMMA OrderOfSpawning ==
  ASSUME NEW S \in SUBSET Tasks
  PROVE  /\ Len(SetToSeq(S)) \in Nat
         /\ \A i \in 1 .. Len(SetToSeq(S)) : SetToSeq(S)[i] \in S
         /\ \A i, j \in 1 .. Len(SetToSeq(S)) : SetToSeq(S)[i] = SetToSeq(S)[j] => i = j
         /\ \A t \in S : \E i \in 1 .. Len(SetToSeq(S)) : SetToSeq(S)[i] = t
<1> DEFINE n == Cardinality(S)
           order == SetToSeq(S)
<1>1. IsFiniteSet(S)
  BY SystemAssumption, FS_Subset
<1>2. n \in Nat /\ ExistsBijection(1 .. n, S)
  BY <1>1, FS_CardinalityType
<1>3. PICK g \in Bijection(1 .. n, S) : TRUE
  BY <1>2 DEF ExistsBijection
<1> HIDE DEF n
<1>4. g \in [1 .. n -> S] /\ IsInjective(g)
  BY <1>3 DEF Bijection, Injection, IsInjective
<1>5. order \in [1 .. n -> S] /\ IsInjective(order)
  BY <1>4 DEF SetToSeq, n
<1> HIDE DEF order
<1>6. Len(order) = n
  BY <1>2, <1>5
<1>7. \A i, j \in 1 .. n : order[i] = order[j] => i = j
  BY <1>5 DEF IsInjective
<1>8. order \in Injection(1 .. n, S)
  BY <1>5, <1>7 DEF Injection, IsInjective
<1>9. Cardinality(1 .. n) = n
  BY <1>2, FS_Interval
<1>10. order \in Surjection(1 .. n, S)
  BY <1>1, <1>8, <1>9, FS_Injection DEF n
<1>11. \A t \in S : \E i \in 1 .. n : order[i] = t
  BY <1>10 DEF Surjection
<1> QED BY <1>2, <1>5, <1>6, <1>7, <1>11 DEF order

\* The kernel the wiring code leaves behind.
LEMMA InitialIsKernel ==
  ASSUME NEW prio \in [Tasks -> Levels], NEW blank \in Letters, NEW ker,
         ker = InitialKernel(prio, blank)
  PROVE  /\ IsKernel(ker) /\ HonestRings(ker, {})
         /\ ker.current = None /\ ~ker.pend
         /\ \A t \in Tasks : ker.prio[t] = prio[t] /\ ker.state[t] = "Ready"
<1> DEFINE p == [t \in Threads |-> IF t = Idle THEN kIdlePrio ELSE prio[t]]
           state == [t \in Threads |-> "Ready"]
           fifo == [l \in Levels |-> << >>]
           letter == [t \in Tasks |-> blank]
           has == [t \in Tasks |-> FALSE]
<1>2. /\ p \in [Threads -> Levels \cup {kIdlePrio}]
      /\ \A t \in Tasks : p[t] = prio[t] /\ p[t] \in Levels
      /\ p[Idle] = kIdlePrio
  BY TasksAssumption DEF Threads
<1>3. /\ state \in [Threads -> TaskState]
      /\ fifo \in [Levels -> Seq(Tasks)]
      /\ letter \in [Tasks -> Letters]
      /\ has \in [Tasks -> BOOLEAN]
      /\ 0 \in 0 .. kSliceTicks - 1
  BY SliceAssumption DEF TaskState
<1>4. ker = [prio |-> p, state |-> state, fifo |-> fifo, present |-> {}, current |-> None,
             served |-> 0, pend |-> FALSE, letter |-> letter, has |-> has]
  BY DEF InitialKernel
<1>5. /\ \A l \in Levels : fifo[l] = << >> /\ Len(fifo[l]) = 0
      /\ \A t \in Tasks : state[t] = "Ready"
  BY DEF Threads
<1> HIDE DEF p, state, fifo, letter, has
<1>6. IsKernel(ker)
  BY <1>2, <1>3, <1>4 DEF IsKernel, KernelType
<1>7. HonestRings(ker, {})
  BY <1>4, <1>5 DEF HonestRings, PresentIsNonEmpty, RingsHoldReadyTasks, RingsHaveNoDuplicate,
                    ReadyTasksAreInRings
<1> QED BY <1>2, <1>4, <1>5, <1>6, <1>7

\* Adding tasks one after another before the first pick.
LEMMA SpawnAll ==
  ASSUME NEW S \in SUBSET Tasks, NEW prio \in [Tasks -> Levels], Spawned(S, prio)
  PROVE  /\ IsKernel(k) /\ HonestRings(k, S)
         /\ k.current = None /\ ~k.pend
         /\ \A t \in Tasks : k.prio[t] = prio[t] /\ k.state[t] = "Ready"
         /\ k.has = [t \in Tasks |-> FALSE]
<1> DEFINE order == SetToSeq(S)
           blank == CHOOSE v \in Letters : TRUE
           ker == InitialKernel(prio, blank)
           f == SpawnRun(ker, order)
           Some(n) == {order[j] : j \in 1 .. n}
           Good(n) == /\ IsKernel(f[n]) /\ HonestRings(f[n], Some(n))
                      /\ f[n].current = None /\ ~f[n].pend
                      /\ \A t \in Tasks : f[n].prio[t] = prio[t] /\ f[n].state[t] = "Ready"
                      /\ f[n].has = [t \in Tasks |-> FALSE]
           G == {n \in 0 .. Len(order) : Good(n)}
<1>1. k = f[Len(order)]
  BY DEF Spawned, SpawnRun
<1>2. /\ Len(order) \in Nat
      /\ \A i \in 1 .. Len(order) : order[i] \in S
      /\ \A i, j \in 1 .. Len(order) : order[i] = order[j] => i = j
      /\ \A t \in S : \E i \in 1 .. Len(order) : order[i] = t
  BY OrderOfSpawning
<1> HIDE DEF order
<1>3. f = [i \in 0 .. Len(order) |-> IF i = 0 THEN ker ELSE add(f[i - 1], order[i])]
  BY <1>2, SpawnRunExists
<1>b. blank \in Letters
  BY SystemAssumption
<1> HIDE DEF blank
<1>4. /\ IsKernel(ker) /\ HonestRings(ker, {})
      /\ ker.current = None /\ ~ker.pend
      /\ \A t \in Tasks : ker.prio[t] = prio[t] /\ ker.state[t] = "Ready"
  BY <1>b, InitialIsKernel
<1>h. ker.has = [t \in Tasks |-> FALSE]
  BY DEF InitialKernel
<1> HIDE DEF f, ker
<1>5. /\ f[0] = ker
      /\ \A n \in 0 .. Len(order) - 1 : f[n + 1] = add(f[n], order[n + 1])
  <2>1. 0 \in 0 .. Len(order) /\ f[0] = ker
    BY <1>2, <1>3
  <2>2. ASSUME NEW n \in 0 .. Len(order) - 1
        PROVE  f[n + 1] = add(f[n], order[n + 1])
    <3>1. n + 1 \in 0 .. Len(order) /\ n + 1 # 0 /\ (n + 1) - 1 = n
      BY <1>2
    <3> QED BY <1>3, <3>1
  <2> QED BY <2>1, <2>2
<1>6. 0 \in G
  <2>1. Some(0) = {}
    OBVIOUS
  <2>2. 0 \in 0 .. Len(order)
    BY <1>2
  <2> HIDE DEF Some
  <2> QED BY <1>4, <1>5, <1>h, <2>1, <2>2
<1>7. ASSUME NEW n \in 0 .. Len(order) - 1, n \in G
      PROVE  n + 1 \in G
  <2> DEFINE t == order[n + 1]
             q == f[n]
             r == f[n + 1]
  <2>1. n + 1 \in 0 .. Len(order) /\ n + 1 \in 1 .. Len(order) /\ n \in Nat
    BY <1>2
  <2>2. Some(n) \in SUBSET Tasks /\ t \in Tasks
    BY <1>2, <2>1
  <2>3. t \notin Some(n)
    <3> SUFFICES ASSUME NEW j \in 1 .. n, order[j] = t PROVE FALSE
      OBVIOUS
    <3>1. j \in 1 .. Len(order) /\ j # n + 1
      BY <1>2, <2>1
    <3> QED BY <3>1, <2>1, <1>2
  <2>4. Some(n + 1) = Some(n) \cup {t}
    <3>1. \A j : j \in 1 .. n + 1 <=> j \in 1 .. n \/ j = n + 1
      BY <2>1
    <3> QED BY <3>1
  <2>5. r = admit(q, t)
    BY <1>5 DEF add
  <2>6. /\ IsKernel(q) /\ HonestRings(q, Some(n)) /\ q.current = None /\ ~q.pend
        /\ \A u \in Tasks : q.prio[u] = prio[u] /\ q.state[u] = "Ready"
        /\ q.has = [u \in Tasks |-> FALSE]
    BY <1>7
  <2> HIDE DEF t, q, r, Some
  <2>7. /\ IsKernel(r) /\ HonestRings(r, Some(n) \cup {t})
        /\ r.state = [q.state EXCEPT ![t] = "Ready"] /\ Untouched(r, q)
        /\ r.pend = q.pend
    <3> DEFINE T == Some(n)
    <3>1. T \in SUBSET Tasks /\ t \in Tasks \ T /\ HonestRings(q, T)
      BY <2>2, <2>3, <2>6
    <3> HIDE DEF T
    <3>2. /\ IsKernel(r) /\ HonestRings(r, T \cup {t})
          /\ r.state = [q.state EXCEPT ![t] = "Ready"] /\ Untouched(r, q)
          /\ r.pend = q.pend
      BY <2>5, <2>6, <3>1, Admit
    <3> QED BY <3>2 DEF T
  <2>8. \A u \in Tasks : r.prio[u] = prio[u] /\ r.state[u] = "Ready"
    BY <2>6, <2>7 DEF Untouched, IsKernel, KernelType, Threads
  <2>9. r.current = None /\ ~r.pend /\ r.has = [u \in Tasks |-> FALSE]
    BY <2>6, <2>7 DEF Untouched
  <2> QED BY <2>1, <2>4, <2>7, <2>8, <2>9 DEF r
<1>8. \A n \in 0 .. Len(order) - 1 : n \in G => n + 1 \in G
  BY <1>7
<1> HIDE DEF G
<1>9. \A n \in 0 .. Len(order) : n \in G
  BY <1>2, <1>6, <1>8, UpTo
<1>l. Len(order) \in G
  BY <1>2, <1>9
<1>10. Good(Len(order))
  <2> HIDE DEF Some
  <2> QED BY <1>l DEF G
<1>11. Some(Len(order)) = S
  BY <1>2
<1> HIDE DEF Some
<1> QED BY <1>1, <1>10, <1>11

-----------------------------------------------------------------------------
(* The invariant.                                                          *)

\* current_ is the one Running task whenever a call or the tick trusts it.
RunnerIsKnown(S) ==
  /\ k.current \in S \cup {Idle, None}
  /\ mode = "boot" <=> k.current = None
  /\ mode = "boot" => ~k.pend
  /\ \A t \in S : k.state[t] = "Running" => t = k.current
  /\ (~k.pend \/ mode = "tick") /\ k.current \in S => k.state[k.current] = "Running"

SystemSound(S) ==
  /\ SystemType
  /\ HonestRings(k, S)
  /\ RunnerIsKnown(S)
  /\ \A t \in Tasks \ S : alarm[t] = "none"

\* No Ready task outranks the runner unless a switch is pending.
Strict(S) ==
  k.current # None /\ ~k.pend =>
    \A t \in S : k.state[t] = "Ready" => k.prio[k.current] <= k.prio[t]

\* Whatever was spawned, the system starts sound.
LEMMA SpawnedIsSound ==
  ASSUME NEW S \in SUBSET Tasks, NEW prio \in [Tasks -> Levels], Spawned(S, prio)
  PROVE  /\ SystemSound(S) /\ Strict(S)
         /\ \A t \in Tasks : k.prio[t] = prio[t] /\ k.state[t] = "Ready"
         /\ \A t \in Tasks : alarm[t] = "none" /\ ~ahead[t]
<1>1. /\ IsKernel(k) /\ HonestRings(k, S)
      /\ k.current = None /\ ~k.pend
      /\ \A t \in Tasks : k.prio[t] = prio[t] /\ k.state[t] = "Ready"
  BY SpawnAll
<1>2. /\ mode = "boot"
      /\ alarm = [t \in Tasks |-> "none"]
      /\ ahead = [t \in Tasks |-> FALSE]
  BY DEF Spawned
<1>3. SystemType
  BY <1>1, <1>2 DEF SystemType
<1>4. RunnerIsKnown(S)
  BY <1>1, <1>2, TasksAssumption DEF RunnerIsKnown
<1>5. Strict(S)
  BY <1>1 DEF Strict
<1> QED BY <1>1, <1>2, <1>3, <1>4, <1>5 DEF SystemSound

-----------------------------------------------------------------------------
(* The steps.                                                              *)

\* The task that executes is in the system and Running.
LEMMA RunsFacts ==
  ASSUME NEW S \in SUBSET Tasks, SystemSound(S), NEW t \in Tasks, Runs(t)
  PROVE  /\ t \in S /\ k.current = t /\ k.state[t] = "Running"
         /\ mode = "thread" /\ ~k.pend
         /\ IsKernel(k) /\ HonestRings(k, S)
BY TasksAssumption DEF SystemSound, SystemType, RunnerIsKnown, Runs

\* A section in which Blocked tasks become Ready, whatever else it does to the
\* priorities.
LEMMA AwakeIsSound ==
  ASSUME NEW S \in SUBSET Tasks, SystemSound(S), IsKernel(k'), HonestRings(k', S),
         k'.current = k.current, k.pend => k'.pend, k.current = None => k'.pend = k.pend,
         \A u \in S : \/ k'.state[u] = k.state[u]
                      \/ k.state[u] = "Blocked" /\ k'.state[u] = "Ready",
         mode' = mode, alarm' = alarm, ahead' = ahead
  PROVE  SystemSound(S)'
<1>1. SystemType'
  BY DEF SystemSound, SystemType
<1>2. RunnerIsKnown(S)'
  BY DEF SystemSound, RunnerIsKnown
<1> QED BY <1>1, <1>2 DEF SystemSound

\* A section that does nothing but wake tasks.
LEMMA WakeIsSound ==
  ASSUME NEW S \in SUBSET Tasks, SystemSound(S), Wakes(k', k, S),
         mode' = mode, alarm' = alarm, ahead' = ahead
  PROVE  SystemSound(S)' /\ (Strict(S) => Strict(S)')
<1>1. /\ IsKernel(k') /\ HonestRings(k', S) /\ Untouched(k', k)
      /\ k.pend => k'.pend
      /\ k.current = None => k'.pend = k.pend
      /\ \A u \in S : \/ k'.state[u] = k.state[u]
                      \/ k.state[u] = "Blocked" /\ k'.state[u] = "Ready"
      /\ \A u \in S :
           /\ k'.state[u] # k.state[u] /\ k.current # None
           /\ k.prio[u] < k.prio[k.current]
           => k'.pend
  BY DEF Wakes, Threads
<1>2. k'.current = k.current /\ k'.prio = k.prio
  BY <1>1 DEF Untouched
<1>3. SystemSound(S)'
  BY <1>1, <1>2, AwakeIsSound
<1>4. ASSUME Strict(S) PROVE Strict(S)'
  <2> SUFFICES ASSUME k'.current # None, ~k'.pend, NEW u \in S, k'.state[u] = "Ready"
               PROVE  k'.prio[k'.current] <= k'.prio[u]
    BY DEF Strict
  <2>1. k.current # None /\ ~k.pend
    BY <1>1, <1>2
  <2>2. CASE k'.state[u] = k.state[u]
    BY <1>2, <1>4, <2>1, <2>2 DEF Strict
  <2>3. CASE k'.state[u] # k.state[u]
    <3>1. ~(k.prio[u] < k.prio[k.current])
      BY <1>1, <2>1, <2>3
    <3>2. k.prio[u] \in Int /\ k.prio[k.current] \in Int
      BY <2>1, LevelsAssumption DEF SystemSound, SystemType, RunnerIsKnown, IsKernel, KernelType,
                                    Levels, kIdlePrio, Threads
    <3> QED BY <1>2, <3>1, <3>2
  <2> QED BY <2>2, <2>3
<1> QED BY <1>3, <1>4

\* A section in which the running task goes to sleep, whatever else it does to
\* the priorities.
LEMMA AsleepIsSound ==
  ASSUME NEW S \in SUBSET Tasks, SystemSound(S), NEW t \in Tasks, Runs(t),
         IsKernel(k'), HonestRings(k', S), k'.current = k.current, k'.pend,
         k'.state = [k.state EXCEPT ![t] = "Blocked"], mode' = mode,
         alarm' \in [Tasks -> {"none", "live", "stale"}], ahead' \in [Tasks -> BOOLEAN],
         \A u \in Tasks \ {t} : alarm'[u] = alarm[u]
  PROVE  /\ SystemSound(S)' /\ Strict(S)'
         /\ k'.state[t] = "Blocked"
         /\ \A u \in Threads \ {t} : k'.state[u] = k.state[u]
<1>1. /\ t \in S /\ k.current = t /\ mode = "thread" /\ IsKernel(k)
  BY RunsFacts
<1>3. k'.state[t] = "Blocked" /\ \A u \in Threads \ {t} : k'.state[u] = k.state[u]
  BY <1>1 DEF IsKernel, KernelType, Threads
<1>4. SystemType'
  BY DEF SystemSound, SystemType
<1>5. RunnerIsKnown(S)'
  BY <1>1, <1>3, TasksAssumption DEF SystemSound, RunnerIsKnown, Threads
<1>6. \A u \in Tasks \ S : alarm'[u] = "none"
  BY <1>1 DEF SystemSound
<1>7. SystemSound(S)'
  BY <1>4, <1>5, <1>6 DEF SystemSound
<1>8. Strict(S)'
  BY DEF Strict
<1> QED BY <1>3, <1>7, <1>8

\* A section in which the running task does nothing but go to sleep.
LEMMA BlockIsSound ==
  ASSUME NEW S \in SUBSET Tasks, SystemSound(S), NEW t \in Tasks, Runs(t),
         k' = block(k, t), mode' = mode,
         alarm' \in [Tasks -> {"none", "live", "stale"}], ahead' \in [Tasks -> BOOLEAN],
         \A u \in Tasks \ {t} : alarm'[u] = alarm[u]
  PROVE  /\ SystemSound(S)' /\ Strict(S)'
         /\ k'.prio = k.prio /\ k'.current = k.current /\ k'.pend
         /\ k'.state[t] = "Blocked"
         /\ \A u \in Threads \ {t} : k'.state[u] = k.state[u]
<1>1. /\ t \in S /\ k.current = t /\ k.state[t] = "Running"
      /\ IsKernel(k) /\ HonestRings(k, S)
  BY RunsFacts
<1>2. /\ IsKernel(k') /\ HonestRings(k', S) /\ Untouched(k', k)
      /\ k'.state = [k.state EXCEPT ![t] = "Blocked"] /\ k'.pend
  BY <1>1, BlockOp
<1>3. k'.current = k.current /\ k'.prio = k.prio
  BY <1>2 DEF Untouched
<1> QED BY <1>2, <1>3, AsleepIsSound

\* What a handler may do to a task: only a booked alarm ends a sleep, a fired
\* alarm ends it for sure, and alarms only fire.
HandlerEffect(S) ==
  /\ k'.prio = k.prio
  /\ \A u \in Tasks : alarm'[u] = alarm[u] \/ (alarm[u] # "none" /\ alarm'[u] = "none")
  /\ \A u \in S : k'.state[u] = "Blocked" => k.state[u] = "Blocked" /\ alarm'[u] = alarm[u]
  /\ \A u \in S : k.state[u] = "Blocked" /\ k'.state[u] # "Blocked" =>
                    alarm[u] # "none" /\ alarm'[u] = "none"

\* A pick, by SVC or PendSV.
LEMMA PickIsSound ==
  ASSUME NEW S \in SUBSET Tasks, SystemSound(S), k' = pick_next_locked([k EXCEPT !.pend = FALSE]),
         mode' = "thread", alarm' = alarm, ahead' = ahead
  PROVE  SystemSound(S)' /\ Strict(S)' /\ HandlerEffect(S)
<1> DEFINE ker == [k EXCEPT !.pend = FALSE]
<1>1. IsKernel(k) /\ HonestRings(k, S) /\ RunnerIsKnown(S)
  BY DEF SystemSound, SystemType
<1>2. /\ IsKernel(ker) /\ Untouched(ker, k) /\ ker.fifo = k.fifo /\ ker.present = k.present
      /\ ker.state = k.state /\ ker.pend = FALSE
  BY <1>1 DEF IsKernel, KernelType, Untouched
<1> HIDE DEF ker
<1>3. HonestRings(ker, S)
  BY <1>1, <1>2, FrameHonest DEF Untouched
<1>4. /\ ker.current \in S \cup {Idle, None}
      /\ \A t \in S : ker.state[t] = "Running" => t = ker.current
  BY <1>1, <1>2 DEF RunnerIsKnown, Untouched
<1> DEFINE q == pick_next_locked(ker)
<1>5. k' = q
  BY DEF ker
<1>6. /\ IsKernel(q) /\ HonestRings(q, S)
      /\ q.prio = ker.prio /\ q.pend = ker.pend
      /\ q.current \in S \cup {Idle}
      /\ q.state[q.current] = "Running"
      /\ \A t \in S : q.state[t] = "Running" => t = q.current
      /\ \A t \in S : q.state[t] = "Blocked" <=> ker.state[t] = "Blocked"
      /\ \A t \in S : q.state[t] = "Ready" => q.prio[q.current] <= q.prio[t]
  BY <1>2, <1>3, <1>4, PickOp
<1> HIDE DEF q
<1>7. RunnerIsKnown(S)'
  BY <1>5, <1>6, <1>2, TasksAssumption DEF RunnerIsKnown
<1>8. SystemType'
  BY <1>2, <1>5, <1>6 DEF SystemSound, SystemType
<1>9. SystemSound(S)'
  BY <1>5, <1>6, <1>7, <1>8 DEF SystemSound
<1>10. Strict(S)'
  BY <1>2, <1>5, <1>6 DEF Strict
<1>11. HandlerEffect(S)
  BY <1>2, <1>5, <1>6 DEF HandlerEffect, Untouched
<1> QED BY <1>9, <1>10, <1>11

\* Any enumeration of a set of tasks.
LEMMA EnumerationFacts ==
  ASSUME NEW D \in SUBSET Tasks, NEW order \in SetToSeqs(D)
  PROVE  /\ Len(order) \in Nat
         /\ \A i \in 1 .. Len(order) : order[i] \in D
         /\ \A t \in D : \E i \in 1 .. Len(order) : order[i] = t
<1> DEFINE n == Cardinality(D)
<1>1. IsFiniteSet(D)
  BY SystemAssumption, FS_Subset
<1>2. n \in Nat
  BY <1>1, FS_CardinalityType
<1>3. order \in [1 .. n -> D] /\ \A i, j \in 1 .. n : i # j => order[i] # order[j]
  BY DEF SetToSeqs
<1> HIDE DEF n
<1>4. Len(order) = n
  BY <1>2, <1>3
<1>5. order \in Injection(1 .. n, D)
  BY <1>3 DEF Injection, IsInjective
<1>6. Cardinality(1 .. n) = n
  BY <1>2, FS_Interval
<1>7. order \in Surjection(1 .. n, D)
  BY <1>1, <1>5, <1>6, FS_Injection DEF n
<1>8. \A t \in D : \E i \in 1 .. n : order[i] = t
  BY <1>7 DEF Surjection
<1> QED BY <1>2, <1>3, <1>4, <1>8

\* The first section of a tick.
LEMMA ElapsedIsSound ==
  ASSUME NEW S \in SUBSET Tasks, SystemSound(S), SysTick_Elapsed
  PROVE  SystemSound(S)' /\ (Strict(S) => Strict(S)') /\ HandlerEffect(S)
<1>1. PICK passed \in SUBSET {t \in Tasks : ahead[t]},
           forgotten \in SUBSET {t \in Tasks : alarm[t] = "stale"} :
             SysTick_on_elapsed(passed, forgotten)
  BY DEF SysTick_Elapsed
<1> DEFINE due == {t \in passed : alarm[t] = "live"} \cup forgotten
<1>2. /\ mode = "thread" /\ ~k.pend /\ mode' = "tick"
      /\ ahead' = [t \in Tasks |-> ahead[t] /\ t \notin passed]
      /\ alarm' = [t \in Tasks |-> IF t \in due THEN "none" ELSE alarm[t]]
      /\ \E order \in SetToSeqs(due) : k' = wake_from_sleep(k, order)
  BY <1>1 DEF SysTick_on_elapsed
<1>3. PICK order \in SetToSeqs(due) : k' = wake_from_sleep(k, order)
  BY <1>2
<1>4. /\ \A t \in due : t \in Tasks /\ alarm[t] # "none"
      /\ due \in SUBSET S
  BY <1>1 DEF SystemSound
<1> HIDE DEF due
<1>5. /\ Len(order) \in Nat
      /\ \A i \in 1 .. Len(order) : order[i] \in due
      /\ \A t \in due : \E i \in 1 .. Len(order) : order[i] = t
  BY <1>3, <1>4, EnumerationFacts
<1>6. IsKernel(k) /\ HonestRings(k, S) /\ RunnerIsKnown(S)
  BY DEF SystemSound, SystemType
<1>7. /\ Wakes(k', k, S)
      /\ \A i \in 1 .. Len(order) : k'.state[order[i]] # "Blocked"
      /\ \A u \in Threads : (\A i \in 1 .. Len(order) : order[i] # u) =>
           k'.state[u] = k.state[u]
  BY <1>3, <1>4, <1>5, <1>6, WakeAll
<1>8. /\ \A t \in due : k'.state[t] # "Blocked"
      /\ \A t \in S \ due : k'.state[t] = k.state[t]
  BY <1>5, <1>7 DEF Threads
<1>9. /\ IsKernel(k') /\ HonestRings(k', S) /\ Untouched(k', k)
      /\ \A u \in S : \/ k'.state[u] = k.state[u]
                      \/ k.state[u] = "Blocked" /\ k'.state[u] = "Ready"
      /\ \A u \in S :
           /\ k'.state[u] # k.state[u] /\ k.current # None
           /\ k.prio[u] < k.prio[k.current]
           => k'.pend
  BY <1>7 DEF Wakes, Threads
<1>10. /\ alarm \in [Tasks -> {"none", "live", "stale"}] /\ ahead \in [Tasks -> BOOLEAN]
       /\ \A t \in Tasks \ S : alarm[t] = "none"
  BY DEF SystemSound, SystemType
<1>11. SystemType'
  <2>1. alarm' \in [Tasks -> {"none", "live", "stale"}]
    BY <1>2, <1>10
  <2>2. ahead' \in [Tasks -> BOOLEAN]
    BY <1>2, <1>10
  <2> QED BY <1>2, <1>9, <2>1, <2>2 DEF SystemType
<1>12. RunnerIsKnown(S)'
  BY <1>2, <1>6, <1>9 DEF RunnerIsKnown, Untouched
<1>13. \A t \in Tasks \ S : alarm'[t] = "none"
  BY <1>2, <1>10
<1>14. SystemSound(S)'
  BY <1>9, <1>11, <1>12, <1>13 DEF SystemSound
<1>15. ASSUME Strict(S) PROVE Strict(S)'
  <2> SUFFICES ASSUME k'.current # None, ~k'.pend, NEW u \in S, k'.state[u] = "Ready"
               PROVE  k'.prio[k'.current] <= k'.prio[u]
    BY DEF Strict
  <2>1. k.current # None /\ ~k.pend /\ k'.prio = k.prio /\ k'.current = k.current
    BY <1>2, <1>9 DEF Untouched
  <2>2. CASE k'.state[u] = k.state[u]
    BY <1>15, <2>1, <2>2 DEF Strict
  <2>3. CASE k'.state[u] # k.state[u]
    <3>1. ~(k.prio[u] < k.prio[k.current])
      BY <1>9, <2>1, <2>3
    <3>2. k.prio[u] \in Int /\ k.prio[k.current] \in Int
      BY <2>1, LevelsAssumption DEF SystemSound, SystemType, RunnerIsKnown, IsKernel, KernelType,
                                    Levels, kIdlePrio, Threads
    <3> QED BY <2>1, <3>1, <3>2
  <2> QED BY <2>2, <2>3
<1>16. HandlerEffect(S)
  <2>1. \A u \in Tasks : /\ u \in due => alarm[u] # "none" /\ alarm'[u] = "none"
                         /\ u \notin due => alarm'[u] = alarm[u]
    BY <1>2, <1>4
  <2>2. k'.prio = k.prio
    BY <1>9 DEF Untouched
  <2> QED BY <1>8, <1>9, <2>1, <2>2 DEF HandlerEffect
<1> QED BY <1>14, <1>15, <1>16

\* The second section of a tick.
LEMMA TickIsSound ==
  ASSUME NEW S \in SUBSET Tasks, SystemSound(S), SysTick_on_tick
  PROVE  SystemSound(S)' /\ (Strict(S) => Strict(S)') /\ HandlerEffect(S)
<1>1. /\ mode = "tick" /\ mode' = "thread" /\ k' = on_tick(k) /\ alarm' = alarm /\ ahead' = ahead
  BY DEF SysTick_on_tick
<1>2. IsKernel(k) /\ HonestRings(k, S) /\ RunnerIsKnown(S)
  BY DEF SystemSound, SystemType
<1>3. k.current \in S \cup {Idle, None} /\ (k.current \in S => k.state[k.current] = "Running")
  BY <1>1, <1>2 DEF RunnerIsKnown
<1>4. /\ IsKernel(k') /\ HonestRings(k', S) /\ Untouched(k', k)
      /\ \/ k'.state = k.state /\ k'.pend = k.pend
         \/ /\ k.current \in S
            /\ k'.state = [k.state EXCEPT ![k.current] = "Ready"]
            /\ k'.pend
  BY <1>1, <1>2, <1>3, OnTickOp
<1>5. k.state \in [Threads -> TaskState] /\ S \subseteq Threads
  BY <1>2 DEF IsKernel, KernelType, Threads
<1>6. \A u \in S : \/ k'.state[u] = k.state[u]
                   \/ u = k.current /\ k'.state[u] = "Ready" /\ k'.pend
  BY <1>4, <1>5
<1>7. RunnerIsKnown(S)'
  BY <1>1, <1>2, <1>3, <1>4, <1>6 DEF RunnerIsKnown, Untouched
<1>8. SystemSound(S)'
  BY <1>1, <1>4, <1>7 DEF SystemSound, SystemType
<1>9. Strict(S) => Strict(S)'
  BY <1>4 DEF Strict, Untouched
<1>10. HandlerEffect(S)
  BY <1>1, <1>3, <1>4, <1>6 DEF HandlerEffect, Untouched
<1> QED BY <1>8, <1>9, <1>10

\* Every handler keeps the system sound and priority strict.
LEMMA HandlersAreSound ==
  ASSUME NEW S \in SUBSET Tasks, SystemSound(S), Handlers
  PROVE  SystemSound(S)' /\ (Strict(S) => Strict(S)') /\ HandlerEffect(S)
<1>1. CASE SVC_Handler
  <2>1. IsKernel(k) /\ ~k.pend
    BY <1>1 DEF SVC_Handler, SystemSound, SystemType, RunnerIsKnown
  <2>2. k = [k EXCEPT !.pend = FALSE]
    BY <2>1 DEF IsKernel, KernelType
  <2>3. k' = pick_next_locked([k EXCEPT !.pend = FALSE])
    BY <1>1, <2>2 DEF SVC_Handler
  <2> QED BY <1>1, <2>3, PickIsSound DEF SVC_Handler
<1>2. CASE PendSV_Handler
  BY <1>2, PickIsSound DEF PendSV_Handler
<1>3. CASE SysTick_Elapsed
  BY <1>3, ElapsedIsSound
<1>4. CASE SysTick_on_tick
  BY <1>4, TickIsSound
<1> QED BY <1>1, <1>2, <1>3, <1>4 DEF Handlers
=============================================================================
