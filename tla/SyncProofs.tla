----------------------------- MODULE SyncProofs -----------------------------
(***************************************************************************)
(* What tasks wait on, for any number of tasks, levels, bits, units and    *)
(* slots.  A call that waits is the same thing in all of them: a node in a *)
(* list, a state in the scheduler and, when the call is timed, an alarm.   *)
(* Ease says how the three go together for one task; each object adds what *)
(* its list, its counter and its calls have to do with each other.         *)
(***************************************************************************)
EXTENDS MCSync, TaskSystemProofs

-----------------------------------------------------------------------------
(* The kernel each object was built on is one and the same.                *)

\* Below the event group.
LEMMA EventsKernel ==
  /\ \A t : Events!Runs(t) <=> Runs(t)
  /\ \A q, t : Events!block(q, t) = block(q, t)
  /\ \A q, t : Events!ready(q, t) = ready(q, t)
  /\ \A q, s : Events!wake_from_sleep(q, s) = wake_from_sleep(q, s)
  /\ Events!Handlers <=> Handlers
  /\ Events!SystemType <=> SystemType
  /\ \A s, t : Events!remove(s, t) = remove(s, t)
<1> USE DEF Events!request_switch, request_switch, Events!push_back, push_back, Events!admit, admit,
           Events!ready, ready
<1>1. \A t : Events!Runs(t) <=> Runs(t)
  BY DEF Events!Runs, Runs
<1>2. \A q, t : Events!block(q, t) = block(q, t)
  BY DEF Events!block, block
<1>3. \A q, t : Events!ready(q, t) = ready(q, t)
  OBVIOUS
<1>4. \A q, s : Events!wake_from_sleep(q, s) = wake_from_sleep(q, s)
  BY DEF Events!wake_from_sleep, wake_from_sleep
<1>5. \A q : Events!pick_next_locked(q) = pick_next_locked(q)
  BY DEF Events!pick_next_locked, pick_next_locked, Events!push_front, push_front,
         Events!find_first_set, find_first_set, Events!pop_level, pop_level
<1>6. \A q : Events!on_tick(q) = on_tick(q)
  BY DEF Events!on_tick, on_tick
<1>7. Events!SysTick_Elapsed <=> SysTick_Elapsed
  <2>1. \A D : Events!SetToSeqs(D) = SetToSeqs(D)
    BY DEF Events!SetToSeqs, SetToSeqs, Events!Cardinality, Cardinality
  <2>2. \A A, B : Events!SysTick_on_elapsed(A, B) <=> SysTick_on_elapsed(A, B)
    <3> TAKE A, B
    <3> DEFINE due == {t \in A : alarm[t] = "live"} \cup B
    <3>1. (\E order \in Events!SetToSeqs(due) : k' = Events!wake_from_sleep(k, order))
            <=> (\E order \in SetToSeqs(due) : k' = wake_from_sleep(k, order))
      <4> HIDE DEF due
      <4> QED BY <1>4, <2>1
    <3> QED BY <3>1 DEF Events!SysTick_on_elapsed, SysTick_on_elapsed
  <2> QED BY <2>2 DEF Events!SysTick_Elapsed, SysTick_Elapsed
<1>8. Events!Handlers <=> Handlers
  BY <1>5, <1>6, <1>7 DEF Events!Handlers, Handlers, Events!SVC_Handler, SVC_Handler,
     Events!PendSV_Handler, PendSV_Handler, Events!SysTick_on_tick, SysTick_on_tick
<1>9. Events!SystemType <=> SystemType
  BY DEF Events!SystemType, SystemType, Events!IsKernel, IsKernel, Events!KernelType, KernelType,
     Events!Threads, Threads, Events!Levels, Levels, Events!kIdlePrio, kIdlePrio, Events!TaskState, TaskState
<1>10. \A s, t : Events!remove(s, t) = remove(s, t)
  BY DEF Events!remove, remove, Events!Contains, Contains, Events!RemoveAt, RemoveAt
<1> QED BY <1>1, <1>2, <1>3, <1>4, <1>8, <1>9, <1>10

\* Below the calls of ThisTask.
LEMMA FaceKernel ==
  /\ \A t : Face!Runs(t) <=> Runs(t)
  /\ \A q, t : Face!block(q, t) = block(q, t)
  /\ \A q, t : Face!ready(q, t) = ready(q, t)
  /\ \A q : Face!yield(q) = yield(q)
  /\ \A q, t, v : Face!notify(q, t, v) = notify(q, t, v)
  /\ \A q : Face!wait_notify(q) = wait_notify(q)
  /\ Face!Handlers <=> Handlers
  /\ Face!SystemType <=> SystemType
<1> USE DEF Face!request_switch, request_switch, Face!push_back, push_back, Face!admit, admit,
           Face!ready, ready
<1>1. \A t : Face!Runs(t) <=> Runs(t)
  BY DEF Face!Runs, Runs
<1>2. \A q, t : Face!block(q, t) = block(q, t)
  BY DEF Face!block, block
<1>3. \A q, t : Face!ready(q, t) = ready(q, t)
  OBVIOUS
<1>4. \A q, s : Face!wake_from_sleep(q, s) = wake_from_sleep(q, s)
  BY DEF Face!wake_from_sleep, wake_from_sleep
<1>5. \A q : Face!pick_next_locked(q) = pick_next_locked(q)
  BY DEF Face!pick_next_locked, pick_next_locked, Face!push_front, push_front,
         Face!find_first_set, find_first_set, Face!pop_level, pop_level
<1>6. \A q : Face!on_tick(q) = on_tick(q)
  BY DEF Face!on_tick, on_tick
<1>7. Face!SysTick_Elapsed <=> SysTick_Elapsed
  <2>1. \A D : Face!SetToSeqs(D) = SetToSeqs(D)
    BY DEF Face!SetToSeqs, SetToSeqs, Face!Cardinality, Cardinality
  <2>2. \A A, B : Face!SysTick_on_elapsed(A, B) <=> SysTick_on_elapsed(A, B)
    <3> TAKE A, B
    <3> DEFINE due == {t \in A : alarm[t] = "live"} \cup B
    <3>1. (\E order \in Face!SetToSeqs(due) : k' = Face!wake_from_sleep(k, order))
            <=> (\E order \in SetToSeqs(due) : k' = wake_from_sleep(k, order))
      <4> HIDE DEF due
      <4> QED BY <1>4, <2>1
    <3> QED BY <3>1 DEF Face!SysTick_on_elapsed, SysTick_on_elapsed
  <2> QED BY <2>2 DEF Face!SysTick_Elapsed, SysTick_Elapsed
<1>8. Face!Handlers <=> Handlers
  BY <1>5, <1>6, <1>7 DEF Face!Handlers, Handlers, Face!SVC_Handler, SVC_Handler,
     Face!PendSV_Handler, PendSV_Handler, Face!SysTick_on_tick, SysTick_on_tick
<1>9. Face!SystemType <=> SystemType
  BY DEF Face!SystemType, SystemType, Face!IsKernel, IsKernel, Face!KernelType, KernelType,
     Face!Threads, Threads, Face!Levels, Levels, Face!kIdlePrio, kIdlePrio, Face!TaskState, TaskState
<1>10. \A q : Face!yield(q) = yield(q) /\ Face!wait_notify(q) = wait_notify(q)
  BY DEF Face!yield, yield, Face!wait_notify, wait_notify
<1>11. \A q, t, v : Face!notify(q, t, v) = notify(q, t, v)
  BY DEF Face!notify, notify
<1> QED BY <1>1, <1>2, <1>3, <1>8, <1>9, <1>10, <1>11

\* Below the message queue.
LEMMA QueueKernel ==
  /\ \A t : Queue!Runs(t) <=> Runs(t)
  /\ Queue!Handlers <=> Handlers
<1> USE DEF Queue!request_switch, request_switch, Queue!push_back, push_back, Queue!admit, admit,
           Queue!ready, ready
<1>1. \A t : Queue!Runs(t) <=> Runs(t)
  BY DEF Queue!Runs, Runs
<1>2. \A q, t : Queue!block(q, t) = block(q, t)
  BY DEF Queue!block, block
<1>3. \A q, t : Queue!ready(q, t) = ready(q, t)
  OBVIOUS
<1>4. \A q, s : Queue!wake_from_sleep(q, s) = wake_from_sleep(q, s)
  BY DEF Queue!wake_from_sleep, wake_from_sleep
<1>5. \A q : Queue!pick_next_locked(q) = pick_next_locked(q)
  BY DEF Queue!pick_next_locked, pick_next_locked, Queue!push_front, push_front,
         Queue!find_first_set, find_first_set, Queue!pop_level, pop_level
<1>6. \A q : Queue!on_tick(q) = on_tick(q)
  BY DEF Queue!on_tick, on_tick
<1>7. Queue!SysTick_Elapsed <=> SysTick_Elapsed
  <2>1. \A D : Queue!SetToSeqs(D) = SetToSeqs(D)
    BY DEF Queue!SetToSeqs, SetToSeqs, Queue!Cardinality, Cardinality
  <2>2. \A A, B : Queue!SysTick_on_elapsed(A, B) <=> SysTick_on_elapsed(A, B)
    <3> TAKE A, B
    <3> DEFINE due == {t \in A : alarm[t] = "live"} \cup B
    <3>1. (\E order \in Queue!SetToSeqs(due) : k' = Queue!wake_from_sleep(k, order))
            <=> (\E order \in SetToSeqs(due) : k' = wake_from_sleep(k, order))
      <4> HIDE DEF due
      <4> QED BY <1>4, <2>1
    <3> QED BY <3>1 DEF Queue!SysTick_on_elapsed, SysTick_on_elapsed
  <2> QED BY <2>2 DEF Queue!SysTick_Elapsed, SysTick_Elapsed
<1>8. Queue!Handlers <=> Handlers
  BY <1>5, <1>6, <1>7 DEF Queue!Handlers, Handlers, Queue!SVC_Handler, SVC_Handler,
     Queue!PendSV_Handler, PendSV_Handler, Queue!SysTick_on_tick, SysTick_on_tick
<1> QED BY <1>1, <1>8

\* Below the semaphore of its free slots.
LEMMA RoomKernel ==
  /\ \A t : Queue!Room!Runs(t) <=> Runs(t)
  /\ \A q, t : Queue!Room!block(q, t) = block(q, t)
  /\ \A q, t : Queue!Room!ready(q, t) = ready(q, t)
  /\ Queue!Room!SystemType <=> SystemType
  /\ \A s, t : Queue!Room!remove(s, t) = remove(s, t)
<1> USE DEF Queue!Room!request_switch, request_switch, Queue!Room!push_back, push_back, Queue!Room!admit, admit,
           Queue!Room!ready, ready
<1>1. \A t : Queue!Room!Runs(t) <=> Runs(t)
  BY DEF Queue!Room!Runs, Runs
<1>2. \A q, t : Queue!Room!block(q, t) = block(q, t)
  BY DEF Queue!Room!block, block
<1>3. \A q, t : Queue!Room!ready(q, t) = ready(q, t)
  OBVIOUS
<1>9. Queue!Room!SystemType <=> SystemType
  BY DEF Queue!Room!SystemType, SystemType, Queue!Room!IsKernel, IsKernel, Queue!Room!KernelType, KernelType,
     Queue!Room!Threads, Threads, Queue!Room!Levels, Levels, Queue!Room!kIdlePrio, kIdlePrio, Queue!Room!TaskState, TaskState
<1>10. \A s, t : Queue!Room!remove(s, t) = remove(s, t)
  BY DEF Queue!Room!remove, remove, Queue!Room!Contains, Contains, Queue!Room!RemoveAt, RemoveAt
<1> QED BY <1>1, <1>2, <1>3, <1>9, <1>10

\* Below the semaphore of its messages.
LEMMA DataKernel ==
  /\ \A t : Queue!Data!Runs(t) <=> Runs(t)
  /\ \A q, t : Queue!Data!block(q, t) = block(q, t)
  /\ \A q, t : Queue!Data!ready(q, t) = ready(q, t)
  /\ Queue!Data!SystemType <=> SystemType
  /\ \A s, t : Queue!Data!remove(s, t) = remove(s, t)
<1> USE DEF Queue!Data!request_switch, request_switch, Queue!Data!push_back, push_back, Queue!Data!admit, admit,
           Queue!Data!ready, ready
<1>1. \A t : Queue!Data!Runs(t) <=> Runs(t)
  BY DEF Queue!Data!Runs, Runs
<1>2. \A q, t : Queue!Data!block(q, t) = block(q, t)
  BY DEF Queue!Data!block, block
<1>3. \A q, t : Queue!Data!ready(q, t) = ready(q, t)
  OBVIOUS
<1>9. Queue!Data!SystemType <=> SystemType
  BY DEF Queue!Data!SystemType, SystemType, Queue!Data!IsKernel, IsKernel, Queue!Data!KernelType, KernelType,
     Queue!Data!Threads, Threads, Queue!Data!Levels, Levels, Queue!Data!kIdlePrio, kIdlePrio, Queue!Data!TaskState, TaskState
<1>10. \A s, t : Queue!Data!remove(s, t) = remove(s, t)
  BY DEF Queue!Data!remove, remove, Queue!Data!Contains, Contains, Queue!Data!RemoveAt, RemoveAt
<1> QED BY <1>1, <1>2, <1>3, <1>9, <1>10

-----------------------------------------------------------------------------
(* A task that waits.                                                      *)

\* Outside a call a task is nowhere linked, awake and not booked.  In an
\* endless wait it is linked as long as it sleeps, and no alarm of an earlier
\* call may wake it.  In a timed one it sleeps linked and booked; still linked
\* and awake it is only when its deadline has passed, so that it will unlink
\* itself before it could link itself again.
Ease(out, endless, timed, linked, state, booked, more) ==
  /\ booked = "live" => more
  /\ out => ~linked /\ state # "Blocked" /\ booked # "live"
  /\ endless => (linked <=> state = "Blocked") /\ booked = "none"
  /\ timed => /\ state = "Blocked" => linked /\ booked = "live"
              /\ linked /\ state # "Blocked" => ~more

\* What passing time does to a deadline and the alarm that is booked for it.
LEMMA DeadlinesPass ==
  ASSUME NEW S \in SUBSET Tasks, SystemSound(S), Handlers
  PROVE  \A u \in Tasks :
           /\ ahead'[u] => ahead[u]
           /\ alarm[u] = "live" => \/ alarm'[u] = "live" /\ ahead'[u] = ahead[u]
                                   \/ alarm'[u] = "none" /\ ~ahead'[u]
<1>1. CASE SysTick_Elapsed
  <2>1. PICK passed \in SUBSET {t \in Tasks : ahead[t]},
             forgotten \in SUBSET {t \in Tasks : alarm[t] = "stale"} :
               SysTick_on_elapsed(passed, forgotten)
    BY <1>1 DEF SysTick_Elapsed
  <2> DEFINE due == {t \in passed : alarm[t] = "live"} \cup forgotten
  <2>2. /\ ahead' = [t \in Tasks |-> ahead[t] /\ t \notin passed]
        /\ alarm' = [t \in Tasks |-> IF t \in due THEN "none" ELSE alarm[t]]
    BY <2>1 DEF SysTick_on_elapsed
  <2>3. ahead \in [Tasks -> BOOLEAN]
    BY DEF SystemSound, SystemType
  <2> SUFFICES ASSUME NEW u \in Tasks
               PROVE  /\ ahead'[u] => ahead[u]
                      /\ alarm[u] = "live" => \/ alarm'[u] = "live" /\ ahead'[u] = ahead[u]
                                              \/ alarm'[u] = "none" /\ ~ahead'[u]
    OBVIOUS
  <2>4. CASE u \in passed
    BY <2>2, <2>4
  <2>5. CASE u \notin passed
    BY <2>2, <2>3, <2>5
  <2> QED BY <2>4, <2>5
<1>2. CASE SVC_Handler \/ PendSV_Handler \/ SysTick_on_tick
  BY <1>2 DEF SVC_Handler, PendSV_Handler, SysTick_on_tick, SystemSound, SystemType
<1> QED BY <1>1, <1>2 DEF Handlers

\* The handlers disturb nobody's wait.
LEMMA HandlersKeepEase ==
  ASSUME NEW S \in SUBSET Tasks, SystemSound(S), Handlers, NEW u \in S,
         NEW out \in BOOLEAN, NEW endless \in BOOLEAN, NEW timed \in BOOLEAN,
         NEW linked \in BOOLEAN,
         Ease(out, endless, timed, linked, k.state[u], alarm[u], ahead[u])
  PROVE  Ease(out, endless, timed, linked, k'.state[u], alarm'[u], ahead'[u])
<1>1. HandlerEffect(S)
  BY HandlersAreSound
<1>2. /\ ahead'[u] => ahead[u]
      /\ alarm[u] = "live" => \/ alarm'[u] = "live" /\ ahead'[u] = ahead[u]
                              \/ alarm'[u] = "none" /\ ~ahead'[u]
  BY DeadlinesPass
<1>3. /\ alarm'[u] = alarm[u] \/ (alarm[u] # "none" /\ alarm'[u] = "none")
      /\ k'.state[u] = "Blocked" => k.state[u] = "Blocked" /\ alarm'[u] = alarm[u]
      /\ k.state[u] = "Blocked" /\ k'.state[u] # "Blocked" => alarm[u] # "none" /\ alarm'[u] = "none"
  BY <1>1 DEF HandlerEffect
<1> QED BY <1>2, <1>3 DEF Ease

-----------------------------------------------------------------------------
(* A semaphore: its counter c, its list w and the calls p.                 *)

\* Those inside a call who are awake or will wake by themselves.
Contenders(w, p) == {t \in Tasks : p[t] # "out" /\ ~Contains(w, t)}

SemaphoreSound(c, w, p) ==
  /\ c \in Nat
  /\ w \in Seq(Tasks)
  /\ p \in [Tasks -> {"out", "acquire", "try_acquire"}]
  /\ LinkedOnce(w)
  /\ \A t \in Tasks : Contains(w, t) => p[t] # "out"
  /\ w # << >> => c <= Cardinality(Contenders(w, p))

\* Sets of tasks can be counted.
LEMMA TasksCount ==
  ASSUME NEW A \in SUBSET Tasks
  PROVE  IsFiniteSet(A) /\ Cardinality(A) \in Nat
BY SystemAssumption, FS_Subset, FS_CardinalityType

\* One more, one fewer, no fewer.
LEMMA CountsMove ==
  ASSUME NEW A \in SUBSET Tasks, NEW B \in SUBSET Tasks
  PROVE  /\ A \subseteq B => Cardinality(A) <= Cardinality(B)
         /\ \A t \in Tasks : t \notin A /\ B = A \cup {t} => Cardinality(B) = Cardinality(A) + 1
<1>1. IsFiniteSet(A) /\ Cardinality(A) \in Nat /\ IsFiniteSet(B) /\ Cardinality(B) \in Nat
  BY TasksCount
<1>2. A \subseteq B => Cardinality(A) <= Cardinality(B)
  BY <1>1, FS_Subset
<1>3. ASSUME NEW t \in Tasks, t \notin A, B = A \cup {t}
      PROVE  Cardinality(B) = Cardinality(A) + 1
  BY <1>1, <1>3, FS_AddElement
<1> QED BY <1>2, <1>3

\* As it is built, with nobody inside.
LEMMA SemaphoreBuilt ==
  ASSUME NEW c \in Nat
  PROVE  /\ SemaphoreSound(c, << >>, [t \in Tasks |-> "out"])
         /\ \A t : ~Contains(<< >>, t)
BY DEF SemaphoreSound, LinkedOnce, Contains

\* A call begins.
LEMMA SemaphoreEntered ==
  ASSUME NEW c, NEW w, NEW p, SemaphoreSound(c, w, p), NEW t \in Tasks, p[t] = "out",
         NEW x \in {"acquire", "try_acquire"}
  PROVE  SemaphoreSound(c, w, [p EXCEPT ![t] = x])
<1> DEFINE q == [p EXCEPT ![t] = x]
<1>1. /\ q \in [Tasks -> {"out", "acquire", "try_acquire"}]
      /\ q[t] = x /\ \A u \in Tasks \ {t} : q[u] = p[u]
  BY DEF SemaphoreSound
<1> HIDE DEF q
<1>2. \A u \in Tasks : Contains(w, u) => q[u] # "out"
  BY <1>1 DEF SemaphoreSound
<1>3. Contenders(w, p) \subseteq Contenders(w, q)
  BY <1>1 DEF Contenders
<1>4. Cardinality(Contenders(w, p)) <= Cardinality(Contenders(w, q))
  BY <1>3, CountsMove DEF Contenders
<1>5. Cardinality(Contenders(w, p)) \in Nat /\ Cardinality(Contenders(w, q)) \in Nat
  BY TasksCount DEF Contenders
<1>6. w # << >> => c <= Cardinality(Contenders(w, q))
  BY <1>4, <1>5 DEF SemaphoreSound
<1>7. SemaphoreSound(c, w, q)
  BY <1>1, <1>2, <1>6 DEF SemaphoreSound
<1> QED BY <1>7 DEF q

\* What a list holds after a node was unlinked, linked behind, or popped.
LEMMA NodesMove ==
  ASSUME NEW w \in Seq(Tasks), LinkedOnce(w)
  PROVE  /\ \A t : /\ remove(w, t) \in Seq(Tasks) /\ LinkedOnce(remove(w, t))
                   /\ \A u : Contains(remove(w, t), u) <=> Contains(w, u) /\ u # t
                   /\ w = << >> => remove(w, t) = << >>
         /\ \A t \in Tasks : ~Contains(w, t) =>
              /\ Append(w, t) \in Seq(Tasks) /\ LinkedOnce(Append(w, t))
              /\ \A u : Contains(Append(w, t), u) <=> Contains(w, u) \/ u = t
         /\ w # << >> =>
              /\ Tail(w) \in Seq(Tasks) /\ LinkedOnce(Tail(w))
              /\ Head(w) \in Tasks /\ Contains(w, Head(w))
              /\ \A u : Contains(Tail(w), u) <=> Contains(w, u) /\ u # Head(w)
<1>1. ASSUME NEW t
      PROVE  /\ remove(w, t) \in Seq(Tasks) /\ LinkedOnce(remove(w, t))
             /\ \A u : Contains(remove(w, t), u) <=> Contains(w, u) /\ u # t
             /\ w = << >> => remove(w, t) = << >>
  <2>1. remove(w, t) \in Seq(Tasks)
    BY RemoveRemoves
  <2>2. CASE ~Contains(w, t)
    <3>1. remove(w, t) = w
      BY <2>2, RemoveRemoves
    <3> QED BY <2>1, <2>2, <3>1
  <2>3. CASE Contains(w, t)
    <3>1. PICK m \in 1 .. Len(w) : InsertedAt(w, remove(w, t), m, t)
      BY <2>3, RemoveRemoves
    <3>2. LinkedOnce(remove(w, t)) /\ ~Contains(remove(w, t), t)
      BY <3>1, InsertedLinkedOnce
    <3>3. \A u : Contains(w, u) <=> u = t \/ Contains(remove(w, t), u)
      BY <3>1, InsertedContains
    <3>4. w # << >>
      BY <2>3 DEF Contains
    <3> QED BY <2>1, <3>2, <3>3, <3>4
  <2> QED BY <2>2, <2>3
<1>2. ASSUME NEW t \in Tasks, ~Contains(w, t)
      PROVE  /\ Append(w, t) \in Seq(Tasks) /\ LinkedOnce(Append(w, t))
             /\ \A u : Contains(Append(w, t), u) <=> Contains(w, u) \/ u = t
  <2>1. Append(w, t) \in Seq(Tasks) /\ InsertedAt(Append(w, t), w, Len(w) + 1, t)
    BY AppendInserts
  <2>2. LinkedOnce(Append(w, t))
    BY <1>2, <2>1, InsertedLinkedOnce
  <2>3. \A u : Contains(Append(w, t), u) <=> u = t \/ Contains(w, u)
    BY <2>1, InsertedContains
  <2> QED BY <2>1, <2>2, <2>3
<1>3. ASSUME w # << >>
      PROVE  /\ Tail(w) \in Seq(Tasks) /\ LinkedOnce(Tail(w))
             /\ Head(w) \in Tasks /\ Contains(w, Head(w))
             /\ \A u : Contains(Tail(w), u) <=> Contains(w, u) /\ u # Head(w)
  <2>1. Tail(w) \in Seq(Tasks) /\ Head(w) \in Tasks /\ InsertedAt(w, Tail(w), 1, Head(w))
    BY <1>3, TailRemoves
  <2>2. LinkedOnce(Tail(w)) /\ ~Contains(Tail(w), Head(w))
    BY <2>1, InsertedLinkedOnce
  <2>3. \A u : Contains(w, u) <=> u = Head(w) \/ Contains(Tail(w), u)
    BY <2>1, InsertedContains
  <2> QED BY <2>1, <2>2, <2>3
<1> QED BY <1>1, <1>2, <1>3

\* A unit is taken, or the call gives up without one; either way the node is
\* unlinked.
LEMMA SemaphoreLeft ==
  ASSUME NEW c, NEW w, NEW p, SemaphoreSound(c, w, p), NEW t \in Tasks, p[t] # "out",
         NEW d, (c > 0 /\ d = c - 1) \/ (c = 0 /\ d = 0)
  PROVE  SemaphoreSound(d, remove(w, t), [p EXCEPT ![t] = "out"])
<1> DEFINE q == [p EXCEPT ![t] = "out"]
           v == remove(w, t)
           C == Contenders(w, p)
           D == Contenders(v, q)
<1>1. /\ q \in [Tasks -> {"out", "acquire", "try_acquire"}]
      /\ q[t] = "out" /\ \A u \in Tasks \ {t} : q[u] = p[u]
  BY DEF SemaphoreSound
<1>2. /\ v \in Seq(Tasks) /\ LinkedOnce(v)
      /\ \A u : Contains(v, u) <=> Contains(w, u) /\ u # t
      /\ w = << >> => v = << >>
  BY NodesMove DEF SemaphoreSound
<1>3. c \in Nat /\ d \in Nat /\ d <= c
  BY DEF SemaphoreSound
<1> HIDE DEF q, v
<1>4. \A u \in Tasks : Contains(v, u) => q[u] # "out"
  BY <1>1, <1>2 DEF SemaphoreSound
<1>5. D = C \ {t}
  BY <1>1, <1>2 DEF Contenders
<1>6. C \in SUBSET Tasks /\ D \in SUBSET Tasks
  BY DEF Contenders
<1> HIDE DEF C, D
<1>7. Cardinality(C) \in Nat /\ Cardinality(D) \in Nat
  BY <1>6, TasksCount
<1>8. ASSUME v # << >> PROVE d <= Cardinality(D)
  <2>1. c <= Cardinality(C)
    BY <1>2, <1>8 DEF SemaphoreSound, C
  <2>2. CASE t \in C
    <3>1. C = D \cup {t} /\ t \notin D
      BY <1>5, <2>2
    <3>2. Cardinality(C) = Cardinality(D) + 1
      BY <1>6, <3>1, CountsMove
    <3> QED BY <1>3, <1>7, <2>1, <3>2
  <2>3. CASE t \notin C
    <3>1. D = C
      BY <1>5, <2>3
    <3> QED BY <1>3, <1>7, <2>1, <3>1
  <2> QED BY <2>2, <2>3
<1>9. SemaphoreSound(d, v, q)
  BY <1>1, <1>2, <1>3, <1>4, <1>8 DEF SemaphoreSound, D
<1> QED BY <1>9 DEF q, v

\* The node goes to the end of the list.
LEMMA SemaphoreParked ==
  ASSUME NEW w, NEW p, SemaphoreSound(0, w, p), NEW t \in Tasks, p[t] # "out",
         ~Contains(w, t)
  PROVE  SemaphoreSound(0, Append(w, t), p)
<1>1. /\ Append(w, t) \in Seq(Tasks) /\ LinkedOnce(Append(w, t))
      /\ \A u : Contains(Append(w, t), u) <=> Contains(w, u) \/ u = t
  BY NodesMove DEF SemaphoreSound
<1>2. Cardinality(Contenders(Append(w, t), p)) \in Nat
  BY TasksCount DEF Contenders
<1> QED BY <1>1, <1>2 DEF SemaphoreSound

\* A unit comes, and the first waiter is on its way to it.
LEMMA SemaphoreReleased ==
  ASSUME NEW c, NEW w, NEW p, SemaphoreSound(c, w, p),
         NEW v, (w = << >> /\ v = w) \/ (w # << >> /\ v = Tail(w))
  PROVE  SemaphoreSound(c + 1, v, p)
<1>1. c \in Nat /\ c + 1 \in Nat
  BY DEF SemaphoreSound
<1>2. CASE w = << >>
  BY <1>1, <1>2 DEF SemaphoreSound
<1>3. CASE w # << >>
  <2> DEFINE h == Head(w)
             C == Contenders(w, p)
             D == Contenders(v, p)
  <2>0. v = Tail(w) /\ w \in Seq(Tasks) /\ LinkedOnce(w)
    BY <1>3 DEF SemaphoreSound
  <2>1. /\ v \in Seq(Tasks) /\ LinkedOnce(v) /\ h \in Tasks /\ Contains(w, h)
        /\ \A u : Contains(v, u) <=> Contains(w, u) /\ u # h
    BY <1>3, <2>0, NodesMove
  <2> HIDE DEF h
  <2>2. p[h] # "out"
    BY <2>1 DEF SemaphoreSound
  <2>3. D = C \cup {h} /\ h \notin C
    BY <2>1, <2>2 DEF Contenders
  <2>4. C \in SUBSET Tasks /\ D \in SUBSET Tasks /\ c <= Cardinality(C)
    BY <1>3 DEF Contenders, SemaphoreSound
  <2> HIDE DEF C, D
  <2>5. Cardinality(C) \in Nat /\ Cardinality(D) = Cardinality(C) + 1
    BY <2>1, <2>3, <2>4, TasksCount, CountsMove
  <2>6. c + 1 <= Cardinality(D)
    BY <1>1, <2>4, <2>5
  <2>7. \A u \in Tasks : Contains(v, u) => p[u] # "out"
    BY <2>1 DEF SemaphoreSound
  <2> QED BY <1>1, <2>1, <2>6, <2>7 DEF SemaphoreSound, D
<1> QED BY <1>2, <1>3

-----------------------------------------------------------------------------
(* The sections of a semaphore's calls, whichever semaphore it is.         *)

\* The alarm node and the deadline of a task that was spawned change.
LEMMA BookingIsSound ==
  ASSUME NEW S \in SUBSET Tasks, SystemSound(S), NEW t \in S, k' = k, mode' = mode,
         NEW a \in {"none", "live", "stale"}, alarm' = [alarm EXCEPT ![t] = a],
         NEW h \in BOOLEAN, ahead' = [ahead EXCEPT ![t] = h]
  PROVE  /\ SystemSound(S)'
         /\ alarm'[t] = a /\ ahead'[t] = h
         /\ \A u \in Tasks \ {t} : alarm'[u] = alarm[u] /\ ahead'[u] = ahead[u]
<1>1. alarm \in [Tasks -> {"none", "live", "stale"}] /\ ahead \in [Tasks -> BOOLEAN] /\ t \in Tasks
  BY DEF SystemSound, SystemType
<1>2. /\ alarm'[t] = a /\ ahead'[t] = h
      /\ \A u \in Tasks \ {t} : alarm'[u] = alarm[u] /\ ahead'[u] = ahead[u]
      /\ alarm' \in [Tasks -> {"none", "live", "stale"}] /\ ahead' \in [Tasks -> BOOLEAN]
  BY <1>1
<1>3. SystemType' /\ RunnerIsKnown(S)' /\ HonestRings(k', S)
  BY <1>2 DEF SystemSound, SystemType, RunnerIsKnown
<1>4. \A u \in Tasks \ S : alarm'[u] = "none"
  BY <1>2 DEF SystemSound
<1> QED BY <1>2, <1>3, <1>4 DEF SystemSound

\* Nothing of the system changes.
LEMMA StillIsSound ==
  ASSUME NEW S \in SUBSET Tasks, SystemSound(S), k' = k, mode' = mode, alarm' = alarm, ahead' = ahead
  PROVE  SystemSound(S)'
BY DEF SystemSound, SystemType, RunnerIsKnown

\* One task is woken.
LEMMA WakingIsSound ==
  ASSUME NEW S \in SUBSET Tasks, SystemSound(S), NEW t \in S, k' = ready(k, t),
         mode' = mode, alarm' = alarm, ahead' = ahead
  PROVE  /\ SystemSound(S)'
         /\ k'.state[t] # "Blocked"
         /\ \A u \in Tasks \ {t} : k'.state[u] = k.state[u]
<1>1. IsKernel(k) /\ HonestRings(k, S)
  BY DEF SystemSound, SystemType
<1>2. /\ Wakes(k', k, S) /\ k'.state[t] # "Blocked"
      /\ \A u \in Threads \ {t} : k'.state[u] = k.state[u]
  BY <1>1, ReadyWakes
<1>3. SystemSound(S)'
  BY <1>2, WakeIsSound
<1> QED BY <1>2, <1>3 DEF Threads

\* t enters a call of kind x.
Enters(t, x, p, q) ==
  /\ Runs(t) /\ p[t] = "out" /\ q = [p EXCEPT ![t] = x]
  /\ k' = k /\ mode' = mode /\ alarm' = alarm
  /\ x = "acquire" => ahead' = ahead
  /\ x = "try_acquire" => \E later \in BOOLEAN : ahead' = [ahead EXCEPT ![t] = later]

\* t returns from it, with or without a unit.
Returns(t, x, c, w, p, d, v, q) ==
  /\ (c > 0 /\ d = c - 1) \/ (c = 0 /\ d = 0 /\ x = "try_acquire")
  /\ v = remove(w, t) /\ q = [p EXCEPT ![t] = "out"]
  /\ k' = k /\ mode' = mode
  /\ x = "acquire" => alarm' = alarm /\ ahead' = ahead
  /\ x = "try_acquire" => /\ alarm' = [alarm EXCEPT ![t] = IF @ = "none" THEN @ ELSE "stale"]
                          /\ ahead' = [ahead EXCEPT ![t] = FALSE]

\* t goes to sleep in it.
Parks(t, x, c, w, p, d, v, q) ==
  /\ c = 0 /\ d = 0 /\ v = Append(w, t) /\ q = p
  /\ k' = block(k, t) /\ mode' = mode /\ ahead' = ahead
  /\ x = "acquire" => alarm' = alarm
  /\ x = "try_acquire" => ahead[t] /\ alarm' = [alarm EXCEPT ![t] = "live"]

\* A turn of its loop.
TurnOf(t, x, c, w, p, d, v, q) ==
  /\ Runs(t) /\ p[t] = x /\ x \in {"acquire", "try_acquire"}
  /\ Returns(t, x, c, w, p, d, v, q) \/ Parks(t, x, c, w, p, d, v, q)

\* A unit is handed in.
Handed(c, w, d, v) ==
  /\ d = c + 1
  /\ \/ w = << >> /\ v = w /\ k' = k
     \/ w # << >> /\ v = Tail(w) /\ k' = ready(k, Head(w))
  /\ mode' = mode /\ alarm' = alarm /\ ahead' = ahead

\* What a call's begin comes to.
LEMMA EnteringIsSound ==
  ASSUME SystemSound(Tasks), NEW c, NEW w, NEW p, SemaphoreSound(c, w, p), NEW t \in Tasks,
         NEW x \in {"acquire", "try_acquire"}, NEW q, Enters(t, x, p, q)
  PROVE  /\ SystemSound(Tasks)' /\ SemaphoreSound(c, w, q)
         /\ q[t] = x /\ k' = k /\ alarm' = alarm
         /\ \A u \in Tasks \ {t} : q[u] = p[u] /\ ahead'[u] = ahead[u]
<1>1. SemaphoreSound(c, w, q)
  BY SemaphoreEntered DEF Enters
<1>2. q[t] = x /\ k' = k /\ mode' = mode /\ alarm' = alarm /\ \A u \in Tasks \ {t} : q[u] = p[u]
  BY DEF Enters, SemaphoreSound
<1>3. CASE ahead' = ahead
  BY <1>1, <1>2, <1>3, StillIsSound
<1>4. CASE \E later \in BOOLEAN : ahead' = [ahead EXCEPT ![t] = later]
  <2>1. PICK later \in BOOLEAN : ahead' = [ahead EXCEPT ![t] = later]
    BY <1>4
  <2>2. alarm \in [Tasks -> {"none", "live", "stale"}]
    BY DEF SystemSound, SystemType
  <2>3. alarm' = [alarm EXCEPT ![t] = alarm[t]] /\ alarm[t] \in {"none", "live", "stale"}
    BY <1>2, <2>2
  <2>4. SystemSound(Tasks)' /\ \A u \in Tasks \ {t} : ahead'[u] = ahead[u]
    BY <1>2, <2>1, <2>3, BookingIsSound
  <2> QED BY <1>1, <1>2, <2>4
<1> QED BY <1>3, <1>4 DEF Enters

\* What a return comes to.
LEMMA ReturningIsSound ==
  ASSUME SystemSound(Tasks), NEW c, NEW w, NEW p, SemaphoreSound(c, w, p), NEW t \in Tasks,
         Runs(t), NEW x \in {"acquire", "try_acquire"}, p[t] = x,
         NEW d, NEW v, NEW q, Returns(t, x, c, w, p, d, v, q)
  PROVE  /\ SystemSound(Tasks)' /\ SemaphoreSound(d, v, q)
         /\ q = [p EXCEPT ![t] = "out"] /\ q[t] = "out" /\ ~Contains(v, t) /\ k' = k
         /\ k'.state[t] # "Blocked"
         /\ (c > 0 /\ d = c - 1) \/ (c = 0 /\ d = 0)
         /\ \/ x = "acquire" /\ alarm' = alarm /\ ahead' = ahead
            \/ x = "try_acquire" /\ alarm'[t] # "live" /\ ~ahead'[t]
         /\ \A u \in Tasks \ {t} : /\ q[u] = p[u] /\ (Contains(v, u) <=> Contains(w, u))
                                   /\ alarm'[u] = alarm[u] /\ ahead'[u] = ahead[u]
<1>1. SemaphoreSound(d, v, q)
  BY SemaphoreLeft DEF Returns
<1>2. /\ q[t] = "out" /\ \A u \in Tasks \ {t} : q[u] = p[u]
      /\ k' = k /\ mode' = mode /\ q = [p EXCEPT ![t] = "out"]
      /\ (c > 0 /\ d = c - 1) \/ (c = 0 /\ d = 0)
  BY DEF Returns, SemaphoreSound
<1>3. ~Contains(v, t) /\ \A u \in Tasks \ {t} : Contains(v, u) <=> Contains(w, u)
  BY NodesMove DEF Returns, SemaphoreSound
<1>4. k.state[t] # "Blocked"
  BY RunsFacts
<1>5. CASE x = "acquire"
  <2>1. alarm' = alarm /\ ahead' = ahead
    BY <1>5 DEF Returns
  <2>2. SystemSound(Tasks)'
    BY <1>2, <2>1, StillIsSound
  <2> QED BY <1>1, <1>2, <1>3, <1>4, <1>5, <2>1, <2>2
<1>6. CASE x = "try_acquire"
  <2> DEFINE a == IF alarm[t] = "none" THEN alarm[t] ELSE "stale"
  <2>1. a \in {"none", "live", "stale"} /\ a # "live"
    OBVIOUS
  <2>2. alarm' = [alarm EXCEPT ![t] = a] /\ ahead' = [ahead EXCEPT ![t] = FALSE]
    BY <1>6 DEF Returns
  <2> HIDE DEF a
  <2>3. /\ SystemSound(Tasks)' /\ alarm'[t] = a /\ ~ahead'[t]
        /\ \A u \in Tasks \ {t} : alarm'[u] = alarm[u] /\ ahead'[u] = ahead[u]
    BY <1>2, <2>1, <2>2, BookingIsSound
  <2> QED BY <1>1, <1>2, <1>3, <1>4, <1>6, <2>1, <2>3
<1> QED BY <1>5, <1>6

\* What going to sleep comes to.
LEMMA ParkingIsSound ==
  ASSUME SystemSound(Tasks), NEW c, NEW w, NEW p, SemaphoreSound(c, w, p), NEW t \in Tasks,
         Runs(t), NEW x \in {"acquire", "try_acquire"}, p[t] = x, ~Contains(w, t),
         NEW d, NEW v, NEW q, Parks(t, x, c, w, p, d, v, q)
  PROVE  /\ SystemSound(Tasks)' /\ SemaphoreSound(d, v, q)
         /\ q = p /\ c = 0 /\ d = 0 /\ Contains(v, t) /\ ahead' = ahead
         /\ k'.state[t] = "Blocked"
         /\ \/ x = "acquire" /\ alarm' = alarm
            \/ x = "try_acquire" /\ alarm'[t] = "live" /\ ahead[t]
         /\ \A u \in Tasks \ {t} : /\ Contains(v, u) <=> Contains(w, u)
                                   /\ alarm'[u] = alarm[u] /\ k'.state[u] = k.state[u]
<1>1. c = 0 /\ d = 0 /\ q = p /\ v = Append(w, t) /\ k' = block(k, t) /\ mode' = mode /\ ahead' = ahead
  BY DEF Parks
<1>2. SemaphoreSound(d, v, q)
  BY <1>1, SemaphoreParked
<1>3. \A u : Contains(v, u) <=> Contains(w, u) \/ u = t
  BY <1>1, NodesMove DEF SemaphoreSound
<1>4. alarm \in [Tasks -> {"none", "live", "stale"}] /\ ahead \in [Tasks -> BOOLEAN]
  BY DEF SystemSound, SystemType
<1>5. /\ alarm' \in [Tasks -> {"none", "live", "stale"}] /\ ahead' \in [Tasks -> BOOLEAN]
      /\ \A u \in Tasks \ {t} : alarm'[u] = alarm[u]
      /\ \/ x = "acquire" /\ alarm' = alarm
         \/ x = "try_acquire" /\ alarm'[t] = "live" /\ ahead[t]
  <2>1. CASE x = "acquire"
    BY <1>1, <1>4, <2>1 DEF Parks
  <2>2. CASE x = "try_acquire"
    BY <1>1, <1>4, <2>2 DEF Parks
  <2> QED BY <2>1, <2>2
<1>6. /\ SystemSound(Tasks)' /\ k'.state[t] = "Blocked"
      /\ \A u \in Threads \ {t} : k'.state[u] = k.state[u]
  BY <1>1, <1>5, BlockIsSound
<1> QED BY <1>1, <1>2, <1>3, <1>5, <1>6 DEF Threads

\* What a release comes to: whoever was unlinked is awake.
LEMMA HandingIsSound ==
  ASSUME SystemSound(Tasks), NEW c, NEW w, NEW p, SemaphoreSound(c, w, p),
         NEW d, NEW v, Handed(c, w, d, v)
  PROVE  /\ SystemSound(Tasks)' /\ SemaphoreSound(d, v, p) /\ d = c + 1
         /\ alarm' = alarm /\ ahead' = ahead
         /\ \A u \in Tasks : \/ (Contains(v, u) <=> Contains(w, u)) /\ k'.state[u] = k.state[u]
                             \/ Contains(w, u) /\ ~Contains(v, u) /\ k'.state[u] # "Blocked"
<1>1. d = c + 1 /\ mode' = mode /\ alarm' = alarm /\ ahead' = ahead
  BY DEF Handed
<1>2. SemaphoreSound(d, v, p)
  BY SemaphoreReleased DEF Handed
<1>3. CASE w = << >> /\ v = w /\ k' = k
  <2>1. SystemSound(Tasks)'
    BY <1>1, <1>3, StillIsSound
  <2> QED BY <1>1, <1>2, <1>3, <2>1
<1>4. CASE w # << >> /\ v = Tail(w) /\ k' = ready(k, Head(w))
  <2> DEFINE h == Head(w)
  <2>1. h \in Tasks /\ Contains(w, h) /\ \A u : Contains(v, u) <=> Contains(w, u) /\ u # h
    BY <1>4, NodesMove DEF SemaphoreSound
  <2>2. k' = ready(k, h)
    BY <1>4
  <2> HIDE DEF h
  <2>3. /\ SystemSound(Tasks)' /\ k'.state[h] # "Blocked"
        /\ \A u \in Tasks \ {h} : k'.state[u] = k.state[u]
    BY <1>1, <2>1, <2>2, WakingIsSound
  <2> QED BY <1>1, <1>2, <2>1, <2>3
<1> QED BY <1>3, <1>4 DEF Handed

-----------------------------------------------------------------------------
(* The semaphore.                                                          *)

SemaphoreEase(t) ==
  Ease(pc[t] = "out", pc[t] = "acquire", pc[t] = "try_acquire", Contains(waiters, t),
       k.state[t], alarm[t], ahead[t])

\* Who waits how, and who never books an alarm.
SemaphoreRole(t) ==
  /\ pc[t] = "acquire" => t \in Forever
  /\ pc[t] = "try_acquire" => t \in Timed
  /\ t \in Forever => alarm[t] = "none"

SemaphoreInv ==
  /\ SystemSound(Tasks)
  /\ SemaphoreSound(count, waiters, pc)
  /\ count <= MaxCount
  /\ \A t \in Tasks : SemaphoreEase(t) /\ SemaphoreRole(t)

\* The handlers.
LEMMA SemaphoreHandlers ==
  ASSUME SemaphoreInv, Handlers, UNCHANGED << count, waiters, pc >>
  PROVE  SemaphoreInv'
<1>1. SystemSound(Tasks) /\ SystemSound(Tasks)' /\ HandlerEffect(Tasks)
  BY HandlersAreSound DEF SemaphoreInv
<1>2. count' = count /\ waiters' = waiters /\ pc' = pc
  OBVIOUS
<1>3. ASSUME NEW u \in Tasks PROVE SemaphoreEase(u)' /\ SemaphoreRole(u)'
  <2> DEFINE out == pc[u] = "out"
             endless == pc[u] = "acquire"
             timed == pc[u] = "try_acquire"
             linked == Contains(waiters, u)
  <2>1. Ease(out, endless, timed, linked, k.state[u], alarm[u], ahead[u])
    BY DEF SemaphoreInv, SemaphoreEase
  <2>2. linked \in BOOLEAN
    BY DEF Contains
  <2>3. Ease(out, endless, timed, linked, k'.state[u], alarm'[u], ahead'[u])
    <3> HIDE DEF linked
    <3> QED BY <1>1, <2>1, <2>2, HandlersKeepEase
  <2>4. SemaphoreEase(u)'
    BY <1>2, <2>3 DEF SemaphoreEase
  <2>5. SemaphoreRole(u)'
    BY <1>1, <1>2 DEF SemaphoreInv, SemaphoreRole, HandlerEffect
  <2> QED BY <2>4, <2>5
<1> QED BY <1>1, <1>2, <1>3 DEF SemaphoreInv

\* acquire and try_acquire begin.
LEMMA SemaphoreCalls ==
  ASSUME SemaphoreInv, NEW t \in Tasks, CallAcquire(t) \/ CallTryAcquire(t)
  PROVE  SemaphoreInv'
<1>1. PICK x \in {"acquire", "try_acquire"} :
        /\ Enters(t, x, pc, pc')
        /\ x = "acquire" => t \in Forever
        /\ x = "try_acquire" => t \in Timed
        /\ count' = count /\ waiters' = waiters
  BY DEF CallAcquire, CallTryAcquire, StartDeadline, Enters, sysvars
<1>2. /\ SystemSound(Tasks)' /\ SemaphoreSound(count, waiters, pc')
      /\ pc'[t] = x /\ k' = k /\ alarm' = alarm
      /\ \A u \in Tasks \ {t} : pc'[u] = pc[u] /\ ahead'[u] = ahead[u]
  BY <1>1, EnteringIsSound DEF SemaphoreInv
<1>3. pc[t] = "out"
  BY <1>1 DEF Enters
<1>4. SemaphoreEase(t)' /\ SemaphoreRole(t)'
  <2>1. SemaphoreEase(t) /\ SemaphoreRole(t)
    BY DEF SemaphoreInv
  <2>2. ~Contains(waiters, t) /\ k.state[t] # "Blocked" /\ alarm[t] # "live"
    BY <1>3, <2>1 DEF SemaphoreEase, Ease
  <2> QED BY <1>1, <1>2, <2>1, <2>2 DEF SemaphoreEase, SemaphoreRole, Ease
<1>5. ASSUME NEW u \in Tasks \ {t} PROVE SemaphoreEase(u)' /\ SemaphoreRole(u)'
  BY <1>1, <1>2 DEF SemaphoreInv, SemaphoreEase, SemaphoreRole
<1> QED BY <1>1, <1>2, <1>4, <1>5 DEF SemaphoreInv

\* A turn of a loop is one of the two, whichever call it is.
LEMMA SemaphoreTurns ==
  ASSUME SemaphoreInv, NEW t \in Tasks, Turn(t)
  PROVE  \E x \in {"acquire", "try_acquire"} :
           TurnOf(t, x, count, waiters, pc, count', waiters', pc')
<1>1. count \in Nat
  BY DEF SemaphoreInv, SemaphoreSound
<1>2. CASE acquire(t)
  <2>1. TurnOf(t, "acquire", count, waiters, pc, count', waiters', pc')
    BY <1>1, <1>2 DEF acquire, take, park, TurnOf, Returns, Parks, sysvars
  <2> QED BY <2>1
<1>3. CASE try_acquire(t)
  <2>1. TurnOf(t, "try_acquire", count, waiters, pc, count', waiters', pc')
    BY <1>1, <1>3 DEF try_acquire, take, park, give_up, sleep_for, LeaveAlarm,
                      TurnOf, Returns, Parks, sysvars
  <2> QED BY <2>1
<1> QED BY <1>2, <1>3 DEF Turn

\* A turn keeps the invariant.
LEMMA SemaphoreTurnKeeps ==
  ASSUME SemaphoreInv, NEW t \in Tasks, Turn(t)
  PROVE  SemaphoreInv'
<1>1. PICK x \in {"acquire", "try_acquire"} :
        TurnOf(t, x, count, waiters, pc, count', waiters', pc')
  BY SemaphoreTurns
<1>2. Runs(t) /\ pc[t] = x
  BY <1>1 DEF TurnOf
<1>3. /\ SystemSound(Tasks) /\ SemaphoreSound(count, waiters, pc)
      /\ SemaphoreEase(t) /\ SemaphoreRole(t) /\ count \in Nat /\ count <= MaxCount /\ MaxCount \in Nat
  BY CountAssumption DEF SemaphoreInv, SemaphoreSound
<1>4. CASE Returns(t, x, count, waiters, pc, count', waiters', pc')
  <2>1. /\ SystemSound(Tasks)' /\ SemaphoreSound(count', waiters', pc')
        /\ pc'[t] = "out" /\ ~Contains(waiters', t) /\ k' = k /\ k'.state[t] # "Blocked"
        /\ (count > 0 /\ count' = count - 1) \/ (count = 0 /\ count' = 0)
        /\ \/ x = "acquire" /\ alarm' = alarm /\ ahead' = ahead
           \/ x = "try_acquire" /\ alarm'[t] # "live" /\ ~ahead'[t]
        /\ \A u \in Tasks \ {t} : /\ pc'[u] = pc[u] /\ (Contains(waiters', u) <=> Contains(waiters, u))
                                  /\ alarm'[u] = alarm[u] /\ ahead'[u] = ahead[u]
    BY <1>2, <1>3, <1>4, ReturningIsSound
  <2>2. count' <= MaxCount
    BY <1>3, <2>1
  <2>3. SemaphoreEase(t)' /\ SemaphoreRole(t)'
    BY <1>2, <1>3, <2>1, SemaphoreClients DEF SemaphoreEase, SemaphoreRole, Ease
  <2>4. ASSUME NEW u \in Tasks \ {t} PROVE SemaphoreEase(u)' /\ SemaphoreRole(u)'
    BY <2>1 DEF SemaphoreInv, SemaphoreEase, SemaphoreRole, Ease
  <2> QED BY <2>1, <2>2, <2>3, <2>4 DEF SemaphoreInv
<1>5. CASE Parks(t, x, count, waiters, pc, count', waiters', pc')
  <2>0. ~Contains(waiters, t)
    <3>1. k.state[t] # "Blocked"
      BY <1>2, <1>3, RunsFacts
    <3> QED BY <1>2, <1>3, <1>5, <3>1 DEF Parks, SemaphoreEase, Ease
  <2>1. /\ SystemSound(Tasks)' /\ SemaphoreSound(count', waiters', pc')
        /\ pc' = pc /\ count = 0 /\ count' = 0 /\ Contains(waiters', t) /\ ahead' = ahead
        /\ k'.state[t] = "Blocked"
        /\ \/ x = "acquire" /\ alarm' = alarm
           \/ x = "try_acquire" /\ alarm'[t] = "live" /\ ahead[t]
        /\ \A u \in Tasks \ {t} : /\ Contains(waiters', u) <=> Contains(waiters, u)
                                  /\ alarm'[u] = alarm[u] /\ k'.state[u] = k.state[u]
    BY <1>2, <1>3, <1>5, <2>0, ParkingIsSound
  <2>2. count' <= MaxCount
    BY <1>3, <2>1
  <2>3. SemaphoreEase(t)' /\ SemaphoreRole(t)'
    BY <1>2, <1>3, <2>1, SemaphoreClients DEF SemaphoreEase, SemaphoreRole, Ease
  <2>4. ASSUME NEW u \in Tasks \ {t} PROVE SemaphoreEase(u)' /\ SemaphoreRole(u)'
    BY <2>1 DEF SemaphoreInv, SemaphoreEase, SemaphoreRole, Ease
  <2> QED BY <2>1, <2>2, <2>3, <2>4 DEF SemaphoreInv
<1> QED BY <1>1, <1>4, <1>5 DEF TurnOf

\* release keeps it.
LEMMA SemaphoreReleaseKeeps ==
  ASSUME SemaphoreInv, release
  PROVE  SemaphoreInv'
<1>1. Handed(count, waiters, count', waiters') /\ pc' = pc /\ count < MaxCount
  BY DEF release, Handed
<1>2. count \in Nat /\ MaxCount \in Nat
  BY CountAssumption DEF SemaphoreInv, SemaphoreSound
<1>3. /\ SystemSound(Tasks)' /\ SemaphoreSound(count', waiters', pc) /\ count' = count + 1
      /\ alarm' = alarm /\ ahead' = ahead
      /\ \A u \in Tasks :
           \/ (Contains(waiters', u) <=> Contains(waiters, u)) /\ k'.state[u] = k.state[u]
           \/ Contains(waiters, u) /\ ~Contains(waiters', u) /\ k'.state[u] # "Blocked"
  BY <1>1, HandingIsSound DEF SemaphoreInv
<1>4. count' <= MaxCount
  BY <1>1, <1>2, <1>3
<1>5. ASSUME NEW u \in Tasks PROVE SemaphoreEase(u)' /\ SemaphoreRole(u)'
  BY <1>1, <1>3 DEF SemaphoreInv, SemaphoreEase, SemaphoreRole, Ease
<1> QED BY <1>1, <1>3, <1>4, <1>5 DEF SemaphoreInv

\* The semaphore's actions keep its invariant.
LEMMA SemaphoreNext ==
  ASSUME SemaphoreInv, Next
  PROVE  SemaphoreInv'
<1>1. CASE Handlers /\ UNCHANGED << count, waiters, pc >>
  BY <1>1, SemaphoreHandlers
<1>2. CASE \E t \in Tasks : CallAcquire(t) \/ CallTryAcquire(t) \/ Turn(t)
  BY <1>2, SemaphoreCalls, SemaphoreTurnKeeps
<1>3. CASE release
  BY <1>3, SemaphoreReleaseKeeps
<1> QED BY <1>1, <1>2, <1>3 DEF Next

\* As it is spawned and built.
LEMMA SemaphoreInit ==
  ASSUME Spawned(Tasks, Prio), Built
  PROVE  SemaphoreInv
<1>1. /\ SystemSound(Tasks) /\ \A t \in Tasks : k.state[t] = "Ready"
      /\ \A t \in Tasks : alarm[t] = "none" /\ ~ahead[t]
  BY SpawnedIsSound, PrioAssumption
<1>2. count = Initial /\ waiters = << >> /\ pc = [t \in Tasks |-> "out"]
  BY DEF Built
<1>3. Initial \in Nat /\ Initial <= MaxCount
  BY CountAssumption
<1>4. SemaphoreSound(count, waiters, pc) /\ \A t : ~Contains(waiters, t)
  BY <1>2, <1>3, SemaphoreBuilt
<1>5. \A t \in Tasks : SemaphoreEase(t) /\ SemaphoreRole(t)
  BY <1>1, <1>2, <1>4 DEF SemaphoreEase, SemaphoreRole, Ease
<1> QED BY <1>1, <1>2, <1>3, <1>4, <1>5 DEF SemaphoreInv

\* A list and the set of what it holds.
LEMMA RangeIsContained ==
  ASSUME NEW w \in Seq(Tasks)
  PROVE  \A t : t \in Range(w) <=> Contains(w, t)
BY DEF Range, Contains

\* What the invariant says of the runs' properties.
LEMMA SemaphorePromises ==
  ASSUME SemaphoreInv
  PROVE  NoLostWakeup /\ SleepersAreReachable /\ NoDanglingWaiter /\ WaiterLinkedOnce /\ TypeOK
<1>1. SemaphoreSound(count, waiters, pc) /\ waiters \in Seq(Tasks)
  BY DEF SemaphoreInv, SemaphoreSound
<1>2. \A t : t \in Range(waiters) <=> Contains(waiters, t)
  BY <1>1, RangeIsContained
<1>3. {t \in Inside : t \notin Range(waiters)} = Contenders(waiters, pc)
  BY <1>2 DEF Inside, Contenders
<1>4. NoLostWakeup
  BY <1>1, <1>3 DEF NoLostWakeup, SemaphoreSound
<1>5. SleepersAreReachable
  BY <1>1, <1>2 DEF SleepersAreReachable, Inside, SemaphoreInv, SemaphoreEase, SemaphoreSound, Ease
<1>6. NoDanglingWaiter
  <2>1. \A t \in Range(waiters) : t \in Tasks
    BY <1>1 DEF Range
  <2> QED BY <1>1, <1>2, <2>1 DEF NoDanglingWaiter, Inside, SemaphoreSound
<1>7. WaiterLinkedOnce
  BY <1>1 DEF WaiterLinkedOnce, SemaphoreSound, LinkedOnce
<1>8. TypeOK
  BY CountAssumption DEF TypeOK, SemaphoreInv, SemaphoreSound, SystemSound
<1> QED BY <1>4, <1>5, <1>6, <1>7, <1>8

-----------------------------------------------------------------------------
(* The event group.                                                        *)

EventEase(t) ==
  Ease(evtPc[t] = "out", evtPc[t] = "wait", evtPc[t] = "wait_for", Contains(evtWaiters, t),
       k.state[t], alarm[t], ahead[t])

EventRole(t) ==
  /\ evtPc[t] = "wait" => t \in EvtForever
  /\ evtPc[t] = "wait_for" => t \in EvtTimed
  /\ t \in EvtForever => alarm[t] = "none"

\* Whoever is linked has looked, and lacked its bits ever since.
EventLack(t) == Contains(evtWaiters, t) => ~Events!satisfied(want[t])

EventType ==
  /\ bits \subseteq Bits
  /\ evtWaiters \in Seq(Tasks) /\ LinkedOnce(evtWaiters)
  /\ want \in [Tasks -> [mask : SUBSET Bits, all : BOOLEAN]]
  /\ evtPc \in [Tasks -> {"out", "wait", "wait_for"}]

EventInv ==
  /\ SystemSound(Tasks)
  /\ EventType
  /\ \A t \in Tasks : EventEase(t) /\ EventRole(t) /\ EventLack(t)

\* The handlers.
LEMMA EventHandlers ==
  ASSUME EventInv, Events!Handlers, UNCHANGED evtvars
  PROVE  EventInv'
<1>0. Handlers
  BY EventsKernel
<1>1. SystemSound(Tasks) /\ SystemSound(Tasks)' /\ HandlerEffect(Tasks)
  BY <1>0, HandlersAreSound DEF EventInv
<1>2. bits' = bits /\ evtWaiters' = evtWaiters /\ want' = want /\ evtPc' = evtPc
  BY DEF evtvars
<1>3. ASSUME NEW u \in Tasks PROVE EventEase(u)' /\ EventRole(u)' /\ EventLack(u)'
  <2> DEFINE out == evtPc[u] = "out"
             endless == evtPc[u] = "wait"
             timed == evtPc[u] = "wait_for"
             linked == Contains(evtWaiters, u)
  <2>1. Ease(out, endless, timed, linked, k.state[u], alarm[u], ahead[u])
    BY DEF EventInv, EventEase
  <2>2. linked \in BOOLEAN
    BY DEF Contains
  <2>3. Ease(out, endless, timed, linked, k'.state[u], alarm'[u], ahead'[u])
    <3> HIDE DEF linked
    <3> QED BY <1>0, <1>1, <2>1, <2>2, HandlersKeepEase
  <2>4. EventEase(u)'
    BY <1>2, <2>3 DEF EventEase
  <2>5. EventRole(u)'
    BY <1>1, <1>2 DEF EventInv, EventRole, HandlerEffect
  <2>6. EventLack(u)'
    BY <1>2 DEF EventInv, EventLack, Events!satisfied
  <2> QED BY <2>4, <2>5, <2>6
<1>4. EventType'
  BY <1>2 DEF EventInv, EventType
<1> QED BY <1>1, <1>3, <1>4 DEF EventInv

\* wait begins.
LEMMA EventCalls ==
  ASSUME EventInv, NEW t \in Tasks, NEW wish \in Wishes,
         Events!CallWait(t, wish) \/ Events!CallWaitFor(t, wish)
  PROVE  EventInv'
<1>1. PICK x \in {"wait", "wait_for"} :
        /\ Runs(t) /\ evtPc[t] = "out" /\ evtPc' = [evtPc EXCEPT ![t] = x]
        /\ want' = [want EXCEPT ![t] = wish]
        /\ x = "wait" => t \in EvtForever
        /\ x = "wait_for" => t \in EvtTimed
        /\ k' = k /\ mode' = mode /\ alarm' = alarm
        /\ ahead' = ahead \/ \E later \in BOOLEAN : ahead' = [ahead EXCEPT ![t] = later]
        /\ bits' = bits /\ evtWaiters' = evtWaiters
  BY EventsKernel DEF Events!CallWait, Events!CallWaitFor, Events!StartDeadline, Events!sysvars
<1>2. /\ SystemSound(Tasks) /\ EventType /\ alarm \in [Tasks -> {"none", "live", "stale"}]
      /\ ahead \in [Tasks -> BOOLEAN]
  BY DEF EventInv, SystemSound, SystemType
<1>3. wish \in [mask : SUBSET Bits, all : BOOLEAN]
  BY EventClients
<1>4. SystemSound(Tasks)' /\ \A u \in Tasks \ {t} : ahead'[u] = ahead[u]
  <2>1. CASE ahead' = ahead
    BY <1>1, <1>2, <2>1, StillIsSound
  <2>2. CASE \E later \in BOOLEAN : ahead' = [ahead EXCEPT ![t] = later]
    <3>1. PICK later \in BOOLEAN : ahead' = [ahead EXCEPT ![t] = later]
      BY <2>2
    <3>2. alarm' = [alarm EXCEPT ![t] = alarm[t]] /\ alarm[t] \in {"none", "live", "stale"}
      BY <1>1, <1>2
    <3> QED BY <1>1, <1>2, <3>1, <3>2, BookingIsSound
  <2> QED BY <1>1, <2>1, <2>2
<1>5. /\ EventType' /\ evtPc'[t] = x
      /\ \A u \in Tasks \ {t} : evtPc'[u] = evtPc[u] /\ want'[u] = want[u]
  BY <1>1, <1>2, <1>3 DEF EventType
<1>6. EventEase(t)' /\ EventRole(t)' /\ EventLack(t)'
  <2>1. EventEase(t) /\ EventRole(t)
    BY DEF EventInv
  <2>2. ~Contains(evtWaiters, t) /\ k.state[t] # "Blocked" /\ alarm[t] # "live"
    BY <1>1, <2>1 DEF EventEase, Ease
  <2> QED BY <1>1, <1>5, <2>1, <2>2 DEF EventEase, EventRole, EventLack, Ease
<1>7. ASSUME NEW u \in Tasks \ {t} PROVE EventEase(u)' /\ EventRole(u)' /\ EventLack(u)'
  <2>1. EventEase(u)' /\ EventRole(u)'
    BY <1>1, <1>4, <1>5 DEF EventInv, EventEase, EventRole
  <2>2. EventLack(u)'
    BY <1>1, <1>5 DEF EventInv, EventLack, Events!satisfied
  <2> QED BY <2>1, <2>2
<1> QED BY <1>4, <1>5, <1>6, <1>7 DEF EventInv

\* t returns from a wait.
EventReturns(t) ==
  /\ evtPc' = [evtPc EXCEPT ![t] = "out"] /\ evtWaiters' = remove(evtWaiters, t)
  /\ k' = k /\ mode' = mode /\ bits' = bits /\ want' = want
  /\ \/ evtPc[t] = "wait" /\ alarm' = alarm /\ ahead' = ahead
     \/ /\ evtPc[t] = "wait_for"
        /\ alarm' = [alarm EXCEPT ![t] = IF @ = "none" THEN @ ELSE "stale"]
        /\ ahead' = [ahead EXCEPT ![t] = FALSE]

\* t goes to sleep in one.
EventParks(t) ==
  /\ ~Events!satisfied(want[t]) /\ evtWaiters' = Append(evtWaiters, t)
  /\ bits' = bits /\ want' = want /\ evtPc' = evtPc
  /\ k' = block(k, t) /\ mode' = mode /\ ahead' = ahead
  /\ \/ evtPc[t] = "wait" /\ alarm' = alarm
     \/ evtPc[t] = "wait_for" /\ ahead[t] /\ alarm' = [alarm EXCEPT ![t] = "live"]

\* A turn does one or the other: the node that the endless wait leaves alone
\* is not linked.
LEMMA EventTurns ==
  ASSUME EventInv, NEW t \in Tasks, Events!Turn(t)
  PROVE  /\ Runs(t) /\ evtPc[t] \in {"wait", "wait_for"}
         /\ EventReturns(t) \/ EventParks(t)
<1>1. evtWaiters \in Seq(Tasks) /\ EventEase(t) /\ SystemSound(Tasks)
  BY DEF EventInv, EventType
<1>2. CASE Events!wait(t)
  <2>1. Runs(t) /\ evtPc[t] = "wait"
    BY <1>2, EventsKernel DEF Events!wait
  <2>2. k.state[t] # "Blocked"
    BY <1>1, <2>1, RunsFacts
  <2>3. ~Contains(evtWaiters, t)
    BY <1>1, <2>1, <2>2 DEF EventEase, Ease
  <2>4. remove(evtWaiters, t) = evtWaiters
    BY <1>1, <2>3, RemoveRemoves
  <2> QED BY <1>2, <2>1, <2>4, EventsKernel
          DEF Events!wait, Events!park, EventReturns, EventParks, Events!sysvars
<1>3. CASE Events!wait_for(t)
  BY <1>3, EventsKernel DEF Events!wait_for, Events!leave, Events!park, Events!sleep_for,
     Events!LeaveAlarm, EventReturns, EventParks
<1> QED BY <1>2, <1>3 DEF Events!Turn

\* A return keeps the invariant.
LEMMA EventReturnKeeps ==
  ASSUME EventInv, NEW t \in Tasks, Runs(t), evtPc[t] \in {"wait", "wait_for"}, EventReturns(t)
  PROVE  EventInv'
<1>1. /\ SystemSound(Tasks) /\ EventType /\ EventEase(t) /\ EventRole(t)
      /\ k.state[t] # "Blocked"
  BY RunsFacts DEF EventInv
<1>2. /\ evtPc' = [evtPc EXCEPT ![t] = "out"] /\ evtWaiters' = remove(evtWaiters, t)
      /\ k' = k /\ mode' = mode /\ bits' = bits /\ want' = want
  BY DEF EventReturns
<1>3. /\ evtWaiters' \in Seq(Tasks) /\ LinkedOnce(evtWaiters')
      /\ \A u : Contains(evtWaiters', u) <=> Contains(evtWaiters, u) /\ u # t
  BY <1>1, <1>2, NodesMove DEF EventType
<1>4. EventType' /\ evtPc'[t] = "out" /\ \A u \in Tasks \ {t} : evtPc'[u] = evtPc[u]
  BY <1>1, <1>2, <1>3 DEF EventType
<1>5. /\ SystemSound(Tasks)' /\ alarm'[t] # "live"
      /\ evtPc[t] = "wait" => alarm' = alarm
      /\ \A u \in Tasks \ {t} : alarm'[u] = alarm[u] /\ ahead'[u] = ahead[u]
  <2>1. CASE evtPc[t] = "wait"
    <3>1. alarm' = alarm /\ ahead' = ahead
      BY <2>1 DEF EventReturns
    <3>2. alarm[t] = "none"
      BY <1>1, <2>1 DEF EventEase, Ease
    <3> QED BY <1>1, <1>2, <3>1, <3>2, StillIsSound
  <2>2. CASE evtPc[t] = "wait_for"
    <3> DEFINE a == IF alarm[t] = "none" THEN alarm[t] ELSE "stale"
    <3>1. a \in {"none", "live", "stale"} /\ a # "live"
      OBVIOUS
    <3>2. alarm' = [alarm EXCEPT ![t] = a] /\ ahead' = [ahead EXCEPT ![t] = FALSE]
      BY <2>2 DEF EventReturns
    <3> HIDE DEF a
    <3> QED BY <1>1, <1>2, <2>2, <3>1, <3>2, BookingIsSound
  <2> QED BY <2>1, <2>2
<1>6. EventEase(t)' /\ EventRole(t)' /\ EventLack(t)'
  BY <1>1, <1>2, <1>3, <1>4, <1>5, EventClients DEF EventEase, EventRole, EventLack, Ease
<1>7. ASSUME NEW u \in Tasks \ {t} PROVE EventEase(u)' /\ EventRole(u)' /\ EventLack(u)'
  <2>1. EventEase(u)' /\ EventRole(u)'
    BY <1>2, <1>3, <1>4, <1>5 DEF EventInv, EventEase, EventRole, Ease
  <2>2. EventLack(u)'
    BY <1>2, <1>3 DEF EventInv, EventLack, Events!satisfied
  <2> QED BY <2>1, <2>2
<1> QED BY <1>4, <1>5, <1>6, <1>7 DEF EventInv

\* Going to sleep keeps it.
LEMMA EventParkKeeps ==
  ASSUME EventInv, NEW t \in Tasks, Runs(t), evtPc[t] \in {"wait", "wait_for"}, EventParks(t)
  PROVE  EventInv'
<1>1. /\ SystemSound(Tasks) /\ EventType /\ EventEase(t) /\ EventRole(t)
      /\ k.state[t] # "Blocked"
      /\ alarm \in [Tasks -> {"none", "live", "stale"}] /\ ahead \in [Tasks -> BOOLEAN]
  BY RunsFacts DEF EventInv, SystemSound, SystemType
<1>2. /\ ~Events!satisfied(want[t]) /\ evtWaiters' = Append(evtWaiters, t)
      /\ bits' = bits /\ want' = want /\ evtPc' = evtPc
      /\ k' = block(k, t) /\ mode' = mode /\ ahead' = ahead
      /\ \/ evtPc[t] = "wait" /\ alarm' = alarm
         \/ evtPc[t] = "wait_for" /\ ahead[t] /\ alarm' = [alarm EXCEPT ![t] = "live"]
  BY DEF EventParks
<1>3. ~Contains(evtWaiters, t)
  BY <1>1, <1>2 DEF EventEase, Ease
<1>4. /\ evtWaiters' \in Seq(Tasks) /\ LinkedOnce(evtWaiters')
      /\ \A u : Contains(evtWaiters', u) <=> Contains(evtWaiters, u) \/ u = t
  BY <1>1, <1>2, <1>3, NodesMove DEF EventType
<1>5. EventType'
  BY <1>1, <1>2, <1>4 DEF EventType
<1>6. /\ alarm' \in [Tasks -> {"none", "live", "stale"}] /\ ahead' \in [Tasks -> BOOLEAN]
      /\ \A u \in Tasks \ {t} : alarm'[u] = alarm[u]
      /\ \/ evtPc[t] = "wait" /\ alarm'[t] = alarm[t]
         \/ evtPc[t] = "wait_for" /\ ahead[t] /\ alarm'[t] = "live"
  BY <1>1, <1>2
<1>7. /\ SystemSound(Tasks)' /\ k'.state[t] = "Blocked"
      /\ \A u \in Threads \ {t} : k'.state[u] = k.state[u]
  BY <1>1, <1>2, <1>6, BlockIsSound
<1>8. EventEase(t)' /\ EventRole(t)' /\ EventLack(t)'
  <2>1. EventEase(t)' /\ EventRole(t)'
    BY <1>1, <1>2, <1>4, <1>6, <1>7, EventClients DEF EventEase, EventRole, Ease
  <2>2. EventLack(t)'
    BY <1>2 DEF EventLack, Events!satisfied
  <2> QED BY <2>1, <2>2
<1>9. ASSUME NEW u \in Tasks \ {t} PROVE EventEase(u)' /\ EventRole(u)' /\ EventLack(u)'
  <2>1. EventEase(u)' /\ EventRole(u)'
    BY <1>2, <1>4, <1>6, <1>7 DEF EventInv, EventEase, EventRole, Ease, Threads
  <2>2. EventLack(u)'
    BY <1>2, <1>4 DEF EventInv, EventLack, Events!satisfied
  <2> QED BY <2>1, <2>2
<1> QED BY <1>5, <1>7, <1>8, <1>9 DEF EventInv

\* set wakes everybody, and empties the list.
LEMMA EventSetKeeps ==
  ASSUME EventInv, NEW b \in Bits, Events!set({b})
  PROVE  EventInv'
<1>1. /\ bits' = bits \cup {b} /\ evtWaiters' = << >> /\ k' = wake_from_sleep(k, evtWaiters)
      /\ mode' = mode /\ alarm' = alarm /\ ahead' = ahead /\ want' = want /\ evtPc' = evtPc
  BY EventsKernel DEF Events!set
<1>2. SystemSound(Tasks) /\ EventType /\ IsKernel(k) /\ HonestRings(k, Tasks)
  BY DEF EventInv, SystemSound, SystemType
<1>3. Len(evtWaiters) \in Nat /\ \A i \in 1 .. Len(evtWaiters) : evtWaiters[i] \in Tasks
  BY <1>2 DEF EventType
<1>4. /\ Wakes(k', k, Tasks)
      /\ \A i \in 1 .. Len(evtWaiters) : k'.state[evtWaiters[i]] # "Blocked"
      /\ \A u \in Threads : (\A i \in 1 .. Len(evtWaiters) : evtWaiters[i] # u) =>
           k'.state[u] = k.state[u]
  BY <1>1, <1>2, <1>3, WakeAll
<1>5. SystemSound(Tasks)'
  BY <1>1, <1>2, <1>4, WakeIsSound
<1>6. \A u \in Tasks : IF Contains(evtWaiters, u) THEN k'.state[u] # "Blocked"
                       ELSE k'.state[u] = k.state[u]
  BY <1>4 DEF Contains, Threads
<1>7. \A u : ~Contains(evtWaiters', u)
  BY <1>1 DEF Contains
<1>8. EventType'
  BY <1>1, <1>2 DEF EventType, LinkedOnce
<1>9. ASSUME NEW u \in Tasks PROVE EventEase(u)' /\ EventRole(u)' /\ EventLack(u)'
  BY <1>1, <1>6, <1>7 DEF EventInv, EventEase, EventRole, EventLack, Ease
<1> QED BY <1>5, <1>8, <1>9 DEF EventInv

\* clear makes nobody's bits complete.
LEMMA EventClearKeeps ==
  ASSUME EventInv, NEW b \in Bits, Events!clear({b})
  PROVE  EventInv'
<1>1. /\ bits' = bits \ {b} /\ evtWaiters' = evtWaiters /\ want' = want /\ evtPc' = evtPc
      /\ k' = k /\ mode' = mode /\ alarm' = alarm /\ ahead' = ahead
  BY DEF Events!clear, Events!sysvars
<1>2. SystemSound(Tasks)'
  BY <1>1, StillIsSound DEF EventInv
<1>3. EventType'
  BY <1>1 DEF EventInv, EventType
<1>4. ASSUME NEW u \in Tasks PROVE EventEase(u)' /\ EventRole(u)' /\ EventLack(u)'
  <2>1. EventEase(u)' /\ EventRole(u)'
    BY <1>1 DEF EventInv, EventEase, EventRole
  <2>2. EventLack(u)'
    BY <1>1 DEF EventInv, EventLack, Events!satisfied
  <2> QED BY <2>1, <2>2
<1> QED BY <1>2, <1>3, <1>4 DEF EventInv

\* The event group's actions keep its invariant.
LEMMA EventNext ==
  ASSUME EventInv, Events!Next
  PROVE  EventInv'
<1>1. CASE Events!Handlers /\ UNCHANGED Events!evtvars
  <2>1. UNCHANGED evtvars
    BY <1>1 DEF Events!evtvars, evtvars
  <2> QED BY <1>1, <2>1, EventHandlers
<1>2. ASSUME NEW t \in Tasks, Events!Turn(t) PROVE EventInv'
  BY <1>2, EventTurns, EventReturnKeeps, EventParkKeeps
<1>3. ASSUME NEW t \in Tasks, NEW wish \in Wishes,
             Events!CallWait(t, wish) \/ Events!CallWaitFor(t, wish)
      PROVE  EventInv'
  BY <1>3, EventCalls
<1>4. ASSUME NEW b \in Bits, Events!set({b}) \/ Events!clear({b}) PROVE EventInv'
  BY <1>4, EventSetKeeps, EventClearKeeps
<1> QED BY <1>1, <1>2, <1>3, <1>4 DEF Events!Next

\* As it is spawned and built.
LEMMA EventInit ==
  ASSUME Spawned(Tasks, Prio), Events!Built
  PROVE  EventInv
<1>1. /\ SystemSound(Tasks) /\ \A t \in Tasks : k.state[t] = "Ready"
      /\ \A t \in Tasks : alarm[t] = "none" /\ ~ahead[t]
  BY SpawnedIsSound, PrioAssumption
<1>2. /\ bits = {} /\ evtWaiters = << >> /\ evtPc = [t \in Tasks |-> "out"]
      /\ want = [t \in Tasks |-> [mask |-> {}, all |-> FALSE]]
  BY DEF Events!Built
<1>3. \A t : ~Contains(evtWaiters, t)
  BY <1>2 DEF Contains
<1>4. EventType
  BY <1>2 DEF EventType, LinkedOnce
<1>5. \A t \in Tasks : EventEase(t) /\ EventRole(t) /\ EventLack(t)
  BY <1>1, <1>2, <1>3 DEF EventEase, EventRole, EventLack, Ease
<1> QED BY <1>1, <1>4, <1>5 DEF EventInv

\* What the invariant says of the runs' properties.
LEMMA EventPromises ==
  ASSUME EventInv
  PROVE  /\ Events!LinkedLackTheirBits /\ Events!SleepersAreReachable
         /\ Events!NodesAreSound /\ Events!TypeOK
<1>1. EventType /\ evtWaiters \in Seq(Tasks)
  BY DEF EventInv, EventType
<1>2. \A t : t \in Events!Range(evtWaiters) <=> Contains(evtWaiters, t)
  BY <1>1, RangeIsContained DEF Events!Range, Range
<1>3. Events!LinkedLackTheirBits /\ Events!NodesAreSound
  <2> SUFFICES ASSUME NEW i \in 1 .. Len(evtWaiters)
               PROVE  evtPc[evtWaiters[i]] # "out" /\ ~Events!satisfied(want[evtWaiters[i]])
    BY <1>1 DEF Events!LinkedLackTheirBits, Events!NodesAreSound, EventType, LinkedOnce
  <2>1. evtWaiters[i] \in Tasks /\ Contains(evtWaiters, evtWaiters[i])
    BY <1>1 DEF Contains
  <2>2. EventEase(evtWaiters[i]) /\ EventLack(evtWaiters[i])
    BY <2>1 DEF EventInv
  <2> QED BY <2>1, <2>2 DEF EventEase, EventLack, Ease
<1>4. Events!SleepersAreReachable
  BY <1>1, <1>2 DEF Events!SleepersAreReachable, EventInv, EventEase, EventType, Ease
<1>5. Events!TypeOK
  BY <1>1, EventsKernel DEF Events!TypeOK, EventInv, EventType, SystemSound
<1> QED BY <1>3, <1>4, <1>5

-----------------------------------------------------------------------------
(* The calls of ThisTask, among the tasks that were spawned.               *)

FaceType ==
  /\ facePc \in [Tasks -> {"out", "sleep", "probe", "look", "park", "ended"}]
  /\ got \in [Tasks -> Letters \cup {None}]

\* Whoever sleeps in a timed call has an alarm, and only tasks that were
\* spawned make calls.
FaceBooked(t) ==
  /\ facePc[t] \in {"sleep", "probe", "look", "park"} /\ k.state[t] = "Blocked" => alarm[t] # "none"
  /\ facePc[t] # "out" => t \in FaceTasks

FaceInv ==
  /\ SystemSound(FaceTasks)
  /\ FaceType
  /\ \A t \in Tasks : FaceBooked(t)

\* The handlers.
LEMMA FaceHandlers ==
  ASSUME FaceInv, Face!Handlers, UNCHANGED facevars
  PROVE  FaceInv'
<1>1. SystemSound(FaceTasks) /\ SystemSound(FaceTasks)' /\ HandlerEffect(FaceTasks)
  BY FaceKernel, HandlersAreSound, FaceClients DEF FaceInv
<1>2. facePc' = facePc /\ got' = got
  BY DEF facevars
<1>3. ASSUME NEW u \in Tasks PROVE FaceBooked(u)'
  BY <1>1, <1>2 DEF FaceInv, FaceBooked, HandlerEffect
<1> QED BY <1>1, <1>2, <1>3 DEF FaceInv, FaceType

\* A step of t that leaves the others alone.
LEMMA FaceStep ==
  ASSUME FaceInv, NEW t \in Tasks, t \in FaceTasks, SystemSound(FaceTasks)',
         NEW x \in {"out", "sleep", "probe", "look", "park", "ended"},
         facePc' = [facePc EXCEPT ![t] = x], got' \in [Tasks -> Letters \cup {None}],
         x \in {"sleep", "probe", "look", "park"} => k'.state[t] # "Blocked" \/ alarm'[t] # "none",
         \A u \in Tasks \ {t} : /\ k'.state[u] = "Blocked" => k.state[u] = "Blocked"
                                /\ alarm'[u] = alarm[u]
  PROVE  FaceInv'
<1>1. FaceType' /\ facePc'[t] = x /\ \A u \in Tasks \ {t} : facePc'[u] = facePc[u]
  BY DEF FaceInv, FaceType
<1>2. FaceBooked(t)'
  BY <1>1 DEF FaceBooked
<1>3. ASSUME NEW u \in Tasks \ {t} PROVE FaceBooked(u)'
  BY <1>1 DEF FaceInv, FaceBooked
<1> QED BY <1>1, <1>2, <1>3 DEF FaceInv

\* A call that returns, or never sleeps, keeps the invariant.
LEMMA FaceAwake ==
  ASSUME FaceInv, NEW t \in Tasks, Runs(t), k' = k, mode' = mode,
         NEW x \in {"out", "probe", "look", "park"},
         facePc' = [facePc EXCEPT ![t] = x], got' \in [Tasks -> Letters \cup {None}],
         \/ alarm' = alarm /\ ahead' = ahead
         \/ \E later \in BOOLEAN : alarm' = alarm /\ ahead' = [ahead EXCEPT ![t] = later]
         \/ LeaveAlarm(t)
  PROVE  FaceInv'
<1>1. /\ SystemSound(FaceTasks) /\ t \in FaceTasks /\ k.state[t] # "Blocked"
      /\ alarm \in [Tasks -> {"none", "live", "stale"}] /\ ahead \in [Tasks -> BOOLEAN]
  BY RunsFacts, FaceClients DEF FaceInv, SystemSound, SystemType
<1>2. \E a \in {"none", "live", "stale"}, h \in BOOLEAN :
        alarm' = [alarm EXCEPT ![t] = a] /\ ahead' = [ahead EXCEPT ![t] = h]
  <2>1. CASE alarm' = alarm /\ ahead' = ahead
    <3>1. alarm' = [alarm EXCEPT ![t] = alarm[t]] /\ ahead' = [ahead EXCEPT ![t] = ahead[t]]
      BY <1>1, <2>1
    <3> QED BY <1>1, <3>1
  <2>2. CASE \E later \in BOOLEAN : alarm' = alarm /\ ahead' = [ahead EXCEPT ![t] = later]
    <3>1. alarm' = [alarm EXCEPT ![t] = alarm[t]]
      BY <1>1, <2>2
    <3> QED BY <1>1, <2>2, <3>1
  <2>3. CASE LeaveAlarm(t)
    <3> DEFINE a == IF alarm[t] = "none" THEN alarm[t] ELSE "stale"
    <3>1. a \in {"none", "live", "stale"}
      OBVIOUS
    <3>2. alarm' = [alarm EXCEPT ![t] = a] /\ ahead' = [ahead EXCEPT ![t] = FALSE]
      BY <2>3 DEF LeaveAlarm
    <3> HIDE DEF a
    <3> QED BY <3>1, <3>2
  <2> QED BY <2>1, <2>2, <2>3
<1>3. PICK a \in {"none", "live", "stale"}, h \in BOOLEAN :
        alarm' = [alarm EXCEPT ![t] = a] /\ ahead' = [ahead EXCEPT ![t] = h]
  BY <1>2
<1>4. SystemSound(FaceTasks)' /\ \A u \in Tasks \ {t} : alarm'[u] = alarm[u]
  BY <1>1, <1>3, BookingIsSound, FaceClients
<1> QED BY <1>1, <1>4, FaceStep

\* A call that goes to sleep keeps it.
LEMMA FaceAsleep ==
  ASSUME FaceInv, NEW t \in Tasks, Runs(t), k' = block(k, t), mode' = mode,
         NEW x \in {"out", "sleep", "probe", "ended"},
         facePc' = [facePc EXCEPT ![t] = x], got' = got,
         NEW a \in {"none", "live", "stale"}, alarm' = [alarm EXCEPT ![t] = a],
         ahead' \in [Tasks -> BOOLEAN], x \in {"sleep", "probe"} => a # "none"
  PROVE  FaceInv'
<1>1. /\ SystemSound(FaceTasks) /\ t \in FaceTasks
      /\ alarm \in [Tasks -> {"none", "live", "stale"}]
  BY RunsFacts, FaceClients DEF FaceInv, SystemSound, SystemType
<1>2. /\ alarm' \in [Tasks -> {"none", "live", "stale"}] /\ alarm'[t] = a
      /\ \A u \in Tasks \ {t} : alarm'[u] = alarm[u]
  BY <1>1
<1>3. /\ SystemSound(FaceTasks)'
      /\ \A u \in Threads \ {t} : k'.state[u] = k.state[u]
  BY <1>1, <1>2, BlockIsSound, FaceClients
<1>4. got' \in [Tasks -> Letters \cup {None}]
  BY DEF FaceInv, FaceType
<1> QED BY <1>1, <1>2, <1>3, <1>4, FaceStep DEF Threads

\* yield keeps it.
LEMMA FaceYieldKeeps ==
  ASSUME FaceInv, NEW t \in Tasks, Face!CallYield(t)
  PROVE  FaceInv'
<1>1. /\ Runs(t) /\ k' = yield(k) /\ mode' = mode /\ alarm' = alarm /\ ahead' = ahead
      /\ facePc' = facePc /\ got' = got
  BY FaceKernel DEF Face!CallYield, Face!facevars
<1>2. /\ t \in FaceTasks /\ k.current = t /\ k.state[t] = "Running" /\ mode = "thread"
      /\ IsKernel(k) /\ HonestRings(k, FaceTasks) /\ SystemSound(FaceTasks)
  BY <1>1, RunsFacts, FaceClients DEF FaceInv
<1>3. /\ IsKernel(k') /\ HonestRings(k', FaceTasks) /\ Untouched(k', k) /\ k'.pend
      /\ k'.state = [k.state EXCEPT ![t] = "Ready"]
  BY <1>1, <1>2, YieldOp, FaceClients
<1>4. k'.state[t] = "Ready" /\ \A u \in Tasks \ {t} : k'.state[u] = k.state[u]
  BY <1>2, <1>3 DEF IsKernel, KernelType, Threads
<1>5. SystemSound(FaceTasks)'
  <2>1. SystemType'
    BY <1>1, <1>2, <1>3 DEF SystemSound, SystemType
  <2>2. RunnerIsKnown(FaceTasks)'
    BY <1>1, <1>2, <1>3, <1>4, FaceClients DEF SystemSound, RunnerIsKnown, Untouched
  <2> QED BY <1>1, <1>2, <1>3, <2>1, <2>2 DEF SystemSound
<1>6. ASSUME NEW u \in Tasks PROVE FaceBooked(u)'
  BY <1>1, <1>4 DEF FaceInv, FaceBooked
<1> QED BY <1>1, <1>5, <1>6 DEF FaceInv, FaceType

\* A letter wakes, and changes nothing else that matters to a sleep.
LEMMA FaceNotifyKeeps ==
  ASSUME FaceInv, NEW t \in FaceTasks, Face!Notify(t), UNCHANGED facevars
  PROVE  FaceInv'
<1>1. PICK v \in Letters : k' = notify(k, t, v)
  BY FaceKernel DEF Face!Notify
<1>2. mode' = mode /\ alarm' = alarm /\ ahead' = ahead /\ facePc' = facePc /\ got' = got
  BY DEF Face!Notify, facevars
<1>3. IsKernel(k) /\ HonestRings(k, FaceTasks) /\ SystemSound(FaceTasks)
  BY DEF FaceInv, SystemSound, SystemType
<1>4. /\ IsKernel(k') /\ HonestRings(k', FaceTasks) /\ k'.current = k.current
      /\ k.pend => k'.pend
      /\ k.current = None => k'.pend = k.pend
      /\ \/ k'.state = k.state
         \/ k.state[t] = "Blocked" /\ k'.state = [k.state EXCEPT ![t] = "Ready"]
  BY <1>1, <1>3, NotifyOp, FaceClients
<1>5. \A u \in Tasks : \/ k'.state[u] = k.state[u]
                       \/ k.state[u] = "Blocked" /\ k'.state[u] = "Ready"
  BY <1>3, <1>4 DEF IsKernel, KernelType, Threads
<1>6. SystemSound(FaceTasks)'
  BY <1>2, <1>3, <1>4, <1>5, AwakeIsSound, FaceClients
<1>7. ASSUME NEW u \in Tasks PROVE FaceBooked(u)'
  BY <1>2, <1>5 DEF FaceInv, FaceBooked
<1> QED BY <1>2, <1>6, <1>7 DEF FaceInv, FaceType

\* A letter is taken, its flag with it.
LEMMA FaceLetterTaken ==
  ASSUME FaceInv, NEW t \in Tasks, Runs(t), k' = wait_notify(k), mode' = mode,
         facePc' = [facePc EXCEPT ![t] = "out"], got' = [got EXCEPT ![t] = k.letter[t]],
         LeaveAlarm(t)
  PROVE  FaceInv' /\ ~k'.has[t]
<1>1. /\ t \in FaceTasks /\ k.current = t /\ k.state[t] = "Running" /\ mode = "thread" /\ ~k.pend
      /\ IsKernel(k) /\ HonestRings(k, FaceTasks) /\ SystemSound(FaceTasks)
      /\ alarm \in [Tasks -> {"none", "live", "stale"}] /\ ahead \in [Tasks -> BOOLEAN]
  BY RunsFacts, FaceClients DEF FaceInv, SystemSound, SystemType
<1>2. /\ IsKernel(k') /\ HonestRings(k', FaceTasks) /\ k'.current = k.current
      /\ k'.state = k.state /\ k'.pend = k.pend
  BY <1>1, WaitNotifyOp
<1>3. ~k'.has[t]
  BY <1>1 DEF wait_notify, IsKernel, KernelType
<1>4. /\ alarm' \in [Tasks -> {"none", "live", "stale"}] /\ ahead' \in [Tasks -> BOOLEAN]
      /\ \A u \in Tasks \ {t} : alarm'[u] = alarm[u]
  BY <1>1 DEF LeaveAlarm
<1>5. got' \in [Tasks -> Letters \cup {None}]
  BY <1>1 DEF FaceInv, FaceType, IsKernel, KernelType
<1>6. SystemSound(FaceTasks)'
  <2>1. SystemType'
    BY <1>1, <1>2, <1>4 DEF SystemType
  <2>2. RunnerIsKnown(FaceTasks)'
    BY <1>1, <1>2 DEF SystemSound, RunnerIsKnown
  <2> QED BY <1>1, <1>2, <1>4, <2>1, <2>2 DEF SystemSound
<1> QED BY <1>1, <1>2, <1>3, <1>4, <1>5, <1>6, FaceStep

\* Calls and turns keep it.
LEMMA FaceTurnKeeps ==
  ASSUME FaceInv, NEW t \in Tasks, Face!Calls(t) \/ Face!Turn(t)
  PROVE  FaceInv'
<1>0. /\ got \in [Tasks -> Letters \cup {None}]
      /\ facePc \in [Tasks -> {"out", "sleep", "probe", "look", "park", "ended"}]
      /\ alarm \in [Tasks -> {"none", "live", "stale"}] /\ ahead \in [Tasks -> BOOLEAN]
  BY DEF FaceInv, FaceType, SystemSound, SystemType
<1>a. \A from, to : Face!Goto(t, from, to) =>
        Runs(t) /\ facePc[t] = from /\ facePc' = [facePc EXCEPT ![t] = to]
  BY FaceKernel DEF Face!Goto
<1>b. Face!LeaveAlarm(t) <=> LeaveAlarm(t)
  BY DEF Face!LeaveAlarm, LeaveAlarm
<1>1. CASE Face!CallYield(t)
  BY <1>1, FaceYieldKeeps
<1>2. CASE Face!CallBlock(t)
  <2>1. /\ Runs(t) /\ facePc[t] = "out" /\ k' = block(k, t) /\ mode' = mode /\ alarm' = alarm
        /\ ahead' = ahead /\ facePc' = facePc /\ got' = got
    BY <1>2, FaceKernel DEF Face!CallBlock, Face!facevars
  <2>2. facePc' = [facePc EXCEPT ![t] = "out"] /\ alarm' = [alarm EXCEPT ![t] = alarm[t]]
        /\ alarm[t] \in {"none", "live", "stale"} /\ ahead' \in [Tasks -> BOOLEAN]
    BY <1>0, <2>1
  <2> QED BY <2>1, <2>2, FaceAsleep
<1>3. CASE Face!CallSleep(t)
  <2>1. /\ Runs(t) /\ k' = block(k, t) /\ mode' = mode /\ got' = got
        /\ facePc' = [facePc EXCEPT ![t] = "sleep"] /\ alarm' = [alarm EXCEPT ![t] = "live"]
        /\ ahead' = [ahead EXCEPT ![t] = TRUE]
    BY <1>3, <1>a, FaceKernel DEF Face!CallSleep, Face!sleep_for
  <2>2. ahead' \in [Tasks -> BOOLEAN]
    BY <1>0, <2>1
  <2> QED BY <2>1, <2>2, FaceAsleep
<1>4. CASE Face!CallWait(t)
  <2>1. /\ Runs(t) /\ k' = k /\ mode' = mode /\ got' = got /\ alarm' = alarm
        /\ facePc' = [facePc EXCEPT ![t] = "probe"]
        /\ \E later \in BOOLEAN : ahead' = [ahead EXCEPT ![t] = later]
    BY <1>4, <1>a DEF Face!CallWait, Face!StartDeadline
  <2>2. got' \in [Tasks -> Letters \cup {None}]
    BY <1>0, <2>1
  <2> QED BY <2>1, <2>2, FaceAwake
<1>5. CASE Face!Trap(t)
  <2>1. /\ Runs(t) /\ k' = block(k, t) /\ mode' = mode /\ got' = got /\ alarm' = alarm
        /\ ahead' = ahead /\ facePc' = [facePc EXCEPT ![t] = "ended"]
    BY <1>5, <1>a, FaceKernel DEF Face!Trap
  <2>2. alarm' = [alarm EXCEPT ![t] = alarm[t]] /\ alarm[t] \in {"none", "live", "stale"}
        /\ ahead' \in [Tasks -> BOOLEAN]
    BY <1>0, <2>1
  <2> QED BY <2>1, <2>2, FaceAsleep
<1>6. CASE Face!SleepReturns(t)
  <2>1. /\ Runs(t) /\ k' = k /\ mode' = mode /\ got' = got /\ LeaveAlarm(t)
        /\ facePc' = [facePc EXCEPT ![t] = "out"]
    BY <1>6, <1>a, <1>b DEF Face!SleepReturns
  <2>2. got' \in [Tasks -> Letters \cup {None}]
    BY <1>0, <2>1
  <2> QED BY <2>1, <2>2, FaceAwake
<1>7. CASE Face!Probe(t)
  <2>1. CASE k.has[t] /\ Face!Goto(t, "probe", "out")
    <3>1. /\ Runs(t) /\ k' = wait_notify(k) /\ mode' = mode /\ LeaveAlarm(t)
          /\ got' = [got EXCEPT ![t] = k.letter[t]] /\ facePc' = [facePc EXCEPT ![t] = "out"]
      BY <1>7, <1>a, <1>b, <2>1, FaceKernel DEF Face!Probe
    <3> QED BY <3>1, FaceLetterTaken
  <2>2. CASE ~k.has[t] /\ Face!Goto(t, "probe", "look")
    <3>1. /\ Runs(t) /\ k' = k /\ mode' = mode /\ alarm' = alarm /\ ahead' = ahead /\ got' = got
          /\ facePc' = [facePc EXCEPT ![t] = "look"]
      BY <1>7, <1>a, <2>2 DEF Face!Probe, Face!sysvars
    <3>2. got' \in [Tasks -> Letters \cup {None}]
      BY <1>0, <3>1
    <3> QED BY <3>1, <3>2, FaceAwake
  <2> QED BY <1>7, <2>1, <2>2 DEF Face!Probe
<1>8. CASE Face!Look(t)
  <2>1. CASE ahead[t] /\ Face!Goto(t, "look", "park")
    <3>1. /\ Runs(t) /\ k' = k /\ mode' = mode /\ alarm' = alarm /\ ahead' = ahead /\ got' = got
          /\ facePc' = [facePc EXCEPT ![t] = "park"]
      BY <1>8, <1>a, <2>1 DEF Face!Look, Face!sysvars
    <3>2. got' \in [Tasks -> Letters \cup {None}]
      BY <1>0, <3>1
    <3> QED BY <3>1, <3>2, FaceAwake
  <2>2. CASE ~ahead[t] /\ Face!Goto(t, "look", "out")
    <3>1. /\ Runs(t) /\ k' = k /\ mode' = mode /\ LeaveAlarm(t)
          /\ facePc' = [facePc EXCEPT ![t] = "out"] /\ got' = [got EXCEPT ![t] = None]
      BY <1>8, <1>a, <1>b, <2>2 DEF Face!Look
    <3>2. got' \in [Tasks -> Letters \cup {None}]
      BY <1>0, <3>1
    <3> QED BY <3>1, <3>2, FaceAwake
  <2> QED BY <1>8, <2>1, <2>2 DEF Face!Look
<1>9. CASE Face!Park(t)
  <2>1. PICK a \in {"live", "stale"} : alarm' = [alarm EXCEPT ![t] = a]
    BY <1>9 DEF Face!Park
  <2>2. /\ Runs(t) /\ k' = block(k, t) /\ mode' = mode /\ got' = got /\ ahead' = ahead
        /\ facePc' = [facePc EXCEPT ![t] = "probe"]
    BY <1>9, <1>a, FaceKernel DEF Face!Park
  <2>3. ahead' \in [Tasks -> BOOLEAN] /\ a \in {"none", "live", "stale"} /\ a # "none"
    BY <1>0, <2>1, <2>2
  <2> QED BY <2>1, <2>2, <2>3, FaceAsleep
<1> QED BY <1>1, <1>2, <1>3, <1>4, <1>5, <1>6, <1>7, <1>8, <1>9 DEF Face!Calls, Face!Turn

\* The actions of ThisTask keep the invariant.
LEMMA FaceNext ==
  ASSUME FaceInv, Face!Next
  PROVE  FaceInv'
<1>1. UNCHANGED Face!facevars => UNCHANGED facevars
  BY DEF Face!facevars, facevars
<1>2. CASE Face!Handlers /\ UNCHANGED Face!facevars
  BY <1>1, <1>2, FaceHandlers
<1>3. CASE \E t \in Tasks : Face!Calls(t) \/ Face!Turn(t)
  BY <1>3, FaceTurnKeeps
<1>4. CASE \E t \in FaceTasks : Face!Notify(t) /\ UNCHANGED Face!facevars
  BY <1>1, <1>4, FaceNotifyKeeps
<1> QED BY <1>2, <1>3, <1>4 DEF Face!Next

\* As the tasks are spawned.
LEMMA FaceInit ==
  ASSUME Spawned(FaceTasks, Prio), Face!Built
  PROVE  FaceInv
<1>1. SystemSound(FaceTasks)
  BY SpawnedIsSound, PrioAssumption, FaceClients
<1>2. facePc = [t \in Tasks |-> "out"] /\ got = [t \in Tasks |-> None]
  BY DEF Face!Built
<1> QED BY <1>1, <1>2 DEF FaceInv, FaceType, FaceBooked

\* What the invariant says of the runs' properties.
LEMMA FacePromises ==
  ASSUME FaceInv
  PROVE  Face!SleepIsBooked /\ Face!TypeOK
<1>1. Face!SleepIsBooked
  BY DEF Face!SleepIsBooked, Face!Waiting, FaceInv, FaceBooked
<1>2. Face!TypeOK
  BY FaceKernel DEF Face!TypeOK, FaceInv, FaceType, SystemSound
<1> QED BY <1>1, <1>2

-----------------------------------------------------------------------------
(* The message queue: two semaphores and the ring between them.            *)

QueueEase(t) ==
  Ease(roomPc[t] = "out" /\ dataPc[t] = "out", dataPc[t] = "acquire",
       roomPc[t] = "try_acquire" \/ dataPc[t] = "try_acquire",
       Contains(roomWaiters, t) \/ Contains(dataWaiters, t),
       k.state[t], alarm[t], ahead[t])

\* Which semaphore a task is at follows from where it is in post or receive.
QueueRole(t) ==
  /\ stage[t] = "reserve" <=> roomPc[t] # "out"
  /\ stage[t] = "receive" <=> dataPc[t] # "out"
  /\ roomPc[t] # "acquire"
  /\ roomPc[t] = "try_acquire" => t \in Senders
  /\ dataPc[t] = "acquire" => t \in Patient
  /\ dataPc[t] = "try_acquire" => t \in Hasty
  /\ t \in Patient => alarm[t] = "none"
  /\ stage[t] \in {"reserve", "copy"} => hand[t] \in Messages

QueueType ==
  /\ ring \in [0 .. Capacity - 1 -> Messages \cup {None}]
  /\ head \in 0 .. Capacity - 1 /\ stored \in 0 .. Capacity
  /\ stage \in [Tasks -> {"out", "reserve", "copy", "receive", "pop"}]
  /\ hand \in [Tasks -> Messages \cup {None}]
  /\ received \in [Tasks -> Messages \cup {None}]

\* Who is at s.
Staged(st, s) == {t \in Tasks : st[t] = s}

\* Free, reserved and filled slots; messages on offer and promised.
QueueCount ==
  /\ room + Cardinality(Staged(stage, "copy")) + stored = Capacity
  /\ data + Cardinality(Staged(stage, "pop")) = stored

QueueInv ==
  /\ SystemSound(Tasks)
  /\ SemaphoreSound(room, roomWaiters, roomPc)
  /\ SemaphoreSound(data, dataWaiters, dataPc)
  /\ QueueType
  /\ QueueCount
  /\ \A t \in Tasks : QueueEase(t) /\ QueueRole(t)

\* One task changes its stage.
LEMMA StageMoves ==
  ASSUME NEW s, NEW t \in Tasks, \A u \in Tasks \ {t} : stage'[u] = stage[u]
  PROVE  /\ Cardinality(Staged(stage, s)) \in Nat /\ Cardinality(Staged(stage', s)) \in Nat
         /\ (stage'[t] = s <=> stage[t] = s) =>
              Cardinality(Staged(stage', s)) = Cardinality(Staged(stage, s))
         /\ stage'[t] = s /\ stage[t] # s =>
              Cardinality(Staged(stage', s)) = Cardinality(Staged(stage, s)) + 1
         /\ stage'[t] # s /\ stage[t] = s =>
              Cardinality(Staged(stage', s)) + 1 = Cardinality(Staged(stage, s))
<1> DEFINE A == Staged(stage, s)
           B == Staged(stage', s)
<1>1. A \in SUBSET Tasks /\ B \in SUBSET Tasks
  BY DEF Staged
<1>2. (stage'[t] = s <=> stage[t] = s) => B = A
  BY DEF Staged
<1>3. stage'[t] = s /\ stage[t] # s => B = A \cup {t} /\ t \notin A
  BY DEF Staged
<1>4. stage'[t] # s /\ stage[t] = s => A = B \cup {t} /\ t \notin B
  BY DEF Staged
<1> HIDE DEF A, B
<1>5. Cardinality(A) \in Nat /\ Cardinality(B) \in Nat
  BY <1>1, TasksCount
<1>6. stage'[t] = s /\ stage[t] # s => Cardinality(B) = Cardinality(A) + 1
  BY <1>1, <1>3, CountsMove
<1>7. stage'[t] # s /\ stage[t] = s => Cardinality(B) + 1 = Cardinality(A)
  BY <1>1, <1>4, CountsMove
<1> QED BY <1>2, <1>5, <1>6, <1>7 DEF A, B

\* Numbers of the queue are numbers.
LEMMA QueueNumbers ==
  ASSUME QueueInv
  PROVE  /\ room \in Nat /\ data \in Nat /\ stored \in Nat /\ head \in Nat
         /\ Capacity \in Nat /\ Capacity > 0
         /\ Cardinality(Staged(stage, "copy")) \in Nat
         /\ Cardinality(Staged(stage, "pop")) \in Nat
         /\ room <= Capacity /\ stored <= Capacity /\ data <= Capacity /\ head < Capacity
         /\ room + Cardinality(Staged(stage, "copy")) + stored = Capacity
         /\ data + Cardinality(Staged(stage, "pop")) = stored
<1>1. /\ room \in Nat /\ data \in Nat /\ stored \in Nat /\ head \in Nat
      /\ Capacity \in Nat /\ Capacity > 0 /\ head < Capacity
  BY QueueClients DEF QueueInv, SemaphoreSound, QueueType
<1>2. /\ Cardinality(Staged(stage, "copy")) \in Nat
      /\ Cardinality(Staged(stage, "pop")) \in Nat
  BY TasksCount DEF Staged
<1> QED BY <1>1, <1>2 DEF QueueInv, QueueCount

\* The semaphores' sections, in the queue.
LEMMA QueueSections ==
  ASSUME NEW t \in Tasks, room \in Nat, data \in Nat
  PROVE  /\ Queue!Room!CallTryAcquire(t) => /\ Enters(t, "try_acquire", roomPc, roomPc')
                                            /\ t \in Senders
                                            /\ room' = room /\ roomWaiters' = roomWaiters
         /\ Queue!Room!try_acquire(t) =>
              TurnOf(t, "try_acquire", room, roomWaiters, roomPc, room', roomWaiters', roomPc')
         /\ Queue!Data!CallAcquire(t) \/ Queue!Data!CallTryAcquire(t) =>
              /\ \E x \in {"acquire", "try_acquire"} :
                   /\ Enters(t, x, dataPc, dataPc')
                   /\ x = "acquire" => t \in Patient
                   /\ x = "try_acquire" => t \in Hasty
              /\ data' = data /\ dataWaiters' = dataWaiters
         /\ Queue!Data!acquire(t) \/ Queue!Data!try_acquire(t) =>
              \E x \in {"acquire", "try_acquire"} :
                TurnOf(t, x, data, dataWaiters, dataPc, data', dataWaiters', dataPc')
<1>1. ASSUME Queue!Room!CallTryAcquire(t)
      PROVE  /\ Enters(t, "try_acquire", roomPc, roomPc')
             /\ t \in Senders
             /\ room' = room /\ roomWaiters' = roomWaiters
  BY <1>1, RoomKernel DEF Queue!Room!CallTryAcquire, Queue!Room!StartDeadline, Enters
<1>2. ASSUME Queue!Room!try_acquire(t)
      PROVE  TurnOf(t, "try_acquire", room, roomWaiters, roomPc, room', roomWaiters', roomPc')
  BY <1>2, RoomKernel DEF Queue!Room!try_acquire, Queue!Room!take, Queue!Room!park,
     Queue!Room!give_up, Queue!Room!sleep_for, Queue!Room!LeaveAlarm, TurnOf, Returns, Parks
<1>3. ASSUME Queue!Data!CallAcquire(t) \/ Queue!Data!CallTryAcquire(t)
      PROVE  /\ \E x \in {"acquire", "try_acquire"} :
                   /\ Enters(t, x, dataPc, dataPc')
                   /\ x = "acquire" => t \in Patient
                   /\ x = "try_acquire" => t \in Hasty
             /\ data' = data /\ dataWaiters' = dataWaiters
  BY <1>3, DataKernel DEF Queue!Data!CallAcquire, Queue!Data!CallTryAcquire,
     Queue!Data!StartDeadline, Queue!Data!sysvars, Enters
<1>4. ASSUME Queue!Data!acquire(t)
      PROVE  TurnOf(t, "acquire", data, dataWaiters, dataPc, data', dataWaiters', dataPc')
  BY <1>4, DataKernel DEF Queue!Data!acquire, Queue!Data!take, Queue!Data!park,
     Queue!Data!sysvars, TurnOf, Returns, Parks
<1>5. ASSUME Queue!Data!try_acquire(t)
      PROVE  TurnOf(t, "try_acquire", data, dataWaiters, dataPc, data', dataWaiters', dataPc')
  BY <1>5, DataKernel DEF Queue!Data!try_acquire, Queue!Data!take, Queue!Data!park,
     Queue!Data!give_up, Queue!Data!sleep_for, Queue!Data!LeaveAlarm, TurnOf, Returns, Parks
<1> QED BY <1>1, <1>2, <1>3, <1>4, <1>5

\* And their releases.
LEMMA QueueReleases ==
  /\ Queue!Room!release =>
       Handed(room, roomWaiters, room', roomWaiters') /\ roomPc' = roomPc
  /\ Queue!Data!release =>
       Handed(data, dataWaiters, data', dataWaiters') /\ dataPc' = dataPc
<1>1. ASSUME Queue!Room!release
      PROVE  Handed(room, roomWaiters, room', roomWaiters') /\ roomPc' = roomPc
  BY <1>1, RoomKernel DEF Queue!Room!release, Handed
<1>2. ASSUME Queue!Data!release
      PROVE  Handed(data, dataWaiters, data', dataWaiters') /\ dataPc' = dataPc
  BY <1>2, DataKernel DEF Queue!Data!release, Handed
<1> QED BY <1>1, <1>2

\* The handlers.
LEMMA QueueHandlers ==
  ASSUME QueueInv, Queue!Handlers, UNCHANGED quevars
  PROVE  QueueInv'
<1>0. Handlers
  BY QueueKernel
<1>1. SystemSound(Tasks) /\ SystemSound(Tasks)' /\ HandlerEffect(Tasks)
  BY <1>0, HandlersAreSound DEF QueueInv
<1>2. /\ ring' = ring /\ head' = head /\ stored' = stored /\ room' = room
      /\ roomWaiters' = roomWaiters /\ roomPc' = roomPc /\ data' = data
      /\ dataWaiters' = dataWaiters /\ dataPc' = dataPc /\ stage' = stage /\ hand' = hand
      /\ received' = received
  BY DEF quevars
<1>3. ASSUME NEW u \in Tasks PROVE QueueEase(u)' /\ QueueRole(u)'
  <2> DEFINE out == roomPc[u] = "out" /\ dataPc[u] = "out"
             endless == dataPc[u] = "acquire"
             timed == roomPc[u] = "try_acquire" \/ dataPc[u] = "try_acquire"
             linked == Contains(roomWaiters, u) \/ Contains(dataWaiters, u)
  <2>1. Ease(out, endless, timed, linked, k.state[u], alarm[u], ahead[u])
    BY DEF QueueInv, QueueEase
  <2>2. out \in BOOLEAN /\ endless \in BOOLEAN /\ timed \in BOOLEAN /\ linked \in BOOLEAN
    OBVIOUS
  <2>3. Ease(out, endless, timed, linked, k'.state[u], alarm'[u], ahead'[u])
    <3> HIDE DEF out, endless, timed, linked
    <3> QED BY <1>0, <1>1, <2>1, <2>2, HandlersKeepEase
  <2>4. QueueEase(u)'
    BY <1>2, <2>3 DEF QueueEase
  <2>5. QueueRole(u)'
    BY <1>1, <1>2 DEF QueueInv, QueueRole, HandlerEffect
  <2> QED BY <2>4, <2>5
<1> QED BY <1>1, <1>2, <1>3 DEF QueueInv, QueueType, QueueCount

\* post begins.
LEMMA CallPostKeeps ==
  ASSUME QueueInv, NEW t \in Tasks, NEW msg \in Messages, Queue!CallPost(t, msg)
  PROVE  QueueInv'
<1>0. room \in Nat /\ data \in Nat
  BY QueueNumbers
<1>1. /\ stage[t] = "out" /\ stage' = [stage EXCEPT ![t] = "reserve"]
      /\ hand' = [hand EXCEPT ![t] = msg] /\ Enters(t, "try_acquire", roomPc, roomPc')
      /\ t \in Senders /\ room' = room /\ roomWaiters' = roomWaiters
      /\ ring' = ring /\ head' = head /\ stored' = stored /\ data' = data
      /\ dataWaiters' = dataWaiters /\ dataPc' = dataPc /\ received' = received
  BY <1>0, QueueSections DEF Queue!CallPost, Queue!ringvars, Queue!datavars
<1>2. /\ SystemSound(Tasks)' /\ SemaphoreSound(room, roomWaiters, roomPc')
      /\ roomPc'[t] = "try_acquire" /\ k' = k /\ alarm' = alarm
      /\ \A u \in Tasks \ {t} : roomPc'[u] = roomPc[u] /\ ahead'[u] = ahead[u]
  BY <1>1, EnteringIsSound DEF QueueInv
<1>3. /\ QueueType' /\ stage'[t] = "reserve" /\ hand'[t] = msg
      /\ \A u \in Tasks \ {t} : stage'[u] = stage[u] /\ hand'[u] = hand[u]
  BY <1>1 DEF QueueInv, QueueType
<1>4. QueueCount'
  <2>1. /\ Cardinality(Staged(stage', "copy")) = Cardinality(Staged(stage, "copy"))
        /\ Cardinality(Staged(stage', "pop")) = Cardinality(Staged(stage, "pop"))
    <3>1. Cardinality(Staged(stage', "copy")) = Cardinality(Staged(stage, "copy"))
      BY <1>1, <1>3, StageMoves
    <3>2. Cardinality(Staged(stage', "pop")) = Cardinality(Staged(stage, "pop"))
      BY <1>1, <1>3, StageMoves
    <3> QED BY <3>1, <3>2
  <2> QED BY <1>1, <2>1 DEF QueueInv, QueueCount
<1>5. QueueEase(t)' /\ QueueRole(t)'
  <2>1. QueueEase(t) /\ QueueRole(t)
    BY DEF QueueInv
  <2>2. /\ ~Contains(roomWaiters, t) /\ ~Contains(dataWaiters, t) /\ k.state[t] # "Blocked"
        /\ alarm[t] # "live" /\ roomPc[t] = "out" /\ dataPc[t] = "out"
    BY <1>1, <2>1 DEF QueueEase, QueueRole, Ease
  <2> QED BY <1>1, <1>2, <1>3, <2>1, <2>2 DEF QueueEase, QueueRole, Ease
<1>6. ASSUME NEW u \in Tasks \ {t} PROVE QueueEase(u)' /\ QueueRole(u)'
  BY <1>1, <1>2, <1>3 DEF QueueInv, QueueEase, QueueRole
<1> QED BY <1>1, <1>2, <1>3, <1>4, <1>5, <1>6 DEF QueueInv

\* receive_one begins.
LEMMA CallReceiveKeeps ==
  ASSUME QueueInv, NEW t \in Tasks, Queue!CallReceive(t)
  PROVE  QueueInv'
<1>0. room \in Nat /\ data \in Nat
  BY QueueNumbers
<1>1. /\ stage[t] = "out" /\ stage' = [stage EXCEPT ![t] = "receive"]
      /\ Queue!Data!CallAcquire(t) \/ Queue!Data!CallTryAcquire(t)
      /\ ring' = ring /\ head' = head /\ stored' = stored /\ room' = room
      /\ roomWaiters' = roomWaiters /\ roomPc' = roomPc /\ hand' = hand /\ received' = received
  BY DEF Queue!CallReceive, Queue!ringvars, Queue!roomvars
<1>2. PICK x \in {"acquire", "try_acquire"} :
        /\ Enters(t, x, dataPc, dataPc')
        /\ x = "acquire" => t \in Patient
        /\ x = "try_acquire" => t \in Hasty
        /\ data' = data /\ dataWaiters' = dataWaiters
  BY <1>0, <1>1, QueueSections
<1>3. /\ SystemSound(Tasks)' /\ SemaphoreSound(data, dataWaiters, dataPc')
      /\ dataPc'[t] = x /\ k' = k /\ alarm' = alarm
      /\ \A u \in Tasks \ {t} : dataPc'[u] = dataPc[u] /\ ahead'[u] = ahead[u]
  BY <1>2, EnteringIsSound DEF QueueInv
<1>4. QueueType' /\ stage'[t] = "receive" /\ \A u \in Tasks \ {t} : stage'[u] = stage[u]
  BY <1>1 DEF QueueInv, QueueType
<1>5. QueueCount'
  <2>1. /\ Cardinality(Staged(stage', "copy")) = Cardinality(Staged(stage, "copy"))
        /\ Cardinality(Staged(stage', "pop")) = Cardinality(Staged(stage, "pop"))
    <3>1. Cardinality(Staged(stage', "copy")) = Cardinality(Staged(stage, "copy"))
      BY <1>1, <1>4, StageMoves
    <3>2. Cardinality(Staged(stage', "pop")) = Cardinality(Staged(stage, "pop"))
      BY <1>1, <1>4, StageMoves
    <3> QED BY <3>1, <3>2
  <2> QED BY <1>1, <1>2, <2>1 DEF QueueInv, QueueCount
<1>6. QueueEase(t)' /\ QueueRole(t)'
  <2>1. QueueEase(t) /\ QueueRole(t)
    BY DEF QueueInv
  <2>2. /\ ~Contains(roomWaiters, t) /\ ~Contains(dataWaiters, t) /\ k.state[t] # "Blocked"
        /\ alarm[t] # "live" /\ roomPc[t] = "out" /\ dataPc[t] = "out"
    BY <1>1, <2>1 DEF QueueEase, QueueRole, Ease
  <2> QED BY <1>1, <1>2, <1>3, <1>4, <2>1, <2>2 DEF QueueEase, QueueRole, Ease
<1>7. ASSUME NEW u \in Tasks \ {t} PROVE QueueEase(u)' /\ QueueRole(u)'
  BY <1>1, <1>2, <1>3, <1>4 DEF QueueInv, QueueEase, QueueRole
<1> QED BY <1>1, <1>2, <1>3, <1>4, <1>5, <1>6, <1>7 DEF QueueInv

\* A unit goes that nobody was woken for.
LEMMA SemaphoreFewer ==
  ASSUME NEW c, NEW w, NEW p, SemaphoreSound(c, w, p), c > 0
  PROVE  SemaphoreSound(c - 1, w, p)
<1>1. Cardinality(Contenders(w, p)) \in Nat /\ c \in Nat
  BY TasksCount DEF Contenders, SemaphoreSound
<1> QED BY <1>1 DEF SemaphoreSound

\* Where the ring's indices come round.
LEMMA RingIndex ==
  ASSUME NEW x \in Nat, x < 2 * Capacity
  PROVE  x % Capacity = (IF x < Capacity THEN x ELSE x - Capacity) /\ x % Capacity \in 0 .. Capacity - 1
<1>1. Capacity \in Nat /\ Capacity > 0
  BY QueueClients
<1>2. CASE x < Capacity
  BY <1>1, <1>2
<1>3. CASE x >= Capacity
  BY <1>1, <1>3
<1> QED BY <1>1, <1>2, <1>3

\* Who is at one of the semaphores is not at the other.
LEMMA QueueApart ==
  ASSUME QueueInv, NEW u \in Tasks
  PROVE  /\ QueueEase(u) /\ QueueRole(u)
         /\ Contains(roomWaiters, u) => roomPc[u] # "out" /\ dataPc[u] = "out" /\ ~Contains(dataWaiters, u)
         /\ Contains(dataWaiters, u) => dataPc[u] # "out" /\ roomPc[u] = "out" /\ ~Contains(roomWaiters, u)
         /\ roomPc[u] = "out" \/ dataPc[u] = "out"
         /\ roomPc[u] = "out" => ~Contains(roomWaiters, u)
         /\ dataPc[u] = "out" => ~Contains(dataWaiters, u)
<1>1. QueueEase(u) /\ QueueRole(u)
  BY DEF QueueInv
<1>2. /\ Contains(roomWaiters, u) => roomPc[u] # "out"
      /\ Contains(dataWaiters, u) => dataPc[u] # "out"
  BY DEF QueueInv, SemaphoreSound
<1>3. roomPc[u] = "out" \/ dataPc[u] = "out"
  BY <1>1 DEF QueueRole
<1> QED BY <1>1, <1>2, <1>3

\* A turn of a sender.
LEMMA ReserveKeeps ==
  ASSUME QueueInv, NEW t \in Tasks, Queue!Reserve(t)
  PROVE  QueueInv'
<1>0. /\ room \in Nat /\ data \in Nat /\ SystemSound(Tasks)
      /\ SemaphoreSound(room, roomWaiters, roomPc)
  BY QueueNumbers DEF QueueInv
<1>1. /\ stage[t] = "reserve"
      /\ stage' = [stage EXCEPT ![t] = IF roomPc'[t] # "out" THEN @
                                       ELSE IF room' < room THEN "copy" ELSE "out"]
      /\ TurnOf(t, "try_acquire", room, roomWaiters, roomPc, room', roomWaiters', roomPc')
      /\ ring' = ring /\ head' = head /\ stored' = stored /\ data' = data
      /\ dataWaiters' = dataWaiters /\ dataPc' = dataPc /\ hand' = hand /\ received' = received
  BY <1>0, QueueSections DEF Queue!Reserve, Queue!ringvars, Queue!datavars
<1>2. Runs(t) /\ roomPc[t] = "try_acquire"
  BY <1>1 DEF TurnOf
<1>3. /\ QueueEase(t) /\ QueueRole(t) /\ dataPc[t] = "out" /\ ~Contains(dataWaiters, t)
      /\ t \notin Patient /\ k.state[t] # "Blocked"
  BY <1>0, <1>2, QueueApart, RunsFacts, QueueClients DEF QueueRole
<1>4. CASE Returns(t, "try_acquire", room, roomWaiters, roomPc, room', roomWaiters', roomPc')
  <2>1. /\ SystemSound(Tasks)' /\ SemaphoreSound(room', roomWaiters', roomPc')
        /\ roomPc'[t] = "out" /\ ~Contains(roomWaiters', t) /\ k' = k /\ k'.state[t] # "Blocked"
        /\ (room > 0 /\ room' = room - 1) \/ (room = 0 /\ room' = 0)
        /\ alarm'[t] # "live" /\ ~ahead'[t]
        /\ \A u \in Tasks \ {t} : /\ roomPc'[u] = roomPc[u]
                                  /\ (Contains(roomWaiters', u) <=> Contains(roomWaiters, u))
                                  /\ alarm'[u] = alarm[u] /\ ahead'[u] = ahead[u]
    BY <1>0, <1>2, <1>4, ReturningIsSound
  <2>2. /\ stage'[t] = (IF room > 0 THEN "copy" ELSE "out") /\ stage'[t] \in {"copy", "out"}
        /\ \A u \in Tasks \ {t} : stage'[u] = stage[u]
        /\ QueueType'
    <3>1. stage \in [Tasks -> {"out", "reserve", "copy", "receive", "pop"}]
      BY DEF QueueInv, QueueType
    <3>2. roomPc'[t] = "out" /\ (room' < room <=> room > 0)
      BY <1>0, <2>1
    <3> QED BY <1>1, <3>1, <3>2 DEF QueueInv, QueueType
  <2>3. QueueCount'
    <3>1. Cardinality(Staged(stage', "pop")) = Cardinality(Staged(stage, "pop"))
      BY <1>1, <2>2, StageMoves
    <3>2. room > 0 =>
            Cardinality(Staged(stage', "copy")) = Cardinality(Staged(stage, "copy")) + 1
      <4>1. room > 0 => stage'[t] = "copy"
        BY <2>2
      <4> QED BY <1>1, <2>2, <4>1, StageMoves
    <3>3. ~(room > 0) =>
            Cardinality(Staged(stage', "copy")) = Cardinality(Staged(stage, "copy"))
      <4>1. ~(room > 0) => stage'[t] = "out"
        BY <2>2
      <4> QED BY <1>1, <2>2, <4>1, StageMoves
    <3>4. room' + Cardinality(Staged(stage', "copy")) = room + Cardinality(Staged(stage, "copy"))
      <4>1. Cardinality(Staged(stage, "copy")) \in Nat
        BY QueueNumbers
      <4>2. CASE room > 0
        BY <1>0, <2>1, <3>2, <4>1, <4>2
      <4>3. CASE room = 0
        BY <1>0, <2>1, <3>3, <4>1, <4>3
      <4> QED BY <1>0, <4>2, <4>3
    <3> QED BY <1>1, <3>1, <3>4 DEF QueueInv, QueueCount
  <2>4. QueueEase(t)' /\ QueueRole(t)'
    BY <1>1, <1>3, <2>1, <2>2 DEF QueueEase, QueueRole, Ease
  <2>5. ASSUME NEW u \in Tasks \ {t} PROVE QueueEase(u)' /\ QueueRole(u)'
    BY <1>1, <2>1, <2>2 DEF QueueInv, QueueEase, QueueRole, Ease
  <2>6. SemaphoreSound(data', dataWaiters', dataPc')
    BY <1>1 DEF QueueInv
  <2> QED BY <2>1, <2>2, <2>3, <2>4, <2>5, <2>6 DEF QueueInv
<1>5. CASE Parks(t, "try_acquire", room, roomWaiters, roomPc, room', roomWaiters', roomPc')
  <2>0. ~Contains(roomWaiters, t)
    BY <1>2, <1>3, <1>5 DEF Parks, QueueEase, Ease
  <2>1. /\ SystemSound(Tasks)' /\ SemaphoreSound(room', roomWaiters', roomPc')
        /\ roomPc' = roomPc /\ room = 0 /\ room' = 0 /\ Contains(roomWaiters', t) /\ ahead' = ahead
        /\ k'.state[t] = "Blocked"
        /\ alarm'[t] = "live" /\ ahead[t]
        /\ \A u \in Tasks \ {t} : /\ Contains(roomWaiters', u) <=> Contains(roomWaiters, u)
                                  /\ alarm'[u] = alarm[u] /\ k'.state[u] = k.state[u]
    BY <1>0, <1>2, <1>5, <2>0, ParkingIsSound
  <2>2. stage' = stage
    <3>1. stage \in [Tasks -> {"out", "reserve", "copy", "receive", "pop"}]
      BY DEF QueueInv, QueueType
    <3> QED BY <1>1, <1>2, <2>1, <3>1
  <2>3. QueueEase(t)' /\ QueueRole(t)'
    BY <1>1, <1>2, <1>3, <2>1, <2>2 DEF QueueEase, QueueRole, Ease
  <2>4. ASSUME NEW u \in Tasks \ {t} PROVE QueueEase(u)' /\ QueueRole(u)'
    BY <1>1, <2>1, <2>2 DEF QueueInv, QueueEase, QueueRole, Ease
  <2>5. SemaphoreSound(data', dataWaiters', dataPc') /\ QueueType' /\ QueueCount'
    BY <1>1, <2>1, <2>2 DEF QueueInv, QueueType, QueueCount
  <2> QED BY <2>1, <2>3, <2>4, <2>5 DEF QueueInv
<1> QED BY <1>1, <1>4, <1>5 DEF TurnOf

\* A turn of a receiver.
LEMMA TakeUnitKeeps ==
  ASSUME QueueInv, NEW t \in Tasks, Queue!TakeUnit(t)
  PROVE  QueueInv'
<1>0. /\ room \in Nat /\ data \in Nat /\ SystemSound(Tasks)
      /\ SemaphoreSound(data, dataWaiters, dataPc)
  BY QueueNumbers DEF QueueInv
<1>1. /\ stage[t] = "receive"
      /\ stage' = [stage EXCEPT ![t] = IF dataPc'[t] # "out" THEN @
                                       ELSE IF data' < data THEN "pop" ELSE "out"]
      /\ Queue!Data!acquire(t) \/ Queue!Data!try_acquire(t)
      /\ ring' = ring /\ head' = head /\ stored' = stored /\ room' = room
      /\ roomWaiters' = roomWaiters /\ roomPc' = roomPc /\ hand' = hand /\ received' = received
  BY DEF Queue!TakeUnit, Queue!ringvars, Queue!roomvars
<1>x. PICK x \in {"acquire", "try_acquire"} :
        TurnOf(t, x, data, dataWaiters, dataPc, data', dataWaiters', dataPc')
  BY <1>0, <1>1, QueueSections
<1>2. Runs(t) /\ dataPc[t] = x
  BY <1>x DEF TurnOf
<1>3. /\ QueueEase(t) /\ QueueRole(t) /\ roomPc[t] = "out" /\ ~Contains(roomWaiters, t)
      /\ k.state[t] # "Blocked" /\ (x = "try_acquire" => t \notin Patient)
  BY <1>0, <1>2, QueueApart, RunsFacts, QueueClients DEF QueueRole
<1>4. CASE Returns(t, x, data, dataWaiters, dataPc, data', dataWaiters', dataPc')
  <2>1. /\ SystemSound(Tasks)' /\ SemaphoreSound(data', dataWaiters', dataPc')
        /\ dataPc'[t] = "out" /\ ~Contains(dataWaiters', t) /\ k' = k /\ k'.state[t] # "Blocked"
        /\ (data > 0 /\ data' = data - 1) \/ (data = 0 /\ data' = 0)
        /\ \/ x = "acquire" /\ alarm' = alarm /\ ahead' = ahead
           \/ x = "try_acquire" /\ alarm'[t] # "live" /\ ~ahead'[t]
        /\ \A u \in Tasks \ {t} : /\ dataPc'[u] = dataPc[u]
                                  /\ (Contains(dataWaiters', u) <=> Contains(dataWaiters, u))
                                  /\ alarm'[u] = alarm[u] /\ ahead'[u] = ahead[u]
    BY <1>0, <1>2, <1>4, ReturningIsSound
  <2>2. /\ stage'[t] = (IF data > 0 THEN "pop" ELSE "out") /\ stage'[t] \in {"pop", "out"}
        /\ \A u \in Tasks \ {t} : stage'[u] = stage[u]
        /\ QueueType'
    <3>1. stage \in [Tasks -> {"out", "reserve", "copy", "receive", "pop"}]
      BY DEF QueueInv, QueueType
    <3>2. dataPc'[t] = "out" /\ (data' < data <=> data > 0)
      BY <1>0, <2>1
    <3> QED BY <1>1, <3>1, <3>2 DEF QueueInv, QueueType
  <2>3. QueueCount'
    <3>1. Cardinality(Staged(stage', "copy")) = Cardinality(Staged(stage, "copy"))
      BY <1>1, <2>2, StageMoves
    <3>2. data > 0 =>
            Cardinality(Staged(stage', "pop")) = Cardinality(Staged(stage, "pop")) + 1
      <4>1. data > 0 => stage'[t] = "pop"
        BY <2>2
      <4> QED BY <1>1, <2>2, <4>1, StageMoves
    <3>3. ~(data > 0) =>
            Cardinality(Staged(stage', "pop")) = Cardinality(Staged(stage, "pop"))
      <4>1. ~(data > 0) => stage'[t] = "out"
        BY <2>2
      <4> QED BY <1>1, <2>2, <4>1, StageMoves
    <3>4. data' + Cardinality(Staged(stage', "pop")) = data + Cardinality(Staged(stage, "pop"))
      <4>1. Cardinality(Staged(stage, "pop")) \in Nat
        BY QueueNumbers
      <4>2. CASE data > 0
        BY <1>0, <2>1, <3>2, <4>1, <4>2
      <4>3. CASE data = 0
        BY <1>0, <2>1, <3>3, <4>1, <4>3
      <4> QED BY <1>0, <4>2, <4>3
    <3> QED BY <1>1, <3>1, <3>4 DEF QueueInv, QueueCount
  <2>4. QueueEase(t)' /\ QueueRole(t)'
    BY <1>1, <1>2, <1>3, <2>1, <2>2 DEF QueueEase, QueueRole, Ease
  <2>5. ASSUME NEW u \in Tasks \ {t} PROVE QueueEase(u)' /\ QueueRole(u)'
    BY <1>1, <2>1, <2>2 DEF QueueInv, QueueEase, QueueRole, Ease
  <2>6. SemaphoreSound(room', roomWaiters', roomPc')
    BY <1>1 DEF QueueInv
  <2> QED BY <2>1, <2>2, <2>3, <2>4, <2>5, <2>6 DEF QueueInv
<1>5. CASE Parks(t, x, data, dataWaiters, dataPc, data', dataWaiters', dataPc')
  <2>0. ~Contains(dataWaiters, t)
    BY <1>2, <1>3, <1>5 DEF Parks, QueueEase, Ease
  <2>1. /\ SystemSound(Tasks)' /\ SemaphoreSound(data', dataWaiters', dataPc')
        /\ dataPc' = dataPc /\ data = 0 /\ data' = 0 /\ Contains(dataWaiters', t) /\ ahead' = ahead
        /\ k'.state[t] = "Blocked"
        /\ \/ x = "acquire" /\ alarm' = alarm
           \/ x = "try_acquire" /\ alarm'[t] = "live" /\ ahead[t]
        /\ \A u \in Tasks \ {t} : /\ Contains(dataWaiters', u) <=> Contains(dataWaiters, u)
                                  /\ alarm'[u] = alarm[u] /\ k'.state[u] = k.state[u]
    BY <1>0, <1>2, <1>5, <2>0, ParkingIsSound
  <2>2. stage' = stage
    <3>1. stage \in [Tasks -> {"out", "reserve", "copy", "receive", "pop"}]
      BY DEF QueueInv, QueueType
    <3> QED BY <1>1, <1>2, <2>1, <3>1
  <2>3. QueueEase(t)' /\ QueueRole(t)'
    BY <1>1, <1>2, <1>3, <2>1, <2>2 DEF QueueEase, QueueRole, Ease
  <2>4. ASSUME NEW u \in Tasks \ {t} PROVE QueueEase(u)' /\ QueueRole(u)'
    BY <1>1, <2>1, <2>2 DEF QueueInv, QueueEase, QueueRole, Ease
  <2>5. SemaphoreSound(room', roomWaiters', roomPc') /\ QueueType' /\ QueueCount'
    BY <1>1, <2>1, <2>2 DEF QueueInv, QueueType, QueueCount
  <2> QED BY <2>1, <2>3, <2>4, <2>5 DEF QueueInv
<1> QED BY <1>x, <1>4, <1>5 DEF TurnOf

\* What a store does to the ring.
LEMMA StoreIs ==
  ASSUME QueueInv, stored < Capacity, NEW msg \in Messages, Queue!store(msg)
  PROVE  /\ ring' \in [0 .. Capacity - 1 -> Messages \cup {None}]
         /\ (head + stored) % Capacity \in 0 .. Capacity - 1
         /\ ring' = [ring EXCEPT ![(head + stored) % Capacity] = msg]
         /\ head' = head /\ stored' = stored + 1 /\ stored' \in 0 .. Capacity
<1>1. head + stored \in Nat /\ head + stored < 2 * Capacity
  BY QueueNumbers
<1>2. (head + stored) % Capacity \in 0 .. Capacity - 1
  BY <1>1, RingIndex
<1>3. /\ ring' = [ring EXCEPT ![(head + stored) % Capacity] = msg]
      /\ head' = head /\ stored' = stored + 1
  BY DEF Queue!store
<1>4. stored' \in 0 .. Capacity
  BY <1>3, QueueNumbers
<1>5. ring \in [0 .. Capacity - 1 -> Messages \cup {None}]
  BY DEF QueueInv, QueueType
<1>6. ring' \in [0 .. Capacity - 1 -> Messages \cup {None}]
  <2> DEFINE i == (head + stored) % Capacity
  <2> HIDE DEF i
  <2>1. ring' = [ring EXCEPT ![i] = msg] /\ i \in 0 .. Capacity - 1
    BY <1>2, <1>3 DEF i
  <2> QED BY <1>5, <2>1
<1> QED BY <1>2, <1>3, <1>4, <1>6

\* A release of data wakes only whoever waits there.
LEMMA DataWakes ==
  ASSUME QueueInv, Queue!Data!release
  PROVE  /\ SystemSound(Tasks)' /\ SemaphoreSound(data', dataWaiters', dataPc')
         /\ data' = data + 1 /\ dataPc' = dataPc /\ alarm' = alarm /\ ahead' = ahead
         /\ \A u \in Tasks :
              \/ (Contains(dataWaiters', u) <=> Contains(dataWaiters, u)) /\ k'.state[u] = k.state[u]
              \/ /\ Contains(dataWaiters, u) /\ ~Contains(dataWaiters', u)
                 /\ ~Contains(roomWaiters, u) /\ dataPc[u] # "out" /\ k'.state[u] # "Blocked"
<1>1. Handed(data, dataWaiters, data', dataWaiters') /\ dataPc' = dataPc
  BY QueueReleases
<1>2. SystemSound(Tasks) /\ SemaphoreSound(data, dataWaiters, dataPc)
  BY DEF QueueInv
<1>3. /\ SystemSound(Tasks)' /\ SemaphoreSound(data', dataWaiters', dataPc)
      /\ data' = data + 1 /\ alarm' = alarm /\ ahead' = ahead
      /\ \A u \in Tasks :
           \/ (Contains(dataWaiters', u) <=> Contains(dataWaiters, u)) /\ k'.state[u] = k.state[u]
           \/ Contains(dataWaiters, u) /\ ~Contains(dataWaiters', u) /\ k'.state[u] # "Blocked"
  BY <1>1, <1>2, HandingIsSound
<1>4. \A u \in Tasks : Contains(dataWaiters, u) => dataPc[u] # "out" /\ ~Contains(roomWaiters, u)
  BY QueueApart
<1> QED BY <1>1, <1>3, <1>4

\* And one of room.
LEMMA RoomWakes ==
  ASSUME QueueInv, Queue!Room!release
  PROVE  /\ SystemSound(Tasks)' /\ SemaphoreSound(room', roomWaiters', roomPc')
         /\ room' = room + 1 /\ roomPc' = roomPc /\ alarm' = alarm /\ ahead' = ahead
         /\ \A u \in Tasks :
              \/ (Contains(roomWaiters', u) <=> Contains(roomWaiters, u)) /\ k'.state[u] = k.state[u]
              \/ /\ Contains(roomWaiters, u) /\ ~Contains(roomWaiters', u)
                 /\ ~Contains(dataWaiters, u) /\ roomPc[u] # "out" /\ k'.state[u] # "Blocked"
<1>1. Handed(room, roomWaiters, room', roomWaiters') /\ roomPc' = roomPc
  BY QueueReleases
<1>2. SystemSound(Tasks) /\ SemaphoreSound(room, roomWaiters, roomPc)
  BY DEF QueueInv
<1>3. /\ SystemSound(Tasks)' /\ SemaphoreSound(room', roomWaiters', roomPc)
      /\ room' = room + 1 /\ alarm' = alarm /\ ahead' = ahead
      /\ \A u \in Tasks :
           \/ (Contains(roomWaiters', u) <=> Contains(roomWaiters, u)) /\ k'.state[u] = k.state[u]
           \/ Contains(roomWaiters, u) /\ ~Contains(roomWaiters', u) /\ k'.state[u] # "Blocked"
  BY <1>1, <1>2, HandingIsSound
<1>4. \A u \in Tasks : Contains(roomWaiters, u) => roomPc[u] # "out" /\ ~Contains(dataWaiters, u)
  BY QueueApart
<1> QED BY <1>1, <1>3, <1>4

\* The sender's copy; there is a slot, its own.
LEMMA CopyKeeps ==
  ASSUME QueueInv, NEW t \in Tasks, Queue!Copy(t)
  PROVE  QueueInv' /\ stored < Capacity /\ hand[t] \in Messages /\ received' = received
<1>1. /\ stage[t] = "copy" /\ Queue!store(hand[t]) /\ Queue!Data!release
      /\ stage' = [stage EXCEPT ![t] = "out"] /\ hand' = [hand EXCEPT ![t] = None]
      /\ room' = room /\ roomWaiters' = roomWaiters /\ roomPc' = roomPc /\ received' = received
  BY DEF Queue!Copy, Queue!roomvars
<1>2. /\ stage'[t] = "out" /\ \A u \in Tasks \ {t} : stage'[u] = stage[u] /\ hand'[u] = hand[u]
      /\ stage' \in [Tasks -> {"out", "reserve", "copy", "receive", "pop"}]
      /\ hand' \in [Tasks -> Messages \cup {None}]
  BY <1>1 DEF QueueInv, QueueType
<1>3. Cardinality(Staged(stage', "copy")) + 1 = Cardinality(Staged(stage, "copy"))
  BY <1>1, <1>2, StageMoves
<1>4. Cardinality(Staged(stage', "pop")) = Cardinality(Staged(stage, "pop"))
  BY <1>1, <1>2, StageMoves
<1>5. Cardinality(Staged(stage', "copy")) \in Nat
  BY TasksCount DEF Staged
<1>6. stored < Capacity
  BY <1>3, <1>5, QueueNumbers
<1>7. hand[t] \in Messages
  BY <1>1 DEF QueueInv, QueueRole
<1>8. /\ ring' \in [0 .. Capacity - 1 -> Messages \cup {None}]
      /\ head' = head /\ stored' = stored + 1 /\ stored' \in 0 .. Capacity
  BY <1>1, <1>6, <1>7, StoreIs
<1>9. /\ SystemSound(Tasks)' /\ SemaphoreSound(data', dataWaiters', dataPc')
      /\ data' = data + 1 /\ dataPc' = dataPc /\ alarm' = alarm /\ ahead' = ahead
      /\ \A u \in Tasks :
           \/ (Contains(dataWaiters', u) <=> Contains(dataWaiters, u)) /\ k'.state[u] = k.state[u]
           \/ /\ Contains(dataWaiters, u) /\ ~Contains(dataWaiters', u)
              /\ ~Contains(roomWaiters, u) /\ dataPc[u] # "out" /\ k'.state[u] # "Blocked"
  BY <1>1, DataWakes
<1>10. QueueCount'
  <2>0. /\ room \in Nat /\ data \in Nat /\ stored \in Nat /\ Capacity \in Nat
        /\ Cardinality(Staged(stage, "copy")) \in Nat /\ Cardinality(Staged(stage, "pop")) \in Nat
        /\ room + Cardinality(Staged(stage, "copy")) + stored = Capacity
        /\ data + Cardinality(Staged(stage, "pop")) = stored
    BY QueueNumbers
  <2>1. room' = room /\ stored' = stored + 1 /\ data' = data + 1
    BY <1>1, <1>8, <1>9
  <2>2. room' + Cardinality(Staged(stage', "copy")) + stored' = Capacity
    BY <1>3, <1>5, <2>0, <2>1
  <2>3. data' + Cardinality(Staged(stage', "pop")) = stored'
    BY <1>4, <2>0, <2>1
  <2> QED BY <2>2, <2>3 DEF QueueCount
<1>11. ASSUME NEW u \in Tasks PROVE QueueEase(u)'
  <2>1. QueueEase(u)
    BY DEF QueueInv
  <2> QED BY <1>1, <1>9, <2>1 DEF QueueEase, Ease
<1>12. ASSUME NEW u \in Tasks PROVE QueueRole(u)'
  <2>1. QueueRole(u)
    BY DEF QueueInv
  <2>2. CASE u = t
    BY <1>1, <1>2, <1>9, <2>1, <2>2 DEF QueueRole
  <2>3. CASE u # t
    BY <1>1, <1>2, <1>9, <2>1, <2>3 DEF QueueRole
  <2> QED BY <2>2, <2>3
<1>13. QueueType' /\ SemaphoreSound(room', roomWaiters', roomPc')
  BY <1>1, <1>2, <1>8 DEF QueueInv, QueueType
<1> QED BY <1>1, <1>6, <1>7, <1>9, <1>10, <1>11, <1>12, <1>13 DEF QueueInv

\* A post from an interrupt takes a free slot.
LEMMA IsrPostKeeps ==
  ASSUME QueueInv, NEW msg \in Messages, Queue!isr_post(msg)
  PROVE  QueueInv' /\ stored < Capacity /\ received' = received
<1>1. /\ room > 0 /\ room' = room - 1 /\ Queue!store(msg) /\ Queue!Data!release
      /\ stage' = stage /\ hand' = hand
      /\ roomWaiters' = roomWaiters /\ roomPc' = roomPc /\ received' = received
  BY DEF Queue!isr_post
<1>2. stored < Capacity
  BY <1>1, QueueNumbers
<1>3. /\ ring' \in [0 .. Capacity - 1 -> Messages \cup {None}]
      /\ head' = head /\ stored' = stored + 1 /\ stored' \in 0 .. Capacity
  BY <1>1, <1>2, StoreIs
<1>4. /\ SystemSound(Tasks)' /\ SemaphoreSound(data', dataWaiters', dataPc')
      /\ data' = data + 1 /\ dataPc' = dataPc /\ alarm' = alarm /\ ahead' = ahead
      /\ \A u \in Tasks :
           \/ (Contains(dataWaiters', u) <=> Contains(dataWaiters, u)) /\ k'.state[u] = k.state[u]
           \/ /\ Contains(dataWaiters, u) /\ ~Contains(dataWaiters', u)
              /\ ~Contains(roomWaiters, u) /\ dataPc[u] # "out" /\ k'.state[u] # "Blocked"
  BY <1>1, DataWakes
<1>5. QueueCount'
  <2>0. /\ room \in Nat /\ data \in Nat /\ stored \in Nat /\ Capacity \in Nat
        /\ Cardinality(Staged(stage, "copy")) \in Nat /\ Cardinality(Staged(stage, "pop")) \in Nat
        /\ room + Cardinality(Staged(stage, "copy")) + stored = Capacity
        /\ data + Cardinality(Staged(stage, "pop")) = stored
    BY QueueNumbers
  <2>1. room' = room - 1 /\ stored' = stored + 1 /\ data' = data + 1 /\ stage' = stage
    BY <1>1, <1>3, <1>4
  <2>2. room' + Cardinality(Staged(stage', "copy")) + stored' = Capacity
    BY <2>0, <2>1
  <2>3. data' + Cardinality(Staged(stage', "pop")) = stored'
    BY <2>0, <2>1
  <2> QED BY <2>2, <2>3 DEF QueueCount
<1>6. ASSUME NEW u \in Tasks PROVE QueueEase(u)'
  <2>1. QueueEase(u)
    BY DEF QueueInv
  <2> QED BY <1>1, <1>4, <2>1 DEF QueueEase, Ease
<1>7. ASSUME NEW u \in Tasks PROVE QueueRole(u)'
  BY <1>1, <1>4 DEF QueueInv, QueueRole
<1>8. SemaphoreSound(room', roomWaiters', roomPc')
  <2>1. SemaphoreSound(room - 1, roomWaiters, roomPc)
    BY <1>1, SemaphoreFewer DEF QueueInv
  <2> QED BY <1>1, <2>1
<1>9. QueueType'
  BY <1>1, <1>3 DEF QueueInv, QueueType
<1> QED BY <1>1, <1>2, <1>4, <1>5, <1>6, <1>7, <1>8, <1>9 DEF QueueInv

\* The receiver's pop; there is a message, its own.
LEMMA PopKeeps ==
  ASSUME QueueInv, NEW t \in Tasks, Queue!pop_ring(t)
  PROVE  QueueInv' /\ stored > 0
<1>1. /\ stage[t] = "pop" /\ Queue!Room!release
      /\ received' = [received EXCEPT ![t] = ring[head]]
      /\ head' = (head + 1) % Capacity /\ stored' = stored - 1
      /\ stage' = [stage EXCEPT ![t] = "out"]
      /\ ring' = ring /\ hand' = hand /\ data' = data
      /\ dataWaiters' = dataWaiters /\ dataPc' = dataPc
  BY DEF Queue!pop_ring, Queue!datavars
<1>2. /\ stage'[t] = "out" /\ \A u \in Tasks \ {t} : stage'[u] = stage[u]
      /\ stage' \in [Tasks -> {"out", "reserve", "copy", "receive", "pop"}]
  BY <1>1 DEF QueueInv, QueueType
<1>3. Cardinality(Staged(stage', "copy")) = Cardinality(Staged(stage, "copy"))
  BY <1>1, <1>2, StageMoves
<1>4. Cardinality(Staged(stage', "pop")) + 1 = Cardinality(Staged(stage, "pop"))
  BY <1>1, <1>2, StageMoves
<1>5. Cardinality(Staged(stage', "pop")) \in Nat
  BY TasksCount DEF Staged
<1>6. stored > 0
  BY <1>4, <1>5, QueueNumbers
<1>7. head' \in 0 .. Capacity - 1
  <2>1. head + 1 \in Nat /\ head + 1 < 2 * Capacity
    BY QueueNumbers
  <2> QED BY <1>1, <2>1, RingIndex
<1>8. received' \in [Tasks -> Messages \cup {None}]
  BY <1>1 DEF QueueInv, QueueType
<1>9. /\ SystemSound(Tasks)' /\ SemaphoreSound(room', roomWaiters', roomPc')
      /\ room' = room + 1 /\ roomPc' = roomPc /\ alarm' = alarm /\ ahead' = ahead
      /\ \A u \in Tasks :
           \/ (Contains(roomWaiters', u) <=> Contains(roomWaiters, u)) /\ k'.state[u] = k.state[u]
           \/ /\ Contains(roomWaiters, u) /\ ~Contains(roomWaiters', u)
              /\ ~Contains(dataWaiters, u) /\ roomPc[u] # "out" /\ k'.state[u] # "Blocked"
  BY <1>1, RoomWakes
<1>10. QueueCount'
  <2>0. /\ room \in Nat /\ data \in Nat /\ stored \in Nat /\ Capacity \in Nat
        /\ Cardinality(Staged(stage, "copy")) \in Nat /\ Cardinality(Staged(stage, "pop")) \in Nat
        /\ room + Cardinality(Staged(stage, "copy")) + stored = Capacity
        /\ data + Cardinality(Staged(stage, "pop")) = stored
    BY QueueNumbers
  <2>1. room' = room + 1 /\ stored' = stored - 1 /\ data' = data
    BY <1>1, <1>9
  <2>2. room' + Cardinality(Staged(stage', "copy")) + stored' = Capacity
    BY <1>3, <2>0, <2>1
  <2>3. data' + Cardinality(Staged(stage', "pop")) = stored'
    BY <1>4, <1>5, <2>0, <2>1
  <2> QED BY <2>2, <2>3 DEF QueueCount
<1>11. ASSUME NEW u \in Tasks PROVE QueueEase(u)'
  <2>1. QueueEase(u)
    BY DEF QueueInv
  <2> QED BY <1>1, <1>9, <2>1 DEF QueueEase, Ease
<1>12. ASSUME NEW u \in Tasks PROVE QueueRole(u)'
  <2>1. QueueRole(u)
    BY DEF QueueInv
  <2>2. CASE u = t
    BY <1>1, <1>2, <1>9, <2>1, <2>2 DEF QueueRole
  <2>3. CASE u # t
    BY <1>1, <1>2, <1>9, <2>1, <2>3 DEF QueueRole
  <2> QED BY <2>2, <2>3
<1>13. QueueType' /\ SemaphoreSound(data', dataWaiters', dataPc')
  <2>1. stored' \in 0 .. Capacity
    BY <1>1, <1>6, QueueNumbers
  <2> QED BY <1>1, <1>2, <1>7, <1>8, <2>1 DEF QueueInv, QueueType
<1> QED BY <1>6, <1>9, <1>10, <1>11, <1>12, <1>13 DEF QueueInv

\* The queue's actions keep its invariant.
LEMMA QueueNext ==
  ASSUME QueueInv, Queue!Next
  PROVE  QueueInv'
<1>1. CASE Queue!Handlers /\ Queue!quevars' = Queue!quevars
  <2>1. UNCHANGED quevars
    BY <1>1 DEF Queue!quevars, Queue!ringvars, Queue!roomvars, Queue!datavars, quevars
  <2> QED BY <1>1, <2>1, QueueHandlers
<1>2. ASSUME NEW t \in Tasks, Queue!CallReceive(t) \/ Queue!Turn(t) PROVE QueueInv'
  BY <1>2, CallReceiveKeeps, ReserveKeeps, CopyKeeps, TakeUnitKeeps, PopKeeps DEF Queue!Turn
<1>3. ASSUME NEW msg \in Messages, NEW t \in Tasks, Queue!CallPost(t, msg) PROVE QueueInv'
  BY <1>3, CallPostKeeps
<1>4. ASSUME NEW msg \in Messages, Queue!isr_post(msg) PROVE QueueInv'
  BY <1>4, IsrPostKeeps
<1> QED BY <1>1, <1>2, <1>3, <1>4 DEF Queue!Next

\* As it is spawned and built.
LEMMA QueueInit ==
  ASSUME Spawned(Tasks, Prio), Queue!Built
  PROVE  QueueInv
<1>1. /\ SystemSound(Tasks) /\ \A t \in Tasks : k.state[t] = "Ready"
      /\ \A t \in Tasks : alarm[t] = "none" /\ ~ahead[t]
  BY SpawnedIsSound, PrioAssumption
<1>2. /\ room = Capacity /\ roomWaiters = << >> /\ roomPc = [t \in Tasks |-> "out"]
      /\ data = 0 /\ dataWaiters = << >> /\ dataPc = [t \in Tasks |-> "out"]
      /\ ring = [i \in 0 .. Capacity - 1 |-> None] /\ head = 0 /\ stored = 0
      /\ stage = [t \in Tasks |-> "out"] /\ hand = [t \in Tasks |-> None]
      /\ received = [t \in Tasks |-> None]
  BY DEF Queue!Built, Queue!Room!Built, Queue!Data!Built
<1>3. Capacity \in Nat /\ Capacity > 0
  BY QueueClients
<1>4. SemaphoreSound(room, roomWaiters, roomPc) /\ \A t : ~Contains(roomWaiters, t)
  BY <1>2, <1>3, SemaphoreBuilt
<1>5. SemaphoreSound(data, dataWaiters, dataPc) /\ \A t : ~Contains(dataWaiters, t)
  BY <1>2, SemaphoreBuilt
<1>6. QueueType
  BY <1>2, <1>3 DEF QueueType
<1>7. QueueCount
  <2>1. Staged(stage, "copy") = {} /\ Staged(stage, "pop") = {}
    BY <1>2 DEF Staged
  <2>2. Cardinality({}) = 0
    BY FS_EmptySet
  <2>3. Cardinality(Staged(stage, "copy")) = 0 /\ Cardinality(Staged(stage, "pop")) = 0
    BY <2>1, <2>2
  <2> QED BY <1>2, <1>3, <2>3 DEF QueueCount
<1>8. \A t \in Tasks : QueueEase(t) /\ QueueRole(t)
  BY <1>1, <1>2, <1>4, <1>5 DEF QueueEase, QueueRole, Ease
<1> QED BY <1>1, <1>4, <1>5, <1>6, <1>7, <1>8 DEF QueueInv

\* What the invariant says of the runs' properties.
LEMMA QueuePromises ==
  ASSUME QueueInv
  PROVE  /\ Queue!NobodyIsForgotten /\ Queue!SlotsAreConserved
         /\ Queue!SleepersAreReachable /\ Queue!NodesAreSound /\ Queue!TypeOK
<1>1. /\ SemaphoreSound(room, roomWaiters, roomPc) /\ roomWaiters \in Seq(Tasks)
      /\ SemaphoreSound(data, dataWaiters, dataPc) /\ dataWaiters \in Seq(Tasks)
  BY DEF QueueInv, SemaphoreSound
<1>2. Queue!Room!NoLostWakeup
  <2>1. \A t : t \in Queue!Room!Range(roomWaiters) <=> Contains(roomWaiters, t)
    BY <1>1, RangeIsContained DEF Queue!Room!Range, Range
  <2>2. {t \in Queue!Room!Inside : t \notin Queue!Room!Range(roomWaiters)} =
          Contenders(roomWaiters, roomPc)
    BY <2>1 DEF Queue!Room!Inside, Contenders
  <2>3. \A A : Queue!Room!Cardinality(A) = Cardinality(A)
    BY DEF Queue!Room!Cardinality, Cardinality
  <2> QED BY <1>1, <2>2, <2>3 DEF Queue!Room!NoLostWakeup, SemaphoreSound
<1>3. Queue!Data!NoLostWakeup
  <2>1. \A t : t \in Queue!Data!Range(dataWaiters) <=> Contains(dataWaiters, t)
    BY <1>1, RangeIsContained DEF Queue!Data!Range, Range
  <2>2. {t \in Queue!Data!Inside : t \notin Queue!Data!Range(dataWaiters)} =
          Contenders(dataWaiters, dataPc)
    BY <2>1 DEF Queue!Data!Inside, Contenders
  <2>3. \A A : Queue!Data!Cardinality(A) = Cardinality(A)
    BY DEF Queue!Data!Cardinality, Cardinality
  <2> QED BY <1>1, <2>2, <2>3 DEF Queue!Data!NoLostWakeup, SemaphoreSound
<1>4. Queue!SlotsAreConserved
  <2>1. \A A : Queue!Cardinality(A) = Cardinality(A)
    BY DEF Queue!Cardinality, Cardinality
  <2>2. \A s : Queue!At(s) = Cardinality(Staged(stage, s))
    BY <2>1 DEF Queue!At, Staged
  <2> QED BY <2>2 DEF Queue!SlotsAreConserved, QueueInv, QueueCount
<1>5. Queue!TypeOK
  <2>1. room \in 0 .. Queue!Bound /\ data \in 0 .. Queue!Bound
    BY QueueNumbers DEF Queue!Bound
  <2>2. Queue!Room!TypeOK
    BY <1>1, <2>1, RoomKernel DEF Queue!Room!TypeOK, QueueInv, SemaphoreSound, SystemSound
  <2>3. Queue!Data!TypeOK
    BY <1>1, <2>1, DataKernel DEF Queue!Data!TypeOK, QueueInv, SemaphoreSound, SystemSound
  <2> QED BY <2>2, <2>3 DEF Queue!TypeOK, QueueInv, QueueType
\* A task is at one of the two semaphores, so it is linked where it is.
<1>6. Queue!SleepersAreReachable
  <2>1. ASSUME NEW t \in Tasks, roomPc[t] # "out", k.state[t] = "Blocked"
        PROVE  Contains(roomWaiters, t) /\ alarm[t] = "live"
    <3>1. QueueEase(t) /\ QueueRole(t)
      BY DEF QueueInv
    <3>2. roomPc[t] = "try_acquire" /\ dataPc[t] = "out"
      BY <1>1, <2>1, <3>1 DEF QueueRole, SemaphoreSound
    <3>3. ~Contains(dataWaiters, t)
      BY <1>1, <3>2 DEF SemaphoreSound
    <3> QED BY <2>1, <3>1, <3>2, <3>3 DEF QueueEase, Ease
  <2>2. ASSUME NEW t \in Tasks, dataPc[t] # "out", k.state[t] = "Blocked"
        PROVE  Contains(dataWaiters, t) /\ (dataPc[t] = "try_acquire" => alarm[t] = "live")
    <3>1. QueueEase(t) /\ QueueRole(t)
      BY DEF QueueInv
    <3>2. dataPc[t] \in {"acquire", "try_acquire"} /\ roomPc[t] = "out"
      BY <1>1, <2>2, <3>1 DEF QueueRole, SemaphoreSound
    <3>3. ~Contains(roomWaiters, t)
      BY <1>1, <3>2 DEF SemaphoreSound
    <3> QED BY <2>2, <3>1, <3>2, <3>3 DEF QueueEase, Ease
  <2>3. Queue!Room!SleepersAreReachable
    <3>1. \A t : t \in Queue!Room!Range(roomWaiters) <=> Contains(roomWaiters, t)
      BY <1>1, RangeIsContained DEF Queue!Room!Range, Range
    <3> QED BY <2>1, <3>1 DEF Queue!Room!SleepersAreReachable, Queue!Room!Inside
  <2>4. Queue!Data!SleepersAreReachable
    <3>1. \A t : t \in Queue!Data!Range(dataWaiters) <=> Contains(dataWaiters, t)
      BY <1>1, RangeIsContained DEF Queue!Data!Range, Range
    <3> QED BY <2>2, <3>1 DEF Queue!Data!SleepersAreReachable, Queue!Data!Inside
  <2> QED BY <2>3, <2>4 DEF Queue!SleepersAreReachable
<1>7. Queue!NodesAreSound
  <2>1. Queue!Room!NoDanglingWaiter /\ Queue!Room!WaiterLinkedOnce
    <3>1. \A t \in Queue!Room!Range(roomWaiters) : t \in Tasks /\ Contains(roomWaiters, t)
      BY <1>1 DEF Queue!Room!Range, Contains
    <3> QED BY <1>1, <3>1 DEF Queue!Room!NoDanglingWaiter, Queue!Room!WaiterLinkedOnce,
            Queue!Room!Inside, SemaphoreSound, LinkedOnce
  <2>2. Queue!Data!NoDanglingWaiter /\ Queue!Data!WaiterLinkedOnce
    <3>1. \A t \in Queue!Data!Range(dataWaiters) : t \in Tasks /\ Contains(dataWaiters, t)
      BY <1>1 DEF Queue!Data!Range, Contains
    <3> QED BY <1>1, <3>1 DEF Queue!Data!NoDanglingWaiter, Queue!Data!WaiterLinkedOnce,
            Queue!Data!Inside, SemaphoreSound, LinkedOnce
  <2> QED BY <2>1, <2>2 DEF Queue!NodesAreSound
<1> QED BY <1>2, <1>3, <1>4, <1>5, <1>6, <1>7 DEF Queue!NobodyIsForgotten

-----------------------------------------------------------------------------
(* The ring is a bounded FIFO.                                             *)

\* The messages from the oldest to the youngest.
RingSlot(i) == (head + i - 1) % Capacity

Content == [i \in 1 .. stored |-> ring[(head + i - 1) % Capacity]]

\* Different positions are different slots, and the slots move up by one.
LEMMA SlotsDiffer ==
  ASSUME QueueInv
  PROVE  /\ \A i \in 1 .. Capacity : RingSlot(i) \in 0 .. Capacity - 1
         /\ \A i, j \in 1 .. Capacity : RingSlot(i) = RingSlot(j) => i = j
         /\ RingSlot(1) = head
         /\ \A i \in 1 .. Capacity - 1 : (((head + 1) % Capacity) + i - 1) % Capacity = RingSlot(i + 1)
<1>1. head \in Nat /\ head < Capacity /\ Capacity \in Nat /\ Capacity > 0
  BY QueueNumbers
<1>2. ASSUME NEW i \in 1 .. Capacity
      PROVE  /\ RingSlot(i) \in Int
             /\ RingSlot(i) = (IF head + i <= Capacity THEN head + i - 1 ELSE head + i - 1 - Capacity)
             /\ RingSlot(i) \in 0 .. Capacity - 1
  <2> DEFINE x == head + i - 1
  <2>1. /\ x \in Nat /\ x < 2 * Capacity
        /\ x = head + i - 1 /\ x - Capacity = head + i - 1 - Capacity
        /\ (x < Capacity <=> head + i <= Capacity)
    BY <1>1
  <2>2. RingSlot(i) = x % Capacity
    BY Zenon DEF x, RingSlot
  <2> HIDE DEF x
  <2>3. x % Capacity = (IF x < Capacity THEN x ELSE x - Capacity) /\ x % Capacity \in 0 .. Capacity - 1
    BY <2>1, RingIndex
  <2>4. RingSlot(i) = (IF x < Capacity THEN x ELSE x - Capacity) /\ RingSlot(i) \in 0 .. Capacity - 1
    BY <2>2, <2>3
  <2> QED BY <1>1, <2>1, <2>4
<1>3. ASSUME NEW i \in 1 .. Capacity, NEW j \in 1 .. Capacity, RingSlot(i) = RingSlot(j) PROVE i = j
  <2> DEFINE a == RingSlot(i)
             b == RingSlot(j)
  <2>1. /\ a \in Int /\ a = (IF head + i <= Capacity THEN head + i - 1 ELSE head + i - 1 - Capacity)
        /\ b \in Int /\ b = (IF head + j <= Capacity THEN head + j - 1 ELSE head + j - 1 - Capacity)
    BY <1>2
  <2>2. a = b
    BY <1>3
  <2> HIDE DEF a, b
  <2>3. i \in Int /\ 1 <= i /\ i <= Capacity /\ j \in Int /\ 1 <= j /\ j <= Capacity
    BY <1>1
  <2> QED BY <1>1, <2>1, <2>2, <2>3
<1>4. RingSlot(1) = head
  <2>1. RingSlot(1) = (IF head + 1 <= Capacity THEN head + 1 - 1 ELSE head + 1 - 1 - Capacity)
    BY <1>1, <1>2
  <2> QED BY <1>1, <2>1
<1>5. ASSUME NEW i \in 1 .. Capacity - 1
      PROVE  (((head + 1) % Capacity) + i - 1) % Capacity = RingSlot(i + 1)
  <2> DEFINE h == (head + 1) % Capacity
             x == h + i - 1
  <2>1. h = IF head + 1 < Capacity THEN head + 1 ELSE head + 1 - Capacity
    <3> DEFINE y == head + 1
    <3>1. y \in Nat /\ y < 2 * Capacity
      BY <1>1
    <3>2. h = y % Capacity
      BY Zenon DEF h, y
    <3> HIDE DEF h, y
    <3>3. y % Capacity = (IF y < Capacity THEN y ELSE y - Capacity)
      BY <3>1, RingIndex
    <3>4. h = IF y < Capacity THEN y ELSE y - Capacity
      BY <3>2, <3>3
    <3> QED BY <1>1, <3>4 DEF y
  <2> HIDE DEF h
  <2>2. x \in Nat /\ x < 2 * Capacity
    BY <1>1, <2>1
  <2>3. x = head + i \/ x = head + i - Capacity
    BY <1>1, <2>1
  <2> HIDE DEF x
  <2>4. x % Capacity = (IF x < Capacity THEN x ELSE x - Capacity) /\ x % Capacity \in 0 .. Capacity - 1
    BY <2>2, RingIndex
  <2>5. i + 1 \in 1 .. Capacity
    BY <1>1
  <2>6. /\ RingSlot(i + 1) = (IF head + (i + 1) <= Capacity THEN head + (i + 1) - 1
                              ELSE head + (i + 1) - 1 - Capacity)
        /\ RingSlot(i + 1) \in 0 .. Capacity - 1
    BY <1>2, <2>5
  <2>7. RingSlot(i + 1) = IF head + i < Capacity THEN head + i ELSE head + i - Capacity
    BY <1>1, <2>6
  <2>8. x % Capacity = RingSlot(i + 1)
    BY <1>1, <2>2, <2>3, <2>4, <2>6, <2>7
  <2> QED BY <2>8 DEF x, h
<1> QED BY <1>2, <1>3, <1>4, <1>5

\* What is in the ring is a sequence of messages, or of slots never filled.
LEMMA ContentIs ==
  ASSUME QueueInv
  PROVE  /\ Content \in Seq(Messages \cup {None}) /\ Len(Content) = stored
         /\ \A i \in 1 .. stored : Content[i] = ring[RingSlot(i)]
<1>1. stored \in Nat /\ stored <= Capacity /\ Capacity \in Nat
  BY QueueNumbers
<1>2. \A i \in 1 .. stored : RingSlot(i) \in 0 .. Capacity - 1
  BY <1>1, SlotsDiffer
<1>3. ring \in [0 .. Capacity - 1 -> Messages \cup {None}]
  BY DEF QueueInv, QueueType
<1>4. Content = [i \in 1 .. stored |-> ring[RingSlot(i)]]
  BY DEF Content, RingSlot
<1>5. Content \in [1 .. stored -> Messages \cup {None}]
  BY <1>2, <1>3, <1>4
<1> QED BY <1>1, <1>4, <1>5

\* A store appends.
LEMMA StoreAppends ==
  ASSUME QueueInv, stored < Capacity, NEW msg \in Messages, Queue!store(msg)
  PROVE  Content' = Append(Content, msg) /\ Len(Content) < Capacity
<1>1. stored \in Nat /\ stored < Capacity /\ Capacity \in Nat
  BY QueueNumbers
<1>2. /\ ring' = [ring EXCEPT ![(head + stored) % Capacity] = msg]
      /\ head' = head /\ stored' = stored + 1
  BY StoreIs
<1>3. (head + stored) % Capacity = RingSlot(stored + 1)
  <2>1. head + stored = head + (stored + 1) - 1
    BY <1>1, QueueNumbers
  <2> QED BY <2>1 DEF RingSlot
<1>4. /\ Content \in Seq(Messages \cup {None}) /\ Len(Content) = stored
      /\ \A i \in 1 .. stored : Content[i] = ring[RingSlot(i)]
  BY ContentIs
<1>5. Content' = [i \in 1 .. stored + 1 |-> ring'[RingSlot(i)]]
  BY <1>2 DEF Content, RingSlot
<1>6. stored + 1 \in 1 .. Capacity /\ \A i \in 1 .. stored : i \in 1 .. Capacity /\ i # stored + 1
  BY <1>1
<1>7. /\ RingSlot(stored + 1) \in 0 .. Capacity - 1
      /\ \A i \in 1 .. stored : RingSlot(i) \in 0 .. Capacity - 1 /\ RingSlot(i) # RingSlot(stored + 1)
  BY <1>6, SlotsDiffer
<1>8. ring \in [0 .. Capacity - 1 -> Messages \cup {None}]
  BY DEF QueueInv, QueueType
<1>9. /\ ring'[RingSlot(stored + 1)] = msg
      /\ \A i \in 1 .. stored : ring'[RingSlot(i)] = Content[i]
  BY <1>2, <1>3, <1>4, <1>7, <1>8
<1>10. \A i \in 1 .. stored + 1 : Content'[i] = IF i = stored + 1 THEN msg ELSE Content[i]
  BY <1>1, <1>5, <1>9
<1>11. \A i \in 1 .. stored : Content[i] \in Messages \cup {None}
  BY <1>4
<1>12. Content' \in Seq(Messages \cup {None}) /\ Len(Content') = stored + 1
  <2>1. Content' \in [1 .. stored + 1 -> Messages \cup {None}]
    BY <1>1, <1>5, <1>10, <1>11
  <2> QED BY <1>1, <2>1
<1>13. /\ Append(Content, msg) \in Seq(Messages \cup {None})
       /\ Len(Append(Content, msg)) = stored + 1
       /\ \A i \in 1 .. stored + 1 :
            Append(Content, msg)[i] = IF i = stored + 1 THEN msg ELSE Content[i]
  BY <1>1, <1>4
<1>14. Content' = Append(Content, msg)
  BY <1>10, <1>12, <1>13, SeqEqual
<1> QED BY <1>1, <1>4, <1>14

\* A pop takes the first.
LEMMA PopTakesFirst ==
  ASSUME QueueInv, stored > 0, NEW t \in Tasks, Queue!pop_ring(t)
  PROVE  /\ Content # << >> /\ Content' = Tail(Content)
         /\ received' = [received EXCEPT ![t] = Head(Content)]
<1>1. stored \in Nat /\ stored <= Capacity /\ Capacity \in Nat
  BY QueueNumbers
<1>2. /\ received' = [received EXCEPT ![t] = ring[head]]
      /\ head' = (head + 1) % Capacity /\ stored' = stored - 1 /\ ring' = ring
  BY DEF Queue!pop_ring
<1>3. /\ Content \in Seq(Messages \cup {None}) /\ Len(Content) = stored
      /\ \A i \in 1 .. stored : Content[i] = ring[RingSlot(i)]
  BY ContentIs
<1>4. Content # << >> /\ Head(Content) = ring[head]
  BY <1>1, <1>3, SlotsDiffer
<1>5. Content' = [i \in 1 .. stored - 1 |-> ring[(((head + 1) % Capacity) + i - 1) % Capacity]]
  BY <1>2 DEF Content
<1>6. \A i \in 1 .. stored - 1 : (((head + 1) % Capacity) + i - 1) % Capacity = RingSlot(i + 1)
  BY <1>1, SlotsDiffer
<1>7. \A i \in 1 .. stored - 1 : ring[RingSlot(i + 1)] = Content[i + 1]
  BY <1>1, <1>3
<1>8. /\ Tail(Content) \in Seq(Messages \cup {None}) /\ Len(Tail(Content)) = stored - 1
      /\ \A i \in 1 .. stored - 1 : Tail(Content)[i] = Content[i + 1]
  BY <1>1, <1>3, <1>4, HeadTailProperties
<1>9. Content' = [i \in 1 .. stored - 1 |-> Content[i + 1]]
  BY <1>5, <1>6, <1>7
<1>10. Content' \in Seq(Messages \cup {None}) /\ Len(Content') = stored - 1
  <2>1. Content' \in [1 .. stored - 1 -> Messages \cup {None}] /\ stored - 1 \in Nat
    BY <1>1, <1>3, <1>9
  <2> QED BY <1>9, <2>1
<1>11. \A i \in 1 .. stored - 1 : Content'[i] = Tail(Content)[i]
  BY <1>8, <1>9
<1>12. Content' = Tail(Content)
  BY <1>8, <1>10, <1>11, SeqEqual
<1> QED BY <1>2, <1>4, <1>12

\* Every step of the queue is a step of the FIFO or none.
LEMMA QueueImplementsFifo ==
  ASSUME QueueInv, Queue!Next
  PROVE  Queue!Fifo!Next \/ UNCHANGED << Content, received >>
<1>0. ASSUME ring' = ring, head' = head, stored' = stored, received' = received
      PROVE  UNCHANGED << Content, received >>
  BY <1>0 DEF Content
<1>1. CASE Queue!Handlers /\ Queue!quevars' = Queue!quevars
  BY <1>0, <1>1 DEF Queue!quevars, Queue!ringvars
<1>2. ASSUME NEW t \in Tasks, Queue!CallReceive(t) \/ Queue!Reserve(t) \/ Queue!TakeUnit(t)
      PROVE  UNCHANGED << Content, received >>
  BY <1>0, <1>2 DEF Queue!CallReceive, Queue!Reserve, Queue!TakeUnit, Queue!ringvars
<1>3. ASSUME NEW msg \in Messages, NEW t \in Tasks, Queue!CallPost(t, msg)
      PROVE  UNCHANGED << Content, received >>
  BY <1>0, <1>3 DEF Queue!CallPost, Queue!ringvars
<1>4. ASSUME NEW msg \in Messages, stored < Capacity, Queue!store(msg), received' = received
      PROVE  Queue!Fifo!Next
  <2>1. Content' = Append(Content, msg) /\ Len(Content) < Capacity
    BY <1>4, StoreAppends
  <2>2. Queue!Fifo!Put(msg)
    BY <1>4, <2>1 DEF Queue!Fifo!Put, Content
  <2> QED BY <1>4, <2>2 DEF Queue!Fifo!Next
<1>5. ASSUME NEW t \in Tasks, Queue!Copy(t) PROVE Queue!Fifo!Next
  <2>1. stored < Capacity /\ hand[t] \in Messages /\ received' = received
    BY <1>5, CopyKeeps
  <2>2. Queue!store(hand[t])
    BY <1>5 DEF Queue!Copy
  <2> QED BY <1>4, <2>1, <2>2
<1>6. ASSUME NEW msg \in Messages, Queue!isr_post(msg) PROVE Queue!Fifo!Next
  <2>1. stored < Capacity /\ received' = received
    BY <1>6, IsrPostKeeps
  <2>2. Queue!store(msg)
    BY <1>6 DEF Queue!isr_post
  <2> QED BY <1>4, <2>1, <2>2
<1>7. ASSUME NEW t \in Tasks, Queue!pop_ring(t) PROVE Queue!Fifo!Next
  <2>1. stored > 0
    BY <1>7, PopKeeps
  <2>2. /\ Content # << >> /\ Content' = Tail(Content)
        /\ received' = [received EXCEPT ![t] = Head(Content)]
    BY <1>7, <2>1, PopTakesFirst
  <2>3. Queue!Fifo!Get(t)
    BY <2>2 DEF Queue!Fifo!Get, Content
  <2> QED BY <1>7, <2>3 DEF Queue!Fifo!Next
<1> QED BY <1>1, <1>2, <1>3, <1>5, <1>6, <1>7 DEF Queue!Next, Queue!Turn

-----------------------------------------------------------------------------
(* Whatever a behaviour uses.                                              *)

\* The semaphore and the face nobody uses stay as they were built; the
\* invariant of what is used holds.
Unused ==
  /\ use # "semaphore" => waiters = << >> /\ pc = [t \in Tasks |-> "out"]
  /\ use # "face" => facePc = [t \in Tasks |-> "out"]

SyncInv ==
  /\ use = "semaphore" => SemaphoreInv
  /\ use = "events" => EventInv
  /\ use = "face" => FaceInv
  /\ use = "queue" => QueueInv
  /\ Unused

\* Every behaviour begins with it.
LEMMA SyncStarts ==
  ASSUME SyncInit
  PROVE  SyncInv
<1>1. Built /\ Events!Built /\ Face!Built /\ Queue!Built /\ Spawned(Crew, Prio)
  BY DEF SyncInit
<1>2. Unused
  BY <1>1 DEF Unused, Built, Face!Built
<1>3. CASE use = "face"
  <2>1. FaceInv
    BY <1>1, <1>3, FaceInit DEF Crew
  <2> QED BY <1>2, <1>3, <2>1 DEF SyncInv
<1>4. CASE use # "face"
  <2>1. Spawned(Tasks, Prio)
    BY <1>1, <1>4 DEF Crew
  <2>2. SemaphoreInv /\ EventInv /\ QueueInv
    BY <1>1, <2>1, SemaphoreInit, EventInit, QueueInit
  <2> QED BY <1>2, <1>4, <2>2 DEF SyncInv
<1> QED BY <1>3, <1>4

\* A step that changes nothing keeps each part.
LEMMA NothingMoves ==
  ASSUME UNCHANGED syncvars
  PROVE  /\ SemaphoreInv => SemaphoreInv'
         /\ EventInv => EventInv'
         /\ FaceInv => FaceInv'
         /\ QueueInv => QueueInv'
<1>1. /\ k' = k /\ mode' = mode /\ alarm' = alarm /\ ahead' = ahead
      /\ count' = count /\ waiters' = waiters /\ pc' = pc
      /\ bits' = bits /\ evtWaiters' = evtWaiters /\ want' = want /\ evtPc' = evtPc
      /\ facePc' = facePc /\ got' = got
      /\ ring' = ring /\ head' = head /\ stored' = stored /\ room' = room
      /\ roomWaiters' = roomWaiters /\ roomPc' = roomPc /\ data' = data
      /\ dataWaiters' = dataWaiters /\ dataPc' = dataPc /\ stage' = stage /\ hand' = hand
      /\ received' = received
  BY DEF syncvars, sysvars, semvars, evtvars, facevars, quevars
<1>2. \A S \in SUBSET Tasks : SystemSound(S) => SystemSound(S)'
  BY <1>1, StillIsSound
<1>3. SemaphoreInv => SemaphoreInv'
  BY <1>1, <1>2 DEF SemaphoreInv, SemaphoreEase, SemaphoreRole
<1>4. EventInv => EventInv'
  BY <1>1, <1>2 DEF EventInv, EventType, EventEase, EventRole, EventLack, Events!satisfied
<1>5. FaceInv => FaceInv'
  BY <1>1, <1>2, FaceClients DEF FaceInv, FaceType, FaceBooked
<1>6. QueueInv => QueueInv'
  <2>1. \A u \in Tasks : QueueEase(u) => QueueEase(u)'
    BY <1>1 DEF QueueEase
  <2>2. \A u \in Tasks : QueueRole(u) => QueueRole(u)'
    BY <1>1 DEF QueueRole
  <2>3. QueueType => QueueType'
    BY <1>1 DEF QueueType
  <2>4. QueueCount => QueueCount'
    BY <1>1 DEF QueueCount
  <2> QED BY <1>1, <1>2, <2>1, <2>2, <2>3, <2>4 DEF QueueInv
<1> QED BY <1>3, <1>4, <1>5, <1>6

\* Every step keeps it.
LEMMA SyncStep ==
  ASSUME SyncInv, [SyncNext]_syncvars
  PROVE  SyncInv'
<1>1. CASE use = "semaphore" /\ Next /\ UNCHANGED << evtvars, facevars, quevars >> /\ use' = use
  <2>1. SemaphoreInv'
    BY <1>1, SemaphoreNext DEF SyncInv
  <2>2. Unused'
    BY <1>1 DEF SyncInv, Unused, facevars
  <2> QED BY <1>1, <2>1, <2>2 DEF SyncInv
<1>2. CASE use = "events" /\ Events!Next /\ UNCHANGED << semvars, facevars, quevars >> /\ use' = use
  <2>1. EventInv'
    BY <1>2, EventNext DEF SyncInv
  <2>2. Unused'
    BY <1>2 DEF SyncInv, Unused, facevars, semvars
  <2> QED BY <1>2, <2>1, <2>2 DEF SyncInv
<1>3. CASE use = "face" /\ Face!Next /\ UNCHANGED << semvars, evtvars, quevars >> /\ use' = use
  <2>1. FaceInv'
    BY <1>3, FaceNext DEF SyncInv
  <2>2. Unused'
    BY <1>3 DEF SyncInv, Unused, semvars
  <2> QED BY <1>3, <2>1, <2>2 DEF SyncInv
<1>4. CASE use = "queue" /\ Queue!Next /\ UNCHANGED << semvars, evtvars, facevars >> /\ use' = use
  <2>1. QueueInv'
    BY <1>4, QueueNext DEF SyncInv
  <2>2. Unused'
    BY <1>4 DEF SyncInv, Unused, facevars, semvars
  <2> QED BY <1>4, <2>1, <2>2 DEF SyncInv
<1>5. CASE UNCHANGED syncvars
  <2>1. use' = use /\ (Unused => Unused')
    BY <1>5 DEF syncvars, Unused, semvars, facevars
  <2>2. /\ SemaphoreInv => SemaphoreInv'
        /\ EventInv => EventInv'
        /\ FaceInv => FaceInv'
        /\ QueueInv => QueueInv'
    BY <1>5, NothingMoves
  <2> QED BY <2>1, <2>2 DEF SyncInv
<1> QED BY <1>1, <1>2, <1>3, <1>4, <1>5 DEF SyncNext

\* The strengthening is an invariant of whatever the tasks wait on.
THEOREM SyncSound == SyncSpec => []SyncInv
BY SyncStarts, SyncStep, PTL DEF SyncSpec

\* An unused semaphore has nobody.
LEMMA UnusedPromises ==
  ASSUME Unused, use # "semaphore"
  PROVE  NoLostWakeup /\ SleepersAreReachable /\ NoDanglingWaiter /\ WaiterLinkedOnce
<1>1. waiters = << >> /\ pc = [t \in Tasks |-> "out"]
  BY DEF Unused
<1>2. Inside = {}
  BY <1>1 DEF Inside
<1>3. Range(waiters) = {}
  BY <1>1 DEF Range
<1> QED BY <1>1, <1>2, <1>3
        DEF NoLostWakeup, SleepersAreReachable, NoDanglingWaiter, WaiterLinkedOnce

\* What the strengthening says of the run's properties.
LEMMA SyncPromises ==
  ASSUME SyncInv
  PROVE  NothingIsSleptOn /\ SleepersAreFound /\ NodesAreSound /\ SlotsAreConserved
<1>1. NoLostWakeup /\ SleepersAreReachable /\ NoDanglingWaiter /\ WaiterLinkedOnce
  BY SemaphorePromises, UnusedPromises DEF SyncInv
<1>2. use = "semaphore" => TypeOK
  BY SemaphorePromises DEF SyncInv
<1>3. use = "events" =>
        /\ Events!LinkedLackTheirBits /\ Events!SleepersAreReachable
        /\ Events!NodesAreSound /\ Events!TypeOK
  BY EventPromises DEF SyncInv
<1>4. use = "face" => Face!SleepIsBooked /\ Face!TypeOK
  BY FacePromises DEF SyncInv
<1>5. use = "queue" =>
        /\ Queue!NobodyIsForgotten /\ Queue!SlotsAreConserved
        /\ Queue!SleepersAreReachable /\ Queue!NodesAreSound /\ Queue!TypeOK
  BY QueuePromises DEF SyncInv
<1> QED BY <1>1, <1>2, <1>3, <1>4, <1>5
        DEF NothingIsSleptOn, SleepersAreFound, NodesAreSound, SlotsAreConserved

\* No wake-up is lost in the semaphore, in the event group or on either side
\* of the message queue, however many tasks wait and however they interleave:
\* acquire, wait and receive_one read their condition and link their node in
\* one section, and a release wakes whom it unlinks.
THEOREM SyncLosesNoWakeup == SyncSpec => []NothingIsSleptOn
BY SyncSound, SyncPromises, PTL

\* Whoever sleeps in acquire, try_acquire, wait, post_for or receive_one is
\* linked where it will be looked for, in the semaphore, the event group or the
\* one of the queue's two semaphores it is at, and whoever sleeps in a timed
\* call, sleep_for and wait_notify included, has its alarm booked.
THEOREM SyncFindsSleepers == SyncSpec => []SleepersAreFound
BY SyncSound, SyncPromises, PTL

\* A node on a caller's stack is in no list when the call has returned and
\* never twice in one: not in the semaphore's, not in the event group's, not in
\* either of the queue's; every object keeps its types.
THEOREM SyncNodesSound == SyncSpec => []NodesAreSound
BY SyncSound, SyncPromises, PTL

\* Slots and messages are conserved: free, reserved and filled slots make up
\* the ring, messages on offer and promised make up its content.
THEOREM SyncConservesSlots == SyncSpec => []SlotsAreConserved
BY SyncSound, SyncPromises, PTL

\* The message queue, its two semaphores and the tasks between their sections
\* implement a bounded first-in first-out queue: the section that stores is a
\* Put, the section that pops is a Get, and every other step leaves both ends
\* alone.
THEOREM SyncImplementsFifo == SyncSpec => ImplementsFifo
<1>1. ASSUME SyncInit PROVE Queue!Fifo!Init
  <2>1. stored = 0 /\ received = [t \in Tasks |-> None]
    BY <1>1 DEF SyncInit, Queue!Built
  <2> QED BY <2>1 DEF Queue!Fifo!Init
<1>2. ASSUME SyncInv, [SyncNext]_syncvars
      PROVE  Queue!Fifo!Next \/ UNCHANGED << Content, received >>
  <2>1. CASE use = "queue" /\ Queue!Next
    <3>1. QueueInv
      BY <1>2, <2>1 DEF SyncInv
    <3> QED BY <2>1, <3>1, QueueImplementsFifo
  <2>2. CASE UNCHANGED quevars
    BY <2>2 DEF quevars, Content
  <2>3. UNCHANGED syncvars => UNCHANGED quevars
    BY DEF syncvars
  <2> QED BY <1>2, <2>1, <2>2, <2>3 DEF SyncNext
<1>3. Queue!Fifo!Next \/ UNCHANGED << Content, received >> =>
        [Queue!Fifo!Next]_<< [i \in 1 .. stored |-> ring[(head + i - 1) % Capacity]], received >>
  BY DEF Content
<1> QED BY <1>1, <1>2, <1>3, SyncSound, PTL
        DEF SyncSpec, ImplementsFifo, Queue!ImplementsFifo, Queue!Fifo!Spec

=============================================================================
