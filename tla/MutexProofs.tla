---------------------------- MODULE MutexProofs -----------------------------
(***************************************************************************)
(* The mutex for any number of tasks, mutexes and levels.  Who holds, who  *)
(* owns and who sleeps is settled by one invariant, whether clients nest   *)
(* or not.  That loans are honest and priority strict rests on a second    *)
(* one, of clients that hold one mutex at a time: an owner's level is its  *)
(* own or that of the first waiter, and the list is in the order of the    *)
(* levels, so that a boosted owner always hands over to a task above it.   *)
(***************************************************************************)
EXTENDS Inversion, TaskSystemProofs

\* lock()'s Ok is only ever given to the owner.
HolderOwns == \A m \in Mutexes, t \in Tasks : m \in holds[t] => owner[m] = t

\* An owner has its Ok, or was handed the mutex and is on its way to it.
OwnerIsAwake ==
  \A m \in Mutexes, t \in Tasks : owner[m] = t =>
    m \in holds[t] \/ (at[t] = "loop" /\ want[t] = m /\ k.state[t] # "Blocked")

\* Nobody waits for a mutex that is free.
FreeIsBare == \A m \in Mutexes : owner[m] = None => waiters[m] = << >> /\ ~boosted[m]

\* Lists are sorted by the levels their nodes were filled in with.
ListsAreSorted == \A m \in Mutexes : LinkedOnce(waiters[m]) /\ InOrderOf(waiters[m], node)

\* An alarm is booked for a task that naps, never for one inside lock().
OnlyNappersAreBooked ==
  \A t \in Tasks : alarm[t] # "none" => at[t] = "out" /\ k.state[t] = "Blocked"

IInv ==
  /\ TypeOK
  /\ SystemSound(Tasks)
  /\ HolderOwns
  /\ OwnerIsAwake
  /\ FreeIsBare
  /\ ListsAreSorted
  /\ WaitersAreTheSleepers
  /\ OnlyNappersAreBooked

-----------------------------------------------------------------------------
\* ToSet and Contains say the same of a list.
LEMMA ListedIsContained ==
  ASSUME NEW T, NEW s \in Seq(T)
  PROVE  \A x : x \in ToSet(s) <=> Contains(s, x)
BY DEF ToSet, Contains

\* The constructors, and the wiring code's spawns.
LEMMA InitIInv ==
  ASSUME Init
  PROVE  /\ IInv /\ Strict(Tasks)
         /\ \A t \in Tasks : k.prio[t] = Prio[t]
<1>1. /\ SystemSound(Tasks) /\ Strict(Tasks)
      /\ \A t \in Tasks : k.prio[t] = Prio[t] /\ k.state[t] = "Ready"
      /\ \A t \in Tasks : alarm[t] = "none"
  BY SpawnedIsSound, PrioAssumption DEF Init, SystemInit
<1>2. Built /\ nests \in BOOLEAN
  BY DEF Init
<1>3. 0 \in Levels
  BY LevelsAssumption DEF Levels
<1>4. \A m \in Mutexes : waiters[m] = << >> /\ Len(waiters[m]) = 0 /\ owner[m] = None /\ ~boosted[m]
  BY <1>2 DEF Built
<1>5. \A t \in Tasks : at[t] = "out" /\ holds[t] = {}
  BY <1>2 DEF Built
<1>6. TypeOK
  <2>1. want \in [Tasks -> Mutexes]
    BY <1>2, MutexesAssumption DEF Built
  <2>2. waiters \in [Mutexes -> Seq(Tasks)] /\ boosted \in [Mutexes -> BOOLEAN]
    BY <1>2 DEF Built
  <2>3. /\ owner \in [Mutexes -> Tasks \cup {None}] /\ saved \in [Mutexes -> Levels]
        /\ at \in [Tasks -> {"out", "door", "loop"}]
        /\ node \in [Tasks -> Levels] /\ holds \in [Tasks -> SUBSET Mutexes]
    BY <1>2, <1>3, PrioAssumption DEF Built
  <2> QED BY <1>1, <1>2, <2>1, <2>2, <2>3 DEF TypeOK, SystemSound
<1>7. HolderOwns /\ OwnerIsAwake /\ FreeIsBare
  BY <1>4, <1>5, TasksAssumption DEF HolderOwns, OwnerIsAwake, FreeIsBare
<1>8. ListsAreSorted
  BY <1>4 DEF ListsAreSorted, LinkedOnce, InOrderOf
<1>9. WaitersAreTheSleepers
  BY <1>4, <1>5 DEF WaitersAreTheSleepers, ToSet
<1>10. OnlyNappersAreBooked
  BY <1>1 DEF OnlyNappersAreBooked
<1> QED BY <1>1, <1>6, <1>7, <1>8, <1>9, <1>10 DEF IInv

\* What a handler wakes was napping.
LEMMA HandlersKeepIInv ==
  ASSUME IInv, Handlers, UNCHANGED mtxvars
  PROVE  IInv' /\ k'.prio = k.prio /\ (Strict(Tasks) => Strict(Tasks)')
<1>1. SystemSound(Tasks)' /\ HandlerEffect(Tasks) /\ (Strict(Tasks) => Strict(Tasks)')
  BY HandlersAreSound DEF IInv
<1>2. /\ owner' = owner /\ saved' = saved /\ boosted' = boosted /\ waiters' = waiters
      /\ at' = at /\ want' = want /\ node' = node /\ holds' = holds /\ nests' = nests
  BY DEF mtxvars
<1>3. TypeOK'
  BY <1>1, <1>2 DEF IInv, TypeOK, SystemSound
<1>4. HolderOwns' /\ FreeIsBare' /\ ListsAreSorted'
  BY <1>2 DEF IInv, HolderOwns, FreeIsBare, ListsAreSorted
<1>5. OwnerIsAwake'
  BY <1>1, <1>2 DEF IInv, OwnerIsAwake, HandlerEffect
<1>6. WaitersAreTheSleepers'
  BY <1>1, <1>2 DEF IInv, WaitersAreTheSleepers, HandlerEffect, OnlyNappersAreBooked
<1>7. OnlyNappersAreBooked'
  BY <1>1, <1>2 DEF IInv, HandlerEffect, OnlyNappersAreBooked
<1> QED BY <1>1, <1>3, <1>4, <1>5, <1>6, <1>7 DEF IInv, HandlerEffect

\* A task that runs is neither linked nor booked.
LEMMA RunnerFacts ==
  ASSUME IInv, NEW t \in Tasks, Runs(t)
  PROVE  /\ k.current = t /\ k.state[t] = "Running" /\ mode = "thread" /\ ~k.pend
         /\ alarm[t] = "none"
         /\ \A m \in Mutexes : t \notin ToSet(waiters[m]) /\ ~Contains(waiters[m], t)
         /\ IsKernel(k) /\ HonestRings(k, Tasks)
<1>1. k.current = t /\ k.state[t] = "Running" /\ mode = "thread" /\ ~k.pend
      /\ IsKernel(k) /\ HonestRings(k, Tasks)
  BY RunsFacts DEF IInv
<1>2. alarm[t] = "none"
  BY <1>1 DEF IInv, OnlyNappersAreBooked
<1>3. \A m \in Mutexes : t \notin ToSet(waiters[m])
  BY <1>1 DEF IInv, WaitersAreTheSleepers
<1>4. \A m \in Mutexes : waiters[m] \in Seq(Tasks)
  BY DEF IInv, TypeOK
<1> QED BY <1>1, <1>2, <1>3, <1>4, ListedIsContained

\* The call begins: nothing is linked yet.
LEMMA CallLockKeepsIInv ==
  ASSUME IInv, NEW t \in Tasks, NEW m \in Mutexes, CallLock(t, m)
  PROVE  IInv'
<1>1. /\ Runs(t) /\ at[t] = "out" /\ at' = [at EXCEPT ![t] = "door"]
      /\ want' = [want EXCEPT ![t] = m]
      /\ UNCHANGED << k, mode, alarm, ahead, owner, saved, boosted, waiters, node, holds, nests >>
  BY DEF CallLock, sysvars
<1>2. k.state[t] = "Running" /\ alarm[t] = "none" /\ \A n \in Mutexes : t \notin ToSet(waiters[n])
  BY <1>1, RunnerFacts
<1>3. /\ at \in [Tasks -> {"out", "door", "loop"}] /\ want \in [Tasks -> Mutexes]
  BY DEF IInv, TypeOK
<1>4. TypeOK' /\ SystemSound(Tasks)'
  BY <1>1, <1>3 DEF IInv, TypeOK, SystemSound, SystemType, RunnerIsKnown
<1>5. HolderOwns' /\ FreeIsBare' /\ ListsAreSorted'
  BY <1>1 DEF IInv, HolderOwns, FreeIsBare, ListsAreSorted
<1>6. OwnerIsAwake'
  BY <1>1, <1>3 DEF IInv, OwnerIsAwake
<1>7. WaitersAreTheSleepers'
  BY <1>1, <1>2, <1>3 DEF IInv, WaitersAreTheSleepers
<1>8. OnlyNappersAreBooked'
  BY <1>1, <1>2, <1>3 DEF IInv, OnlyNappersAreBooked
<1> QED BY <1>4, <1>5, <1>6, <1>7, <1>8 DEF IInv

\* The node is filled and still nowhere linked.
LEMMA FillNodeKeepsIInv ==
  ASSUME IInv, NEW t \in Tasks, FillNode(t)
  PROVE  IInv'
<1>1. /\ Runs(t) /\ at[t] = "door" /\ at' = [at EXCEPT ![t] = "loop"]
      /\ node' = [node EXCEPT ![t] = k.prio[t]]
      /\ UNCHANGED << k, mode, alarm, ahead, owner, saved, boosted, waiters, want, holds, nests >>
  BY DEF FillNode, sysvars
<1>2. /\ k.state[t] = "Running" /\ alarm[t] = "none"
      /\ \A n \in Mutexes : t \notin ToSet(waiters[n]) /\ ~Contains(waiters[n], t)
      /\ IsKernel(k)
  BY <1>1, RunnerFacts
<1>3. /\ at \in [Tasks -> {"out", "door", "loop"}] /\ node \in [Tasks -> Levels]
      /\ k.prio[t] \in Levels
  BY <1>2 DEF IInv, TypeOK, IsKernel
<1>4. TypeOK' /\ SystemSound(Tasks)'
  BY <1>1, <1>3 DEF IInv, TypeOK, SystemSound, SystemType, RunnerIsKnown
<1>5. HolderOwns' /\ FreeIsBare'
  BY <1>1 DEF IInv, HolderOwns, FreeIsBare
<1>6. OwnerIsAwake'
  BY <1>1, <1>3 DEF IInv, OwnerIsAwake
<1>7. WaitersAreTheSleepers'
  BY <1>1, <1>2, <1>3 DEF IInv, WaitersAreTheSleepers
<1>8. OnlyNappersAreBooked'
  BY <1>1, <1>2, <1>3 DEF IInv, OnlyNappersAreBooked
<1>9. ListsAreSorted'
  <2>1. \A n \in Mutexes : \A i \in 1 .. Len(waiters[n]) :
          waiters[n][i] # t /\ waiters[n][i] \in Tasks
    BY <1>2 DEF Contains, IInv, TypeOK
  <2>2. \A n \in Mutexes : \A i \in 1 .. Len(waiters[n]) : node'[waiters[n][i]] = node[waiters[n][i]]
    BY <1>1, <1>3, <2>1
  <2> QED BY <1>1, <2>2 DEF IInv, ListsAreSorted, InOrderOf, LinkedOnce
<1> QED BY <1>4, <1>5, <1>6, <1>7, <1>8, <1>9 DEF IInv

\* A nap touches no lock.
LEMMA NapKeepsIInv ==
  ASSUME IInv, NEW t \in Tasks, Nap(t)
  PROVE  IInv' /\ Strict(Tasks)' /\ k'.prio = k.prio
<1>1. /\ Runs(t) /\ at[t] = "out" /\ k' = block(k, t) /\ mode' = mode
      /\ alarm' = [alarm EXCEPT ![t] = "live"] /\ ahead' = [ahead EXCEPT ![t] = TRUE]
      /\ UNCHANGED << owner, saved, boosted, waiters, at, want, node, holds, nests >>
  BY DEF Nap, sleep_for, mtxvars
<1>2. /\ alarm \in [Tasks -> {"none", "live", "stale"}] /\ ahead \in [Tasks -> BOOLEAN]
      /\ SystemSound(Tasks)
  BY DEF IInv, SystemSound, SystemType
<1>3. /\ SystemSound(Tasks)' /\ Strict(Tasks)' /\ k'.prio = k.prio
      /\ k'.state[t] = "Blocked"
      /\ \A u \in Threads \ {t} : k'.state[u] = k.state[u]
  <2>1. /\ alarm' \in [Tasks -> {"none", "live", "stale"}] /\ ahead' \in [Tasks -> BOOLEAN]
        /\ \A u \in Tasks \ {t} : alarm'[u] = alarm[u]
    BY <1>1, <1>2
  <2> QED BY <1>1, <1>2, <2>1, BlockIsSound
<1>4. \A n \in Mutexes : t \notin ToSet(waiters[n])
  BY <1>1, RunnerFacts
<1>5. TypeOK'
  BY <1>1, <1>3 DEF IInv, TypeOK, SystemSound
<1>6. HolderOwns' /\ FreeIsBare' /\ ListsAreSorted'
  BY <1>1 DEF IInv, HolderOwns, FreeIsBare, ListsAreSorted
<1>7. OwnerIsAwake'
  BY <1>1, <1>3 DEF IInv, OwnerIsAwake, Threads
<1>8. WaitersAreTheSleepers'
  BY <1>1, <1>3, <1>4 DEF IInv, WaitersAreTheSleepers, Threads
<1>9. OnlyNappersAreBooked'
  BY <1>1, <1>2, <1>3 DEF IInv, OnlyNappersAreBooked, Threads
<1> QED BY <1>3, <1>5, <1>6, <1>7, <1>8, <1>9 DEF IInv

-----------------------------------------------------------------------------
(* lock.                                                                   *)

\* A turn that gets the mutex.
LockTakes(t) ==
  /\ Runs(t) /\ at[t] = "loop" /\ owner[want[t]] \in {t, None}
  /\ take(t, want[t])
  /\ UNCHANGED << k, mode, alarm, ahead, saved, boosted, want, node, nests >>

\* A turn that goes to sleep.
LockWaits(t) ==
  /\ Runs(t) /\ at[t] = "loop" /\ owner[want[t]] \notin {t, None}
  /\ waiters' = [waiters EXCEPT ![want[t]] = Inserted(@, t, LessUrgent(t))]
  /\ inherit(t, want[t])
  /\ UNCHANGED << mode, alarm, ahead, owner, at, holds, want, node, nests >>

\* The section of lock does one or the other.
LEMMA LockTakesOrWaits == \A t \in Tasks : lock(t) => LockTakes(t) \/ LockWaits(t)
BY DEF lock, LockTakes, LockWaits, sysvars

\* The node that lock() removes on its way out was unlinked by the hand-over.
LEMMA LockTakesLeavesLists ==
  ASSUME IInv, NEW t \in Tasks, LockTakes(t)
  PROVE  waiters' = waiters
<1> DEFINE m == want[t]
<1>1. m \in Mutexes /\ waiters \in [Mutexes -> Seq(Tasks)]
  BY DEF IInv, TypeOK
<1>2. ~Contains(waiters[m], t)
  BY <1>1, RunnerFacts DEF LockTakes
<1>3. remove(waiters[m], t) = waiters[m]
  BY <1>1, <1>2, RemoveRemoves
<1>4. waiters' = [waiters EXCEPT ![m] = remove(waiters[m], t)]
  BY DEF LockTakes, take
<1> HIDE DEF m
<1> QED BY <1>1, <1>3, <1>4

\* A free lock gets its one owner.
LEMMA LockTakesKeepsIInv ==
  ASSUME IInv, NEW t \in Tasks, LockTakes(t)
  PROVE  IInv'
<1> DEFINE m == want[t]
<1>1. /\ Runs(t) /\ at[t] = "loop" /\ owner[m] \in {t, None} /\ waiters' = waiters
      /\ owner' = [owner EXCEPT ![m] = t] /\ at' = [at EXCEPT ![t] = "out"]
      /\ holds' = [holds EXCEPT ![t] = @ \cup {m}]
      /\ UNCHANGED << k, mode, alarm, ahead, saved, boosted, want, node, nests >>
  BY LockTakesLeavesLists DEF LockTakes, take
<1>2. k.state[t] = "Running" /\ alarm[t] = "none" /\ \A n \in Mutexes : t \notin ToSet(waiters[n])
  BY <1>1, RunnerFacts
<1>3. /\ m \in Mutexes /\ owner \in [Mutexes -> Tasks \cup {None}]
      /\ at \in [Tasks -> {"out", "door", "loop"}] /\ holds \in [Tasks -> SUBSET Mutexes]
  BY DEF IInv, TypeOK
<1> HIDE DEF m
<1>4. TypeOK' /\ SystemSound(Tasks)'
  BY <1>1, <1>3 DEF IInv, TypeOK, SystemSound, SystemType, RunnerIsKnown
<1>5. HolderOwns'
  BY <1>1, <1>3, TasksAssumption DEF IInv, HolderOwns
<1>6. OwnerIsAwake'
  <2> SUFFICES ASSUME NEW n \in Mutexes, NEW u \in Tasks, owner'[n] = u
               PROVE  n \in holds'[u] \/ (at'[u] = "loop" /\ want'[u] = n /\ k'.state[u] # "Blocked")
    BY DEF OwnerIsAwake
  <2>1. CASE n = m
    BY <1>1, <1>3, <2>1
  <2>2. CASE n # m
    <3>1. owner[n] = u
      BY <1>1, <1>3, <2>2
    <3>2. n \in holds[u] \/ (at[u] = "loop" /\ want[u] = n /\ k.state[u] # "Blocked")
      BY <3>1 DEF IInv, OwnerIsAwake
    <3>3. want[t] = m
      BY DEF m
    <3> QED BY <1>1, <1>3, <2>2, <3>2, <3>3
  <2> QED BY <2>1, <2>2
<1>7. FreeIsBare'
  BY <1>1, <1>3, TasksAssumption DEF IInv, FreeIsBare
<1>8. ListsAreSorted'
  BY <1>1 DEF IInv, ListsAreSorted
<1>9. WaitersAreTheSleepers'
  BY <1>1, <1>2, <1>3 DEF IInv, WaitersAreTheSleepers
<1>10. OnlyNappersAreBooked'
  BY <1>1, <1>2, <1>3 DEF IInv, OnlyNappersAreBooked
<1> QED BY <1>4, <1>5, <1>6, <1>7, <1>8, <1>9, <1>10 DEF IInv

\* The kernel after a turn that goes to sleep: the owner is at least as urgent
\* as the sleeper, everybody else as before.
LEMMA InheritFacts ==
  ASSUME IInv, NEW t \in Tasks, LockWaits(t), NEW m, m = want[t]
  PROVE  /\ m \in Mutexes /\ owner[m] \in Tasks \ {t}
         /\ IsKernel(k') /\ HonestRings(k', Tasks) /\ k'.current = k.current /\ k'.pend
         /\ k'.state = [k.state EXCEPT ![t] = "Blocked"]
         /\ \A u \in Threads \ {owner[m]} : k'.prio[u] = k.prio[u]
         /\ \/ /\ k.prio[owner[m]] > k.prio[t] /\ k'.prio[owner[m]] = k.prio[t]
               /\ saved' = [saved EXCEPT ![m] = IF boosted[m] THEN saved[m] ELSE k.prio[owner[m]]]
               /\ boosted' = [boosted EXCEPT ![m] = TRUE]
            \/ /\ ~(k.prio[owner[m]] > k.prio[t]) /\ k'.prio[owner[m]] = k.prio[owner[m]]
               /\ saved' = saved /\ boosted' = boosted
<1> DEFINE o == owner[m]
<1>1. m \in Mutexes /\ o \in Tasks \ {t}
  BY DEF IInv, TypeOK, LockWaits
<1>2. /\ k.current = t /\ k.state[t] = "Running"
      /\ IsKernel(k) /\ HonestRings(k, Tasks)
  BY RunnerFacts DEF LockWaits
<1>3. inherit(t, m)
  BY DEF LockWaits
<1>4. k.prio[t] \in Levels
  BY <1>2 DEF IsKernel
<1>5. CASE k.prio[o] > k.prio[t]
  <2> DEFINE q == reprioritize(k, o, k.prio[t])
  <2>1. /\ IsKernel(q) /\ HonestRings(q, Tasks) /\ q.prio[o] = k.prio[t]
        /\ \A u \in Threads \ {o} : q.prio[u] = k.prio[u]
        /\ q.state = k.state /\ q.current = k.current
    BY <1>1, <1>2, <1>4, ReprioritizeOp
  <2>2. /\ saved' = [saved EXCEPT ![m] = IF boosted[m] THEN saved[m] ELSE k.prio[o]]
        /\ boosted' = [boosted EXCEPT ![m] = TRUE]
        /\ k' = block(q, t)
    BY <1>3, <1>5 DEF inherit
  <2> HIDE DEF q
  <2>3. q.current \in Tasks /\ q.state[q.current] = "Running" /\ q.current = t
    BY <1>2, <2>1
  <2>4. /\ IsKernel(block(q, t)) /\ HonestRings(block(q, t), Tasks)
        /\ Untouched(block(q, t), q)
        /\ block(q, t).state = [q.state EXCEPT ![t] = "Blocked"]
        /\ block(q, t).pend
    BY <2>1, <2>3, BlockOp
  <2> QED BY <1>1, <1>5, <2>1, <2>2, <2>4 DEF Untouched
<1>6. CASE ~(k.prio[o] > k.prio[t])
  <2>1. k' = block(k, t) /\ saved' = saved /\ boosted' = boosted
    BY <1>3, <1>6 DEF inherit
  <2>2. /\ IsKernel(k') /\ HonestRings(k', Tasks) /\ Untouched(k', k)
        /\ k'.state = [k.state EXCEPT ![t] = "Blocked"] /\ k'.pend
    BY <1>2, <2>1, BlockOp
  <2> QED BY <1>1, <1>6, <2>1, <2>2 DEF Untouched
<1> QED BY <1>5, <1>6

\* The list after it: one node more, behind those at least as urgent.
LEMMA LinkFacts ==
  ASSUME IInv, NEW t \in Tasks, LockWaits(t), NEW m, m = want[t]
  PROVE  /\ m \in Mutexes /\ waiters' = [waiters EXCEPT ![m] = Inserted(waiters[m], t, LessUrgent(t))]
         /\ waiters'[m] \in Seq(Tasks)
         /\ LinkedOnce(waiters'[m]) /\ InOrderOf(waiters'[m], node)
         /\ \E p \in 1 .. Len(waiters[m]) + 1 :
              /\ InsertedAt(waiters'[m], waiters[m], p, t)
              /\ \A i \in 1 .. p - 1 : node[waiters[m][i]] <= node[t]
              /\ \A i \in p .. Len(waiters[m]) : node[t] < node[waiters[m][i]]
         /\ \A x : Contains(waiters'[m], x) <=> x = t \/ Contains(waiters[m], x)
<1> DEFINE s == waiters[m]
           r == Inserted(s, t, LessUrgent(t))
           p == Slot(s, LessUrgent(t))
<1>1. /\ m \in Mutexes /\ waiters \in [Mutexes -> Seq(Tasks)] /\ node \in [Tasks -> Levels]
      /\ s \in Seq(Tasks) /\ LinkedOnce(s) /\ InOrderOf(s, node)
  BY DEF IInv, TypeOK, ListsAreSorted
<1>2. waiters' = [waiters EXCEPT ![m] = r]
  BY DEF LockWaits
<1>3. waiters'[m] = r
  BY <1>1, <1>2
<1>4. /\ p \in 1 .. Len(s) + 1
      /\ p <= Len(s) => s[p] \in LessUrgent(t)
      /\ \A j \in 1 .. p - 1 : s[j] \notin LessUrgent(t)
  BY <1>1, SlotStops
<1>5. r = InsertAt(s, p, t)
  BY DEF Inserted
<1>6. ~Contains(s, t)
  BY <1>1, RunnerFacts DEF LockWaits
<1>7. /\ Len(s) \in Nat /\ \A i \in 1 .. Len(s) : s[i] \in Tasks /\ node[s[i]] \in Int
      /\ node[t] \in Int
  BY <1>1, LevelsAssumption DEF Levels
<1> HIDE DEF s, p, r
<1>8. r \in Seq(Tasks) /\ InsertedAt(r, s, p, t)
  BY <1>1, <1>4, <1>5, InsertAtInserts
<1>9. \A i \in 1 .. p - 1 : node[s[i]] <= node[t]
  <2> SUFFICES ASSUME NEW i \in 1 .. p - 1 PROVE node[s[i]] <= node[t]
    OBVIOUS
  <2>1. i \in 1 .. Len(s)
    BY <1>4, <1>7
  <2>2. s[i] \notin LessUrgent(t)
    BY <1>4
  <2> QED BY <1>7, <2>1, <2>2 DEF LessUrgent
<1>10. \A i \in p .. Len(s) : node[t] < node[s[i]]
  <2> SUFFICES ASSUME NEW i \in p .. Len(s) PROVE node[t] < node[s[i]]
    OBVIOUS
  <2>1. p \in 1 .. Len(s) /\ i \in 1 .. Len(s) /\ p <= i
    BY <1>4, <1>7
  <2>2. node[t] < node[s[p]]
    BY <1>4, <2>1 DEF LessUrgent
  <2>3. node[s[p]] <= node[s[i]]
    BY <1>1, <2>1 DEF InOrderOf
  <2> QED BY <1>7, <2>1, <2>2, <2>3
<1>11. LinkedOnce(r)
  BY <1>1, <1>6, <1>8, InsertedLinkedOnce
<1>12. p <= Len(s) => node[t] <= node[s[p]]
  <2> SUFFICES ASSUME p <= Len(s) PROVE node[t] <= node[s[p]]
    OBVIOUS
  <2>1. p \in p .. Len(s) /\ p \in 1 .. Len(s)
    BY <1>4, <1>7
  <2> QED BY <1>7, <1>10, <2>1
<1>13. InOrderOf(r, node)
  BY <1>1, <1>7, <1>8, <1>9, <1>12, InsertedInOrder
<1>14. \A x : Contains(r, x) <=> x = t \/ Contains(s, x)
  BY <1>8, InsertedContains
<1> QED BY <1>1, <1>2, <1>3, <1>4, <1>8, <1>9, <1>10, <1>11, <1>13, <1>14 DEF s, r

\* A waiter is linked, put to sleep, and lends its level.
LEMMA LockWaitsKeepsIInv ==
  ASSUME IInv, NEW t \in Tasks, LockWaits(t)
  PROVE  IInv' /\ Strict(Tasks)'
<1> DEFINE m == want[t]
<1>1. /\ Runs(t) /\ at[t] = "loop" /\ owner[m] \notin {t, None}
      /\ UNCHANGED << mode, alarm, ahead, owner, at, holds, want, node, nests >>
  BY DEF LockWaits
<1>2. /\ m \in Mutexes /\ owner[m] \in Tasks \ {t}
      /\ IsKernel(k') /\ HonestRings(k', Tasks) /\ k'.current = k.current /\ k'.pend
      /\ k'.state = [k.state EXCEPT ![t] = "Blocked"]
  BY InheritFacts
<1>3. \/ /\ saved' = [saved EXCEPT ![m] = IF boosted[m] THEN saved[m] ELSE k.prio[owner[m]]]
         /\ boosted' = [boosted EXCEPT ![m] = TRUE]
      \/ saved' = saved /\ boosted' = boosted
  BY InheritFacts
<1>4. /\ waiters' = [waiters EXCEPT ![m] = Inserted(waiters[m], t, LessUrgent(t))]
      /\ waiters'[m] \in Seq(Tasks)
      /\ LinkedOnce(waiters'[m]) /\ InOrderOf(waiters'[m], node)
      /\ \A x : Contains(waiters'[m], x) <=> x = t \/ Contains(waiters[m], x)
  BY LinkFacts
<1>5. /\ SystemSound(Tasks) /\ alarm \in [Tasks -> {"none", "live", "stale"}]
      /\ ahead \in [Tasks -> BOOLEAN]
  BY DEF IInv, SystemSound, SystemType
<1>6. /\ SystemSound(Tasks)' /\ Strict(Tasks)'
      /\ k'.state[t] = "Blocked" /\ \A u \in Threads \ {t} : k'.state[u] = k.state[u]
  BY <1>1, <1>2, <1>5, AsleepIsSound
<1>7. /\ owner \in [Mutexes -> Tasks \cup {None}] /\ saved \in [Mutexes -> Levels]
      /\ boosted \in [Mutexes -> BOOLEAN] /\ waiters \in [Mutexes -> Seq(Tasks)]
      /\ k.prio[owner[m]] \in Levels /\ saved[m] \in Levels
  BY <1>2, RunnerFacts, <1>1 DEF IInv, TypeOK, IsKernel
<1> HIDE DEF m
<1>8. \A n \in Mutexes : n # m => waiters'[n] = waiters[n]
  BY <1>4, <1>7
<1>9. TypeOK'
  <2>1. saved' \in [Mutexes -> Levels]
    BY <1>2, <1>3, <1>7
  <2>2. boosted' \in [Mutexes -> BOOLEAN]
    BY <1>2, <1>3, <1>7
  <2>3. waiters' \in [Mutexes -> Seq(Tasks)]
    <3>1. DOMAIN waiters' = Mutexes /\ waiters' = [n \in Mutexes |-> waiters'[n]]
      BY <1>4, <1>7
    <3>2. \A n \in Mutexes : waiters'[n] \in Seq(Tasks)
      BY <1>4, <1>7, <1>8
    <3> QED BY <3>1, <3>2
  <2> QED BY <1>1, <1>6, <2>1, <2>2, <2>3 DEF IInv, TypeOK, SystemSound
<1>10. HolderOwns'
  BY <1>1 DEF IInv, HolderOwns
<1>11. FreeIsBare'
  <2>1. \A n \in Mutexes : owner[n] = None => n # m
    BY <1>2, TasksAssumption
  <2> QED BY <1>1, <1>2, <1>3, <1>7, <1>8, <2>1 DEF IInv, FreeIsBare
<1>12. ListsAreSorted'
  BY <1>1, <1>4, <1>8 DEF IInv, ListsAreSorted
<1>13. OwnerIsAwake'
  <2> SUFFICES ASSUME NEW n \in Mutexes, NEW u \in Tasks, owner[n] = u
               PROVE  n \in holds[u] \/ (at[u] = "loop" /\ want[u] = n /\ k'.state[u] # "Blocked")
    BY <1>1 DEF OwnerIsAwake
  <2>1. n \in holds[u] \/ (at[u] = "loop" /\ want[u] = n /\ k.state[u] # "Blocked")
    BY DEF IInv, OwnerIsAwake
  <2>2. u = t /\ want[u] = n => FALSE
    BY <1>1, <1>2 DEF m
  <2> QED BY <1>6, <2>1, <2>2 DEF Threads
<1>14. WaitersAreTheSleepers'
  <2>1. \A n \in Mutexes : waiters[n] \in Seq(Tasks) /\ waiters'[n] \in Seq(Tasks)
    BY <1>4, <1>7, <1>8
  <2>2. \A n \in Mutexes, u \in Tasks :
          Contains(waiters'[n], u) <=> Contains(waiters[n], u) \/ (n = m /\ u = t)
    BY <1>4, <1>8
  <2>3. \A n \in Mutexes, u \in Tasks :
          Contains(waiters[n], u) <=> at[u] = "loop" /\ want[u] = n /\ k.state[u] = "Blocked"
    BY <2>1, ListedIsContained DEF IInv, WaitersAreTheSleepers
  <2>4. want[t] = m /\ \A u \in Tasks : k'.state[u] = "Blocked" <=> u = t \/ k.state[u] = "Blocked"
    BY <1>6 DEF m, Threads
  <2>5. \A n \in Mutexes, u \in Tasks :
          Contains(waiters'[n], u) <=> at[u] = "loop" /\ want[u] = n /\ k'.state[u] = "Blocked"
    BY <1>1, <2>2, <2>3, <2>4
  <2> QED BY <1>1, <2>1, <2>5, ListedIsContained DEF WaitersAreTheSleepers
<1>15. OnlyNappersAreBooked'
  BY <1>1, <1>6 DEF IInv, OnlyNappersAreBooked, Threads
<1> QED BY <1>6, <1>9, <1>10, <1>11, <1>12, <1>13, <1>14, <1>15 DEF IInv

-----------------------------------------------------------------------------
(* unlock.                                                                 *)

\* The kernel once the caller's own level is back.
LEMMA RestoreFacts ==
  ASSUME IInv, NEW t \in Tasks, Runs(t), NEW m \in Mutexes, NEW q, q = restore(t, m)
  PROVE  /\ IsKernel(q) /\ HonestRings(q, Tasks)
         /\ q.state = k.state /\ q.current = k.current /\ q.pend = k.pend
         /\ \A u \in Threads \ {t} : q.prio[u] = k.prio[u]
         /\ q.prio[t] = IF boosted[m] THEN saved[m] ELSE k.prio[t]
<1>1. IsKernel(k) /\ HonestRings(k, Tasks)
  BY RunnerFacts
<1>2. saved[m] \in Levels
  BY DEF IInv, TypeOK
<1>3. CASE boosted[m]
  <2>1. q = reprioritize(k, t, saved[m])
    BY <1>3 DEF restore
  <2> QED BY <1>1, <1>2, <1>3, <2>1, ReprioritizeOp
<1>4. CASE ~boosted[m]
  BY <1>1, <1>4 DEF restore
<1> QED BY <1>3, <1>4

\* The first waiter, what is left of the list, the next one, and whether it
\* lends the first one its level.
HeadOf(m) == Head(waiters[m])
RestOf(m) == Tail(waiters[m])
NextOf(m) == Head(RestOf(m))
Lends(m) == RestOf(m) # << >> /\ node[NextOf(m)] < k.prio[HeadOf(m)]

\* The first waiter and the rest.
LEMMA HeadFacts ==
  ASSUME IInv, NEW m \in Mutexes, waiters[m] # << >>
  PROVE  /\ HeadOf(m) \in Tasks /\ HeadOf(m) = waiters[m][1] /\ RestOf(m) \in Seq(Tasks)
         /\ InsertedAt(waiters[m], RestOf(m), 1, HeadOf(m))
         /\ LinkedOnce(RestOf(m)) /\ InOrderOf(RestOf(m), node) /\ ~Contains(RestOf(m), HeadOf(m))
         /\ \A x : Contains(waiters[m], x) <=> x = HeadOf(m) \/ Contains(RestOf(m), x)
         /\ at[HeadOf(m)] = "loop" /\ want[HeadOf(m)] = m /\ k.state[HeadOf(m)] = "Blocked"
         /\ \A i \in 1 .. Len(waiters[m]) : node[HeadOf(m)] <= node[waiters[m][i]]
         /\ RestOf(m) # << >> => NextOf(m) = RestOf(m)[1] /\ NextOf(m) \in Tasks
         /\ RestOf(m) # << >> => \A i \in 1 .. Len(RestOf(m)) : node[NextOf(m)] <= node[RestOf(m)[i]]
         /\ \A i \in 1 .. Len(RestOf(m)) : node[HeadOf(m)] <= node[RestOf(m)[i]] /\ RestOf(m)[i] = waiters[m][i + 1]
<1> DEFINE s == waiters[m]
           one == 1
           head == HeadOf(m)
           rest == RestOf(m)
           next == NextOf(m)
<1>1. /\ s \in Seq(Tasks) /\ node \in [Tasks -> Levels] /\ LinkedOnce(s) /\ InOrderOf(s, node)
  BY DEF IInv, TypeOK, ListsAreSorted
<1>2. /\ rest \in Seq(Tasks) /\ head = s[1] /\ head \in Tasks /\ InsertedAt(s, rest, one, head)
  BY <1>1, TailRemoves DEF HeadOf, RestOf
<1>3. /\ \A i \in 1 .. Len(rest) : node[rest[i]] \in Int
      /\ node[head] \in Int
  BY <1>1, <1>2, LevelsAssumption DEF Levels
<1> HIDE DEF s, one, head, rest, next
<1>4. LinkedOnce(rest) /\ ~Contains(rest, head)
  BY <1>1, <1>2, InsertedLinkedOnce
<1>5. \A x : Contains(s, x) <=> x = head \/ Contains(rest, x)
  BY <1>2, InsertedContains
<1>6. InOrderOf(rest, node)
  BY <1>1, <1>2, <1>3, InsertedInOrder
<1>7. at[head] = "loop" /\ want[head] = m /\ k.state[head] = "Blocked"
  <2>1. head \in ToSet(s)
    BY <1>1, <1>2, <1>5, ListedIsContained
  <2> QED BY <1>2, <2>1 DEF IInv, WaitersAreTheSleepers, s
<1>8. Len(s) \in Nat /\ 1 \in 1 .. Len(s) /\ s # << >> /\ Len(s) = Len(rest) + 1
  BY <1>1, <1>2 DEF s, InsertedAt
<1>9. \A i \in 1 .. Len(s) : node[head] <= node[s[i]]
  BY <1>1, <1>2, <1>8 DEF InOrderOf
<1>10. rest # << >> => next = rest[1] /\ next \in Tasks
  <2>1. next = Head(rest)
    BY DEF next, NextOf, rest
  <2> QED BY <1>2, <2>1
<1>11. rest # << >> => \A i \in 1 .. Len(rest) : node[next] <= node[rest[i]]
  <2> SUFFICES ASSUME rest # << >>, NEW i \in 1 .. Len(rest)
               PROVE  node[rest[1]] <= node[rest[i]]
    BY <1>10
  <2>1. 1 \in 1 .. Len(rest) /\ 1 <= i
    BY <1>2
  <2> QED BY <1>6, <2>1 DEF InOrderOf
<1>12. \A i \in 1 .. Len(rest) : rest[i] = s[i + 1]
  <2> SUFFICES ASSUME NEW i \in 1 .. Len(rest) PROVE rest[i] = s[i + 1]
    OBVIOUS
  <2>1. i + 1 \in 1 .. Len(rest) + 1 /\ ~(i + 1 < 1) /\ i + 1 # 1 /\ (i + 1) - 1 = i
    BY <1>8
  <2> QED BY <1>2, <2>1 DEF InsertedAt, one
<1>13. \A i \in 1 .. Len(rest) : node[head] <= node[rest[i]]
  BY <1>8, <1>9, <1>12
<1> QED BY <1>2, <1>4, <1>5, <1>6, <1>7, <1>9, <1>10, <1>11, <1>12, <1>13 DEF s, one, head, rest, next

\* The kernel after a hand-over.
LEMMA HandOverFacts ==
  ASSUME IInv, NEW t \in Tasks, Runs(t), NEW m \in Mutexes, waiters[m] # << >>,
         hand_over(restore(t, m), m)
  PROVE  /\ HeadOf(m) \in Tasks \ {t} /\ Lends(m) \in BOOLEAN
         /\ IsKernel(k') /\ HonestRings(k', Tasks) /\ k'.current = k.current
         /\ k.pend => k'.pend
         /\ k'.state[HeadOf(m)] # "Blocked"
         /\ k'.state[HeadOf(m)] = k.state[HeadOf(m)] \/ (k.state[HeadOf(m)] = "Blocked" /\ k'.state[HeadOf(m)] = "Ready")
         /\ \A u \in Threads \ {HeadOf(m)} : k'.state[u] = k.state[u]
         /\ \A u \in Threads \ {t, HeadOf(m)} : k'.prio[u] = k.prio[u]
         /\ k'.prio[t] = IF boosted[m] THEN saved[m] ELSE k.prio[t]
         /\ k'.prio[HeadOf(m)] = IF Lends(m) THEN node[NextOf(m)] ELSE k.prio[HeadOf(m)]
         /\ k'.prio[HeadOf(m)] < k'.prio[t] => k'.pend
         /\ waiters' = [waiters EXCEPT ![m] = RestOf(m)]
         /\ owner' = [owner EXCEPT ![m] = HeadOf(m)]
         /\ saved' = [saved EXCEPT ![m] = IF Lends(m) THEN k.prio[HeadOf(m)] ELSE saved[m]]
         /\ boosted' = [boosted EXCEPT ![m] = Lends(m)]
<1> DEFINE q == restore(t, m)
           head == HeadOf(m)
           rest == RestOf(m)
           next == NextOf(m)
           lend == Lends(m)
           r == IF lend THEN reprioritize(q, head, node[next]) ELSE q
<1>1. /\ IsKernel(q) /\ HonestRings(q, Tasks)
      /\ q.state = k.state /\ q.current = k.current /\ q.pend = k.pend
      /\ \A u \in Threads \ {t} : q.prio[u] = k.prio[u]
      /\ q.prio[t] = IF boosted[m] THEN saved[m] ELSE k.prio[t]
  BY RestoreFacts
<1>2. k.current = t /\ k.state[t] = "Running"
  BY RunnerFacts
<1>3. /\ head \in Tasks /\ k.state[head] = "Blocked" /\ head # t
      /\ rest # << >> => next \in Tasks
  BY <1>2, HeadFacts
<1>4. q.prio[head] = k.prio[head]
  BY <1>1, <1>3 DEF Threads
<1>5. hand_over(q, m)
  OBVIOUS
<1>0. /\ head = Head(waiters[m]) /\ rest = Tail(waiters[m]) /\ next = Head(rest)
      /\ lend = (rest # << >> /\ node[next] < k.prio[head])
  BY DEF HeadOf, RestOf, NextOf, Lends
<1> HIDE DEF q, head, rest, next, lend
<1>6. lend = (rest # << >> /\ node[next] < q.prio[head]) /\ lend \in BOOLEAN
  BY <1>0, <1>4
<1>7. /\ waiters' = [waiters EXCEPT ![m] = rest]
      /\ owner' = [owner EXCEPT ![m] = head]
      /\ saved' = [saved EXCEPT ![m] = IF lend THEN k.prio[head] ELSE saved[m]]
      /\ boosted' = [boosted EXCEPT ![m] = lend]
      /\ k' = ready(r, head)
  BY <1>0, <1>4, <1>5, <1>6 DEF hand_over
<1>8. /\ IsKernel(r) /\ HonestRings(r, Tasks)
      /\ r.state = q.state /\ r.current = q.current /\ r.pend = q.pend
      /\ \A u \in Threads \ {head} : r.prio[u] = q.prio[u]
      /\ r.prio[head] = IF lend THEN node[next] ELSE q.prio[head]
  <2>1. CASE lend
    <3>1. node[next] \in Levels
      BY <1>3, <1>6, <2>1 DEF IInv, TypeOK
    <3>2. r = reprioritize(q, head, node[next])
      BY <2>1
    <3> HIDE DEF r
    <3> QED BY <1>1, <1>3, <2>1, <3>1, <3>2, ReprioritizeOp
  <2>2. CASE ~lend
    BY <1>1, <2>2
  <2> QED BY <2>1, <2>2
<1> HIDE DEF r
<1>9. /\ Wakes(k', r, Tasks)
      /\ k'.state[head] # "Blocked"
      /\ \A u \in Threads \ {head} : k'.state[u] = r.state[u]
  BY <1>3, <1>7, <1>8, ReadyWakes
<1>10. /\ IsKernel(k') /\ HonestRings(k', Tasks) /\ Untouched(k', r)
       /\ r.pend => k'.pend
  BY <1>9 DEF Wakes
<1>11. k'.state[head] = "Ready"
  BY <1>1, <1>3, <1>8, <1>9 DEF Wakes, Threads
<1>12. k'.prio[head] < k'.prio[t] => k'.pend
  <2>1. k'.state[head] # r.state[head] /\ r.current = t /\ t # None
    BY <1>1, <1>2, <1>3, <1>8, <1>11, TasksAssumption
  <2>2. r.prio[head] < r.prio[t] => k'.pend
    BY <1>3, <1>9, <2>1 DEF Wakes
  <2> QED BY <1>10, <2>2 DEF Untouched
<1>13. t \in Threads \ {head} /\ Tasks \subseteq Threads
  BY <1>3 DEF Threads
<1>14. k'.prio = r.prio /\ k'.current = r.current
  BY <1>10 DEF Untouched
<1>15. /\ \A u \in Threads \ {t, head} : k'.prio[u] = k.prio[u]
       /\ k'.prio[t] = IF boosted[m] THEN saved[m] ELSE k.prio[t]
       /\ k'.prio[head] = IF lend THEN node[next] ELSE k.prio[head]
  BY <1>1, <1>4, <1>8, <1>13, <1>14
<1>16. \A u \in Threads \ {head} : k'.state[u] = k.state[u]
  BY <1>1, <1>8, <1>9
<1>17. k'.current = k.current /\ (k.pend => k'.pend)
  BY <1>1, <1>8, <1>10, <1>14
<1> QED BY <1>3, <1>6, <1>7, <1>9, <1>10, <1>11, <1>12, <1>15, <1>16, <1>17 DEF head, rest, next, lend

\* An unlock that hands the mutex over, and one that frees it.
UnlockHands(t, m) ==
  /\ Runs(t) /\ at[t] = "out" /\ owner[m] = t /\ waiters[m] # << >>
  /\ hand_over(restore(t, m), m)
  /\ holds' = [holds EXCEPT ![t] = @ \ {m}]
  /\ UNCHANGED << mode, alarm, ahead, at, want, node, nests >>

UnlockFrees(t, m) ==
  /\ Runs(t) /\ at[t] = "out" /\ owner[m] = t /\ waiters[m] = << >>
  /\ k' = restore(t, m)
  /\ boosted' = [boosted EXCEPT ![m] = FALSE]
  /\ owner' = [owner EXCEPT ![m] = None]
  /\ holds' = [holds EXCEPT ![t] = @ \ {m}]
  /\ UNCHANGED << saved, waiters, mode, alarm, ahead, at, want, node, nests >>

\* The section of unlock does one or the other.
LEMMA UnlockHandsOrFrees ==
  \A t \in Tasks, m \in Mutexes : unlock(t, m) => UnlockHands(t, m) \/ UnlockFrees(t, m)
BY DEF unlock, MayUnlock, UnlockHands, UnlockFrees

\* Without waiters the lock is free.
LEMMA UnlockFreesKeepsIInv ==
  ASSUME IInv, NEW t \in Tasks, NEW m \in Mutexes, UnlockFrees(t, m)
  PROVE  IInv'
<1>1. /\ Runs(t) /\ at[t] = "out" /\ owner[m] = t /\ waiters[m] = << >>
      /\ boosted' = [boosted EXCEPT ![m] = FALSE]
      /\ owner' = [owner EXCEPT ![m] = None]
      /\ holds' = [holds EXCEPT ![t] = @ \ {m}]
      /\ UNCHANGED << saved, waiters, mode, alarm, ahead, at, want, node, nests >>
  BY DEF UnlockFrees
<1>2. /\ IsKernel(k') /\ HonestRings(k', Tasks)
      /\ k'.state = k.state /\ k'.current = k.current /\ k'.pend = k.pend
  BY <1>1, RestoreFacts DEF UnlockFrees
<1>3. SystemSound(Tasks)'
  BY <1>1, <1>2, AwakeIsSound DEF IInv
<1>4. /\ owner \in [Mutexes -> Tasks \cup {None}] /\ boosted \in [Mutexes -> BOOLEAN]
      /\ holds \in [Tasks -> SUBSET Mutexes]
  BY DEF IInv, TypeOK
<1>5. TypeOK'
  BY <1>1, <1>3, <1>4 DEF IInv, TypeOK, SystemSound
<1>6. HolderOwns'
  BY <1>1, <1>4 DEF IInv, HolderOwns
<1>7. OwnerIsAwake'
  BY <1>1, <1>2, <1>4, TasksAssumption DEF IInv, OwnerIsAwake
<1>8. FreeIsBare'
  BY <1>1, <1>4 DEF IInv, FreeIsBare
<1>9. ListsAreSorted' /\ WaitersAreTheSleepers' /\ OnlyNappersAreBooked'
  BY <1>1, <1>2 DEF IInv, ListsAreSorted, WaitersAreTheSleepers, OnlyNappersAreBooked
<1> QED BY <1>3, <1>5, <1>6, <1>7, <1>8, <1>9 DEF IInv

\* The first waiter owns the lock and is awake.
LEMMA UnlockHandsKeepsIInv ==
  ASSUME IInv, NEW t \in Tasks, NEW m \in Mutexes, UnlockHands(t, m)
  PROVE  IInv'
<1> DEFINE head == HeadOf(m)
           rest == RestOf(m)
           lend == Lends(m)
<1>1. /\ Runs(t) /\ at[t] = "out" /\ owner[m] = t /\ waiters[m] # << >>
      /\ hand_over(restore(t, m), m)
      /\ holds' = [holds EXCEPT ![t] = @ \ {m}]
      /\ UNCHANGED << mode, alarm, ahead, at, want, node, nests >>
  BY DEF UnlockHands
<1>2. /\ head \in Tasks \ {t} /\ lend \in BOOLEAN
      /\ IsKernel(k') /\ HonestRings(k', Tasks) /\ k'.current = k.current
      /\ k.pend => k'.pend
      /\ k'.state[head] # "Blocked"
      /\ k'.state[head] = k.state[head] \/ (k.state[head] = "Blocked" /\ k'.state[head] = "Ready")
      /\ \A u \in Threads \ {head} : k'.state[u] = k.state[u]
      /\ waiters' = [waiters EXCEPT ![m] = rest]
      /\ owner' = [owner EXCEPT ![m] = head]
      /\ saved' = [saved EXCEPT ![m] = IF lend THEN k.prio[head] ELSE saved[m]]
      /\ boosted' = [boosted EXCEPT ![m] = lend]
  BY <1>1, HandOverFacts
<1>3. /\ rest \in Seq(Tasks) /\ LinkedOnce(rest) /\ InOrderOf(rest, node) /\ ~Contains(rest, head)
      /\ \A x : Contains(waiters[m], x) <=> x = head \/ Contains(rest, x)
      /\ at[head] = "loop" /\ want[head] = m /\ k.state[head] = "Blocked"
  BY <1>1, HeadFacts
<1> HIDE DEF head, rest, lend
<1>4. /\ owner \in [Mutexes -> Tasks \cup {None}] /\ boosted \in [Mutexes -> BOOLEAN]
      /\ saved \in [Mutexes -> Levels] /\ waiters \in [Mutexes -> Seq(Tasks)]
      /\ holds \in [Tasks -> SUBSET Mutexes] /\ k.prio[head] \in Levels
  BY <1>2 DEF IInv, TypeOK, SystemSound, SystemType, IsKernel
<1>5. k.current = t /\ t # None
  BY <1>1, RunnerFacts, TasksAssumption
<1>6. \A u \in Tasks : \/ k'.state[u] = k.state[u]
                       \/ k.state[u] = "Blocked" /\ k'.state[u] = "Ready"
  BY <1>2 DEF Threads
<1>7. SystemSound(Tasks)'
  BY <1>1, <1>2, <1>5, <1>6, AwakeIsSound DEF IInv
<1>8. TypeOK'
  <2>1. saved' \in [Mutexes -> Levels] /\ boosted' \in [Mutexes -> BOOLEAN]
    BY <1>2, <1>4
  <2>2. waiters' \in [Mutexes -> Seq(Tasks)]
    BY <1>2, <1>3, <1>4
  <2>3. owner' \in [Mutexes -> Tasks \cup {None}] /\ holds' \in [Tasks -> SUBSET Mutexes]
    BY <1>1, <1>2, <1>4
  <2> QED BY <1>1, <1>7, <2>1, <2>2, <2>3 DEF IInv, TypeOK, SystemSound
<1>9. HolderOwns'
  BY <1>1, <1>2, <1>4 DEF IInv, HolderOwns
<1>10. OwnerIsAwake'
  <2> SUFFICES ASSUME NEW n \in Mutexes, NEW u \in Tasks, owner'[n] = u
               PROVE  n \in holds'[u] \/ (at[u] = "loop" /\ want[u] = n /\ k'.state[u] # "Blocked")
    BY <1>1 DEF OwnerIsAwake
  <2>1. CASE n = m
    BY <1>2, <1>3, <1>4, <2>1
  <2>2. CASE n # m
    <3>1. owner[n] = u
      BY <1>2, <1>4, <2>2
    <3>2. n \in holds[u] \/ (at[u] = "loop" /\ want[u] = n /\ k.state[u] # "Blocked")
      BY <3>1 DEF IInv, OwnerIsAwake
    <3>3. n \in holds[u] => n \in holds'[u]
      BY <1>1, <1>4, <2>2
    <3>4. k.state[u] # "Blocked" => k'.state[u] # "Blocked"
      BY <1>6
    <3> QED BY <3>2, <3>3, <3>4
  <2> QED BY <2>1, <2>2
<1>11. FreeIsBare'
  BY <1>2, <1>4, TasksAssumption DEF IInv, FreeIsBare
<1>12. ListsAreSorted'
  BY <1>1, <1>2, <1>3, <1>4 DEF IInv, ListsAreSorted
<1>13. WaitersAreTheSleepers'
  <2>1. /\ \A n \in Mutexes : waiters[n] \in Seq(Tasks) /\ waiters'[n] \in Seq(Tasks)
        /\ waiters'[m] = rest
        /\ \A n \in Mutexes : n # m => waiters'[n] = waiters[n]
    BY <1>2, <1>3, <1>4
  <2>2. \A n \in Mutexes, u \in Tasks :
          Contains(waiters[n], u) <=> at[u] = "loop" /\ want[u] = n /\ k.state[u] = "Blocked"
    BY <2>1, ListedIsContained DEF IInv, WaitersAreTheSleepers
  <2>3. \A n \in Mutexes, u \in Tasks :
          Contains(waiters'[n], u) <=> Contains(waiters[n], u) /\ ~(n = m /\ u = head)
    BY <1>3, <2>1
  <2>4. /\ \A u \in Tasks \ {head} : k'.state[u] = "Blocked" <=> k.state[u] = "Blocked"
        /\ k'.state[head] # "Blocked"
    BY <1>2 DEF Threads
  <2>5. \A n \in Mutexes, u \in Tasks :
          Contains(waiters'[n], u) <=> at[u] = "loop" /\ want[u] = n /\ k'.state[u] = "Blocked"
    BY <1>3, <2>2, <2>3, <2>4
  <2> QED BY <1>1, <2>1, <2>5, ListedIsContained DEF WaitersAreTheSleepers
<1>14. OnlyNappersAreBooked'
  <2>1. alarm[head] = "none"
    BY <1>2, <1>3 DEF IInv, OnlyNappersAreBooked
  <2> QED BY <1>1, <1>2, <2>1 DEF IInv, OnlyNappersAreBooked, Threads
<1> QED BY <1>7, <1>8, <1>9, <1>10, <1>11, <1>12, <1>13, <1>14 DEF IInv

\* No step breaks it.
LEMMA NextIInv == IInv /\ [Next]_vars => IInv'
<1> SUFFICES ASSUME IInv, [Next]_vars PROVE IInv'
  OBVIOUS
<1>1. CASE Handlers /\ UNCHANGED mtxvars
  BY <1>1, HandlersKeepIInv
<1>2. ASSUME NEW t \in Tasks, LockTurn(t) PROVE IInv'
  BY <1>2, FillNodeKeepsIInv, LockTakesOrWaits, LockTakesKeepsIInv, LockWaitsKeepsIInv DEF LockTurn
<1>3. ASSUME NEW t \in Tasks, Nap(t) PROVE IInv'
  BY <1>3, NapKeepsIInv
<1>4. ASSUME NEW t \in Tasks, NEW m \in Mutexes, CallLock(t, m) PROVE IInv'
  BY <1>4, CallLockKeepsIInv
<1>5. ASSUME NEW t \in Tasks, NEW m \in Mutexes, unlock(t, m) PROVE IInv'
  BY <1>5, UnlockHandsOrFrees, UnlockHandsKeepsIInv, UnlockFreesKeepsIInv
<1>6. CASE UNCHANGED vars
  <2>1. UNCHANGED << k, mode, alarm, ahead, owner, saved, boosted, waiters, at, want, node, holds, nests >>
    BY <1>6 DEF vars, sysvars, mtxvars
  <2>2. TypeOK' /\ SystemSound(Tasks)'
    BY <2>1 DEF IInv, TypeOK, SystemType, SystemSound, RunnerIsKnown
  <2>3. HolderOwns' /\ OwnerIsAwake' /\ FreeIsBare'
    BY <2>1 DEF IInv, HolderOwns, OwnerIsAwake, FreeIsBare
  <2>4. ListsAreSorted' /\ WaitersAreTheSleepers' /\ OnlyNappersAreBooked'
    BY <2>1 DEF IInv, ListsAreSorted, WaitersAreTheSleepers, OnlyNappersAreBooked
  <2> QED BY <2>2, <2>3, <2>4 DEF IInv
<1> QED BY <1>1, <1>2, <1>3, <1>4, <1>5, <1>6 DEF Next

\* It holds always.
LEMMA SpecIInv == Spec => []IInv
<1>1. Init => IInv
  BY InitIInv
<1> QED BY <1>1, NextIInv, PTL DEF Spec

\* lock() and unlock(), nested or not: one holder per mutex, and its list is
\* exactly the tasks that sleep in lock() for it.
THEOREM LockStaysSound == Spec => []LockIsSound
<1>1. IInv => LockIsSound
  <2> SUFFICES ASSUME IInv PROVE LockIsSound
    OBVIOUS
  <2>1. Exclusion
    BY DEF IInv, HolderOwns, Exclusion, TypeOK
  <2> QED BY <2>1 DEF IInv, LockIsSound
<1> QED BY <1>1, SpecIInv, PTL

-----------------------------------------------------------------------------
(* Clients that do not nest.                                               *)

\* One mutex at a time, and the node of a task in lock() carries its own level.
OneAtATime ==
  \A t \in Tasks :
    /\ at[t] # "out" => holds[t] = {}
    /\ \A m, n \in holds[t] : m = n
    /\ at[t] = "loop" => node[t] = Prio[t]

\* A task that owns nothing is at its own level.
BackAtOwnLevel ==
  \A t \in Tasks : (\A m \in Mutexes : owner[m] # t) => k.prio[t] = Prio[t]

\* What an owner runs at: its own level, or less if some waiter needs less;
\* saved_prio_ is then its own.
Loans ==
  \A m \in Mutexes, t \in Tasks : owner[m] = t =>
    /\ k.prio[t] <= Prio[t]
    /\ \A w \in Tasks : Contains(waiters[m], w) => k.prio[t] <= node[w]
    /\ boosted[m] => /\ saved[m] = Prio[t]
                     /\ \E w \in Tasks : Contains(waiters[m], w) /\ node[w] < Prio[t]
    /\ ~boosted[m] => k.prio[t] = Prio[t]

LInv == OneAtATime /\ BackAtOwnLevel /\ Loans /\ Strict(Tasks)

\* Nobody owns two.
LEMMA OwnsOne ==
  ASSUME IInv, LInv, NEW t \in Tasks, NEW m \in Mutexes, NEW n \in Mutexes,
         owner[m] = t, owner[n] = t
  PROVE  m = n
<1>1. /\ m \in holds[t] \/ (at[t] = "loop" /\ want[t] = m)
      /\ n \in holds[t] \/ (at[t] = "loop" /\ want[t] = n)
  BY DEF IInv, OwnerIsAwake
<1>2. (at[t] = "loop" => holds[t] = {}) /\ \A i, j \in holds[t] : i = j
  BY DEF LInv, OneAtATime
<1> QED BY <1>1, <1>2

\* A task that is to get what it asks for, and has not, is at its own level.
LEMMA AskerIsPlain ==
  ASSUME IInv, LInv, NEW t \in Tasks, at[t] # "out", at[t] = "loop" => owner[want[t]] # t
  PROVE  (\A m \in Mutexes : owner[m] # t) /\ k.prio[t] = Prio[t]
<1>1. \A m \in Mutexes : owner[m] = t => m \in holds[t] \/ (at[t] = "loop" /\ want[t] = m)
  BY DEF IInv, OwnerIsAwake
<1>2. holds[t] = {}
  BY DEF LInv, OneAtATime
<1>3. \A m \in Mutexes : owner[m] # t
  BY <1>1, <1>2
<1> QED BY <1>3 DEF LInv, BackAtOwnLevel

\* Nor does a waiter own anything.
LEMMA WaiterIsPlain ==
  ASSUME IInv, LInv, NEW m \in Mutexes, NEW t \in Tasks, Contains(waiters[m], t)
  PROVE  /\ \A n \in Mutexes : owner[n] # t
         /\ k.prio[t] = Prio[t] /\ node[t] = Prio[t]
<1>1. waiters[m] \in Seq(Tasks)
  BY DEF IInv, TypeOK
<1>2. at[t] = "loop" /\ want[t] = m /\ k.state[t] = "Blocked"
  BY <1>1, ListedIsContained DEF IInv, WaitersAreTheSleepers
<1>3. \A n \in Mutexes : owner[n] = t => n \in holds[t] \/ k.state[t] # "Blocked"
  BY DEF IInv, OwnerIsAwake
<1>4. holds[t] = {} /\ node[t] = Prio[t]
  BY <1>2 DEF LInv, OneAtATime
<1>5. \A n \in Mutexes : owner[n] # t
  BY <1>2, <1>3, <1>4
<1> QED BY <1>4, <1>5 DEF LInv, BackAtOwnLevel

\* Levels are numbers.
LEMMA LevelsAreNumbers ==
  ASSUME IInv
  PROVE  \A t \in Tasks : Prio[t] \in Int /\ k.prio[t] \in Int /\ node[t] \in Int
<1>1. Levels \subseteq Int
  BY LevelsAssumption DEF Levels
<1>2. \A t \in Tasks : Prio[t] \in Levels /\ k.prio[t] \in Levels /\ node[t] \in Levels
  BY PrioAssumption DEF IInv, TypeOK, SystemSound, SystemType, IsKernel, Threads
<1> QED BY <1>1, <1>2

\* Nobody has borrowed at first.
LEMMA InitLInv ==
  ASSUME Init
  PROVE  LInv
<1>1. Strict(Tasks) /\ IInv /\ \A t \in Tasks : k.prio[t] = Prio[t]
  BY InitIInv
<1>2. /\ \A t \in Tasks : at[t] = "out" /\ holds[t] = {}
      /\ \A m \in Mutexes : owner[m] = None
  BY DEF Init, Built
<1>3. OneAtATime /\ BackAtOwnLevel
  BY <1>1, <1>2 DEF OneAtATime, BackAtOwnLevel
<1>4. Loans
  BY <1>2, TasksAssumption DEF Loans
<1> QED BY <1>1, <1>3, <1>4 DEF LInv

\* Ticks, switches and the end of naps lend nothing.
LEMMA HandlersKeepLInv ==
  ASSUME IInv, LInv, Handlers, UNCHANGED mtxvars
  PROVE  LInv'
<1>1. k'.prio = k.prio /\ Strict(Tasks)'
  BY HandlersKeepIInv DEF LInv
<1>2. /\ owner' = owner /\ saved' = saved /\ boosted' = boosted /\ waiters' = waiters
      /\ at' = at /\ node' = node /\ holds' = holds
  BY DEF mtxvars
<1>3. OneAtATime' /\ BackAtOwnLevel'
  BY <1>1, <1>2 DEF LInv, OneAtATime, BackAtOwnLevel
<1>4. Loans'
  BY <1>1, <1>2 DEF LInv, Loans
<1> QED BY <1>1, <1>3, <1>4 DEF LInv

\* A call of lock by a task that holds none.
LEMMA CallLockKeepsLInv ==
  ASSUME IInv, LInv, ~nests, NEW t \in Tasks, NEW m \in Mutexes, CallLock(t, m)
  PROVE  LInv'
<1>1. /\ holds[t] = {} /\ at' = [at EXCEPT ![t] = "door"]
      /\ UNCHANGED << k, owner, saved, boosted, waiters, node, holds >>
  BY DEF CallLock, sysvars
<1>2. at \in [Tasks -> {"out", "door", "loop"}]
  BY DEF IInv, TypeOK
<1>3. OneAtATime'
  BY <1>1, <1>2 DEF LInv, OneAtATime
<1>4. BackAtOwnLevel' /\ Strict(Tasks)'
  BY <1>1 DEF LInv, BackAtOwnLevel, Strict
<1>5. Loans'
  BY <1>1 DEF LInv, Loans
<1> QED BY <1>3, <1>4, <1>5 DEF LInv

\* The node carries the level of a task that has lent nothing yet.
LEMMA FillNodeKeepsLInv ==
  ASSUME IInv, LInv, NEW t \in Tasks, FillNode(t)
  PROVE  LInv'
<1>1. /\ Runs(t) /\ at[t] = "door" /\ at' = [at EXCEPT ![t] = "loop"]
      /\ node' = [node EXCEPT ![t] = k.prio[t]]
      /\ UNCHANGED << k, owner, saved, boosted, waiters, holds >>
  BY DEF FillNode, sysvars
<1>2. \A n \in Mutexes : ~Contains(waiters[n], t)
  BY <1>1, RunnerFacts
<1>3. at \in [Tasks -> {"out", "door", "loop"}] /\ node \in [Tasks -> Levels]
  BY DEF IInv, TypeOK
<1>4. k.prio[t] = Prio[t]
  BY <1>1, AskerIsPlain
<1>5. OneAtATime'
  BY <1>1, <1>3, <1>4 DEF LInv, OneAtATime
<1>6. BackAtOwnLevel' /\ Strict(Tasks)'
  BY <1>1 DEF LInv, BackAtOwnLevel, Strict
<1>7. Loans'
  <2>1. \A n \in Mutexes, w \in Tasks : Contains(waiters[n], w) => node'[w] = node[w]
    BY <1>1, <1>2, <1>3
  <2> QED BY <1>1, <2>1 DEF LInv, Loans
<1> QED BY <1>5, <1>6, <1>7 DEF LInv

\* A nap lends nothing.
LEMMA NapKeepsLInv ==
  ASSUME IInv, LInv, NEW t \in Tasks, Nap(t)
  PROVE  LInv'
<1>1. k'.prio = k.prio /\ Strict(Tasks)'
  BY NapKeepsIInv
<1>2. UNCHANGED << owner, saved, boosted, waiters, at, node, holds >>
  BY DEF Nap, mtxvars
<1>3. OneAtATime' /\ BackAtOwnLevel'
  BY <1>1, <1>2 DEF LInv, OneAtATime, BackAtOwnLevel
<1>4. Loans'
  BY <1>1, <1>2 DEF LInv, Loans
<1> QED BY <1>1, <1>3, <1>4 DEF LInv

\* The owner of a lock nobody waits for has its own level.
LEMMA LockTakesKeepsLInv ==
  ASSUME IInv, LInv, NEW t \in Tasks, LockTakes(t)
  PROVE  LInv'
<1> DEFINE m == want[t]
<1>1. /\ Runs(t) /\ at[t] = "loop" /\ owner[m] \in {t, None} /\ waiters' = waiters
      /\ owner' = [owner EXCEPT ![m] = t] /\ at' = [at EXCEPT ![t] = "out"]
      /\ holds' = [holds EXCEPT ![t] = @ \cup {m}]
      /\ UNCHANGED << k, saved, boosted, node >>
  BY LockTakesLeavesLists DEF LockTakes, take
<1>2. /\ m \in Mutexes /\ owner \in [Mutexes -> Tasks \cup {None}]
      /\ at \in [Tasks -> {"out", "door", "loop"}] /\ holds \in [Tasks -> SUBSET Mutexes]
      /\ waiters[m] \in Seq(Tasks)
  BY DEF IInv, TypeOK
<1>3. owner[m] # t => k.prio[t] = Prio[t]
  BY <1>1, AskerIsPlain
<1>4. owner[m] # t => ~boosted[m] /\ waiters[m] = << >>
  BY <1>1, <1>2 DEF IInv, FreeIsBare
<1>5. Prio[t] \in Int
  BY LevelsAreNumbers
<1> HIDE DEF m
<1>6. OneAtATime'
  <2>1. holds[t] = {}
    BY <1>1 DEF LInv, OneAtATime
  <2> QED BY <1>1, <1>2, <2>1 DEF LInv, OneAtATime
<1>7. BackAtOwnLevel'
  <2> SUFFICES ASSUME NEW u \in Tasks, \A n \in Mutexes : owner'[n] # u
               PROVE  k.prio[u] = Prio[u]
    BY <1>1 DEF BackAtOwnLevel
  <2>1. owner'[m] = t /\ \A n \in Mutexes : n # m => owner'[n] = owner[n]
    BY <1>1, <1>2
  <2>2. \A n \in Mutexes : owner[n] # u
    BY <1>1, <1>2, <2>1, TasksAssumption
  <2> QED BY <2>2 DEF LInv, BackAtOwnLevel
<1>8. Loans'
  <2> SUFFICES ASSUME NEW n \in Mutexes, NEW u \in Tasks, owner'[n] = u
               PROVE  /\ k.prio[u] <= Prio[u]
                      /\ \A w \in Tasks : Contains(waiters[n], w) => k.prio[u] <= node[w]
                      /\ boosted[n] => /\ saved[n] = Prio[u]
                                       /\ \E w \in Tasks : Contains(waiters[n], w) /\ node[w] < Prio[u]
                      /\ ~boosted[n] => k.prio[u] = Prio[u]
    BY <1>1 DEF Loans
  <2>1. CASE owner[n] = u
    BY <2>1 DEF LInv, Loans
  <2>2. CASE owner[n] # u
    <3>1. n = m /\ u = t
      BY <1>1, <1>2, <2>2
    <3>2. \A w : ~Contains(waiters[n], w)
      BY <1>4, <2>2, <3>1 DEF Contains
    <3> QED BY <1>3, <1>4, <1>5, <2>2, <3>1, <3>2
  <2> QED BY <2>1, <2>2
<1>9. Strict(Tasks)'
  BY <1>1 DEF LInv, Strict
<1> QED BY <1>6, <1>7, <1>8, <1>9 DEF LInv

\* A more urgent waiter lends the owner its level.
LEMMA LockWaitsKeepsLInv ==
  ASSUME IInv, LInv, NEW t \in Tasks, LockWaits(t)
  PROVE  LInv'
<1> DEFINE m == want[t]
           o == owner[m]
<1>1. /\ at[t] = "loop" /\ o # t
      /\ UNCHANGED << owner, at, holds, node >>
  BY DEF LockWaits
<1>2. /\ m \in Mutexes /\ o \in Tasks \ {t}
      /\ \A u \in Threads \ {o} : k'.prio[u] = k.prio[u]
      /\ \/ /\ k.prio[o] > k.prio[t] /\ k'.prio[o] = k.prio[t]
            /\ saved' = [saved EXCEPT ![m] = IF boosted[m] THEN saved[m] ELSE k.prio[o]]
            /\ boosted' = [boosted EXCEPT ![m] = TRUE]
         \/ /\ ~(k.prio[o] > k.prio[t]) /\ k'.prio[o] = k.prio[o]
            /\ saved' = saved /\ boosted' = boosted
  BY InheritFacts
<1>3. /\ waiters' = [waiters EXCEPT ![m] = Inserted(waiters[m], t, LessUrgent(t))]
      /\ \A x : Contains(waiters'[m], x) <=> x = t \/ Contains(waiters[m], x)
  BY LinkFacts
<1>4. /\ saved \in [Mutexes -> Levels] /\ boosted \in [Mutexes -> BOOLEAN]
      /\ waiters \in [Mutexes -> Seq(Tasks)]
  BY DEF IInv, TypeOK
<1>5. Strict(Tasks)'
  BY LockWaitsKeepsIInv
<1>6. k.prio[t] = Prio[t] /\ node[t] = Prio[t]
  BY <1>1, AskerIsPlain DEF LInv, OneAtATime
<1>7. \A n \in Mutexes : owner[n] = o => n = m
  BY <1>2, OwnsOne
<1>8. o = owner[m]
  OBVIOUS
<1> HIDE DEF m, o
<1>9. OneAtATime'
  BY <1>1 DEF LInv, OneAtATime
<1>10. \A u \in Tasks \ {o} : k'.prio[u] = k.prio[u]
  BY <1>2 DEF Threads
<1>11. BackAtOwnLevel'
  BY <1>1, <1>2, <1>8, <1>10 DEF LInv, BackAtOwnLevel
<1>12. Loans'
  <2> SUFFICES ASSUME NEW n \in Mutexes, NEW u \in Tasks, owner[n] = u
               PROVE  /\ k'.prio[u] <= Prio[u]
                      /\ \A w \in Tasks : Contains(waiters'[n], w) => k'.prio[u] <= node[w]
                      /\ boosted'[n] => /\ saved'[n] = Prio[u]
                                        /\ \E w \in Tasks : Contains(waiters'[n], w) /\ node[w] < Prio[u]
                      /\ ~boosted'[n] => k'.prio[u] = Prio[u]
    BY <1>1 DEF Loans
  <2>1. /\ k.prio[u] <= Prio[u]
        /\ \A w \in Tasks : Contains(waiters[n], w) => k.prio[u] <= node[w]
        /\ boosted[n] => /\ saved[n] = Prio[u]
                         /\ \E w \in Tasks : Contains(waiters[n], w) /\ node[w] < Prio[u]
        /\ ~boosted[n] => k.prio[u] = Prio[u]
    BY DEF LInv, Loans
  <2>2. CASE n # m
    <3>1. k'.prio[u] = k.prio[u]
      BY <1>7, <1>10, <2>2
    <3>2. waiters'[n] = waiters[n] /\ saved'[n] = saved[n] /\ boosted'[n] = boosted[n]
      BY <1>2, <1>3, <1>4, <2>2
    <3> QED BY <2>1, <3>1, <3>2
  <2>3. CASE n = m
    <3>1. u = o
      BY <1>8, <2>3
    <3>2. \A w \in Tasks : k.prio[w] \in Int /\ Prio[w] \in Int /\ node[w] \in Int
      BY LevelsAreNumbers
    <3>3. CASE k.prio[o] > k.prio[t]
      <4>1. /\ k'.prio[u] = Prio[t] /\ k.prio[u] > Prio[t]
            /\ saved'[m] = (IF boosted[m] THEN saved[m] ELSE k.prio[u]) /\ boosted'[m]
        BY <1>2, <1>4, <1>6, <3>1, <3>3
      <4>2. saved'[m] = Prio[u]
        BY <2>1, <2>3, <4>1
      <4>3. k'.prio[u] <= Prio[u] /\ node[t] < Prio[u]
        BY <1>6, <2>1, <3>2, <4>1
      <4>4. \A w \in Tasks : Contains(waiters'[m], w) => k'.prio[u] <= node[w]
        BY <1>3, <1>6, <2>1, <2>3, <3>2, <4>1
      <4>5. Contains(waiters'[m], t)
        BY <1>3
      <4> QED BY <2>3, <4>1, <4>2, <4>3, <4>4, <4>5
    <3>4. CASE ~(k.prio[o] > k.prio[t])
      <4>1. /\ k'.prio[u] = k.prio[u] /\ k.prio[u] <= node[t]
            /\ saved' = saved /\ boosted' = boosted
        BY <1>2, <1>6, <3>1, <3>2, <3>4
      <4>2. \A w \in Tasks : Contains(waiters'[m], w) => k'.prio[u] <= node[w]
        BY <1>3, <2>1, <2>3, <4>1
      <4> QED BY <1>3, <2>1, <2>3, <4>1, <4>2
    <3> QED BY <3>3, <3>4
  <2> QED BY <2>2, <2>3
<1> QED BY <1>5, <1>9, <1>11, <1>12 DEF LInv

\* Nobody waits, so nobody had lent anything.
LEMMA UnlockFreesKeepsLInv ==
  ASSUME IInv, LInv, NEW t \in Tasks, NEW m \in Mutexes, UnlockFrees(t, m)
  PROVE  LInv'
<1>1. /\ owner[m] = t /\ waiters[m] = << >> /\ k' = restore(t, m)
      /\ boosted' = [boosted EXCEPT ![m] = FALSE]
      /\ owner' = [owner EXCEPT ![m] = None]
      /\ holds' = [holds EXCEPT ![t] = @ \ {m}]
      /\ UNCHANGED << saved, waiters, at, node >>
  BY DEF UnlockFrees
<1>2. /\ owner \in [Mutexes -> Tasks \cup {None}] /\ boosted \in [Mutexes -> BOOLEAN]
      /\ holds \in [Tasks -> SUBSET Mutexes]
  BY DEF IInv, TypeOK
<1>3. \A w : ~Contains(waiters[m], w)
  BY <1>1 DEF Contains
<1>4. ~boosted[m] /\ k.prio[t] = Prio[t]
  BY <1>1, <1>3 DEF LInv, Loans
<1>5. k' = k
  BY <1>1, <1>4 DEF restore
<1>6. OneAtATime'
  BY <1>1, <1>2 DEF LInv, OneAtATime
<1>7. \A n \in Mutexes : owner'[n] = IF n = m THEN None ELSE owner[n]
  BY <1>1, <1>2
<1>8. BackAtOwnLevel'
  <2> SUFFICES ASSUME NEW u \in Tasks, \A n \in Mutexes : owner'[n] # u
               PROVE  k.prio[u] = Prio[u]
    BY <1>5 DEF BackAtOwnLevel
  <2>1. u # t => \A n \in Mutexes : owner[n] # u
    BY <1>1, <1>7
  <2> QED BY <1>4, <2>1 DEF LInv, BackAtOwnLevel
<1>9. Loans'
  <2>1. \A n \in Mutexes, u \in Tasks : owner'[n] = u =>
          owner[n] = u /\ boosted'[n] = boosted[n]
    BY <1>1, <1>2, <1>7, TasksAssumption
  <2>2. Loans /\ waiters' = waiters /\ saved' = saved /\ node' = node
    BY <1>1 DEF LInv
  <2> SUFFICES ASSUME NEW n \in Mutexes, NEW u \in Tasks, owner'[n] = u
               PROVE  /\ k.prio[u] <= Prio[u]
                      /\ \A w \in Tasks : Contains(waiters[n], w) => k.prio[u] <= node[w]
                      /\ boosted[n] => /\ saved[n] = Prio[u]
                                       /\ \E w \in Tasks : Contains(waiters[n], w) /\ node[w] < Prio[u]
                      /\ ~boosted[n] => k.prio[u] = Prio[u]
    BY <1>5, <2>1, <2>2 DEF Loans
  <2> QED BY <2>1, <2>2 DEF Loans
<1>10. Strict(Tasks)'
  BY <1>5 DEF LInv, Strict
<1> QED BY <1>6, <1>8, <1>9, <1>10 DEF LInv

\* The first waiter is at its own level, which is at least as urgent as that of
\* the next, so it needs no loan; and if the caller falls back from a boost, it
\* falls below the first waiter, whose wake-up requests the switch.
LEMMA UnlockHandsKeepsLInv ==
  ASSUME IInv, LInv, NEW t \in Tasks, NEW m \in Mutexes, UnlockHands(t, m)
  PROVE  LInv'
<1> DEFINE head == HeadOf(m)
           rest == RestOf(m)
           lend == Lends(m)
<1>1. /\ Runs(t) /\ owner[m] = t /\ waiters[m] # << >>
      /\ hand_over(restore(t, m), m)
      /\ holds' = [holds EXCEPT ![t] = @ \ {m}]
      /\ UNCHANGED << at, node >>
  BY DEF UnlockHands
<1>2. /\ head \in Tasks \ {t} /\ k'.current = k.current
      /\ k.pend => k'.pend
      /\ \A u \in Threads \ {head} : k'.state[u] = k.state[u]
      /\ \A u \in Threads \ {t, head} : k'.prio[u] = k.prio[u]
      /\ k'.prio[t] = IF boosted[m] THEN saved[m] ELSE k.prio[t]
      /\ ~lend => k'.prio[head] = k.prio[head]
      /\ k'.prio[head] < k'.prio[t] => k'.pend
      /\ waiters' = [waiters EXCEPT ![m] = rest]
      /\ owner' = [owner EXCEPT ![m] = head]
      /\ saved' = [saved EXCEPT ![m] = IF lend THEN k.prio[head] ELSE saved[m]]
      /\ boosted' = [boosted EXCEPT ![m] = lend]
  BY <1>1, HandOverFacts
<1>3. /\ \A x : Contains(waiters[m], x) <=> x = head \/ Contains(rest, x)
      /\ \A i \in 1 .. Len(rest) : node[head] <= node[rest[i]]
      /\ rest \in Seq(Tasks)
  BY <1>1, HeadFacts
<1>4. rest # << >> => node[head] <= node[NextOf(m)] /\ NextOf(m) \in Tasks
  <2>1. rest # << >> => NextOf(m) = rest[1] /\ NextOf(m) \in Tasks
    BY <1>1, HeadFacts
  <2>2. rest # << >> => 1 \in 1 .. Len(rest)
    BY <1>3
  <2> QED BY <1>3, <2>1, <2>2
<1>5. \A w \in Tasks : Contains(rest, w) => node[head] <= node[w]
  BY <1>3 DEF Contains
<1>6. /\ \A n \in Mutexes : owner[n] # head
      /\ k.prio[head] = Prio[head] /\ node[head] = Prio[head]
  BY <1>2, <1>3, WaiterIsPlain
<1>7. \A w \in Tasks : k.prio[w] \in Int /\ Prio[w] \in Int /\ node[w] \in Int
  BY LevelsAreNumbers
<1>8. ~lend
  BY <1>2, <1>4, <1>6, <1>7 DEF Lends
<1> HIDE DEF head, rest, lend
<1>9. /\ k.prio[t] <= Prio[t]
      /\ boosted[m] => /\ saved[m] = Prio[t]
                       /\ \E w \in Tasks : Contains(waiters[m], w) /\ node[w] < Prio[t]
      /\ ~boosted[m] => k.prio[t] = Prio[t]
  BY <1>1 DEF LInv, Loans
<1>10. k'.prio[t] = Prio[t] /\ k'.prio[head] = Prio[head]
  BY <1>2, <1>6, <1>8, <1>9
<1>11. boosted[m] => Prio[head] < Prio[t]
  <2> SUFFICES ASSUME boosted[m] PROVE Prio[head] < Prio[t]
    OBVIOUS
  <2>1. PICK w \in Tasks : Contains(waiters[m], w) /\ node[w] < Prio[t]
    BY <1>9
  <2>2. node[head] <= node[w]
    BY <1>2, <1>3, <1>5, <1>7, <2>1
  <2> QED BY <1>2, <1>6, <1>7, <2>1, <2>2
<1>12. /\ owner \in [Mutexes -> Tasks \cup {None}] /\ boosted \in [Mutexes -> BOOLEAN]
       /\ holds \in [Tasks -> SUBSET Mutexes] /\ saved \in [Mutexes -> Levels]
       /\ waiters \in [Mutexes -> Seq(Tasks)]
  BY DEF IInv, TypeOK
<1>13. OneAtATime'
  BY <1>1, <1>12 DEF LInv, OneAtATime
<1>14. \A n \in Mutexes : owner'[n] = IF n = m THEN head ELSE owner[n]
  BY <1>2, <1>12
<1>15. \A u \in Tasks \ {t, head} : k'.prio[u] = k.prio[u] /\ k'.state[u] = k.state[u]
  BY <1>2 DEF Threads
<1>16. BackAtOwnLevel'
  <2> SUFFICES ASSUME NEW u \in Tasks, \A n \in Mutexes : owner'[n] # u
               PROVE  k'.prio[u] = Prio[u]
    BY DEF BackAtOwnLevel
  <2>1. u # t => \A n \in Mutexes : owner[n] # u
    BY <1>1, <1>14
  <2> QED BY <1>10, <1>15, <2>1 DEF LInv, BackAtOwnLevel
<1>17. Loans'
  <2> SUFFICES ASSUME NEW n \in Mutexes, NEW u \in Tasks, owner'[n] = u
               PROVE  /\ k'.prio[u] <= Prio[u]
                      /\ \A w \in Tasks : Contains(waiters'[n], w) => k'.prio[u] <= node[w]
                      /\ boosted'[n] => /\ saved'[n] = Prio[u]
                                        /\ \E w \in Tasks : Contains(waiters'[n], w) /\ node[w] < Prio[u]
                      /\ ~boosted'[n] => k'.prio[u] = Prio[u]
    BY <1>1 DEF Loans
  <2>1. CASE n = m
    <3>1. u = head
      BY <1>14, <2>1
    <3>2. waiters'[n] = rest /\ ~boosted'[n]
      BY <1>2, <1>8, <1>12, <2>1
    <3>3. k'.prio[u] <= Prio[u] /\ \A w \in Tasks : Contains(rest, w) => k'.prio[u] <= node[w]
      BY <1>5, <1>6, <1>7, <1>10, <3>1
    <3> QED BY <1>10, <3>1, <3>2, <3>3
  <2>2. CASE n # m
    <3>1. owner[n] = u /\ u # head
      BY <1>6, <1>14, <2>2
    <3>2. u # t
      BY <1>1, <2>2, <3>1, OwnsOne
    <3>3. waiters'[n] = waiters[n] /\ saved'[n] = saved[n] /\ boosted'[n] = boosted[n]
      BY <1>2, <1>12, <2>2
    <3>4. k'.prio[u] = k.prio[u]
      BY <1>15, <3>1, <3>2
    <3> QED BY <3>1, <3>3, <3>4 DEF LInv, Loans
  <2> QED BY <2>1, <2>2
<1>18. Strict(Tasks)'
  <2> SUFFICES ASSUME ~k'.pend, NEW u \in Tasks, k'.state[u] = "Ready"
               PROVE  k'.prio[k'.current] <= k'.prio[u]
    BY DEF Strict
  <2>1. k.current = t /\ k.state[t] = "Running" /\ t # None /\ ~k.pend
    BY <1>1, RunnerFacts, TasksAssumption
  <2>2. ~(Prio[head] < Prio[t])
    BY <1>2, <1>10
  <2>3. ~boosted[m] /\ k.prio[t] = Prio[t]
    BY <1>9, <1>11, <2>2
  <2>4. CASE u = head
    BY <1>2, <1>7, <1>10, <2>1, <2>2, <2>4
  <2>5. CASE u # head
    <3>1. u # t
      BY <1>2, <2>1, <2>5 DEF Threads
    <3>2. k.state[u] = "Ready" /\ k'.prio[u] = k.prio[u]
      BY <1>15, <2>5, <3>1
    <3>3. k.prio[t] <= k.prio[u]
      BY <2>1, <3>2 DEF LInv, Strict
    <3> QED BY <1>2, <1>10, <2>1, <2>3, <3>2, <3>3
  <2> QED BY <2>4, <2>5
<1> QED BY <1>13, <1>16, <1>17, <1>18 DEF LInv

\* Whether clients nest is settled at the start.
LEMMA NestsIsFixed ==
  ASSUME [Next]_vars
  PROVE  nests' = nests
BY DEF Next, vars, mtxvars, LockTurn, FillNode, lock, Nap, CallLock, unlock

\* No step of clients that hold one lock at a time breaks it.
LEMMA NextLInv == IInv /\ ~nests /\ LInv /\ [Next]_vars => LInv'
<1> SUFFICES ASSUME IInv, ~nests, LInv, [Next]_vars PROVE LInv'
  OBVIOUS
<1>1. CASE Handlers /\ UNCHANGED mtxvars
  BY <1>1, HandlersKeepLInv
<1>2. ASSUME NEW t \in Tasks, LockTurn(t) PROVE LInv'
  BY <1>2, FillNodeKeepsLInv, LockTakesOrWaits, LockTakesKeepsLInv, LockWaitsKeepsLInv DEF LockTurn
<1>3. ASSUME NEW t \in Tasks, Nap(t) PROVE LInv'
  BY <1>3, NapKeepsLInv
<1>4. ASSUME NEW t \in Tasks, NEW m \in Mutexes, CallLock(t, m) PROVE LInv'
  BY <1>4, CallLockKeepsLInv
<1>5. ASSUME NEW t \in Tasks, NEW m \in Mutexes, unlock(t, m) PROVE LInv'
  BY <1>5, UnlockHandsOrFrees, UnlockHandsKeepsLInv, UnlockFreesKeepsLInv
<1>6. CASE UNCHANGED vars
  <2>1. UNCHANGED << k, owner, saved, boosted, waiters, at, node, holds >>
    BY <1>6 DEF vars, sysvars, mtxvars
  <2>2. OneAtATime' /\ BackAtOwnLevel' /\ Strict(Tasks)'
    BY <2>1 DEF LInv, OneAtATime, BackAtOwnLevel, Strict
  <2>3. Loans'
    BY <2>1 DEF LInv, Loans
  <2> QED BY <2>2, <2>3 DEF LInv
<1> QED BY <1>1, <1>2, <1>3, <1>4, <1>5, <1>6 DEF Next

\* For them it holds always.
LEMMA SpecLInv == Spec => [](~nests => LInv)
<1>1. Init => (~nests => LInv)
  BY InitLInv
<1>2. IInv /\ (~nests => LInv) /\ [Next]_vars => (~nests => LInv)'
  BY NextLInv, NestsIsFixed
<1> QED BY <1>1, <1>2, SpecIInv, PTL DEF Spec

\* Without nesting a waiter always finds the owner at its level or above, and
\* who owns nothing has its own level back, however often it was boosted.
THEOREM LoansStayHonest == Spec => []LoansAreHonest
<1>1. IInv /\ (~nests => LInv) => LoansAreHonest
  <2> SUFFICES ASSUME IInv, ~nests => LInv PROVE LoansAreHonest
    OBVIOUS
  <2>1. OwnerInheritsFromWaiters
    <3> SUFFICES ASSUME ~nests, NEW m \in Mutexes, NEW t \in ToSet(waiters[m])
                 PROVE  owner[m] # None /\ k.prio[owner[m]] <= k.prio[t]
      BY DEF OwnerInheritsFromWaiters
    <3>1. LInv /\ waiters[m] \in Seq(Tasks) /\ owner[m] \in Tasks \cup {None}
      BY DEF IInv, TypeOK
    <3>2. t \in Tasks /\ Contains(waiters[m], t)
      BY <3>1, ListedIsContained DEF ToSet
    <3>3. owner[m] # None
      BY <3>2 DEF IInv, FreeIsBare, Contains
    <3>4. k.prio[t] = Prio[t] /\ node[t] = Prio[t]
      BY <3>1, <3>2, WaiterIsPlain
    <3>5. k.prio[owner[m]] <= node[t]
      BY <3>1, <3>2, <3>3 DEF LInv, Loans
    <3> QED BY <3>3, <3>4, <3>5
  <2>2. RestoredNotLeftBoosted
    BY DEF RestoredNotLeftBoosted, LInv, BackAtOwnLevel
  <2> QED BY <2>1, <2>2 DEF LoansAreHonest
<1> QED BY <1>1, SpecIInv, SpecLInv, PTL

\* Without nesting an unlock that gives up a boost never leaves a Ready task
\* waiting behind a less urgent runner.
THEOREM PriorityStaysStrict == Spec => []StrictPriority
<1>1. IInv /\ (~nests => LInv) => StrictPriority
  <2> SUFFICES ASSUME IInv, ~nests => LInv, ~nests, k.current # None, ~k.pend,
                      NEW l \in k.present
               PROVE  k.prio[k.current] <= l
    BY DEF StrictPriority
  <2>1. HonestRings(k, Tasks) /\ Strict(Tasks) /\ k.present \subseteq Levels /\ IsKernel(k)
    BY DEF IInv, SystemSound, LInv, SystemType, IsKernel, KernelType
  <2>2. k.fifo[l] # << >>
    BY <2>1 DEF HonestRings, PresentIsNonEmpty
  <2>3. k.fifo[l] \in Seq(Tasks)
    BY <2>1 DEF IsKernel, KernelType
  <2>4. 1 \in 1 .. Len(k.fifo[l])
    BY <2>2, <2>3
  <2>5. /\ k.fifo[l][1] \in Tasks /\ k.state[k.fifo[l][1]] = "Ready"
        /\ k.prio[k.fifo[l][1]] = l
    BY <2>1, <2>4 DEF HonestRings, RingsHoldReadyTasks
  <2> QED BY <2>1, <2>5 DEF Strict
<1> QED BY <1>1, SpecIInv, SpecLInv, PTL

\* Whoever owns a lock that an urgent task waits for is at that task's level,
\* and hence before everybody below it that owns nothing.
LEMMA LoansBoundInversion ==
  ASSUME IInv, ~nests => LInv
  PROVE  InversionIsBounded
<1> SUFFICES ASSUME ~nests, NEW m \in Mutexes, NEW h \in ToSet(waiters[m]),
                    k.state[owner[m]] # "Blocked",
                    NEW u \in Tasks, Prio[h] < Prio[u], \A n \in Mutexes : owner[n] # u,
                    Runs(u)
             PROVE  FALSE
  BY DEF InversionIsBounded
<1> DEFINE o == owner[m]
<1>1. IInv /\ LInv /\ waiters[m] \in Seq(Tasks) /\ o \in Tasks \cup {None}
  BY DEF IInv, TypeOK
<1>2. h \in Tasks /\ Contains(waiters[m], h)
  BY <1>1, ListedIsContained DEF ToSet
<1>3. o # None
  BY <1>2 DEF IInv, FreeIsBare, Contains
<1>4. node[h] = Prio[h]
  BY <1>1, <1>2, WaiterIsPlain
<1>5. o \in Tasks /\ k.state[o] # "Blocked" /\ o # u
  BY <1>1, <1>3
<1>6. k.prio[o] <= Prio[h]
  BY <1>1, <1>2, <1>4, <1>5 DEF LInv, Loans
<1>7. k.current = u /\ ~k.pend /\ k.state[u] = "Running" /\ u # None
  BY <1>1, RunnerFacts, TasksAssumption
<1> HIDE DEF o
<1>8. k.state[o] = "Ready"
  BY <1>1, <1>5, <1>7 DEF IInv, SystemSound, SystemType, RunnerIsKnown, IsKernel, KernelType,
     Threads, TaskState
<1>9. k.prio[u] <= k.prio[o]
  BY <1>1, <1>5, <1>7, <1>8 DEF LInv, Strict
<1>10. k.prio[u] = Prio[u]
  BY <1>1 DEF LInv, BackAtOwnLevel
<1>11. Prio[h] \in Int /\ Prio[u] \in Int /\ k.prio[o] \in Int
  BY <1>1, <1>2, <1>5, LevelsAreNumbers
<1> QED BY <1>6, <1>9, <1>10, <1>11

\* Without nesting the wait for a lock is not stretched by tasks in between:
\* while the owner can go on, nobody executes that owns nothing and is less
\* urgent than a waiter.
THEOREM InversionStaysBounded == Spec => []InversionIsBounded
<1>1. IInv /\ (~nests => LInv) => InversionIsBounded
  BY LoansBoundInversion
<1> QED BY <1>1, SpecIInv, SpecLInv, PTL

-----------------------------------------------------------------------------
(* Who gets it next.                                                       *)

\* One step, of one mutex: what HandedToTheMostUrgent says of it.
HandedRight(m) ==
  waiters[m] # << >> /\ owner'[m] # owner[m] =>
    \A u \in ToSet(waiters[m]) :
      /\ node[owner'[m]] <= node[u]
      /\ ~nests => k.prio[owner'[m]] <= k.prio[u]

LinkedBehindEquals(m) ==
  \A i, j \in 1 .. Len(waiters'[m]) :
    /\ waiters'[m][i] \notin ToSet(waiters[m])
    /\ node[waiters'[m][j]] = node[waiters'[m][i]]
    => j <= i

\* A step that moves neither owner nor list.
LEMMA QuietStep ==
  ASSUME NEW m \in Mutexes, owner'[m] = owner[m] \/ waiters[m] = << >>, waiters'[m] = waiters[m]
  PROVE  HandedRight(m) /\ LinkedBehindEquals(m)
BY DEF HandedRight, LinkedBehindEquals, ToSet

\* A waiter is linked behind those at least as urgent.
LEMMA LockWaitsLinks ==
  ASSUME IInv, NEW t \in Tasks, LockWaits(t), NEW m \in Mutexes
  PROVE  HandedRight(m) /\ LinkedBehindEquals(m)
<1> DEFINE n == want[t]
<1>1. /\ n \in Mutexes /\ waiters' = [waiters EXCEPT ![n] = Inserted(waiters[n], t, LessUrgent(t))]
      /\ LinkedOnce(waiters'[n])
      /\ \E p \in 1 .. Len(waiters[n]) + 1 :
           /\ InsertedAt(waiters'[n], waiters[n], p, t)
           /\ \A i \in p .. Len(waiters[n]) : node[t] < node[waiters[n][i]]
  BY LinkFacts
<1>2. owner' = owner /\ waiters \in [Mutexes -> Seq(Tasks)]
  BY DEF LockWaits, IInv, TypeOK
<1> HIDE DEF n
<1>3. CASE m # n
  BY <1>1, <1>2, <1>3, QuietStep
<1>4. CASE m = n
  <2>1. HandedRight(m)
    BY <1>2 DEF HandedRight
  <2> SUFFICES ASSUME NEW i \in 1 .. Len(waiters'[m]), NEW j \in 1 .. Len(waiters'[m]),
                      waiters'[m][i] \notin ToSet(waiters[m]),
                      node[waiters'[m][j]] = node[waiters'[m][i]]
               PROVE  j <= i
    BY <2>1 DEF LinkedBehindEquals
  <2> DEFINE s == waiters[m]
             r == waiters'[m]
  <2>2. PICK p \in 1 .. Len(s) + 1 :
          /\ InsertedAt(r, s, p, t)
          /\ \A x \in p .. Len(s) : node[t] < node[s[x]]
    BY <1>1, <1>4
  <2>3. s \in Seq(Tasks) /\ r[i] \notin ToSet(s) /\ node[r[j]] = node[r[i]]
        /\ i \in 1 .. Len(r) /\ j \in 1 .. Len(r)
    BY <1>2
  <2> HIDE DEF s, r
  <2>4. Len(s) \in Nat /\ Len(r) = Len(s) + 1
    BY <2>2 DEF InsertedAt
  <2>5. \A x \in 1 .. Len(s) : s[x] \in ToSet(s) /\ s[x] \in Tasks
    BY <2>3 DEF ToSet
  <2>6. i = p
    <3>1. i < p => r[i] = s[i] /\ i \in 1 .. Len(s)
      BY <2>2, <2>3, <2>4 DEF InsertedAt
    <3>2. i > p => r[i] = s[i - 1] /\ i - 1 \in 1 .. Len(s)
      BY <2>2, <2>3, <2>4 DEF InsertedAt
    <3> QED BY <2>2, <2>3, <2>4, <2>5, <3>1, <3>2
  <2>7. r[i] = t
    BY <2>2, <2>3, <2>4, <2>6 DEF InsertedAt
  <2>8. ASSUME p < j PROVE FALSE
    <3>1. r[j] = s[j - 1] /\ j - 1 \in p .. Len(s)
      BY <2>2, <2>3, <2>4, <2>8 DEF InsertedAt
    <3>2. node[t] < node[s[j - 1]]
      BY <2>2, <3>1
    <3>3. node[t] \in Int
      BY LevelsAreNumbers
    <3> QED BY <2>3, <2>7, <3>1, <3>2, <3>3
  <2> QED BY <2>3, <2>4, <2>6, <2>8
<1> QED BY <1>3, <1>4

\* unlock hands to the first, which is the most urgent.
LEMMA UnlockHandsRight ==
  ASSUME IInv, ~nests => LInv, NEW t \in Tasks, NEW n \in Mutexes, UnlockHands(t, n), NEW m \in Mutexes
  PROVE  HandedRight(m) /\ LinkedBehindEquals(m)
<1>1. /\ Runs(t) /\ waiters[n] # << >> /\ hand_over(restore(t, n), n)
      /\ owner \in [Mutexes -> Tasks \cup {None}] /\ waiters \in [Mutexes -> Seq(Tasks)]
  BY DEF UnlockHands, IInv, TypeOK
<1>2. /\ waiters' = [waiters EXCEPT ![n] = RestOf(n)]
      /\ owner' = [owner EXCEPT ![n] = HeadOf(n)]
  BY <1>1, HandOverFacts
<1>3. /\ HeadOf(n) \in Tasks /\ RestOf(n) \in Seq(Tasks)
      /\ \A x : Contains(waiters[n], x) <=> x = HeadOf(n) \/ Contains(RestOf(n), x)
      /\ \A i \in 1 .. Len(waiters[n]) : node[HeadOf(n)] <= node[waiters[n][i]]
  BY <1>1, HeadFacts
<1>4. CASE m # n
  BY <1>1, <1>2, <1>4, QuietStep
<1>5. CASE m = n
  <2>1. owner'[m] = HeadOf(m) /\ waiters'[m] = RestOf(m)
    BY <1>1, <1>2, <1>5
  <2>2. \A u \in ToSet(waiters[m]) : u \in Tasks /\ node[HeadOf(m)] <= node[u] /\ Contains(waiters[m], u)
    BY <1>1, <1>3, <1>5 DEF ToSet, Contains
  <2>3. ~nests => \A u \in Tasks : Contains(waiters[m], u) => k.prio[u] = node[u]
    BY WaiterIsPlain
  <2>4. HandedRight(m)
    BY <1>3, <1>5, <2>1, <2>2, <2>3 DEF HandedRight
  <2>5. \A i \in 1 .. Len(waiters'[m]) : waiters'[m][i] \in ToSet(waiters[m])
    <3>1. \A i \in 1 .. Len(RestOf(m)) : Contains(RestOf(m), RestOf(m)[i])
      BY DEF Contains
    <3>2. \A i \in 1 .. Len(RestOf(m)) : Contains(waiters[m], RestOf(m)[i])
      BY <1>3, <1>5, <3>1
    <3> QED BY <1>1, <2>1, <3>2, ListedIsContained
  <2> QED BY <2>4, <2>5 DEF LinkedBehindEquals
<1> QED BY <1>4, <1>5

\* Nested or not: a mutex goes to the waiter that came with the most urgent
\* level, and among those that came with the same to the one that came first.
THEOREM HandedOverInOrder == Spec => HandedToTheMostUrgent
<1>1. IInv /\ (~nests => LInv) /\ [Next]_vars =>
        \A m \in Mutexes : HandedRight(m) /\ LinkedBehindEquals(m)
  <2> SUFFICES ASSUME IInv, ~nests => LInv, [Next]_vars, NEW m \in Mutexes
               PROVE  HandedRight(m) /\ LinkedBehindEquals(m)
    OBVIOUS
  <2>1. CASE UNCHANGED << owner, waiters >>
    BY <2>1, QuietStep
  <2>2. ASSUME NEW t \in Tasks, LockTakes(t) PROVE HandedRight(m) /\ LinkedBehindEquals(m)
    <3>1. waiters' = waiters
      BY <2>2, LockTakesLeavesLists
    <3>2. /\ want[t] \in Mutexes /\ owner[want[t]] \in {t, None}
          /\ owner' = [owner EXCEPT ![want[t]] = t] /\ owner \in [Mutexes -> Tasks \cup {None}]
      BY <2>2 DEF LockTakes, take, IInv, TypeOK
    <3>3. owner'[m] = owner[m] \/ owner[m] = None
      BY <3>2
    <3> QED BY <3>1, <3>3, QuietStep DEF IInv, FreeIsBare
  <2>3. ASSUME NEW t \in Tasks, LockWaits(t) PROVE HandedRight(m) /\ LinkedBehindEquals(m)
    BY <2>3, LockWaitsLinks
  <2>4. ASSUME NEW t \in Tasks, NEW n \in Mutexes, UnlockHands(t, n)
        PROVE  HandedRight(m) /\ LinkedBehindEquals(m)
    BY <2>4, UnlockHandsRight
  <2>5. ASSUME NEW t \in Tasks, NEW n \in Mutexes, UnlockFrees(t, n)
        PROVE  HandedRight(m) /\ LinkedBehindEquals(m)
    <3>1. /\ waiters' = waiters /\ waiters[n] = << >> /\ owner' = [owner EXCEPT ![n] = None]
          /\ owner \in [Mutexes -> Tasks \cup {None}]
      BY <2>5 DEF UnlockFrees, IInv, TypeOK
    <3>2. owner'[m] = owner[m] \/ waiters[m] = << >>
      BY <3>1
    <3> QED BY <3>1, <3>2, QuietStep
  <2>6. CASE UNCHANGED vars
    BY <2>1, <2>6 DEF vars, mtxvars
  <2>7. ASSUME NEW t \in Tasks, FillNode(t) \/ Nap(t) \/ \E n \in Mutexes : CallLock(t, n)
        PROVE  UNCHANGED << owner, waiters >>
    BY <2>7 DEF FillNode, Nap, CallLock, mtxvars
  <2>8. CASE Handlers /\ UNCHANGED mtxvars
    BY <2>1, <2>8 DEF mtxvars
  <2> QED BY <2>1, <2>2, <2>3, <2>4, <2>5, <2>6, <2>7, <2>8, LockTakesOrWaits, UnlockHandsOrFrees
          DEF Next, LockTurn
<1>2. (\A m \in Mutexes : HandedRight(m) /\ LinkedBehindEquals(m)) =>
        [\A m \in Mutexes :
           /\ waiters[m] # << >> /\ owner'[m] # owner[m] =>
                \A u \in ToSet(waiters[m]) :
                  /\ node[owner'[m]] <= node[u]
                  /\ ~nests => k.prio[owner'[m]] <= k.prio[u]
           /\ \A i, j \in 1 .. Len(waiters'[m]) :
                /\ waiters'[m][i] \notin ToSet(waiters[m])
                /\ node[waiters'[m][j]] = node[waiters'[m][i]]
                => j <= i]_vars
  BY DEF HandedRight, LinkedBehindEquals
<1> QED BY <1>1, <1>2, SpecIInv, SpecLInv, PTL DEF Spec, HandedToTheMostUrgent

-----------------------------------------------------------------------------
(* The inversion demo.                                                     *)

\* A step of the demo is a step of the mutex's clients.
LEMMA DemoIsMutex ==
  ASSUME InversionAssumption, [DemoNext]_demovars
  PROVE  [Next]_vars
<1>1. L \in Tasks /\ H \in Tasks /\ M \in Tasks /\ g_theater \in Mutexes
  BY DEF InversionAssumption
<1>2. CASE Handlers /\ UNCHANGED << mtxvars, stage >>
  BY <1>2 DEF Next
<1>3. CASE task_bully
  BY <1>1, <1>3 DEF task_bully, Next
<1>4. ASSUME NEW t \in {L, H}, Act(t) PROVE Next
  BY <1>1, <1>4 DEF Act, task_sleeps, task_locks, task_waits, task_unlocks, Next
<1>5. CASE UNCHANGED demovars
  BY <1>5 DEF demovars
<1> QED BY <1>2, <1>3, <1>4, <1>5 DEF DemoNext

\* L and H sleep with empty hands, and nobody else comes near the lock.
PlayersAreAwake ==
  \A t \in {L, H} :
    /\ stage[t] = "sleep" => at[t] = "out" /\ holds[t] = {}
    /\ holds[t] # {} => k.state[t] # "Blocked"

OthersStayOut ==
  \A t \in Tasks \ {L, H} : at[t] = "out" /\ \A m \in Mutexes : owner[m] # t

DemoInv ==
  /\ IInv /\ LInv /\ ~nests
  /\ stage \in [{L, H} -> {"sleep", "lock"}]
  /\ PlayersAreAwake /\ OthersStayOut

\* Nobody has begun.
LEMMA DemoStarts ==
  ASSUME InversionAssumption, DemoInit
  PROVE  DemoInv
<1>1. Init /\ ~nests
  BY DEF DemoInit, DemoBuilt, Init
<1>2. IInv /\ LInv
  BY <1>1, InitIInv, InitLInv
<1>3. stage = [t \in {L, H} |-> "sleep"] /\ Built
  BY DEF DemoInit, DemoBuilt
<1>4. /\ \A t \in Tasks : at[t] = "out" /\ holds[t] = {}
      /\ \A m \in Mutexes : owner[m] = None
  BY <1>3 DEF Built
<1>5. PlayersAreAwake /\ OthersStayOut
  BY <1>4, TasksAssumption DEF PlayersAreAwake, OthersStayOut, InversionAssumption
<1> QED BY <1>1, <1>2, <1>3, <1>5 DEF DemoInv

\* A step that links, hands over and takes nothing, and puts nobody to sleep
\* but one with empty hands.
LEMMA DemoIsQuiet ==
  ASSUME InversionAssumption, DemoInv, owner' = owner, holds' = holds, stage' = stage,
         \A t \in Tasks \ {L, H} : at'[t] = at[t],
         \A t \in {L, H} : stage[t] = "sleep" => at'[t] = "out",
         \A t \in Tasks : k'.state[t] = "Blocked" => k.state[t] = "Blocked" \/ holds[t] = {}
  PROVE  PlayersAreAwake' /\ OthersStayOut'
<1>1. {L, H} \subseteq Tasks
  BY DEF InversionAssumption
<1>2. PlayersAreAwake'
  BY <1>1 DEF DemoInv, PlayersAreAwake
<1>3. OthersStayOut'
  BY DEF DemoInv, OthersStayOut
<1> QED BY <1>2, <1>3

\* A nap puts to sleep the one that takes it.
LEMMA NapSleeps ==
  ASSUME IInv, NEW t \in Tasks, Nap(t)
  PROVE  /\ UNCHANGED << mtxvars, mode >>
         /\ \A u \in Tasks \ {t} : k'.state[u] = k.state[u]
<1>1. /\ Runs(t) /\ k' = block(k, t) /\ UNCHANGED << mode, mtxvars >>
      /\ alarm' = [alarm EXCEPT ![t] = "live"] /\ ahead' = [ahead EXCEPT ![t] = TRUE]
  BY DEF Nap, sleep_for
<1>2. SystemSound(Tasks) /\ alarm \in [Tasks -> {"none", "live", "stale"}] /\ ahead \in [Tasks -> BOOLEAN]
  BY DEF IInv, SystemSound, SystemType
<1>3. /\ alarm' \in [Tasks -> {"none", "live", "stale"}]
      /\ \A u \in Tasks \ {t} : alarm'[u] = alarm[u]
  BY <1>1, <1>2
<1>4. ahead' \in [Tasks -> BOOLEAN]
  BY <1>1, <1>2
<1>5. \A u \in Threads \ {t} : k'.state[u] = k.state[u]
  BY <1>1, <1>2, <1>3, <1>4, BlockIsSound
<1> QED BY <1>1, <1>5 DEF Threads

\* Handlers put nobody to sleep, M's nap is M's own.
LEMMA DemoKeepsAside ==
  ASSUME InversionAssumption, DemoInv,
         (Handlers /\ UNCHANGED << mtxvars, stage >>) \/ task_bully
  PROVE  PlayersAreAwake' /\ OthersStayOut' /\ stage' = stage
<1>1. IInv /\ M \in Tasks /\ {L, H} \subseteq Tasks /\ M \notin {L, H}
  BY DEF DemoInv, InversionAssumption
<1>2. /\ UNCHANGED << owner, holds, at, stage >>
      /\ \A t \in Tasks : k'.state[t] = "Blocked" => k.state[t] = "Blocked" \/ t = M
  <2>1. CASE Handlers /\ UNCHANGED << mtxvars, stage >>
    BY <1>1, <2>1, HandlersAreSound DEF IInv, HandlerEffect, mtxvars
  <2>2. CASE task_bully
    BY <1>1, <2>2, NapSleeps DEF task_bully, mtxvars
  <2> QED BY <2>1, <2>2
<1>3. holds[M] = {}
  BY <1>1 DEF IInv, TypeOK, HolderOwns, DemoInv, OthersStayOut
<1>4. \A t \in Tasks : k'.state[t] = "Blocked" => k.state[t] = "Blocked" \/ holds[t] = {}
  BY <1>2, <1>3
<1>5. \A t \in {L, H} : stage[t] = "sleep" => at[t] = "out"
  BY DEF DemoInv, PlayersAreAwake
<1> QED BY <1>2, <1>4, <1>5, DemoIsQuiet

\* A player naps with empty hands, and only asks for the lock awake.
LEMMA DemoKeepsAsking ==
  ASSUME InversionAssumption, DemoInv, NEW t \in {L, H},
         task_sleeps(t) \/ task_locks(t) \/ (FillNode(t) /\ UNCHANGED stage)
  PROVE  PlayersAreAwake' /\ OthersStayOut' /\ stage' \in [{L, H} -> {"sleep", "lock"}]
<1>1. /\ IInv /\ {L, H} \subseteq Tasks /\ t \in Tasks
      /\ stage \in [{L, H} -> {"sleep", "lock"}] /\ at \in [Tasks -> {"out", "door", "loop"}]
  BY DEF DemoInv, InversionAssumption, IInv, TypeOK
<1>2. CASE task_sleeps(t)
  <2>1. /\ stage[t] = "sleep" /\ stage' = [stage EXCEPT ![t] = "lock"]
        /\ owner' = owner /\ holds' = holds /\ at' = at
        /\ \A u \in Tasks \ {t} : k'.state[u] = k.state[u]
    BY <1>1, <1>2, NapSleeps DEF task_sleeps, mtxvars
  <2>2. holds[t] = {}
    BY <2>1 DEF DemoInv, PlayersAreAwake
  <2>3. PlayersAreAwake'
    BY <1>1, <2>1, <2>2 DEF DemoInv, PlayersAreAwake
  <2>4. OthersStayOut'
    BY <2>1 DEF DemoInv, OthersStayOut
  <2> QED BY <1>1, <2>1, <2>3, <2>4
<1>3. CASE task_locks(t) \/ (FillNode(t) /\ UNCHANGED stage)
  <2>1. /\ stage' = stage /\ owner' = owner /\ holds' = holds /\ k' = k
        /\ \/ stage[t] = "lock" /\ at' = [at EXCEPT ![t] = "door"]
           \/ at[t] = "door" /\ at' = [at EXCEPT ![t] = "loop"]
    BY <1>3 DEF task_locks, CallLock, FillNode, sysvars
  <2>2. \A u \in Tasks \ {L, H} : at'[u] = at[u]
    BY <1>1, <2>1
  <2>3. \A u \in {L, H} : stage[u] = "sleep" => at'[u] = "out"
    BY <1>1, <2>1 DEF DemoInv, PlayersAreAwake
  <2> QED BY <1>1, <2>1, <2>2, <2>3, DemoIsQuiet
<1> QED BY <1>2, <1>3

\* A turn of lock(): a player that gets the mutex is awake, one that goes to
\* sleep for it has none.
LEMMA DemoKeepsWaiting ==
  ASSUME InversionAssumption, DemoInv, NEW t \in {L, H}, lock(t), stage' = stage
  PROVE  PlayersAreAwake' /\ OthersStayOut'
<1>1. /\ IInv /\ LInv /\ {L, H} \subseteq Tasks /\ t \in Tasks
      /\ at \in [Tasks -> {"out", "door", "loop"}]
      /\ holds \in [Tasks -> SUBSET Mutexes] /\ owner \in [Mutexes -> Tasks \cup {None}]
  BY DEF DemoInv, InversionAssumption, IInv, TypeOK
<1>2. CASE LockTakes(t)
  <2> DEFINE m == want[t]
  <2>1. /\ Runs(t) /\ at[t] = "loop" /\ k' = k
        /\ owner' = [owner EXCEPT ![m] = t] /\ at' = [at EXCEPT ![t] = "out"]
        /\ holds' = [holds EXCEPT ![t] = @ \cup {m}]
    BY <1>2 DEF LockTakes, take
  <2>2. k.state[t] = "Running" /\ m \in Mutexes
    BY <1>1, <2>1, RunnerFacts DEF IInv, TypeOK
  <2>3. stage[t] # "sleep"
    BY <2>1 DEF DemoInv, PlayersAreAwake
  <2> HIDE DEF m
  <2>4. PlayersAreAwake'
    BY <1>1, <2>1, <2>2, <2>3 DEF DemoInv, PlayersAreAwake
  <2>5. OthersStayOut'
    BY <1>1, <2>1, <2>2 DEF DemoInv, OthersStayOut
  <2> QED BY <2>4, <2>5
<1>3. CASE LockWaits(t)
  <2>1. UNCHANGED << owner, at, holds >> /\ at[t] = "loop"
    BY <1>3 DEF LockWaits
  <2>2. k'.state = [k.state EXCEPT ![t] = "Blocked"]
    BY <1>1, <1>3, InheritFacts
  <2>3. k.state \in [Threads -> TaskState]
    BY <1>1 DEF IInv, SystemSound, SystemType, IsKernel, KernelType
  <2>4. holds[t] = {}
    BY <1>1, <2>1 DEF LInv, OneAtATime
  <2>5. \A u \in Tasks : k'.state[u] = "Blocked" => k.state[u] = "Blocked" \/ holds[u] = {}
    BY <2>2, <2>3, <2>4 DEF Threads
  <2>6. \A u \in {L, H} : stage[u] = "sleep" => at'[u] = "out"
    BY <2>1 DEF DemoInv, PlayersAreAwake
  <2>7. \A u \in Tasks \ {L, H} : at'[u] = at[u]
    BY <2>1
  <2> QED BY <2>1, <2>5, <2>6, <2>7, DemoIsQuiet
<1> QED BY <1>1, <1>2, <1>3, LockTakesOrWaits

\* An unlock leaves empty hands, and wakes the player it hands the mutex to.
LEMMA DemoKeepsUnlocking ==
  ASSUME InversionAssumption, DemoInv, NEW t \in {L, H}, task_unlocks(t)
  PROVE  PlayersAreAwake' /\ OthersStayOut' /\ stage' \in [{L, H} -> {"sleep", "lock"}]
<1> DEFINE m == g_theater
<1>1. /\ IInv /\ LInv /\ {L, H} \subseteq Tasks /\ t \in Tasks /\ m \in Mutexes
      /\ holds \in [Tasks -> SUBSET Mutexes] /\ owner \in [Mutexes -> Tasks \cup {None}]
      /\ stage \in [{L, H} -> {"sleep", "lock"}]
  BY DEF DemoInv, InversionAssumption, IInv, TypeOK
<1>2. /\ unlock(t, m) /\ stage' = [stage EXCEPT ![t] = "sleep"]
      /\ Runs(t) /\ at[t] = "out" /\ owner[m] = t /\ at' = at
      /\ holds' = [holds EXCEPT ![t] = @ \ {m}]
  BY DEF task_unlocks, unlock, MayUnlock
<1>3. holds'[t] = {}
  <2>1. m \in holds[t]
    BY <1>1, <1>2 DEF IInv, OwnerIsAwake
  <2>2. \A n \in holds[t] : n = m
    BY <1>1, <2>1 DEF LInv, OneAtATime
  <2> QED BY <1>1, <1>2, <2>2
<1>4. /\ \A u \in Tasks : k'.state[u] = "Blocked" => k.state[u] = "Blocked"
      /\ \A n \in Mutexes : owner'[n] = owner[n] \/ owner'[n] \in {L, H, None}
  <2>1. CASE UnlockHands(t, m)
    <3>1. /\ owner' = [owner EXCEPT ![m] = HeadOf(m)]
          /\ k'.state[HeadOf(m)] # "Blocked"
          /\ \A u \in Threads \ {HeadOf(m)} : k'.state[u] = k.state[u]
      BY <1>1, <1>2, <2>1, HandOverFacts DEF UnlockHands
    <3>2. HeadOf(m) \in Tasks /\ at[HeadOf(m)] = "loop"
      BY <1>1, <2>1, HeadFacts DEF UnlockHands
    <3>3. HeadOf(m) \in {L, H}
      BY <3>2 DEF DemoInv, OthersStayOut
    <3> QED BY <1>1, <3>1, <3>3 DEF Threads
  <2>2. CASE UnlockFrees(t, m)
    <3>1. owner' = [owner EXCEPT ![m] = None] /\ k' = restore(t, m)
      BY <2>2 DEF UnlockFrees
    <3>2. k'.state = k.state
      BY <1>1, <1>2, <3>1, RestoreFacts
    <3> QED BY <1>1, <3>1, <3>2
  <2> QED BY <1>1, <1>2, <2>1, <2>2, UnlockHandsOrFrees
<1> HIDE DEF m
<1>5. PlayersAreAwake'
  <2> SUFFICES ASSUME NEW u \in {L, H}
               PROVE  /\ stage'[u] = "sleep" => at'[u] = "out" /\ holds'[u] = {}
                      /\ holds'[u] # {} => k'.state[u] # "Blocked"
    BY DEF PlayersAreAwake
  <2>1. CASE u = t
    BY <1>2, <1>3, <2>1
  <2>2. CASE u # t
    <3>1. stage'[u] = stage[u] /\ holds'[u] = holds[u] /\ at'[u] = at[u]
      BY <1>1, <1>2, <2>2
    <3> QED BY <1>1, <1>4, <3>1 DEF DemoInv, PlayersAreAwake
  <2> QED BY <2>1, <2>2
<1>6. OthersStayOut'
  BY <1>2, <1>4, TasksAssumption DEF DemoInv, OthersStayOut
<1> QED BY <1>1, <1>2, <1>5, <1>6

\* No step of the demo breaks it.
LEMMA DemoStep ==
  ASSUME InversionAssumption, DemoInv, [DemoNext]_demovars
  PROVE  DemoInv'
<1>1. [Next]_vars
  BY DemoIsMutex
<1>2. IInv' /\ LInv' /\ ~nests'
  BY <1>1, NextIInv, NextLInv, NestsIsFixed DEF DemoInv
<1>3. PlayersAreAwake' /\ OthersStayOut' /\ stage' \in [{L, H} -> {"sleep", "lock"}]
  <2>1. CASE (Handlers /\ UNCHANGED << mtxvars, stage >>) \/ task_bully
    BY <2>1, DemoKeepsAside DEF DemoInv
  <2>2. ASSUME NEW t \in {L, H}, Act(t)
        PROVE  PlayersAreAwake' /\ OthersStayOut' /\ stage' \in [{L, H} -> {"sleep", "lock"}]
    <3>1. CASE task_sleeps(t) \/ task_locks(t) \/ (FillNode(t) /\ UNCHANGED stage)
      BY <3>1, DemoKeepsAsking
    <3>2. CASE lock(t) /\ UNCHANGED stage
      BY <3>2, DemoKeepsWaiting DEF DemoInv
    <3>3. CASE task_unlocks(t)
      BY <3>3, DemoKeepsUnlocking
    <3> QED BY <2>2, <3>1, <3>2, <3>3 DEF Act, task_waits, LockTurn
  <2>3. CASE UNCHANGED demovars
    <3>1. UNCHANGED << k, at, holds, owner, stage >>
      BY <2>3 DEF demovars, vars, sysvars, mtxvars
    <3> QED BY <3>1 DEF DemoInv, PlayersAreAwake, OthersStayOut
  <2> QED BY <2>1, <2>2, <2>3 DEF DemoNext
<1> QED BY <1>2, <1>3 DEF DemoInv

\* The inversion demo: while the urgent task sleeps in lock() the middle one
\* does not execute, because the holder is awake and wears the waiter's level.
THEOREM MiddleStaysSilent ==
  ASSUME InversionAssumption
  PROVE  DemoSpec => []MiddleIsSilent
<1>1. DemoInit => DemoInv
  BY DemoStarts
<1>2. DemoInv /\ [DemoNext]_demovars => DemoInv'
  BY DemoStep
<1>3. DemoInv => MiddleIsSilent
  <2> SUFFICES ASSUME DemoInv, k.state[H] = "Blocked", at[H] = "loop"
               PROVE  ~Runs(M)
    BY DEF MiddleIsSilent
  <2> DEFINE m == want[H]
  <2>1. /\ IInv /\ LInv /\ ~nests /\ H \in Tasks /\ M \in Tasks /\ M \notin {L, H}
        /\ m \in Mutexes /\ Prio[H] < Prio[M]
    BY DEF DemoInv, InversionAssumption, IInv, TypeOK
  <2>2. waiters[m] \in Seq(Tasks) /\ owner[m] \in Tasks \cup {None}
    BY <2>1 DEF IInv, TypeOK
  <2>3. H \in ToSet(waiters[m])
    BY <2>1 DEF IInv, WaitersAreTheSleepers
  <2>4. Contains(waiters[m], H)
    BY <2>2, <2>3, ListedIsContained
  <2> HIDE DEF m
  <2>5. owner[m] # None /\ owner[m] # H
    BY <2>1, <2>4, WaiterIsPlain DEF IInv, FreeIsBare, Contains
  <2>6. owner[m] = L
    BY <2>1, <2>2, <2>5 DEF DemoInv, OthersStayOut
  <2>7. k.state[owner[m]] # "Blocked"
    BY <2>1, <2>2, <2>5, <2>6 DEF IInv, OwnerIsAwake, DemoInv, PlayersAreAwake
  <2>8. \A n \in Mutexes : owner[n] # M
    BY <2>1 DEF DemoInv, OthersStayOut
  <2>9. InversionIsBounded
    BY <2>1, LoansBoundInversion
  <2> QED BY <2>1, <2>3, <2>7, <2>8, <2>9 DEF InversionIsBounded
<1> QED BY <1>1, <1>2, <1>3, PTL DEF DemoSpec

=============================================================================
