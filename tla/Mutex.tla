------------------------------- MODULE Mutex -------------------------------
(***************************************************************************)
(* The mutex of kernel/sync/mutex.hpp: the most urgent waiter lends its    *)
(* priority to the owner, and unlock hands the mutex over to it.  A waiter *)
(* node lives on its task's stack, so it is named by its task; node[t] is  *)
(* the priority it was filled in with.  The clients lock, unlock and sleep *)
(* as they please, whatever they hold; nests says whether this application *)
(* is one in which a task that holds a mutex asks for another.             *)
(***************************************************************************)
EXTENDS TaskSystem

CONSTANTS Mutexes,
          Lockers    \* the tasks that call lock and unlock

ASSUME MutexesAssumption == Mutexes # {}

VARIABLES owner,     \* owner_ of each mutex
          saved,     \* saved_prio_
          boosted,   \* boosted_
          waiters,   \* waiters_, most urgent first
          at,        \* how far each task is in lock()
          want,      \* the mutex it is locking
          node,      \* me.prio_
          holds,     \* the mutexes lock() said Ok for, not yet unlocked
          nests      \* whether clients lock with a mutex in their hands

mtxvars == << owner, saved, boosted, waiters, at, want, node, holds, nests >>
vars == << sysvars, mtxvars >>

Built ==
  /\ owner = [m \in Mutexes |-> None]
  /\ saved = [m \in Mutexes |-> 0]
  /\ boosted = [m \in Mutexes |-> FALSE]
  /\ waiters = [m \in Mutexes |-> << >>]
  /\ at = [t \in Tasks |-> "out"]
  /\ want = [t \in Tasks |-> CHOOSE m \in Mutexes : TRUE]
  /\ node = Prio
  /\ holds = [t \in Tasks |-> {}]

Init == SystemInit /\ Built /\ nests \in BOOLEAN

-----------------------------------------------------------------------------
(* lock.                                                                   *)

\* At the door, once: a mutex the caller owns is refused, nothing changes.
CallLock(t, m) ==
  /\ Runs(t) /\ t \in Lockers /\ at[t] = "out"
  /\ owner[m] # t
  /\ nests \/ holds[t] = {}
  /\ at' = [at EXCEPT ![t] = "door"]
  /\ want' = [want EXCEPT ![t] = m]
  /\ UNCHANGED << sysvars, owner, saved, boosted, waiters, node, holds, nests >>

\* The node is filled in outside any critical section.
FillNode(t) ==
  /\ Runs(t) /\ at[t] = "door"
  /\ at' = [at EXCEPT ![t] = "loop"]
  /\ node' = [node EXCEPT ![t] = k.prio[t]]
  /\ UNCHANGED << sysvars, owner, saved, boosted, waiters, want, holds, nests >>

LessUrgent_or_equal(t) == {u \in Tasks : node[t] <= node[u]}

\* ByPrio: the nodes a fresh one goes before.
LessUrgent(t) == {u \in Tasks : node[t] < node[u]}

no_inherit(t, m) == k' = block(k, t) /\ UNCHANGED << saved, boosted >>

inherit_saves_again(t, m) ==
  IF k.prio[owner[m]] > k.prio[t]
  THEN /\ saved' = [saved EXCEPT ![m] = k.prio[owner[m]]]
       /\ boosted' = [boosted EXCEPT ![m] = TRUE]
       /\ k' = block(reprioritize(k, owner[m], k.prio[t]), t)
  ELSE /\ k' = block(k, t)
       /\ UNCHANGED << saved, boosted >>

\* Lend the caller's level to a less urgent owner, then sleep.
inherit(t, m) ==
  IF k.prio[owner[m]] > k.prio[t]
  THEN /\ saved' = [saved EXCEPT ![m] = IF boosted[m] THEN @ ELSE k.prio[owner[m]]]
       /\ boosted' = [boosted EXCEPT ![m] = TRUE]
       /\ k' = block(reprioritize(k, owner[m], k.prio[t]), t)
  ELSE /\ k' = block(k, t)
       /\ UNCHANGED << saved, boosted >>

take(t, m) ==
  /\ owner' = [owner EXCEPT ![m] = t]
  /\ waiters' = [waiters EXCEPT ![m] = remove(@, t)]
  /\ at' = [at EXCEPT ![t] = "out"]
  /\ holds' = [holds EXCEPT ![t] = @ \cup {m}]

\* One turn of the loop: the mutex is free or was handed over, or wait.
lock(t) ==
  LET m == want[t]
  IN  /\ Runs(t) /\ at[t] = "loop"
      /\ \/ /\ owner[m] \in {t, None}
            /\ take(t, m)
            /\ UNCHANGED << sysvars, saved, boosted >>
         \/ /\ owner[m] \notin {t, None}
            /\ waiters' = [waiters EXCEPT ![m] = Inserted(@, t, LessUrgent(t))]
            /\ inherit(t, m)
            /\ UNCHANGED << mode, alarm, ahead, owner, at, holds >>
      /\ UNCHANGED << want, node, nests >>

-----------------------------------------------------------------------------
(* unlock.                                                                 *)

\* The caller's own level comes back.
restore(t, m) == IF boosted[m] THEN reprioritize(k, t, saved[m]) ELSE k

hand_over_before_restore(q, m) ==
  /\ waiters' = [waiters EXCEPT ![m] = Tail(@)]
  /\ owner' = [owner EXCEPT ![m] = Head(waiters[m])]
  /\ boosted' = [boosted EXCEPT ![m] = FALSE]
  /\ k' = reprioritize(ready(k, Head(waiters[m])), k.current, q.prio[k.current])
  /\ UNCHANGED saved

\* The first waiter becomes the owner; it may inherit from the next one.
hand_over(q, m) ==
  LET head == Head(waiters[m])
      rest == Tail(waiters[m])
      lend == rest # << >> /\ node[Head(rest)] < q.prio[head]
  IN  /\ waiters' = [waiters EXCEPT ![m] = rest]
      /\ owner' = [owner EXCEPT ![m] = head]
      /\ saved' = [saved EXCEPT ![m] = IF lend THEN q.prio[head] ELSE @]
      /\ boosted' = [boosted EXCEPT ![m] = lend]
      /\ k' = ready(IF lend THEN reprioritize(q, head, node[Head(rest)]) ELSE q, head)

AnyoneMayUnlock(t, m) == owner[m] # None

MayUnlock(t, m) == owner[m] = t

\* Anybody else's call is refused and changes nothing.
unlock(t, m) ==
  /\ Runs(t) /\ at[t] = "out"
  /\ MayUnlock(t, m)
  /\ \/ /\ waiters[m] # << >>
        /\ hand_over(restore(t, m), m)
     \/ /\ waiters[m] = << >>
        /\ k' = restore(t, m)
        /\ boosted' = [boosted EXCEPT ![m] = FALSE]
        /\ owner' = [owner EXCEPT ![m] = None]
        /\ UNCHANGED << saved, waiters >>
  /\ holds' = [holds EXCEPT ![t] = @ \ {m}]
  /\ UNCHANGED << mode, alarm, ahead, at, want, node, nests >>

-----------------------------------------------------------------------------
\* A client sleeps, perhaps with mutexes in its hands.
Nap(t) ==
  /\ Runs(t) /\ at[t] = "out"
  /\ sleep_for(t)
  /\ ahead' = [ahead EXCEPT ![t] = TRUE]
  /\ UNCHANGED << mode, mtxvars >>

LockTurn(t) == FillNode(t) \/ lock(t)

Next ==
  \/ Handlers /\ UNCHANGED mtxvars
  \/ \E t \in Tasks :
       \/ LockTurn(t)
       \/ Nap(t)
       \/ \E m \in Mutexes : CallLock(t, m) \/ unlock(t, m)

Spec == Init /\ [][Next]_vars

-----------------------------------------------------------------------------
(* Properties.                                                             *)

\* Every variable holds a value of its type.
TypeOK ==
  /\ SystemType
  /\ owner \in [Mutexes -> Tasks \cup {None}]
  /\ saved \in [Mutexes -> Levels]
  /\ boosted \in [Mutexes -> BOOLEAN]
  /\ waiters \in [Mutexes -> Seq(Tasks)]
  /\ at \in [Tasks -> {"out", "door", "loop"}]
  /\ want \in [Tasks -> Mutexes]
  /\ node \in [Tasks -> Levels]
  /\ holds \in [Tasks -> SUBSET Mutexes]
  /\ nests \in BOOLEAN

\* Two tasks never both have lock()'s Ok for one mutex, whoever calls unlock
\* and whichever waiter it is handed to.
Exclusion == \A t, u \in Tasks : t # u => holds[t] \cap holds[u] = {}

\* No inversion: as long as a waiter is linked, the owner runs at the waiter's
\* level or a more urgent one, also right after a hand-over.  Clients
\* that nest their locks lose it: the unlock of one mutex takes back what a
\* waiter of the other still relies on.
OwnerInheritsFromWaiters ==
  ~nests => \A m \in Mutexes : \A t \in ToSet(waiters[m]) :
              owner[m] # None /\ k.prio[owner[m]] <= k.prio[t]

\* A task with no mutex is back at the level it was spawned with, however many
\* waiters of however many levels had boosted it: restored, not left boosted.
\* saved_prio_ is per mutex, and a task boosted through two may keep a loan.
RestoredNotLeftBoosted ==
  ~nests => \A t \in Tasks : (\A m \in Mutexes : owner[m] # t) => k.prio[t] = Prio[t]

\* The list holds exactly the tasks asleep in lock(): nobody sleeps where no
\* unlock will look for it, and no node stays behind when lock() returns.
WaitersAreTheSleepers ==
  \A m \in Mutexes, t \in Tasks :
    t \in ToSet(waiters[m]) <=>
      at[t] = "loop" /\ want[t] = m /\ k.state[t] = "Blocked"

\* One holder, and the list holds exactly the tasks asleep in lock(): none is
\* forgotten and no node stays behind.
LockIsSound == TypeOK /\ Exclusion /\ WaitersAreTheSleepers

\* A priority is lent as long as a waiter needs it and given back afterwards.
LoansAreHonest == OwnerInheritsFromWaiters /\ RestoredNotLeftBoosted

\* unlock lowers the caller's level and requests no switch for that: the
\* hand-over does, so that no Ready task outranks the runner unnoticed.
\* Clients that nest lose this too: a waiter that was boosted after it had
\* filled in its node lends the owner more than its place in the list says, and
\* the waiter in front of it is too low to ask for the switch.
StrictPriority ==
  ~nests /\ k.current # None /\ ~k.pend =>
    \A l \in k.present : k.prio[k.current] <= l

\* The wait for a lock is not stretched by those who have nothing to do with
\* it: while a task sleeps in lock() and the owner could go on, no task that owns
\* nothing and is less urgent than the sleeper executes.
InversionIsBounded ==
  ~nests => \A m \in Mutexes : \A h \in ToSet(waiters[m]) :
    k.state[owner[m]] # "Blocked" =>
      \A u \in Tasks : Prio[h] < Prio[u] /\ (\A n \in Mutexes : owner[n] # u) => ~Runs(u)

\* A mutex passes to the most urgent of its waiters, by the level each came
\* with, and a newcomer is never linked before a waiter that came with the
\* same: among equals the first one gets it.  What they came with is what they
\* are at, unless they nest.
HandedToTheMostUrgent ==
  [][\A m \in Mutexes :
       /\ waiters[m] # << >> /\ owner'[m] # owner[m] =>
            \A u \in ToSet(waiters[m]) :
              /\ node[owner'[m]] <= node[u]
              /\ ~nests => k.prio[owner'[m]] <= k.prio[u]
       /\ \A i, j \in 1 .. Len(waiters'[m]) :
            /\ waiters'[m][i] \notin ToSet(waiters[m])
            /\ node[waiters'[m][j]] = node[waiters'[m][i]]
            => j <= i]_vars

=============================================================================
