--------------------------- MODULE MCApplications ---------------------------
(***************************************************************************)
(* What must eventually happen: the objects of MCSync among peers, and the *)
(* small applications of example/ on top of them, one in each behaviour:   *)
(* a worker for deferred jobs, the measurement demo in its two builds, the *)
(* inversion demo and the round-robin demo.                                *)
(***************************************************************************)
EXTENDS PerfDemo, Spinners

CONSTANTS t1, t2, t3, v1, b1, b2, m1, m2,
          Uses   \* what the behaviours of this instance may be

VARIABLES use,
          count, waiters, semPc,
          bits, evtWaiters, want, evtPc,
          ring, head, stored, room, roomWaiters, roomPc,
          data, dataWaiters, dataPc, stage, hand, received, job,
          owner, saved, boosted, mtxWaiters, at, lockWant, node, holds, nests, act

semvars == << count, waiters, semPc >>
evtvars == << bits, evtWaiters, want, evtPc >>
wrkvars == << ring, head, stored, room, roomWaiters, roomPc,
              data, dataWaiters, dataPc, stage, hand, received, job >>
mtxvars == << owner, saved, boosted, mtxWaiters, at, lockWant, node, holds, nests, act >>
objects == << semvars, evtvars, facevars, wrkvars, demovars, mtxvars, spinPc, share >>
appvars == << use, sysvars, objects >>

MCTasks == {t1, t2, t3}
MCLetters == {v1}
Pair == {t1, t3}
Third == {t3}
OneLevel == [t \in MCTasks |-> 0]

Sem == INSTANCE Semaphore WITH
         Initial <- 0, MaxCount <- 2, Timed <- {t1}, Forever <- {t2, t3}, pc <- semPc

Events == INSTANCE EventGroup WITH
            Bits <- {b1, b2}, Wishes <- [mask : {{b1, b2}}, all : BOOLEAN],
            Timed <- {t3}, Forever <- {t1, t2}, waiters <- evtWaiters, pc <- evtPc

Face == INSTANCE ThisTask WITH Readers <- {t1}, Addressees <- Pair

Jobs == INSTANCE Worker WITH
          Capacity <- 2, Messages <- {m1, m2}, worker <- t2,
          Senders <- {t1}, Patient <- {t2}, Hasty <- {},
          count <- stored, got <- received

InversionPrio == [t \in Tasks |-> CASE t = t1 -> 2 [] t = t2 -> 1 [] OTHER -> 0]

Theater == INSTANCE Inversion WITH
             L <- t1, M <- t2, H <- t3, g_theater <- m1, Mutexes <- {m1},
             Lockers <- Pair, Prio <- InversionPrio,
             waiters <- mtxWaiters, want <- lockWant, stage <- act

\* What each demo takes for granted about its cast.
ASSUME PerfAssumption == CastAssumption
ASSUME TheaterAssumption == Theater!InversionAssumption
ASSUME SpinAssumption == PeersAssumption

\* Who is spawned in each application, and with which priorities.
Clients ==
  CASE use = "worker" -> {t1, t2}
    [] use \in {"events", "face"} -> Pair
    [] OTHER -> Tasks

OneUrgent == [t \in Tasks |-> IF t = t3 THEN 0 ELSE 1]

Ranks ==
  CASE use = "worker" -> [t \in Tasks |-> IF t = t2 THEN 0 ELSE 1]
    [] use \in {"perf", "perf_no_tick"} -> OneUrgent
    [] use = "inversion" -> InversionPrio
    [] OTHER -> OneLevel

AppInit ==
  /\ use \in Uses
  /\ Spawned(Clients, Ranks)
  /\ Sem!Built /\ Events!Built /\ Face!Built /\ Jobs!WorkerBuilt
  /\ DemoBuilt /\ Theater!DemoBuilt /\ SpinBuilt

\* What each application leaves alone.
Only(moved) ==
  /\ moved # "semaphore" => UNCHANGED semvars
  /\ moved # "events" => UNCHANGED evtvars
  /\ moved \notin {"face", "perf"} => UNCHANGED facevars
  /\ moved # "worker" => UNCHANGED wrkvars
  /\ moved # "perf" => UNCHANGED demovars
  /\ moved # "inversion" => UNCHANGED mtxvars
  /\ moved # "spinners" => UNCHANGED << spinPc, share >>
  /\ UNCHANGED use

\* In the build without a tick the processor rests when all have ended; one
\* that ended and still had it would do nothing else.
Rest ==
  /\ use = "perf_no_tick" /\ ~k.pend
  /\ k.current = Idle \/ k.current \in {t \in Tasks : pc[t] = "ended"}
  /\ UNCHANGED appvars

AppNext ==
  \/ use = "semaphore" /\ Sem!Next /\ Only("semaphore")
  \/ use = "events" /\ Events!Next /\ Only("events")
  \/ use = "face" /\ Face!WaitersNext /\ Only("face")
  \/ use = "worker" /\ Jobs!WorkerNext /\ Only("worker")
  \/ use = "perf" /\ TickNext /\ Only("perf")
  \/ use = "perf_no_tick" /\ DemoNext /\ Only("perf")
  \/ use = "inversion" /\ Theater!DemoNext /\ Only("inversion")
  \/ use = "spinners" /\ SpinNext /\ Only("spinners")
  \/ Rest

-----------------------------------------------------------------------------
(* Fairness.                                                               *)

\* The processor takes its exceptions, SysTick among them.
Handled(A) ==
  /\ use \in {"semaphore", "events", "face", "worker", "inversion"}
  /\ A
  /\ UNCHANGED << use, objects >>

\* A task inside a call, or one whose code goes on by itself, gets on with it
\* when it is given the processor again and again: a slice is far longer than
\* a critical section.  Who makes calls as it pleases owes nothing.
GetsOn(t) ==
  \/ use = "semaphore" /\ Sem!Turn(t) /\ Only("semaphore")
  \/ use = "events" /\ Events!Turn(t) /\ Only("events")
  \/ use = "face" /\ Face!Turn(t) /\ Only("face")
  \/ use = "worker" /\ t = t2 /\ Jobs!Loop /\ Only("worker")
  \/ use = "inversion" /\ t \in Pair /\ Theater!Act(t) /\ Only("inversion")

\* Without a tick nothing but the tasks themselves moves the demo.
DemoGoesOn == use = "perf_no_tick" /\ DemoNext /\ Only("perf")

\* Ticks go on: no deadline stays ahead, no alarm stays booked for ever.
TimeGoesOn ==
  use \in {"semaphore", "events", "face", "worker", "inversion"} =>
    \A t \in Tasks : []<>(~ahead[t]) /\ []<>(alarm[t] # "stale")

AppSpec ==
  /\ AppInit /\ [][AppNext]_appvars
  /\ WF_appvars(Handled(SVC_Handler))
  /\ WF_appvars(Handled(PendSV_Handler))
  /\ WF_appvars(Handled(SysTick_Elapsed))
  /\ WF_appvars(Handled(SysTick_on_tick))
  /\ WF_appvars(DemoGoesOn)
  /\ \A t \in Tasks : SF_appvars(GetsOn(t))
  /\ TimeGoesOn

-----------------------------------------------------------------------------

\* Every wait that has a bound ends: for a unit, for bits, for a letter although
\* that may fall between probe and sleep, and, in the inversion demo, for the
\* lock, since its holder is lent the waiter's priority.
WaitsEnd ==
  /\ Sem!TimedWaitEnds /\ Events!TimedWaitEnds
  /\ use = "face" => Face!WaitEnds
  /\ Theater!UrgentGetsTheLock

\* What is offered is taken: a unit does not lie beside sleepers for ever, and
\* bits that stay lit are seen.
OffersAreTaken == Sem!UnitIsTaken /\ Events!LitBitsAreSeen

\* Work that was taken on is done: every accepted job is run, a full ring does
\* not stay full, and the measurement demo reports even without a tick.
JobsAreDone ==
  /\ Jobs!AcceptedJobRuns /\ Jobs!RingDrains
  /\ use = "perf_no_tick" => ReportComesOut

=============================================================================
