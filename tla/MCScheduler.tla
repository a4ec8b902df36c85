---------------------------- MODULE MCScheduler ----------------------------
(***************************************************************************)
(* Three tasks on two levels with a two-tick slice: two peers of one level *)
(* and a third above, beside or below them, which is what preemption,      *)
(* rotation and re-queueing tell apart.  Priorities move in any way, or    *)
(* only as a waiter moves them: boosts tells which, for a whole behaviour. *)
(***************************************************************************)
EXTENDS Scheduler

CONSTANTS t1, t2, t3, v1

VARIABLE boosts

MCTasks == {t1, t2, t3}
MCLetters == {v1}

SchedulerInit == Init /\ boosts \in BOOLEAN

SchedulerNext ==
  /\ (~boosts /\ Next) \/ (boosts /\ BoostNext)
  /\ UNCHANGED boosts

SchedulerSpec == SchedulerInit /\ [][SchedulerNext]_<< vars, boosts >> /\ HandlerFairness

-----------------------------------------------------------------------------

\* Strict priority, where priorities only move as waiters move them: when no
\* switch is pending, no Ready task outranks the one that runs.
NobodyOutranks == boosts => StrictPriority

\* Round robin, where priorities only move as waiters move them: a Ready task
\* gets the processor, unless at some moment a task of higher priority wants
\* it.  Peers of its own level cannot keep it out.
RoundRobin ==
  \A t \in Tasks :
    (boosts /\ t \in spawned /\ k.state[t] = "Ready") ~> (k.current = t \/ Outranked(t))

=============================================================================
