----------------------------- MODULE Inversion -----------------------------
(***************************************************************************)
(* The priority-inversion demo (example/inversion) on Mutex: L takes the   *)
(* lock and holds it busily, H comes for it, M never touches it and hogs   *)
(* the processor in between.  Nothing makes M ever sleep.                  *)
(***************************************************************************)
EXTENDS Mutex

CONSTANTS L, H, M, g_theater

\* H is more urgent than M, which never touches the lock.  The instances are
\* checked for it.
InversionAssumption ==
  /\ {L, H, M} \subseteq Tasks /\ L # H /\ M \notin {L, H}
  /\ Prio[H] < Prio[M]
  /\ g_theater \in Mutexes

VARIABLE stage   \* what L and H do next when they hold nothing

demovars == << vars, stage >>

DemoBuilt == Built /\ nests = FALSE /\ stage = [t \in {L, H} |-> "sleep"]

DemoInit == SystemInit /\ DemoBuilt

task_sleeps(t) ==
  /\ stage[t] = "sleep"
  /\ Nap(t)
  /\ stage' = [stage EXCEPT ![t] = "lock"]

task_locks(t) ==
  /\ stage[t] = "lock" /\ holds[t] = {}
  /\ CallLock(t, g_theater)
  /\ UNCHANGED stage

\* The busy loop of L, and H's print, end with the unlock.
task_unlocks(t) ==
  /\ unlock(t, g_theater)
  /\ stage' = [stage EXCEPT ![t] = "sleep"]

task_bully == Nap(M) /\ UNCHANGED stage

task_waits(t) == LockTurn(t) /\ UNCHANGED stage

Act(t) == task_sleeps(t) \/ task_locks(t) \/ task_waits(t) \/ task_unlocks(t)

DemoNext ==
  \/ Handlers /\ UNCHANGED << mtxvars, stage >>
  \/ task_bully
  \/ \E t \in {L, H} : Act(t)

DemoSpec == DemoInit /\ [][DemoNext]_demovars

-----------------------------------------------------------------------------
\* While H sleeps in lock(), M does not execute: L wears H's level, and M is
\* silent for the rest of the busy window.
MiddleIsSilent == k.state[H] = "Blocked" /\ at[H] = "loop" => ~Runs(M)

\* H gets the lock it wants although M may never give up the processor.
UrgentGetsTheLock == at[H] # "out" ~> g_theater \in holds[H]

=============================================================================
