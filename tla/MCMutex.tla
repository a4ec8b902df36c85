------------------------------ MODULE MCMutex ------------------------------
(***************************************************************************)
(* Three levels.  Clients that hold one mutex at a time come with a peer   *)
(* on the middle level; clients that nest come one to a level, and for     *)
(* them there are two mutexes.                                             *)
(***************************************************************************)
EXTENDS Mutex

CONSTANTS t1, t2, t3, t4, v1, m1, m2

MCTasks == {t1, t2, t3, t4}
MCLetters == {v1}
MCMutexes == {m1, m2}
MCPrio == [t \in MCTasks |-> CASE t = t1 -> 2 [] t \in {t2, t3} -> 1 [] t = t4 -> 0]

MCInit ==
  /\ nests \in BOOLEAN
  /\ Spawned(IF nests THEN MCTasks \ {t3} ELSE MCTasks, Prio)
  /\ Built

MCNext ==
  /\ Next
  /\ nests \/ \A t \in Tasks : at[t] = "out" /\ at'[t] = "door" => want'[t] = m1

MCSpec == MCInit /\ [][MCNext]_vars

=============================================================================
