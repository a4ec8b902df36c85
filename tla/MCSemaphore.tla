---------------------------- MODULE MCSemaphore ----------------------------
(***************************************************************************)
(* Three tasks contend, the third more urgent than the other two; a slice  *)
(* is a single tick, so a peer may be switched in between any two          *)
(* sections.                                                               *)
(***************************************************************************)
EXTENDS Semaphore

CONSTANTS t1, t2, t3, v1

MCTasks == {t1, t2, t3}
MCLetters == {v1}
Urgent == [t \in MCTasks |-> IF t = t3 THEN 0 ELSE 1]
OneTimed == {t1}
TwoForever == {t2, t3}

=============================================================================
