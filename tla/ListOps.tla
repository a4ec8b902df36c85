------------------------------ MODULE ListOps ------------------------------
(***************************************************************************)
(* The calls of base/self_list.hpp as operators on the sequence of linked  *)
(* nodes.  The kernel's sorted queues are modelled with them; SelfList     *)
(* shows that the pointers compute the same.                               *)
(***************************************************************************)
EXTENDS Integers, Sequences, SequencesExt

\* Where the walk of insert stops: at the first node of later, the set of the
\* nodes the new one precedes, or behind the last node.
Slot(s, later) ==
  CHOOSE i \in 1 .. Len(s) + 1 :
    /\ i <= Len(s) => s[i] \in later
    /\ \A j \in 1 .. i - 1 : s[j] \notin later

\* Sorted insertion: equal keys stay first come, first served.
Inserted(s, n, later) == InsertAt(s, Slot(s, later), n)

\* SelfList::remove: a node the list does not hold leaves it as it is.
remove(s, n) ==
  IF Contains(s, n) THEN RemoveAt(s, CHOOSE i \in 1 .. Len(s) : s[i] = n) ELSE s

=============================================================================
