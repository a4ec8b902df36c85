------------------------------ MODULE ListSpec ------------------------------
(***************************************************************************)
(* What base/self_list.hpp promises its users: a sequence of distinct      *)
(* nodes.  SelfList shows that the pointers implement it.                  *)
(***************************************************************************)
EXTENDS Integers, ListOps

CONSTANTS Nodes, Key   \* Key[n]: what the list's comparator looks at

VARIABLE list

-----------------------------------------------------------------------------
Init == list = << >>

Link(n) ==
  /\ ~Contains(list, n)
  /\ list' = Inserted(list, n, {m \in Nodes : Key[n] < Key[m]})

PushBack(n) == ~Contains(list, n) /\ list' = Append(list, n)

PushFront(n) == ~Contains(list, n) /\ list' = << n >> \o list

Unlink(n) == list' = remove(list, n)

PopHead == list # << >> /\ list' = Tail(list)

Next ==
  \/ \E n \in Nodes : Link(n) \/ PushBack(n) \/ PushFront(n) \/ Unlink(n)
  \/ PopHead

Spec == Init /\ [][Next]_list

=============================================================================
