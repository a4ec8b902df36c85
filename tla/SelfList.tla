------------------------------ MODULE SelfList ------------------------------
(***************************************************************************)
(* The intrusive list of base/self_list.hpp, pointer by pointer.  insert   *)
(* and remove walk the chain a slot at a time, so their loops are steps    *)
(* here; the list is used inside critical sections, so a walk is never     *)
(* interleaved with another call.                                          *)
(*                                                                         *)
(* The slot pointer of the code is the address of head or of some node's   *)
(* next_; prev names that node, Null standing for head itself.             *)
(***************************************************************************)
EXTENDS Integers, Sequences, SequencesExt, FiniteSets

CONSTANTS Nodes, Null, Key

\* What the constants have to be; the instances are checked for it.
NodesAssumption ==
  /\ IsFiniteSet(Nodes) /\ Null \notin Nodes
  /\ Key \in [Nodes -> Int]

VARIABLES head,   \* stuff
          tail,   \* tail_
          next,   \* next_ of every node
          op,     \* the call in progress
          arg,    \* its argument
          prev    \* the node whose next_ is the slot, or Null for head

vars == << head, tail, next, op, arg, prev >>

Pointer == Nodes \cup {Null}

Init ==
  /\ head = Null /\ tail = Null
  /\ next = [n \in Nodes |-> Null]
  /\ op = "none" /\ arg = Null /\ prev = Null

\* *slot
Slot == IF prev = Null THEN head ELSE next[prev]

\* *slot = n, in a chain whose next_ fields are nx
StoreSlot(nx, n) ==
  /\ head' = IF prev = Null THEN n ELSE head
  /\ next' = IF prev = Null THEN nx ELSE [nx EXCEPT ![prev] = n]

\* The chain as its readers see it: follow next_ from the head.
Walk ==
  LET at[i \in 1 .. Cardinality(Nodes)] ==
        IF i = 1 THEN head
        ELSE IF at[i - 1] = Null THEN Null ELSE next[at[i - 1]]
      met == {i \in 1 .. Cardinality(Nodes) : at[i] # Null}
  IN  [i \in 1 .. Cardinality(met) |-> at[i]]

Linked(n) == Contains(Walk, n)

-----------------------------------------------------------------------------
\* A call that walks begins at the head.  Callers link only nodes that are in
\* no list; they remove any node.
Begin(call, n) ==
  /\ op = "none"
  /\ op' = call /\ arg' = n /\ prev' = Null
  /\ UNCHANGED << head, tail, next >>

BeginInsert(n) == ~Linked(n) /\ Begin("insert", n)
BeginRemove(n) == Begin("remove", n)

Return == op' = "none" /\ arg' = Null /\ prev' = Null

\* while (*slot && !less_(*new_stuff, **slot)) slot = &(*slot)->next_;
InsertWalks ==
  /\ op = "insert"
  /\ Slot # Null
  /\ ~(Key[arg] < Key[Slot])
  /\ prev' = Slot
  /\ UNCHANGED << head, tail, next, op, arg >>

insert_before_equals ==
  /\ op = "insert"
  /\ Slot # Null => Key[arg] <= Key[Slot]
  /\ StoreSlot([next EXCEPT ![arg] = Slot], arg)
  /\ tail' = IF Slot = Null THEN arg ELSE tail
  /\ Return

insert_stores_slot_first ==
  /\ op = "insert"
  /\ Slot # Null => Key[arg] < Key[Slot]
  /\ StoreSlot([next EXCEPT ![arg] = arg], arg)
  /\ tail' = IF Slot = Null THEN arg ELSE tail
  /\ Return

insert ==
  /\ op = "insert"
  /\ Slot # Null => Key[arg] < Key[Slot]
  /\ StoreSlot([next EXCEPT ![arg] = Slot], arg)
  /\ tail' = IF Slot = Null THEN arg ELSE tail
  /\ Return

RemoveWalks ==
  /\ op = "remove"
  /\ Slot \notin {Null, arg}
  /\ prev' = Slot
  /\ UNCHANGED << head, tail, next, op, arg >>

\* The slot holds the node: unlink it.  Or the walk met the end: not here.
remove ==
  /\ op = "remove"
  /\ \/ /\ Slot = arg
        /\ StoreSlot([next EXCEPT ![arg] = Null], next[arg])
        /\ tail' = IF arg = tail THEN prev ELSE tail
     \/ /\ Slot = Null
        /\ UNCHANGED << head, tail, next >>
  /\ Return

push_back(n) ==
  /\ op = "none" /\ ~Linked(n)
  /\ head' = IF tail = Null THEN n ELSE head
  /\ next' = [m \in Nodes |-> CASE m = n -> Null
                                [] m = tail -> n
                                [] OTHER -> next[m]]
  /\ tail' = n
  /\ UNCHANGED << op, arg, prev >>

push_front(n) ==
  /\ op = "none" /\ ~Linked(n)
  /\ next' = [next EXCEPT ![n] = head]
  /\ head' = n
  /\ tail' = IF tail = Null THEN n ELSE tail
  /\ UNCHANGED << op, arg, prev >>

pop_head ==
  /\ op = "none" /\ head # Null
  /\ head' = next[head]
  /\ tail' = IF next[head] = Null THEN Null ELSE tail
  /\ next' = [next EXCEPT ![head] = Null]
  /\ UNCHANGED << op, arg, prev >>

-----------------------------------------------------------------------------
Finish == insert \/ remove
Step == InsertWalks \/ RemoveWalks \/ Finish

Next ==
  \/ Step
  \/ pop_head
  \/ \E n \in Nodes : BeginInsert(n) \/ BeginRemove(n) \/ push_back(n) \/ push_front(n)

Spec == Init /\ [][Next]_vars

-----------------------------------------------------------------------------
(* Properties.                                                             *)

\* Every variable holds a value of its type, and a walk never stands on the
\* node it is about.
TypeOK ==
  /\ head \in Pointer /\ tail \in Pointer
  /\ next \in [Nodes -> Pointer]
  /\ op \in {"none", "insert", "remove"}
  /\ arg \in Pointer /\ prev \in Pointer
  /\ op # "none" => arg \in Nodes /\ prev # arg

\* tail_ is the node a walk from the head meets last, whatever mixture of
\* calls linked and unlinked it: push_back relies on it without looking.
TailIsLast == tail = IF head = Null THEN Null ELSE Last(Walk)

Promise == INSTANCE ListSpec WITH list <- Walk

\* The pointers behave as a sequence: no step loses, repeats or reorders a
\* node, and a walk that has not ended shows nothing of itself.
ImplementsListSpec == Promise!Spec

\* Each call has the effect it is named for, in every list it can meet: in
\* particular sorted insertion is stable and push_back finds the end.
CallsDoWhatTheySay ==
  [][ /\ insert => Promise!Link(arg)
      /\ remove => Promise!Unlink(arg)
      /\ \A n \in Nodes : push_back(n) => Promise!PushBack(n)
      /\ \A n \in Nodes : push_front(n) => Promise!PushFront(n)
      /\ pop_head => Promise!PopHead ]_vars

\* insert and remove run inside a critical section with interrupts masked:
\* their walks end, so no chain ever turns into a circle.
WalkEnds == op # "none" ~> op = "none"

=============================================================================
