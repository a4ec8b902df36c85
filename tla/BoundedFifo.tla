---------------------------- MODULE BoundedFifo ----------------------------
(***************************************************************************)
(* What a message queue promises: a bounded first-in first-out queue.      *)
(***************************************************************************)
EXTENDS Integers, Sequences

CONSTANTS Messages, Readers, Capacity, Nothing

VARIABLES q,     \* the messages posted and not yet received
          out    \* what each reader received last

Init == q = << >> /\ out = [r \in Readers |-> Nothing]

Put(msg) ==
  /\ Len(q) < Capacity
  /\ q' = Append(q, msg)
  /\ UNCHANGED out

Get(r) ==
  /\ q # << >>
  /\ out' = [out EXCEPT ![r] = Head(q)]
  /\ q' = Tail(q)

Next == (\E msg \in Messages : Put(msg)) \/ (\E r \in Readers : Get(r))

Spec == Init /\ [][Next]_<< q, out >>

=============================================================================
