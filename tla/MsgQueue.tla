------------------------------ MODULE MsgQueue ------------------------------
(***************************************************************************)
(* The message queue of kernel/sync/msg_queue.hpp: a ring between two      *)
(* semaphores.  Room counts free slots, Data counts messages; both are     *)
(* instances of the Semaphore module on the same tasks.  A sender reserves *)
(* a slot, then copies in a section of its own; a receiver takes a unit,   *)
(* then pops in a section of its own.                                      *)
(***************************************************************************)
EXTENDS TaskSystem, FiniteSets

CONSTANTS Capacity,   \* at least one, a power of two in the code
          Messages,
          Senders,    \* tasks that call post or post_for
          Patient,    \* tasks that call receive_one()
          Hasty       \* tasks that call receive_one(timeout)

VARIABLES ring, head, count,          \* ring_, head_, count_
          room, roomWaiters, roomPc,  \* spaces_
          data, dataWaiters, dataPc,  \* semaphore
          stage,                      \* where each task is in post or receive
          hand,                       \* the message it is posting
          got                         \* the message it received last

ringvars == << ring, head, count >>
roomvars == << room, roomWaiters, roomPc >>
datavars == << data, dataWaiters, dataPc >>
quevars == << ringvars, roomvars, datavars, stage, hand, got >>
vars == << sysvars, quevars >>

\* One unit more than there are slots, so that a release too many shows.
Bound == Capacity + 1

Room == INSTANCE Semaphore WITH
          Initial <- Capacity, MaxCount <- Bound, Timed <- Senders, Forever <- {},
          count <- room, waiters <- roomWaiters, pc <- roomPc

Data == INSTANCE Semaphore WITH
          Initial <- 0, MaxCount <- Bound, Timed <- Hasty, Forever <- Patient,
          count <- data, waiters <- dataWaiters, pc <- dataPc

Built ==
  /\ Room!Built
  /\ Data!Built
  /\ ring = [i \in 0 .. Capacity - 1 |-> None]
  /\ head = 0 /\ count = 0
  /\ stage = [t \in Tasks |-> "out"]
  /\ hand = [t \in Tasks |-> None]
  /\ got = [t \in Tasks |-> None]

Init == SystemInit /\ Built

-----------------------------------------------------------------------------
(* post and post_for.                                                      *)

CallPost(t, msg) ==
  /\ stage[t] = "out"
  /\ Room!CallTryAcquire(t)
  /\ stage' = [stage EXCEPT ![t] = "reserve"]
  /\ hand' = [hand EXCEPT ![t] = msg]
  /\ UNCHANGED << ringvars, datavars, got >>

\* A turn of spaces_.try_acquire: a slot, no slot in time, or back to sleep.
Reserve(t) ==
  /\ stage[t] = "reserve"
  /\ Room!try_acquire(t)
  /\ stage' = [stage EXCEPT ![t] = IF roomPc'[t] # "out" THEN @
                                   ELSE IF room' < room THEN "copy" ELSE "out"]
  /\ UNCHANGED << ringvars, datavars, hand, got >>

store_uncounted(msg) ==
  /\ ring' = [ring EXCEPT ![(head + data) % Capacity] = msg]
  /\ count' = count + 1
  /\ UNCHANGED head

\* The slot behind the last message.
store(msg) ==
  /\ ring' = [ring EXCEPT ![(head + count) % Capacity] = msg]
  /\ count' = count + 1
  /\ UNCHANGED head

\* Copy, then hand out the unit, in one section.
Copy(t) ==
  /\ Runs(t) /\ stage[t] = "copy"
  /\ store(hand[t])
  /\ Data!release
  /\ stage' = [stage EXCEPT ![t] = "out"]
  /\ hand' = [hand EXCEPT ![t] = None]
  /\ UNCHANGED << roomvars, got >>

\* post from an interrupt: no task section comes between its two sections,
\* and on a full ring it returns Full with nothing changed.
isr_post(msg) ==
  /\ room > 0
  /\ room' = room - 1
  /\ store(msg)
  /\ Data!release
  /\ UNCHANGED << roomWaiters, roomPc, stage, hand, got >>

-----------------------------------------------------------------------------
(* receive_one.                                                            *)

CallReceive(t) ==
  /\ stage[t] = "out"
  /\ Data!CallAcquire(t) \/ Data!CallTryAcquire(t)
  /\ stage' = [stage EXCEPT ![t] = "receive"]
  /\ UNCHANGED << ringvars, roomvars, hand, got >>

TakeUnit(t) ==
  /\ stage[t] = "receive"
  /\ Data!acquire(t) \/ Data!try_acquire(t)
  /\ stage' = [stage EXCEPT ![t] = IF dataPc'[t] # "out" THEN @
                                   ELSE IF data' < data THEN "pop" ELSE "out"]
  /\ UNCHANGED << ringvars, roomvars, hand, got >>

pop_ring_keeps_slot(t) ==
  /\ Runs(t) /\ stage[t] = "pop"
  /\ got' = [got EXCEPT ![t] = ring[head]]
  /\ head' = (head + 1) % Capacity
  /\ count' = count - 1
  /\ stage' = [stage EXCEPT ![t] = "out"]
  /\ UNCHANGED << sysvars, ring, roomvars, datavars, hand >>

\* The head message leaves, and its slot is free again.
pop_ring(t) ==
  /\ Runs(t) /\ stage[t] = "pop"
  /\ got' = [got EXCEPT ![t] = ring[head]]
  /\ head' = (head + 1) % Capacity
  /\ count' = count - 1
  /\ Room!release
  /\ stage' = [stage EXCEPT ![t] = "out"]
  /\ UNCHANGED << ring, datavars, hand >>

-----------------------------------------------------------------------------
Turn(t) == Reserve(t) \/ Copy(t) \/ TakeUnit(t) \/ pop_ring(t)

Next ==
  \/ Handlers /\ UNCHANGED quevars
  \/ \E t \in Tasks : CallReceive(t) \/ Turn(t)
  \/ \E msg \in Messages : isr_post(msg) \/ \E t \in Tasks : CallPost(t, msg)

Spec == Init /\ [][Next]_vars

-----------------------------------------------------------------------------
(* Properties.                                                             *)

At(s) == Cardinality({t \in Tasks : stage[t] = s})

\* Every variable holds a value of its type.
TypeOK ==
  /\ Room!TypeOK
  /\ Data!TypeOK
  /\ ring \in [0 .. Capacity - 1 -> Messages \cup {None}]
  /\ head \in 0 .. Capacity - 1 /\ count \in 0 .. Capacity
  /\ stage \in [Tasks -> {"out", "reserve", "copy", "receive", "pop"}]
  /\ hand \in [Tasks -> Messages \cup {None}]
  /\ got \in [Tasks -> Messages \cup {None}]

\* Each slot is free, reserved by one sender or filled, and each message is on
\* offer or promised to one receiver, between any two sections.
SlotsAreConserved ==
  /\ room + At("copy") + count = Capacity
  /\ data + At("pop") = count

\* A free slot never faces a sleeping sender, nor a message a sleeping
\* receiver, with nobody on the way to it.
NobodyIsForgotten == Room!NoLostWakeup /\ Data!NoLostWakeup

\* A sender asleep in post is linked at spaces_, a receiver at the semaphore of
\* the messages, each timed one with its alarm booked.
SleepersAreReachable == Room!SleepersAreReachable /\ Data!SleepersAreReachable

\* Neither list holds the node of a call that returned, nor a node twice.
NodesAreSound ==
  /\ Room!NoDanglingWaiter /\ Room!WaiterLinkedOnce
  /\ Data!NoDanglingWaiter /\ Data!WaiterLinkedOnce

Fifo == INSTANCE BoundedFifo WITH
          q <- [i \in 1 .. count |-> ring[(head + i - 1) % Capacity]],
          out <- got, Readers <- Tasks, Nothing <- None

\* The ring with its two semaphores is a bounded first-in first-out queue: a
\* copy is its Put, a pop its Get, and nothing else moves a message.
ImplementsFifo == Fifo!Spec

=============================================================================
