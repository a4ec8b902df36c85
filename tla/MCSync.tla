------------------------------- MODULE MCSync -------------------------------
(***************************************************************************)
(* What tasks wait on, each on the same kernel: semaphore, event group,    *)
(* message queue, and the calls a task makes for itself.  A behaviour uses *)
(* one of them, which it settles at the start; the state of the others     *)
(* stays as it was built.  Mixing them in one task is left out on purpose: *)
(* a wake-up meant for one then reaches the loop of another, which the     *)
(* notified semaphore shows by itself.                                     *)
(***************************************************************************)
EXTENDS Semaphore

CONSTANTS t1, t2, t3, v1, v2, b1, b2, m1, m2,
          Uses,                      \* what the behaviours of this instance may use
          Bits, Wishes,              \* the event group's, and who waits there
          EvtTimed, EvtForever,
          FaceTasks, Readers,        \* who is spawned beside the face, and may be notified
          Capacity, Messages,        \* the queue's, and who is on which side of it
          Senders, Patient, Hasty

\* What each object asks of its clients.  A task that makes timed and endless
\* calls may be woken in the endless one by the alarm an earlier call left
\* behind, and then links its node twice, as a notified one does: whoever
\* waits for ever here makes no timed call on the same object.
ASSUME SemaphoreClients == Timed \cap Forever = {}
ASSUME EventClients ==
  /\ EvtTimed \cap EvtForever = {}
  /\ Wishes \subseteq [mask : SUBSET Bits, all : BOOLEAN]
ASSUME FaceClients == FaceTasks \subseteq Tasks
ASSUME QueueClients ==
  /\ Capacity \in Nat \ {0}
  /\ Patient \cap (Senders \cup Hasty) = {}

VARIABLES use,     \* what this behaviour uses
          bits, evtWaiters, want, evtPc,
          facePc, got,
          ring, head, stored, room, roomWaiters, roomPc,
          data, dataWaiters, dataPc, stage, hand, received

semvars == << count, waiters, pc >>
evtvars == << bits, evtWaiters, want, evtPc >>
facevars == << facePc, got >>
quevars == << ring, head, stored, room, roomWaiters, roomPc,
              data, dataWaiters, dataPc, stage, hand, received >>
syncvars == << use, sysvars, semvars, evtvars, facevars, quevars >>

MCTasks == {t1, t2, t3}
MCLetters == {v1, v2}
Pair == {t1, t3}

\* One bit, either, both, or none at all.
TwoBits == {b1, b2}
MCWishes == [mask : {{b1}, TwoBits}, all : BOOLEAN] \cup {[mask |-> {}, all |-> FALSE]}

\* One urgent task above two peers; the face is used by two tasks only.
MCPrio == [t \in MCTasks |-> IF t = t3 THEN 0 ELSE 1]
First == {t1}
Second == {t2}
Third == {t3}
TheLastTwo == {t2, t3}
TheFirstTwo == {t1, t2}
TwoMessages == {m1, m2}

Events == INSTANCE EventGroup WITH
            Timed <- EvtTimed, Forever <- EvtForever,
            waiters <- evtWaiters, pc <- evtPc

Face == INSTANCE ThisTask WITH Addressees <- FaceTasks, pc <- facePc

Queue == INSTANCE MsgQueue WITH count <- stored, got <- received

\* Who is spawned.
Crew == IF use = "face" THEN FaceTasks ELSE Tasks

SyncInit ==
  /\ use \in Uses
  /\ Spawned(Crew, Prio)
  /\ Built /\ Events!Built /\ Face!Built /\ Queue!Built

SyncNext ==
  /\ \/ use = "semaphore" /\ Next /\ UNCHANGED << evtvars, facevars, quevars >>
     \/ use = "events" /\ Events!Next /\ UNCHANGED << semvars, facevars, quevars >>
     \/ use = "face" /\ Face!Next /\ UNCHANGED << semvars, evtvars, quevars >>
     \/ use = "queue" /\ Queue!Next /\ UNCHANGED << semvars, evtvars, facevars >>
  /\ UNCHANGED use

SyncSpec == SyncInit /\ [][SyncNext]_syncvars

-----------------------------------------------------------------------------

\* Nobody sleeps beside what it waits for: a unit of the semaphore with no
\* wake-up under way, bits that are lit, a message or a free slot of the queue.
NothingIsSleptOn ==
  /\ NoLostWakeup
  /\ use = "events" => Events!LinkedLackTheirBits
  /\ use = "queue" => Queue!NobodyIsForgotten

\* Whoever sleeps can be found: in the list of what it waits for, be it the
\* semaphore's, the event group's or one of the queue's two, and by an alarm
\* when the call is timed.
SleepersAreFound ==
  /\ SleepersAreReachable
  /\ use = "events" => Events!SleepersAreReachable
  /\ use = "face" => Face!SleepIsBooked
  /\ use = "queue" => Queue!SleepersAreReachable

\* The nodes on the callers' stacks, in each of the four lists: none is linked
\* after its call returned, none twice; everything else has its type.
NodesAreSound ==
  /\ NoDanglingWaiter /\ WaiterLinkedOnce
  /\ use = "events" => Events!NodesAreSound
  /\ use = "queue" => Queue!NodesAreSound
  /\ use = "semaphore" => TypeOK
  /\ use = "events" => Events!TypeOK
  /\ use = "face" => Face!TypeOK
  /\ use = "queue" => Queue!TypeOK

\* Message queue: ring, slots and units agree between any two sections.
SlotsAreConserved == use = "queue" => Queue!SlotsAreConserved

\* Message queue: the ring and its semaphores are a bounded FIFO.
ImplementsFifo == Queue!ImplementsFifo

=============================================================================
