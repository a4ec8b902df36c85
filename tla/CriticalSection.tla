-------------------------- MODULE CriticalSection --------------------------
(***************************************************************************)
(* The critical section of arch/arm_cortex_m3/cm3_irq.hpp, instruction by  *)
(* instruction: a nesting counter, a saved mask and BASEPRI.  Threads and  *)
(* interrupt handlers share one such object (the scheduler's driver_, for  *)
(* instance).  A handler runs when it is more urgent than what runs and    *)
(* than BASEPRI; threads change hands in PendSV, the least urgent of all.  *)
(*                                                                         *)
(* All other modules take a guarded section for one atomic step; this one  *)
(* asks when it is.                                                        *)
(*                                                                         *)
(* torn is not state of the program: a thread lost the processor between   *)
(* its load and its store of nest_.                                        *)
(***************************************************************************)
EXTENDS Integers, Sequences, SequencesExt, FiniteSets

CONSTANTS Threads, Handlers,
          Priority,   \* of each handler; smaller is more urgent
          MaxDepth,   \* bound on nested guards of one context
          Wrap        \* values of nest_: 2^32 in the code

kMaskLevel == 64       \* 0x40
kPendSVPrio == 255     \* 0xFF
kThreadPrio == 256     \* below every exception

\* What the constants have to be; the instances are checked for it.
PriorityAssumption ==
  /\ IsFiniteSet(Threads) /\ IsFiniteSet(Handlers) /\ Threads \cap Handlers = {}
  /\ Priority \in [Handlers -> kMaskLevel .. kPendSVPrio]
  /\ MaxDepth \in Nat \ {0}
  /\ Wrap \in Nat /\ Wrap > MaxDepth * Cardinality(Threads \cup Handlers)

VARIABLES nest,      \* nest_
          reg,       \* nest_ as each context has loaded it; 0 once it is used
          saved,     \* saved_basepri_
          basepri,   \* the BASEPRI register; 0 masks nothing
          pc,        \* where in lock or unlock each context is
          depth,     \* guards each context holds
          current,   \* the thread that has the processor
          active,    \* the handlers that interrupted it, outermost first
          pend,      \* PendSV is pending
          torn

vars == << nest, reg, saved, basepri, pc, depth, current, active, pend, torn >>

Contexts == Threads \cup Handlers
Top == IF active = << >> THEN current ELSE Last(active)
Level(c) == IF c \in Handlers THEN Priority[c] ELSE kThreadPrio
Unmasked(prio) == basepri = 0 \/ prio < basepri

Init ==
  /\ nest = 0 /\ saved = 0 /\ basepri = 0
  /\ pc = [c \in Contexts |-> "run"]
  /\ depth = [c \in Contexts |-> 0]
  /\ current \in Threads
  /\ active = << >>
  /\ pend = FALSE
  /\ reg = [c \in Contexts |-> 0] /\ torn = FALSE

Runs(c) == c = Top /\ pc[c] = "run"

-----------------------------------------------------------------------------
(* lock().  nest_++ is a load and a store, and anything may come between.  *)

lock(c) ==
  /\ Runs(c) /\ depth[c] < MaxDepth
  /\ reg' = [reg EXCEPT ![c] = nest]
  /\ pc' = [pc EXCEPT ![c] = "raise"]
  /\ UNCHANGED << nest, saved, basepri, depth, current, active, pend, torn >>

\* if (nest_++ == 0): the first goes on to mask, the others are in.
raise(c) ==
  /\ c = Top /\ pc[c] = "raise"
  /\ nest' = (reg[c] + 1) % Wrap
  /\ \/ /\ reg[c] = 0
        /\ pc' = [pc EXCEPT ![c] = "counted"]
        /\ UNCHANGED depth
     \/ /\ reg[c] > 0
        /\ pc' = [pc EXCEPT ![c] = "run"]
        /\ depth' = [depth EXCEPT ![c] = @ + 1]
  /\ reg' = [reg EXCEPT ![c] = 0]
  /\ UNCHANGED << saved, basepri, current, active, pend, torn >>

\* saved_basepri_ = read_basepri()
read_basepri(c) ==
  /\ c = Top /\ pc[c] = "counted"
  /\ saved' = basepri
  /\ pc' = [pc EXCEPT ![c] = "saved"]
  /\ UNCHANGED << nest, reg, basepri, depth, current, active, pend, torn >>

\* write_basepri(kMaskLevel)
write_basepri(c) ==
  /\ c = Top /\ pc[c] = "saved"
  /\ basepri' = kMaskLevel
  /\ pc' = [pc EXCEPT ![c] = "run"]
  /\ depth' = [depth EXCEPT ![c] = @ + 1]
  /\ UNCHANGED << nest, reg, saved, current, active, pend, torn >>

(* unlock().  --nest_ is a load and a store as well.                       *)

unlock(c) ==
  /\ Runs(c) /\ depth[c] > 0
  /\ reg' = [reg EXCEPT ![c] = nest]
  /\ depth' = [depth EXCEPT ![c] = @ - 1]
  /\ pc' = [pc EXCEPT ![c] = "lower"]
  /\ UNCHANGED << nest, saved, basepri, current, active, pend, torn >>

lower_resets(c) ==
  /\ c = Top /\ pc[c] = "lower"
  /\ nest' = 0
  /\ pc' = [pc EXCEPT ![c] = "last"]
  /\ reg' = [reg EXCEPT ![c] = 0]
  /\ UNCHANGED << saved, basepri, depth, current, active, pend, torn >>

\* if (--nest_ == 0): the last goes on to lift the mask.
lower(c) ==
  /\ c = Top /\ pc[c] = "lower"
  /\ nest' = (reg[c] - 1) % Wrap
  /\ pc' = [pc EXCEPT ![c] = IF reg[c] = 1 THEN "last" ELSE "run"]
  /\ reg' = [reg EXCEPT ![c] = 0]
  /\ UNCHANGED << saved, basepri, depth, current, active, pend, torn >>

\* write_basepri(saved_basepri_)
restore_basepri(c) ==
  /\ c = Top /\ pc[c] = "last"
  /\ basepri' = saved
  /\ pc' = [pc EXCEPT ![c] = "run"]
  /\ UNCHANGED << nest, reg, saved, depth, current, active, pend, torn >>

-----------------------------------------------------------------------------
(* What runs: exceptions and threads.                                      *)

\* A section asks for a switch.
request_switch(c) ==
  /\ Runs(c) /\ depth[c] > 0 /\ ~pend
  /\ pend' = TRUE
  /\ UNCHANGED << nest, reg, saved, basepri, pc, depth, current, active, torn >>

Interrupt(h) ==
  /\ Priority[h] < Level(Top) /\ Unmasked(Priority[h])
  /\ active' = Append(active, h)
  /\ UNCHANGED << nest, reg, saved, basepri, pc, depth, current, pend, torn >>

Return(h) ==
  /\ Runs(h) /\ depth[h] = 0
  /\ active' = Front(active)
  /\ UNCHANGED << nest, reg, saved, basepri, pc, depth, current, pend, torn >>

\* PendSV picks a thread, the same or another; BASEPRI is not part of what a
\* thread is switched with.
PendSV_Handler ==
  /\ pend /\ active = << >> /\ Unmasked(kPendSVPrio)
  /\ pend' = FALSE
  /\ current' \in Threads
  /\ torn' = (torn \/ (current' # current /\ pc[current] \in {"raise", "lower"}))
  /\ UNCHANGED << nest, reg, saved, basepri, pc, depth, active >>

Next ==
  \/ \E c \in Contexts :
       \/ lock(c) \/ raise(c) \/ read_basepri(c) \/ write_basepri(c)
       \/ unlock(c) \/ lower(c) \/ restore_basepri(c) \/ request_switch(c)
  \/ \E h \in Handlers : Interrupt(h) \/ Return(h)
  \/ PendSV_Handler

Spec == Init /\ [][Next]_vars

-----------------------------------------------------------------------------
(* Properties.                                                             *)

\* Every variable holds a value of its type.
TypeOK ==
  /\ nest \in 0 .. Wrap - 1 /\ reg \in [Contexts -> 0 .. Wrap - 1]
  /\ saved \in {0, kMaskLevel} /\ basepri \in {0, kMaskLevel}
  /\ pc \in [Contexts -> {"run", "raise", "counted", "saved", "lower", "last"}]
  /\ depth \in [Contexts -> 0 .. MaxDepth]
  /\ current \in Threads
  /\ active \in Seq(Handlers)
  /\ pend \in BOOLEAN /\ torn \in BOOLEAN

\* The guards nest_ stands for: those a context holds, the one it is about to
\* have, the one it has not given back yet.
Taken(c) == IF pc[c] \in {"counted", "saved", "lower"} THEN depth[c] + 1 ELSE depth[c]

\* The shared counter loses no guard, whatever interrupts a load and its store:
\* a handler leaves nest_ as it found it.  A switch of threads there need not.
NestCountsGuards ==
  ~torn => nest = Cardinality({g \in Contexts \X (1 .. MaxDepth) : g[2] <= Taken(g[1])})

\* What counting is for: when nobody is in lock, unlock or a section, nest_ is 0,
\* so that the next guard masks, and nothing is masked.
NestReturnsToZero ==
  (\A c \in Contexts : pc[c] = "run" /\ depth[c] = 0) => nest = 0 /\ basepri = 0

\* That is so as long as no switch of threads fell between a load and its store.
QuietIsOpen == ~torn => NestReturnsToZero

\* What a guard is for: no two contexts are inside the section at once.
Exclusion == \A c, d \in Contexts : depth[c] > 0 /\ depth[d] > 0 => c = d

=============================================================================
