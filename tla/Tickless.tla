------------------------------ MODULE Tickless ------------------------------
(***************************************************************************)
(* SysTick and tickless idle (arch/time_kernel_cm3.cpp with ZEROS_TICKLESS)*)
(* Idle asks the ledger for the next deadline, programs SysTick as a       *)
(* one-shot, sleeps in wfi and restores the periodic tick when it runs     *)
(* again.  Tasks nap for some ticks of the ledger, or wait for an          *)
(* interrupt of a peripheral.                                              *)
(*                                                                         *)
(* Time is counted in whole ticks; a masked section takes less than one,   *)
(* so a tick falls before or after it.  SysTick is the one of the          *)
(* ARMv7-M: COUNTFLAG is cleared by reading CSR and by writing CVR, and a  *)
(* pending SysTick is not a bit of the NVIC's ICPR, whose bit 15 belongs   *)
(* to an external interrupt.                                               *)
(*                                                                         *)
(* owed and lag are not state of the program: the real ticks until each    *)
(* nap should end, and that SysTick began a round while the code of idle   *)
(* ran, which is shorter than one: no other tick falls into it.            *)
(***************************************************************************)
EXTENDS Integers, FiniteSetsExt

CONSTANTS Tasks,
          MinNap, MaxNap,      \* bounds on the ticks a task naps for
          kTicklessThreshold,
          Cycles,              \* cycles_per_tick_
          MaxLoad              \* of the LOAD register, 0xFFFFFF in the code

\* What the constants have to be; the instances are checked for it.
TicklessAssumption ==
  /\ MinNap \in Nat \ {0} /\ MaxNap \in Nat /\ kTicklessThreshold \in Nat
  /\ Cycles \in Nat \ {0} /\ MaxLoad \in Nat /\ MaxLoad >= Cycles

Off == -1

VARIABLES ledger,    \* ticks of the ledger until each nap is due, or Off
          waiting,   \* the tasks that wait for a peripheral
          idle,      \* where idle is: "enter", "armed", "wfi", "woken"
          one_shot,  \* one_shot_ticks_
          running,   \* SysTick counts
          reload,    \* ticks of a round of it, from LOAD
          count,     \* ticks until it expires
          flag,      \* COUNTFLAG
          pending,   \* SysTick is pending
          owed, lag

hwvars == << running, reload, count, flag, pending >>
ghosts == << owed, lag >>
vars == << ledger, waiting, idle, one_shot, hwvars, ghosts >>

\* The ticks that fit into one shot.
max_per_shot == MaxLoad \div Cycles

\* A nap is followed until it is later than a whole shot.
LateBound == -(max_per_shot + 1)

Asleep == {t \in Tasks : ledger[t] # Off}
Ready == Tasks \ (Asleep \cup waiting)
IdleRuns == Ready = {} /\ idle # "wfi"

\* init_time, and every task ready.
Init ==
  /\ ledger = [t \in Tasks |-> Off]
  /\ waiting = {}
  /\ idle = "enter"
  /\ one_shot = 0
  /\ running = TRUE /\ reload = 1 /\ count = 1
  /\ flag = FALSE /\ pending = FALSE
  /\ owed = [t \in Tasks |-> 0]
  /\ lag = FALSE

-----------------------------------------------------------------------------
(* The hardware: external.                                                 *)

\* Ticks of a round with this LOAD, of which the register keeps what fits.
Round(load) == ((load % (MaxLoad + 1)) + 1) \div Cycles

\* A write to CVR restarts the count and clears COUNTFLAG; CSR enables.
Restart(ticks) ==
  /\ reload' = ticks /\ count' = ticks
  /\ flag' = FALSE
  /\ running' = TRUE
  /\ lag' = TRUE

\* A tick of real time.  The handler is faster than the next one.
Tick ==
  /\ ~pending
  /\ ~(lag /\ IdleRuns)
  /\ lag' = IdleRuns
  /\ owed' = [t \in Tasks |-> IF t \in Asleep THEN Max({owed[t] - 1, LateBound}) ELSE owed[t]]
  /\ \/ /\ ~running
        /\ UNCHANGED hwvars
     \/ /\ running /\ count > 1
        /\ count' = count - 1
        /\ UNCHANGED << running, reload, flag, pending >>
     \/ /\ running /\ count <= 1
        /\ count' = reload
        /\ flag' = TRUE /\ pending' = TRUE
        /\ UNCHANGED << running, reload >>
  /\ UNCHANGED << ledger, waiting, idle, one_shot >>

-----------------------------------------------------------------------------
\* on_elapsed, as far as naps go: those that are due end.
on_elapsed(naps, n) ==
  [t \in Tasks |-> IF naps[t] = Off \/ naps[t] <= n THEN Off ELSE naps[t] - n]

\* An interrupt ends wfi.
Awake == IF idle = "wfi" THEN "woken" ELSE idle

SysTick_Handler_unsettled ==
  /\ pending /\ pending' = FALSE
  /\ ledger' = on_elapsed(ledger, IF one_shot = 0 THEN 1 ELSE 0)
  /\ idle' = Awake
  /\ one_shot' = 0 /\ Restart(1)
  /\ UNCHANGED << waiting, owed >>

\* A one-shot settles its whole span and restores the periodic tick.
SysTick_Handler ==
  /\ pending /\ pending' = FALSE
  /\ idle' = Awake
  /\ \/ /\ one_shot # 0
        /\ one_shot' = 0
        /\ Restart(1)
        /\ ledger' = on_elapsed(ledger, one_shot)
     \/ /\ one_shot = 0
        /\ ledger' = on_elapsed(ledger, 1)
        /\ UNCHANGED << one_shot, running, reload, count, flag, lag >>
  /\ UNCHANGED << waiting, owed >>

-----------------------------------------------------------------------------
(* idle_sleep.  pending stays what it is: see the head of the module.      *)

\* drain_pending_expiry: an expiry COUNTFLAG remembers is settled by hand.
drain_pending_expiry(settle) == IF flag THEN on_elapsed(ledger, settle) ELSE ledger

\* next_due_in
next_due_in(naps) == Min({naps[t] : t \in {u \in Tasks : naps[u] # Off}})

\* The arming section, which a tick may fall into: drain, consult the ledger, program SysTick.
Arm ==
  /\ Ready = {} /\ idle = "enter"
  /\ LET naps == drain_pending_expiry(1)
         has_deadline == \E t \in Tasks : naps[t] # Off
         due == IF has_deadline THEN next_due_in(naps) ELSE 0
         shot == Min({due, max_per_shot})
     IN  /\ ledger' = naps
         /\ \/ /\ has_deadline /\ due > kTicklessThreshold
               /\ one_shot' = shot
               /\ Restart(Round(shot * Cycles - 1))
            \/ /\ ~has_deadline
               /\ running' = FALSE /\ flag' = FALSE
               /\ UNCHANGED << one_shot, reload, count, lag >>
            \/ /\ has_deadline /\ due <= kTicklessThreshold
               /\ flag' = FALSE
               /\ UNCHANGED << one_shot, running, reload, count, lag >>
  /\ idle' = "armed"
  /\ UNCHANGED << waiting, pending, owed >>

\* Between the section and wfi interrupts are open.
Wfi ==
  /\ Ready = {} /\ ~pending /\ idle = "armed"
  /\ idle' = "wfi" /\ lag' = FALSE
  /\ UNCHANGED << ledger, waiting, one_shot, hwvars, owed >>

\* The wake section: settle what was withdrawn, restore the periodic tick.
Wake ==
  /\ Ready = {} /\ idle = "woken"
  /\ ledger' = drain_pending_expiry(IF one_shot # 0 THEN one_shot ELSE 1)
  /\ one_shot' = 0
  /\ Restart(1)
  /\ idle' = "enter"
  /\ UNCHANGED << waiting, pending, owed >>

-----------------------------------------------------------------------------
(* Tasks.  Whoever is ready runs instead of idle.                          *)

sleep_for(t, n) ==
  /\ t \in Ready /\ ~pending
  /\ ledger' = [ledger EXCEPT ![t] = n]
  /\ owed' = [owed EXCEPT ![t] = n] /\ lag' = FALSE
  /\ UNCHANGED << waiting, idle, one_shot, hwvars >>

WaitForPeripheral(t) ==
  /\ t \in Ready /\ ~pending
  /\ waiting' = waiting \cup {t} /\ lag' = FALSE
  /\ UNCHANGED << ledger, idle, one_shot, hwvars, owed >>

Next ==
  \/ Tick \/ SysTick_Handler \/ Arm \/ Wfi \/ Wake
  \/ \E t \in Tasks : WaitForPeripheral(t) \/ \E n \in MinNap .. MaxNap : sleep_for(t, n)

Spec == Init /\ [][Next]_vars

-----------------------------------------------------------------------------
(* Properties.                                                             *)

\* The handler and idle agree on one truth: a one-shot in flight owes the
\* ledger exactly the ticks SysTick was programmed for.
OwesWhatRuns == one_shot # 0 => running /\ reload = one_shot

\* A one-shot is armed for the deadlines idle saw.  A task that idle's own
\* settling has just readied may nap for less, down to MinNap; a lone task cannot.
Slack == IF \A t, u \in Tasks : t = u THEN 0 ELSE Max({0, max_per_shot - MinNap})

\* As long as SysTick runs, no nap is later than that.
LateByAShot == running => \A t \in Asleep : owed[t] >= -Slack

\* Every nap ends.
NapEnds == \A t \in Tasks : t \in Asleep ~> t \notin Asleep

\* Every nap ends, unless SysTick was stopped.
NapEndsIfTicking == \A t \in Tasks : t \in Asleep ~> t \notin Asleep \/ ~running

=============================================================================
