----------------------------- MODULE StackGuard -----------------------------
(***************************************************************************)
(* Stacks and the ways to die on them: the paint and the canary of         *)
(* kernel/sched/stack_guard.hpp, the frames PendSV saves and restores with *)
(* its patrol (arch/switch.cpp), the capture of a hard fault (fault.cpp)   *)
(* and the testaments.  A stack is words 0 .. Size-1 and grows down.  A    *)
(* slot and the arena lay it right above the task's own control block,     *)
(* whose last fields are the mailbox and stack_view_: words below 0 are    *)
(* those, and once one is written, what the patrol reads is anything.  Who *)
(* runs next is the scheduler's business: any task here.                   *)
(*                                                                         *)
(* deepest and held are not state of the program: the lowest word a stack  *)
(* pointer ever reached, and the lowest at which the task was switched     *)
(* out, for the properties to compare.                                     *)
(***************************************************************************)
EXTENDS Integers, FiniteSetsExt

CONSTANTS Tasks, None,
          Size,          \* words of every stack
          kCanarySize,   \* 8 in the code
          kFrame,        \* words of an exception frame and of a software frame: 8
          Overrun        \* bound: words a task may run past its stack

\* What the constants have to be; the instances are checked for it.
StackAssumption ==
  /\ kCanarySize \in Nat \ {0} /\ kFrame \in Nat \ {0} /\ Overrun \in Nat
  /\ Size \in Nat /\ Size >= kCanarySize + 2 * kFrame
  /\ None \notin Tasks

VARIABLES sp,        \* stack_pointer_, and psp while the task runs
          touched,   \* the words that do not hold the paint
          deepest, held,
          current,   \* the task that runs, None before the first switch
          wired,     \* the default testaments are installed
          testament, \* who was reported dead, and how
          halted

vars == << sp, touched, deepest, held, current, wired, testament, halted >>

Canary == 0 .. kCanarySize - 1

-----------------------------------------------------------------------------
\* fabricate_frame: both frames lie at the top of the stack.
fabricate_frame == [sp |-> Size - 2 * kFrame, touched |-> Size - 2 * kFrame .. Size - 1]

\* bury_canary paints every word, then the first frame is fabricated.
Init ==
  /\ sp = [t \in Tasks |-> fabricate_frame.sp]
  /\ touched = [t \in Tasks |-> fabricate_frame.touched]
  /\ deepest = sp /\ held = sp
  /\ current = None
  /\ wired \in BOOLEAN
  /\ testament = None
  /\ halted = FALSE

fast_check_stack_bottom(eaten) == 0 \in eaten

\* One word of the canary, the highest.
fast_check_stack(eaten) == kCanarySize - 1 \in eaten

eaten_length(eaten) == Cardinality(Canary \cap eaten)

\* Words above the canary that still hold the paint, up to the first that does
\* not.
watermark_free_words(eaten) ==
  LET used == {i \in eaten : i >= kCanarySize}
  IN  (IF used = {} THEN Size ELSE Min(used)) - kCanarySize

capacity_words == IF Size > kCanarySize THEN Size - kCanarySize ELSE 0

\* The third figure of the watermark demo's report.
used_at_deepest(eaten) == capacity_words - watermark_free_words(eaten)

\* The control block, and with it the span the patrol looks at, was written.
Trampled(eaten) == \E i \in eaten : i < 0

-----------------------------------------------------------------------------
(* The running task.  A frame of n words is n times one: the compiler takes *)
(* them, an exception's alignment may, and the code writes those it uses.   *)

Push(t) ==
  /\ ~halted /\ current = t /\ sp[t] - 1 >= -Overrun
  /\ sp' = [sp EXCEPT ![t] = @ - 1]
  /\ deepest' = [deepest EXCEPT ![t] = Min({@, sp[t] - 1})]
  /\ UNCHANGED << touched, held, current, wired, testament, halted >>

Pop(t) ==
  /\ ~halted /\ current = t /\ sp[t] + 1 <= Size
  /\ sp' = [sp EXCEPT ![t] = @ + 1]
  /\ UNCHANGED << touched, deepest, held, current, wired, testament, halted >>

Write(t, i) ==
  /\ ~halted /\ current = t /\ i \in sp[t] .. Size - 1
  /\ touched' = [touched EXCEPT ![t] = @ \cup {i}]
  /\ UNCHANGED << sp, deepest, held, current, wired, testament, halted >>

-----------------------------------------------------------------------------
(* Dying.                                                                  *)

\* The reporter prints and never returns; without one the Check spins.
Die(t, how, eaten) ==
  /\ testament' = IF wired THEN [who |-> t, how |-> how, eaten |-> eaten] ELSE None
  /\ halted' = TRUE

\* A hard fault, from a task or on the way to the first.
hardfault_capture ==
  /\ ~halted
  /\ Die(current, "fault", 0)
  /\ UNCHANGED << sp, touched, deepest, held, current, wired >>

-----------------------------------------------------------------------------
(* The switch.                                                             *)

\* First switch: nobody to save; the frames of the first task leave its stack.
SVC_Handler(next) ==
  /\ ~halted /\ current = None
  /\ current' = next
  /\ sp' = [sp EXCEPT ![next] = @ + 2 * kFrame]
  /\ UNCHANGED << touched, deepest, held, wired, testament, halted >>

\* The patrol looks at the task that leaves, its frames saved: through its span,
\* if that is still its span.
context_switch(t, eaten) ==
  \/ /\ fast_check_stack(eaten) \/ Trampled(eaten)
     /\ \E n \in IF Trampled(eaten) THEN 0 .. kCanarySize ELSE {eaten_length(eaten)} :
          Die(t, "overflow", n)
  \/ /\ ~fast_check_stack(eaten) \/ Trampled(eaten)
     /\ UNCHANGED << testament, halted >>

\* The exception and stmdb push both frames, whole; the next task's are popped.
PendSV_Handler(next) ==
  LET prev == current
      saved == sp[prev] - 2 * kFrame
      eaten == touched[prev] \cup (saved .. sp[prev] - 1)
  IN  /\ ~halted /\ prev # None /\ next # prev
      /\ touched' = [touched EXCEPT ![prev] = eaten]
      /\ deepest' = [deepest EXCEPT ![prev] = Min({@, saved})]
      /\ held' = [held EXCEPT ![prev] = Min({@, saved})]
      /\ context_switch(prev, eaten)
      /\ \/ halted' /\ sp' = [sp EXCEPT ![prev] = saved] /\ UNCHANGED current
         \/ /\ ~halted'
            /\ sp' = [sp EXCEPT ![prev] = saved, ![next] = @ + 2 * kFrame]
            /\ current' = next
      /\ UNCHANGED wired

-----------------------------------------------------------------------------
Next ==
  \/ \E t \in Tasks : Push(t) \/ Pop(t) \/ \E i \in -Overrun .. Size - 1 : Write(t, i)
  \/ \E t \in Tasks : SVC_Handler(t) \/ PendSV_Handler(t)
  \/ hardfault_capture

Spec == Init /\ [][Next]_vars

-----------------------------------------------------------------------------
(* Properties.                                                             *)

\* A task whose sentinel was written, by its own code or by the frames of a
\* switch that lay across it, does not survive that switch, even when its stack
\* had come back up by then; unless it went on to write its control block.  A
\* frame that takes the sentinel and writes words on both sides is not seen.
OverflowIsCaught ==
  \A t \in Tasks :
    t # current /\ ~Trampled(touched[t]) /\ ~halted =>
      /\ kCanarySize - 1 \notin touched[t]
      /\ ~(sp[t] < kCanarySize /\ kCanarySize <= sp[t] + 2 * kFrame)

\* Nobody dies in silence or for another's sins: with the testaments in place
\* a halt names the running task and, for an overflow that left the control
\* block alone, a stack that did reach its canary, and what was eaten of it.
DeathIsReported ==
  halted /\ wired =>
    /\ testament.who = current
    /\ testament.how = "overflow" /\ ~Trampled(touched[current]) =>
         /\ deepest[current] < kCanarySize
         /\ testament.eaten = Cardinality(Canary \cap touched[current]) /\ testament.eaten > 0

\* The watermark remembers: the report's use at the deepest is never more than
\* there really was, and at least what was there at any switch, although the
\* task has come back up since.  In between it is flattering: words a frame
\* takes and never writes are not counted.
WatermarkIsFair ==
  \A t \in Tasks :
    ~Trampled(touched[t]) =>
      /\ used_at_deepest(touched[t]) <= Size - Max({deepest[t], kCanarySize})
      /\ held[t] >= kCanarySize => used_at_deepest(touched[t]) >= Size - held[t]

=============================================================================
