------------------------------- MODULE Launch -------------------------------
(***************************************************************************)
(* Making tasks before the scheduler starts: the builder chain of          *)
(* kernel/sched/task.hpp, the pen of TCBCreator, and launch, which takes   *)
(* box and stack from the bump arena of kernel/sched/arena.hpp.  Memory is *)
(* counted in bytes: a piece is a place of some memory and what it spans.  *)
(***************************************************************************)
EXTENDS Integers, Sequences

CONSTANTS kTaskArenaBytes,
          TcbBytes, TcbAlign,  \* sizeof and alignof of TCBStorage
          Counts,              \* stack words asked for in launches
          Slots,               \* hand-laid TaskSlots, each used once
          SlotWords,           \* the words of their stacks
          Prios

Arena == "arena"

\* What the constants have to be; the instances are checked for it.  TaskStack
\* asserts that its words are even.
LaunchAssumption ==
  /\ kTaskArenaBytes \in Nat /\ TcbBytes \in Nat /\ TcbAlign \in Nat \ {0}
  /\ Counts \subseteq Nat
  /\ SlotWords \in Nat /\ SlotWords % 2 = 0
  /\ Arena \notin Slots

VARIABLES cursor, left,   \* of g_task_arena, as an offset into its block
          chain,          \* the builder in the wiring code's hands
          spare,          \* slots not used yet
          tasks,          \* the TCBs written and added, in order
          halted,         \* a Check failed and spins
          started         \* start_scheduler was called

vars == << cursor, left, chain, spare, tasks, halted, started >>

Piece(mem, from, bytes) == [mem |-> mem, from |-> from, to |-> from + bytes]

NoChain == [stage |-> "none", prio |-> 0, words |-> 0, slot |-> Arena]

Init ==
  /\ cursor = 0 /\ left = kTaskArenaBytes
  /\ chain = NoChain
  /\ spare = Slots
  /\ tasks = << >>
  /\ halted = FALSE /\ started = FALSE

-----------------------------------------------------------------------------
(* The chain: from each stage only its own roads lead on.                  *)

Wiring(stage) == ~halted /\ ~started /\ chain.stage = stage

Advance(more) == chain' = more /\ UNCHANGED << cursor, left, spare, tasks, halted, started >>

named == Wiring("none") /\ Advance([chain EXCEPT !.stage = "Named"])

prio(p) ==
  Wiring("Named") /\ Advance([chain EXCEPT !.stage = "Priorized", !.prio = p])

words(n) ==
  Wiring("Priorized") /\ Advance([chain EXCEPT !.stage = "Worded", !.words = n])

\* A TaskSlot, which brings its box along, or only the stack of one.
stack(s, stage) ==
  /\ Wiring("Priorized") /\ s \in spare
  /\ chain' = [chain EXCEPT !.stage = stage, !.slot = s]
  /\ spare' = spare \ {s}
  /\ UNCHANGED << cursor, left, tasks, halted, started >>

entry ==
  \/ Wiring("Worded") /\ Advance([chain EXCEPT !.stage = "Launchable"])
  \/ Wiring("Slotted") /\ Advance([chain EXCEPT !.stage = "Armed"])
  \/ Wiring("Stacked") /\ Advance([chain EXCEPT !.stage = "TCBCreator"])

-----------------------------------------------------------------------------
(* The arena.                                                              *)

\* The bytes up to the next multiple of align.
miss(at, align) == (align - (at % align)) % align

Fits(a, bytes, align) == miss(a.cursor, align) + bytes <= a.left

take_padding_unpaid(a, bytes, align) ==
  IF ~Fits(a, bytes, align) THEN a
  ELSE [cursor |-> a.cursor + miss(a.cursor, align) + bytes, left |-> a.left - bytes]

\* take: the arena after it, unchanged when it is dry.
take(a, bytes, align) ==
  IF ~Fits(a, bytes, align) THEN a
  ELSE [cursor |-> a.cursor + miss(a.cursor, align) + bytes,
        left |-> a.left - miss(a.cursor, align) - bytes]

-----------------------------------------------------------------------------
\* TCBCreator::spawn_into and spawn: the TCB is written and added.
spawn_into(p, box, bed) == tasks' = Append(tasks, [prio |-> p, box |-> box, stack |-> bed])

Halt ==
  /\ halted' = TRUE
  /\ UNCHANGED tasks

\* launch: an odd count halts at once; box and stack are taken one after the
\* other, and either one missing halts.
launch ==
  /\ Wiring("Launchable")
  /\ LET now == [cursor |-> cursor, left |-> left]
         boxed == take(now, TcbBytes, TcbAlign)
         bedded == take(boxed, chain.words * 4, 8)
         both == Fits(now, TcbBytes, TcbAlign) /\ Fits(boxed, chain.words * 4, 8)
     IN  \/ /\ chain.words % 2 # 0
            /\ Halt
            /\ UNCHANGED << cursor, left >>
         \/ /\ chain.words % 2 = 0
            /\ cursor' = bedded.cursor /\ left' = bedded.left
            /\ \/ /\ ~both
                  /\ Halt
               \/ /\ both
                  /\ spawn_into(chain.prio, Piece(Arena, boxed.cursor - TcbBytes, TcbBytes),
                                Piece(Arena, bedded.cursor - chain.words * 4, chain.words * 4))
                  /\ UNCHANGED halted
  /\ chain' = NoChain
  /\ UNCHANGED << spare, started >>

\* A slot's box is at its start and its stack at the next multiple of 8.
SlotBed == TcbBytes + miss(TcbBytes, 8)

\* The slot's own box and stack are written.
FillSlot ==
  /\ spawn_into(chain.prio, Piece(chain.slot, 0, TcbBytes),
                Piece(chain.slot, SlotBed, SlotWords * 4))
  /\ chain' = NoChain
  /\ UNCHANGED << cursor, left, spare, halted, started >>

Armed_spawn_into == Wiring("Armed") /\ FillSlot
spawn == Wiring("TCBCreator") /\ FillSlot

start_scheduler ==
  /\ Wiring("none")
  /\ started' = TRUE
  /\ UNCHANGED << cursor, left, chain, spare, tasks, halted >>

Next ==
  \/ named \/ entry \/ launch \/ Armed_spawn_into \/ spawn \/ start_scheduler
  \/ \E p \in Prios : prio(p)
  \/ \E n \in Counts : words(n)
  \/ \E s \in Slots : stack(s, "Slotted") \/ stack(s, "Stacked")

Spec == Init /\ [][Next]_vars

-----------------------------------------------------------------------------
(* Properties.                                                             *)

Pieces == UNION {{<< i, "box", tasks[i].box >>, << i, "stack", tasks[i].stack >>} :
                   i \in 1 .. Len(tasks)}

Apart(p, q) == p.mem # q.mem \/ p.to <= q.from \/ q.to <= p.from

\* Whatever was launched in whatever order, no box and no stack overlaps
\* another or reaches past the block, and a stack starts and ends on a multiple
\* of 8, as a stack pointer must.
BedsAreApart ==
  /\ \A p, q \in Pieces : p # q => Apart(p[3], q[3])
  /\ \A p \in Pieces : p[3].mem = Arena => p[3].from >= 0 /\ p[3].to <= cursor
  /\ \A i \in 1 .. Len(tasks) : tasks[i].stack.from % 8 = 0 /\ tasks[i].stack.to % 8 = 0

\* The arena's two fields agree, and as long as nothing halted every byte taken
\* is some task's, up to the padding: a dry arena never swallows half a task.
NothingLeaks ==
  /\ cursor + left = kTaskArenaBytes
  /\ ~halted =>
       LET mine == {i \in 1 .. Len(tasks) : tasks[i].box.mem = Arena}
       IN  cursor = IF mine = {} THEN 0
                    ELSE tasks[CHOOSE i \in mine : \A j \in mine : j <= i].stack.to

=============================================================================
