------------------------------ MODULE MCMemory ------------------------------
(***************************************************************************)
(* The three users of raw memory, one in each behaviour: the block pool,   *)
(* the wiring code that launches tasks from the arena or into slots of its *)
(* own, and tasks that run on stacks with a canary.  The run has six       *)
(* blocks in words of two: the words of the map are whole, the summary's   *)
(* last is not.                                                            *)
(***************************************************************************)
EXTENDS BitmapPool

CONSTANTS None,
          Tasks, Size, kCanarySize, kFrame, Overrun,     \* of StackGuard
          kTaskArenaBytes, TcbBytes, TcbAlign, Counts,   \* of Launch
          Slots, SlotWords, Prios

VARIABLES memory,
          cursor, left, chain, spare, tasks, halted, started,
          sp, touched, deepest, held, current, wired, testament, dead

bootvars == << cursor, left, chain, spare, tasks, halted, started >>
stackvars == << sp, touched, deepest, held, current, wired, testament, dead >>
memvars == << memory, vars, bootvars, stackvars >>

Boot == INSTANCE Launch

Guard == INSTANCE StackGuard WITH halted <- dead

ASSUME BootAssumption == Boot!LaunchAssumption
ASSUME GuardAssumption == Guard!StackAssumption

MemoryInit ==
  /\ memory \in {"pool", "arena", "stacks"}
  /\ Init /\ Boot!Init /\ Guard!Init
  /\ memory = "stacks" \/ ~wired

MemoryNext ==
  /\ \/ memory = "pool" /\ Next /\ UNCHANGED << bootvars, stackvars >>
     \/ memory = "arena" /\ Boot!Next /\ UNCHANGED << vars, stackvars >>
     \/ memory = "stacks" /\ Guard!Next /\ UNCHANGED << vars, bootvars >>
  /\ UNCHANGED memory

MemorySpec == MemoryInit /\ [][MemoryNext]_memvars

-----------------------------------------------------------------------------

\* Pool: both levels of bits, the count and the owners agree, and the lookup by
\* way of the summary finds what a search of all blocks finds.
PoolIsSound == TypeOK /\ BooksAgree /\ LookupsAgree

\* Arena: no box and no stack overlaps another, and every byte taken is some
\* task's.
ArenaIsSound == Boot!BedsAreApart /\ Boot!NothingLeaks

\* Stacks: a written sentinel does not survive the next switch, a death names
\* the task that died, and the watermark lies between the deepest switch and the
\* deepest point, as long as the control block below the stack is left alone.
StacksAreWatched ==
  Guard!OverflowIsCaught /\ Guard!DeathIsReported /\ Guard!WatermarkIsFair

=============================================================================
