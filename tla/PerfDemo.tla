------------------------------ MODULE PerfDemo ------------------------------
(***************************************************************************)
(* The measurement demo (example/perf): ping and pong take turns through a *)
(* flag and yield, a more urgent reporter waits for pong's letter.  With a *)
(* tick, slices end in the middle of a turn; the NO_TICK build has no      *)
(* SysTick, and only yields, blocks and letters move the processor.  The   *)
(* reporter's timeout lies far past the demo's lifetime: it never passes.  *)
(***************************************************************************)
EXTENDS ThisTask

CONSTANTS ping, pong, reporter,
          kRounds   \* rounds each plays, 1000 in the code

\* Three tasks play in it.
CastAssumption ==
  /\ {ping, pong, reporter} \subseteq Tasks
  /\ ping # pong /\ ping # reporter /\ pong # reporter
  /\ kRounds \in Nat

VARIABLES ping_turn,   \* g_ping_turn
          rounds,      \* rounds ping and pong have played
          step,        \* "spin" on the flag or about to "yield"
          stamp,       \* the round g_t0 was stamped in
          tallied,     \* the stamps pong has measured, in order
          report       \* whether the report is out

demovars == << ping_turn, rounds, step, stamp, tallied, report >>
allvars == << vars, demovars >>

Players == {ping, pong}

DemoBuilt ==
  /\ Built
  /\ ping_turn = TRUE
  /\ rounds = [p \in Players |-> 0]
  /\ step = [p \in Players |-> "spin"]
  /\ stamp = 0
  /\ tallied = << >>
  /\ report = FALSE

DemoInit == SystemInit /\ DemoBuilt

\* p plays: it has rounds left and is not inside a call.
Plays(p, s) == Runs(p) /\ pc[p] = "out" /\ step[p] = s /\ rounds[p] < kRounds

\* ping leaves its spin and stamps the clock, then turns the flag.
PingStamps ==
  /\ Plays(ping, "spin") /\ ping_turn
  /\ stamp' = rounds[ping] + 1
  /\ step' = [step EXCEPT ![ping] = "turn"]
  /\ UNCHANGED << vars, ping_turn, rounds, tallied, report >>

PingTurns ==
  /\ Plays(ping, "turn")
  /\ ping_turn' = FALSE
  /\ step' = [step EXCEPT ![ping] = "yield"]
  /\ UNCHANGED << vars, rounds, stamp, tallied, report >>

PongTallies_without_spinning ==
  /\ Plays(pong, "spin")
  /\ tallied' = Append(tallied, stamp)
  /\ ping_turn' = TRUE
  /\ step' = [step EXCEPT ![pong] = "yield"]
  /\ UNCHANGED << vars, rounds, stamp, report >>

\* pong leaves its spin, tallies the time since the stamp, turns the flag.
PongTallies ==
  /\ Plays(pong, "spin") /\ ~ping_turn
  /\ tallied' = Append(tallied, stamp)
  /\ ping_turn' = TRUE
  /\ step' = [step EXCEPT ![pong] = "yield"]
  /\ UNCHANGED << vars, rounds, stamp, report >>

Yields(p) ==
  /\ Plays(p, "yield")
  /\ CallYield(p)
  /\ rounds' = [rounds EXCEPT ![p] = @ + 1]
  /\ step' = [step EXCEPT ![p] = "spin"]
  /\ UNCHANGED << ping_turn, stamp, tallied, report >>

\* After its last round pong writes to the reporter, once.
PongNotifies ==
  /\ Runs(pong) /\ pc[pong] = "out"
  /\ rounds[pong] = kRounds /\ step[pong] = "spin"
  /\ k' = notify(k, reporter, CHOOSE v \in Letters : TRUE)
  /\ step' = [step EXCEPT ![pong] = "done"]
  /\ UNCHANGED << mode, alarm, ahead, facevars, ping_turn, rounds, stamp, tallied, report >>

\* ping's loop is over, or pong's letter is sent: the entry returns.
Returns(p) ==
  /\ rounds[p] = kRounds
  /\ p = pong => step[p] = "done"
  /\ Trap(p)
  /\ UNCHANGED demovars

\* The reporter waits for the letter, prints and blocks.
ReporterWaits ==
  /\ ~report /\ got[reporter] = None
  /\ CallWait(reporter) /\ ahead'[reporter]
  /\ UNCHANGED demovars

ReporterTurns == Turn(reporter) /\ UNCHANGED demovars

Reports ==
  /\ got[reporter] # None /\ ~report
  /\ CallBlock(reporter)
  /\ report' = TRUE
  /\ UNCHANGED << ping_turn, rounds, step, stamp, tallied >>

Bare(A) == A /\ UNCHANGED << facevars, demovars >>

DemoNext ==
  \/ Bare(SVC_Handler) \/ Bare(PendSV_Handler)
  \/ PingStamps \/ PingTurns \/ PongTallies \/ PongNotifies
  \/ \E p \in Players : Yields(p) \/ Returns(p)
  \/ ReporterWaits \/ ReporterTurns \/ Reports

\* The build with a tick: slices end anywhere, no sleep is over.
TickNext ==
  \/ DemoNext
  \/ Bare(SysTick_on_elapsed({}, {}))
  \/ Bare(SysTick_on_tick)

NoTickSpec == DemoInit /\ [][DemoNext]_allvars

TickSpec == DemoInit /\ [][TickNext]_allvars

-----------------------------------------------------------------------------
\* Wherever slices end, every round is measured once and against its own
\* stamp, and the report is about all of them.
EveryRoundMeasured ==
  /\ \A i \in 1 .. Len(tallied) : tallied[i] = i
  /\ report => Len(tallied) = kRounds

\* Without a tick the report still comes out: each yield and each task that
\* returns hands the processor on, and the letter finds the reporter asleep.
ReportComesOut == <>(report /\ \A p \in Players : pc[p] = "ended")

=============================================================================
