----------------------------- MODULE MCConsole -----------------------------
(***************************************************************************)
(* The console, one half in each behaviour: the wire with the demo that    *)
(* echoes what it hears, and the calls of print, built token by token and  *)
(* begun anew.  One task prints, and no byte comes between the two reads   *)
(* of the handler.                                                         *)
(***************************************************************************)
EXTENDS Uart

CONSTANTS MaxTokens, MaxArgs, kLineBuffer

VARIABLES end, fmt, args

linevars == << fmt, args >>
consolevars == << end, uartvars, linevars >>

MCTokens == { << "a" >>, << "}" >>, << "{", "}" >> }

\* The largest number TLC computes with is 2^31 - 1.
MCArgs ==
  { [kind |-> "text", value |-> << >>],
    [kind |-> "text", value |-> << "b", "{", "}" >>],
    [kind |-> "char", value |-> "c"],
    [kind |-> "Hex", value |-> 16 ^ 7 + 15],
    [kind |-> "Hex", value |-> 0],
    [kind |-> "Dec", value |-> 0],
    [kind |-> "Dec", value |-> 10],
    [kind |-> "Dec", value |-> 2147483647] }

Line == INSTANCE Format WITH Tokens <- MCTokens, Args <- MCArgs

ASSUME LineAssumption == Line!FormatAssumption

ConsoleInit == end \in {"wire", "text"} /\ UartInit /\ Line!Init

On_wire(A) == end = "wire" /\ A /\ UNCHANGED << end, linevars >>

ConsoleNext ==
  \/ On_wire(Steps \/ (isr = "off" /\ Arrive))
  \/ end = "text" /\ (Line!Next \/ Line!NextCall) /\ UNCHANGED << end, uartvars >>

\* The processor takes the interrupt, characters leave the wire, and the
\* consumer gets on when it is given the processor again and again.
ConsoleSpec ==
  /\ ConsoleInit /\ [][ConsoleNext]_consolevars
  /\ WF_consolevars(On_wire(ReadSR))
  /\ WF_consolevars(On_wire(USART1_IRQHandler))
  /\ WF_consolevars(On_wire(Drain))
  /\ WF_consolevars(On_wire(ShiftOut))
  /\ SF_consolevars(On_wire(consumer))
  /\ SF_consolevars(On_wire(Poll(Consumer)))
  /\ SF_consolevars(On_wire(uart1_putc(Consumer)))

-----------------------------------------------------------------------------

\* Wire: the handler lets the threads go on, and a byte that got into the ring
\* is echoed.
BytesAreServed == HandlerLetsGo /\ StreamIsEchoed

\* print: placeholders are filled from left to right at every buffer size, the
\* channel gets a terminated line, and digits read back as the number.
LinesAreRight == Line!FillsPlaceholders /\ Line!LineIsTerminated /\ Line!DigitsReadBack

=============================================================================
