-------------------------------- MODULE Uart --------------------------------
(***************************************************************************)
(* USART1 of the Blue Pill and the event stream demo on top of it.  Bytes  *)
(* come in by interrupt and go through a queue to the consumer, which      *)
(* echoes each in a line; lines go out byte by byte, polled.               *)
(*                                                                         *)
(* The registers are those of the STM32F1.  A byte that arrives while the  *)
(* last one is unread is lost and sets ORE; RXNE is cleared by reading DR, *)
(* ORE by reading SR while it is set and then DR; RXNEIE raises the        *)
(* interrupt for either.  A byte is known by its place on the wire.        *)
(***************************************************************************)
EXTENDS Integers, Sequences

CONSTANTS Consumer, Printers,   \* the task that echoes; others that print
          Length,               \* characters of a line
          Capacity,             \* of g_stream
          kLetters,             \* 6 in the code, 'a' to 'f'
          MaxBytes              \* bound on the bytes that arrive

ASSUME UartAssumption ==
  /\ Consumer \notin Printers
  /\ Length \in Nat /\ Length > 2
  /\ Capacity \in Nat \ {0} /\ kLetters \in Nat \ {0} /\ MaxBytes \in Nat

Writers == Printers \cup {Consumer}
NoByte == 0

VARIABLES arrived,         \* bytes so far on the wire
          dr, rxne, ore,   \* DR as read, and the flags of SR
          isr,             \* the handler: "off", "sr" (RXNE seen), "sr_ore" (both)
          listens,         \* the image has a handler of its own
          stream, g_next,  \* g_stream; the letter the timer drops next
          echo, last,      \* what the consumer prints; the last byte it took
          at, saw,         \* the writer's place in its line; it has seen TXE
          tdr,             \* who wrote what is in the transmit register
          left             \* the characters of its line that have left

rxvars == << arrived, dr, rxne, ore, isr >>
txvars == << at, saw, tdr, left >>
appvars == << stream, g_next, echo, last >>
uartvars == << rxvars, txvars, appvars, listens >>

UartInit ==
  /\ arrived = 0 /\ dr = NoByte /\ rxne = FALSE /\ ore = FALSE
  /\ isr = "off"
  /\ listens \in BOOLEAN
  /\ stream = << >> /\ g_next = 0
  /\ echo = NoByte /\ last = NoByte
  /\ at = [w \in Writers |-> 0] /\ saw = [w \in Writers |-> FALSE]
  /\ tdr = {} /\ left = [w \in Writers |-> 0]

Raised == rxne \/ ore

\* Threads run while the handler does not want to.
Thread == ~Raised /\ isr = "off"

-----------------------------------------------------------------------------
(* Receiving.                                                              *)

\* A byte comes in.  External.
Arrive ==
  /\ arrived < MaxBytes
  /\ arrived' = arrived + 1
  /\ IF rxne THEN ore' = TRUE /\ UNCHANGED << dr, rxne >>
             ELSE dr' = arrived + 1 /\ rxne' = TRUE /\ UNCHANGED ore
  /\ UNCHANGED << isr, listens, txvars, appvars >>

post_front(b) == stream' = IF Len(stream) < Capacity THEN << b >> \o stream ELSE stream

\* post, which never sleeps: a full ring refuses.
post(b) == stream' = IF Len(stream) < Capacity THEN Append(stream, b) ELSE stream

\* The handler reads SR and goes on only when RXNE is set.  Otherwise it returns
\* with nothing done and, the interrupt still raised, is entered again.
ReadSR ==
  /\ isr = "off" /\ rxne
  /\ isr' = IF ore THEN "sr_ore" ELSE "sr"
  /\ UNCHANGED << arrived, dr, rxne, ore, listens, txvars, appvars >>

getc_peek == isr' = "off" /\ UNCHANGED << rxne, ore >>

\* uart1_getc, and what it does to the flags.  A byte that came between the two
\* reads is lost, and its ORE stays.
uart1_getc ==
  /\ rxne' = FALSE
  /\ ore' = (ore /\ isr = "sr")
  /\ isr' = "off"

USART1_IRQHandler ==
  /\ isr # "off" /\ listens
  /\ uart1_getc
  /\ post(dr)
  /\ UNCHANGED << arrived, dr, listens, g_next, echo, last, txvars >>

\* The weak handler: the byte is dropped.
Drain ==
  /\ isr # "off" /\ ~listens
  /\ uart1_getc
  /\ UNCHANGED << arrived, dr, listens, appvars, txvars >>

-----------------------------------------------------------------------------
(* The demo.  A letter is the negative of its place in the cycle.          *)

drop_one ==
  /\ post(-1 - g_next)
  /\ g_next' = (g_next + 1) % kLetters
  /\ UNCHANGED << echo, last, rxvars, txvars, listens >>

\* receive_one, and the line of print begins.
consumer ==
  /\ Thread /\ echo = NoByte /\ stream # << >>
  /\ echo' = Head(stream)
  /\ last' = IF echo' > 0 THEN echo' ELSE last
  /\ stream' = Tail(stream)
  /\ UNCHANGED << g_next, rxvars, txvars, listens >>

-----------------------------------------------------------------------------
(* Transmitting.  channel_body calls uart1_putc for each character.        *)

Printing(w) == w = Consumer => echo # NoByte

\* The poll of uart1_putc ends when TXE is set.
Poll(w) ==
  /\ Thread /\ Printing(w) /\ ~saw[w] /\ tdr = {}
  /\ saw' = [saw EXCEPT ![w] = TRUE]
  /\ UNCHANGED << at, tdr, left, rxvars, appvars, listens >>

\* The write to DR, which whoever preempted the writer may have filled since;
\* after the last character the line is out.
uart1_putc(w) ==
  /\ Thread /\ saw[w]
  /\ saw' = [saw EXCEPT ![w] = FALSE]
  /\ tdr' = {w}
  /\ at' = [at EXCEPT ![w] = (at[w] + 1) % Length]
  /\ echo' = IF w = Consumer /\ at[w] = Length - 1 THEN NoByte ELSE echo
  /\ UNCHANGED << left, rxvars, stream, g_next, last, listens >>

\* The character goes out and TXE is set.  External.
ShiftOut ==
  /\ tdr # {}
  /\ left' = [w \in Writers |-> IF w \in tdr THEN (left[w] + 1) % Length ELSE left[w]]
  /\ tdr' = {}
  /\ UNCHANGED << at, saw, rxvars, appvars, listens >>

Steps ==
  \/ ReadSR \/ USART1_IRQHandler \/ Drain
  \/ drop_one \/ consumer \/ ShiftOut
  \/ \E w \in Writers : Poll(w) \/ uart1_putc(w)

\* Bytes come at any time.
UartSpec == UartInit /\ [][Steps \/ Arrive]_uartvars

-----------------------------------------------------------------------------
(* Properties.                                                             *)

\* Bytes are echoed in the order of the wire and none twice, whatever overruns
\* and full rings lose.
EchoedInOrder == [][echo' # echo /\ echo' > 0 => echo' > last]_uartvars

\* Every character a writer wrote has left or is about to: none is overwritten.
NoCharacterLost ==
  \A w \in Writers : at[w] = (left[w] + (IF w \in tdr THEN 1 ELSE 0)) % Length

\* Wire: no character of a line is overwritten, and bytes are echoed in the
\* order they came in, none twice.
WireIsHonest == []NoCharacterLost /\ EchoedInOrder

\* The handler lets the threads go on: no flag keeps the interrupt raised.
HandlerLetsGo == Raised ~> ~Raised

\* A byte that got into the ring is echoed.
StreamIsEchoed ==
  \A b \in 1 .. MaxBytes : (\E i \in 1 .. Len(stream) : stream[i] = b) ~> last >= b

=============================================================================
