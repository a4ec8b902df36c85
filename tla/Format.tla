------------------------------- MODULE Format -------------------------------
(***************************************************************************)
(* log::format_to and log::print: a format string is walked once, every    *)
(* argument takes the next "{}", and the text is cut at the end of the     *)
(* buffer.  A behaviour grows a call token by token; the properties        *)
(* compare what the code makes of it with a reference.                     *)
(*                                                                         *)
(* A string is a sequence of characters, a digit the number it shows.      *)
(***************************************************************************)
EXTENDS Integers, SequencesExt, FiniteSetsExt

CONSTANTS Tokens,       \* what format strings are made of
          Args,         \* the arguments: records [kind, value]
          MaxTokens, MaxArgs,
          kLineBuffer

\* What the constants have to be; the instances are checked for it.
FormatAssumption ==
  /\ MaxTokens \in Nat /\ MaxArgs \in Nat
  /\ kLineBuffer \in Nat \ {0}

VARIABLES fmt, args

vars == << fmt, args >>

-----------------------------------------------------------------------------
(* The emitters.  A cursor that met its limit takes nothing more.          *)

Cut(s, limit) == SubSeq(s, 1, Min({Len(s), limit}))

emit(out, limit, s) == Cut(out \o s, limit)

\* Eight hexadecimal digits, zero padded.
hex_digits(v) == [i \in 1 .. 8 |-> (v \div 16 ^ (8 - i)) % 16]

\* Decimal digits without padding; zero has one.
dec_digits(v) ==
  LET tmp[n \in Nat] == IF n < 10 THEN << n >> ELSE Append(tmp[n \div 10], n % 10)
  IN  tmp[v]

emit_value(out, limit, arg) ==
  emit(out, limit, CASE arg.kind = "text" -> arg.value
                     [] arg.kind = "char" -> << arg.value >>
                     [] arg.kind = "Hex"  -> hex_digits(arg.value)
                     [] arg.kind = "Dec"  -> dec_digits(arg.value))

-----------------------------------------------------------------------------
\* Where emit_plain stops: the next brace, whatever comes after it.
Stop(f) == Min({i \in 1 .. Len(f) : f[i] = "{"} \cup {Len(f) + 1})

\* c is what is left of the format string, and the text so far.
emit_plain(c, limit) ==
  LET stop == Stop(c.fmt)
      eaten == stop < Len(c.fmt) /\ c.fmt[stop + 1] = "}"
  IN  [ fmt   |-> SubSeq(c.fmt, IF eaten THEN stop + 2 ELSE stop, Len(c.fmt)),
        out   |-> emit(c.out, limit, SubSeq(c.fmt, 1, stop - 1)),
        eaten |-> eaten ]

print_arg_always(c, arg, limit) ==
  LET p == emit_plain(c, limit)
  IN  [fmt |-> p.fmt, out |-> emit_value(p.out, limit, arg)]

\* An argument without a placeholder stays silent.
print_arg(c, arg, limit) ==
  LET p == emit_plain(c, limit)
  IN  [ fmt |-> p.fmt,
        out |-> IF p.eaten THEN emit_value(p.out, limit, arg) ELSE p.out ]

format_to(limit, f, as) ==
  LET c == FoldLeft(LAMBDA acc, arg : print_arg(acc, arg, limit),
                    [fmt |-> f, out |-> << >>], as)
  IN  emit(c.out, limit, c.fmt)

\* The line up to its terminator, as the channel gets it.
print(f, as) ==
  LET line == format_to(kLineBuffer, f, as)
  IN  Cut(line, IF Len(line) < kLineBuffer THEN Len(line) ELSE kLineBuffer - 1)

-----------------------------------------------------------------------------
Init == fmt = << >> /\ args = << >>

Next ==
  \/ /\ Len(fmt) < MaxTokens
     /\ \E t \in Tokens : fmt' = Append(fmt, t)
     /\ UNCHANGED args
  \/ /\ Len(args) < MaxArgs
     /\ \E a \in Args : args' = Append(args, a)
     /\ UNCHANGED fmt

\* Another call.
NextCall == vars # << << >>, << >> >> /\ fmt' = << >> /\ args' = << >>

Spec == Init /\ [][Next \/ NextCall]_vars

-----------------------------------------------------------------------------
(* Properties.                                                             *)

Text == FlattenSeq(fmt)

\* What is to come out: the i-th "{}" of the format string replaced by the i-th
\* argument, all else as it is.
Replaced ==
  LET open == {i \in 1 .. Len(Text) - 1 : Text[i] = "{" /\ Text[i + 1] = "}"}
      nth(i) == Cardinality({j \in open : j <= i})
      filled == {i \in open : nth(i) <= Len(args)}
  IN  FlattenSeq([i \in 1 .. Len(Text) |->
        IF i \in filled THEN emit_value(<< >>, 10, args[nth(i)])
        ELSE IF i - 1 \in filled THEN << >>
        ELSE << Text[i] >>])

\* format_to fills the placeholders from left to right, drops the arguments
\* and shows the placeholders that are left over, at every size of the buffer.
FillsPlaceholders ==
  \A limit \in 0 .. kLineBuffer : format_to(limit, Text, args) = Cut(Replaced, limit)

\* print hands the channel a terminated line: the terminator takes the place
\* of a character of its own, or of the last one.
LineIsTerminated ==
  /\ Len(print(Text, args)) < kLineBuffer
  /\ print(Text, args) = Cut(Replaced, kLineBuffer - 1)

\* The digits of a number read back as the number, in decimal without a
\* leading zero and in hexadecimal with all of them.
DigitsReadBack ==
  \A i \in DOMAIN args : args[i].kind \in {"Dec", "Hex"} =>
    LET base == IF args[i].kind = "Dec" THEN 10 ELSE 16
        digits == emit_value(<< >>, 10, args[i])
        read[n \in 0 .. Len(digits)] == IF n = 0 THEN 0 ELSE base * read[n - 1] + digits[n]
    IN  /\ digits # << >>
        /\ read[Len(digits)] = args[i].value
        /\ args[i].kind = "Dec" /\ Len(digits) > 1 => Head(digits) # 0

=============================================================================
