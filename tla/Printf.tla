------------------------------- MODULE Printf -------------------------------
(***************************************************************************)
(* printer_vprintf of lib.c, printing through string_putc as vsnprintf     *)
(* has it, and the panic of process.c, which prints a message into a       *)
(* buffer that way.                                                        *)
(*                                                                         *)
(* format is the sequence of the format's characters, i the position of    *)
(* the pointer `format' in it; behind the last character is a NUL, behind  *)
(* that nothing that may be read.  An argument is a record of a number and *)
(* of a string, of which the conversion takes one.  int and long have      *)
(* IntBits and LongBits bits.                                              *)
(***************************************************************************)
EXTENDS Integers, Sequences

CONSTANTS
    IntBits, LongBits,
    PanicSize,      \* sizeof(buf) in panic: 160
    PanicPrefix,    \* the length of "PANIC: "
    Inputs          \* the calls that are made

NUL == "\\0"

\* Of an input: who calls, the size of the buffer (of the whole one for
\* panic), the format and the arguments.
ASSUME PrintfAssumption ==
    /\ IntBits \in Nat \ {0} /\ LongBits \in Nat /\ IntBits =< LongBits
    /\ PanicPrefix \in Nat \ {0} /\ PanicSize > PanicPrefix + 1
    /\ \A in \in Inputs : in.caller = "panic" => in.size = PanicSize

VARIABLES in, i, mode, flags, width, precision, length, val, color,
          out,      \* everything printed, whether there was room or not
          buf, s    \* the buffer, with one cell behind it, and sp->s

directive == <<flags, width, precision, length>>
printfVars == <<in, i, mode, directive, val, color, out, buf, s>>

FlagChars == {"#", "0", "-", " ", "+"}
DigitChars == <<"0", "1", "2", "3", "4", "5", "6", "7", "8", "9">>
upper_digits == DigitChars \o <<"A", "B", "C", "D", "E", "F">>
lower_digits == DigitChars \o <<"a", "b", "c", "d", "e", "f">>

IsDigit(c) == \E d \in 1 .. 10 : DigitChars[d] = c
DigitValue(c) == (CHOOSE d \in 1 .. 10 : DigitChars[d] = c) - 1

\* *format
Char == IF i =< Len(in.format) THEN in.format[i] ELSE NUL

\* va_arg with the argument's type
Signed(n, bits) == LET m == n % 2^bits IN IF m >= 2^(bits - 1) THEN m - 2^bits ELSE m
Arg == Head(val)
ArgInt == Signed(Arg.n, IntBits)
ArgSigned == IF length = 1 THEN Signed(Arg.n, LongBits) ELSE ArgInt
ArgUnsigned == Arg.n % 2^(IF length = 1 THEN LongBits ELSE IntBits)

-----------------------------------------------------------------------------
(* vsnprintf: s to end, which is the place of the last NUL *)

Start == IF in.caller = "panic" THEN PanicPrefix ELSE 0

End == in.size - 1

PrintfInit ==
    /\ in \in Inputs
    /\ i = 1 /\ mode = IF in.size > 0 THEN "text" ELSE "returned"
    /\ flags = {} /\ width = -1 /\ precision = -1 /\ length = 0
    /\ val = in.args /\ color = 0 /\ out = <<>>
    /\ s = Start
    /\ buf = [k \in 0 .. in.size |-> IF k < Start THEN "P" ELSE "?"]

\* string_putc for each character of cs
putc(cs) ==
    LET n == IF Len(cs) < End - s THEN Len(cs) ELSE End - s
    IN  /\ out' = out \o cs
        /\ s' = s + n
        /\ buf' = [k \in DOMAIN buf |-> IF k >= s /\ k < s + n THEN cs[k - s + 1] ELSE buf[k]]

-----------------------------------------------------------------------------
(* Reading the format *)

Goto(m, k) == mode' = m /\ i' = i + k
Silent == UNCHANGED <<in, color, out, buf, s>>

Literal ==
    /\ mode = "text"
    /\ Char \notin {"%", NUL}
    /\ putc(<<Char>>)
    /\ Goto("text", 1)
    /\ UNCHANGED <<in, directive, val, color>>

Percent ==
    /\ mode = "text"
    /\ Char = "%"
    /\ Goto("flags", 1)
    /\ flags' = {} /\ width' = -1 /\ precision' = -1 /\ length' = 0
    /\ Silent /\ UNCHANGED val

Flag ==
    /\ mode = "flags"
    /\ Char \in FlagChars
    /\ flags' = flags \cup {Char}
    /\ Goto("flags", 1)
    /\ Silent /\ UNCHANGED <<width, precision, length, val>>

WidthStar ==
    /\ mode = "flags"
    /\ Char = "*"
    /\ width' = ArgInt /\ val' = Tail(val)
    /\ Goto("dot", 1)
    /\ Silent /\ UNCHANGED <<flags, precision, length>>

\* A first digit 0 is a flag.
WidthDigit ==
    /\ mode \in {"flags", "width"}
    /\ IsDigit(Char)
    /\ Char = "0" => mode = "width"
    /\ width' = (IF mode = "width" THEN 10 * width ELSE 0) + DigitValue(Char)
    /\ Goto("width", 1)
    /\ Silent /\ UNCHANGED <<flags, precision, length, val>>

WidthEnd ==
    /\ mode \in {"flags", "width"}
    /\ ~IsDigit(Char)
    /\ mode = "flags" => Char \notin FlagChars \cup {"*"}
    /\ Goto("dot", 0)
    /\ Silent /\ UNCHANGED <<directive, val>>

\* Without a number behind it the precision is 0.
Dot ==
    /\ mode = "dot"
    /\ IF Char = "." THEN precision' = 0 /\ Goto("precision", 1)
       ELSE Goto("conversion", 0) /\ UNCHANGED precision
    /\ Silent /\ UNCHANGED <<flags, width, length, val>>

NonNegative(n) == IF n < 0 THEN 0 ELSE n

PrecisionStar ==
    /\ mode = "precision"
    /\ Char = "*"
    /\ precision' = NonNegative(ArgInt) /\ val' = Tail(val)
    /\ Goto("conversion", 1)
    /\ Silent /\ UNCHANGED <<flags, width, length>>

PrecisionDigit ==
    /\ mode \in {"precision", "digits"}
    /\ IsDigit(Char)
    /\ precision' = 10 * precision + DigitValue(Char)
    /\ Goto("digits", 1)
    /\ Silent /\ UNCHANGED <<flags, width, length, val>>

PrecisionEnd ==
    /\ mode \in {"precision", "digits"}
    /\ ~IsDigit(Char)
    /\ Char = "*" => mode = "digits"
    /\ Goto("conversion", 0)
    /\ Silent /\ UNCHANGED <<directive, val>>

LongFlag ==
    /\ mode = "conversion"
    /\ Char \in {"l", "z"}
    /\ length' = 1
    /\ Goto("conversion", 1)
    /\ Silent /\ UNCHANGED <<flags, width, precision, val>>

Color ==
    /\ mode = "conversion"
    /\ Char = "C"
    /\ color' = ArgInt /\ val' = Tail(val)
    /\ Goto("text", 1)
    /\ UNCHANGED <<in, directive, out, buf, s>>

-----------------------------------------------------------------------------
(* Printing a converted argument *)

Abs(x) == IF x < 0 THEN -x ELSE x
Base == IF Char \in {"x", "p"} THEN -16 ELSE IF Char = "X" THEN 16 ELSE 10
SignedConversion == Char \in {"d", "i"}
Numeric == Char \in {"d", "i", "u", "x", "X", "p"}

\* fill_numbuf(numbuf + NUMBUFSIZ, n, base): as many digits as n has, at
\* least one.
fill_numbuf(n, base) ==
    LET b == Abs(base)
        count == CHOOSE k \in 1 .. LongBits :
                    n < b^k /\ \A j \in 1 .. k - 1 : n >= b^j
        digits == IF base < 0 THEN lower_digits ELSE upper_digits
    IN  [k \in 1 .. count |-> digits[((n \div b^(count - k)) % b) + 1]]

Num == IF SignedConversion THEN Abs(ArgSigned)
       ELSE IF Char = "p" THEN Arg.n % 2^LongBits ELSE ArgUnsigned

\* A character argument is the first of a string; the NUL of an empty one
\* ends numbuf at once.
First(t) == IF t = <<>> THEN t ELSE <<t[1]>>

\* data
Data == CASE Numeric -> fill_numbuf(Num, Base)
          [] Char = "s" -> Arg.s
          [] Char = "c" -> First(Arg.s)
          [] Char = NUL -> <<"%">>
          [] OTHER -> <<Char>>

Prefix == CASE SignedConversion ->
                IF ArgSigned < 0 THEN <<"-">>
                ELSE IF "+" \in flags THEN <<"+">>
                ELSE IF " " \in flags THEN <<" ">> ELSE <<>>
            [] Char = "p" -> <<"0", "x">>
            [] Char \in {"x", "X"} /\ "#" \in flags /\ Num # 0 -> <<"0", Char>>
            [] OTHER -> <<>>

\* strnlen or strlen
DataLength == IF precision >= 0 /\ ~Numeric /\ precision < Len(Data) THEN precision
              ELSE Len(Data)

\* Mutant: the room of the prefix is forgotten.
ZerosNoPrefix(len, prefix) ==
    IF ~Numeric THEN 0
    ELSE IF precision >= 0 THEN IF precision > len THEN precision - len ELSE 0
    ELSE IF "0" \in flags /\ "-" \notin flags /\ len < width THEN width - len
    ELSE 0

Zeros(len, prefix) ==
    IF ~Numeric THEN 0
    ELSE IF precision >= 0 THEN IF precision > len THEN precision - len ELSE 0
    ELSE IF "0" \in flags /\ "-" \notin flags /\ len + prefix < width THEN width - len - prefix
    ELSE 0

Repeat(c, n) == [k \in 1 .. NonNegative(n) |-> c]

\* The five loops at the end.
Printed(len, prefix, zeros) ==
    LET room == width - (len + zeros + Len(prefix))
        spaces == Repeat(" ", room)
    IN  (IF "-" \in flags THEN <<>> ELSE spaces) \o prefix \o Repeat("0", zeros)
            \o SubSeq(Data, 1, len) \o (IF "-" \in flags THEN spaces ELSE <<>>)

Takes == Numeric \/ Char \in {"s", "c"}

\* format-- at the end of the format makes up for the ++format of the loop.
AfterConversion == IF Char = NUL THEN 0 ELSE 1

Convert ==
    /\ mode = "conversion"
    /\ Char \notin {"l", "z", "C"}
    /\ putc(Printed(DataLength, Prefix, Zeros(DataLength, Len(Prefix))))
    /\ val' = IF Takes THEN Tail(val) ELSE val
    /\ Goto("text", AfterConversion)
    /\ UNCHANGED <<in, directive, color>>

-----------------------------------------------------------------------------
\* The end of vsnprintf: *sp.s = 0.
Terminate ==
    /\ mode = "text"
    /\ Char = NUL
    /\ buf' = [buf EXCEPT ![s] = NUL]
    /\ mode' = "returned"
    /\ UNCHANGED <<in, i, directive, val, color, out, s>>

\* Mutant: the newline is always appended behind the message.
NewlineAtEnd == s

\* Where panic puts the newline: over the last character if there is no room.
NewlineAt == IF s = PanicSize - 1 THEN s - 1 ELSE s

\* panic makes the message end in a newline; s is its length now.
PanicNewline ==
    /\ mode = "returned"
    /\ in.caller = "panic"
    /\ mode' = "printed"
    /\ buf' = IF buf[s - 1] = "\n" THEN buf
              ELSE [buf EXCEPT ![NewlineAt] = "\n", ![NewlineAt + 1] = NUL]
    /\ UNCHANGED <<in, i, directive, val, color, out, s>>

Read ==
    \/ Literal \/ Percent \/ Flag \/ WidthStar \/ WidthDigit \/ WidthEnd
    \/ Dot \/ PrecisionStar \/ PrecisionDigit \/ PrecisionEnd \/ LongFlag \/ Color

PrintfNext == Read \/ Convert \/ Terminate \/ PanicNewline

PrintfSpec == PrintfInit /\ [][PrintfNext]_printfVars

-----------------------------------------------------------------------------
(* Properties *)

\* The format is never read behind its NUL, wherever it breaks off.
PointerInFormat == i =< Len(in.format) + 1

\* Nothing is stored behind the buffer, and in front of panic's message;
\* vsnprintf leaves the beginning of what was printed, ended by a NUL, and
\* returns its length; the message panic prints ends in one newline and a NUL
\* inside buf, however long it was.
BufferBounded ==
    /\ buf[in.size] = "?"
    /\ \A k \in 0 .. Start - 1 : buf[k] = "P"
    /\ mode = "returned" /\ in.size > 0 =>
          /\ s = Start + Len(out) \/ (s = in.size - 1 /\ s < Start + Len(out))
          /\ \A k \in 1 .. s - Start : buf[Start + k - 1] = out[k]
          /\ buf[s] = NUL
    /\ mode = "printed" =>
          \E e \in 1 .. PanicSize - 1 :
             /\ buf[e] = NUL /\ buf[e - 1] = "\n"
             /\ \A k \in 0 .. e - 1 : buf[k] # NUL
=============================================================================
