------------------------------ MODULE MCPrintf ------------------------------
(***************************************************************************)
(* Printf on formats built from directives, and what C says a directive    *)
(* prints.                                                                 *)
(***************************************************************************)
EXTENDS Printf, SequencesExt

\* Widths and precisions, as they are written and as they come out.
Widths == {[text |-> <<>>, args |-> <<>>, value |-> 0],
           [text |-> <<"7">>, args |-> <<>>, value |-> 7],
           [text |-> <<"1", "0">>, args |-> <<>>, value |-> 10],
           [text |-> <<"*">>, args |-> <<5>>, value |-> 5],
           [text |-> <<"*">>, args |-> <<-4>>, value |-> 0]}

Precisions == {[text |-> <<>>, args |-> <<>>, value |-> -1],
               [text |-> <<".">>, args |-> <<>>, value |-> 0],
               [text |-> <<".", "2">>, args |-> <<>>, value |-> 2],
               [text |-> <<".", "0", "6">>, args |-> <<>>, value |-> 6],
               [text |-> <<".", "*">>, args |-> <<4>>, value |-> 4],
               [text |-> <<".", "*">>, args |-> <<-2>>, value |-> 0]}

FlagTexts == {<<>>, <<"0">>, <<"-">>, <<"0", "-">>, <<"+", " ">>, <<" ", "0">>, <<"#">>, <<"#", "0">>}

\* Conversions with an argument each: a positive and a negative int, values
\* that differ as int and long, zero, strings.
Conversions ==
    {<<l, c, [n |-> n, s |-> <<"h", "e", "y">>]>> :
        l \in {<<>>, <<"l">>}, c \in {"d", "x"}, n \in {0, 45, -45, 300}}
    \cup {<<<<>>, c, [n |-> n, s |-> <<"y">>]>> : c \in {"i", "u", "X", "p"}, n \in {0, 200}}
    \cup {<<<<>>, c, [n |-> 0, s |-> t]>> : c \in {"s", "c"}, t \in {<<"h", "e", "y">>, <<>>}}
    \cup {<<l, c, [n |-> 3, s |-> <<>>]>> : l \in {<<>>, <<"z">>}, c \in {"C", "%", "q", NUL}}

Directive(f, w, p, c) ==
    [flags |-> {f[k] : k \in DOMAIN f}, width |-> w.value, precision |-> p.value,
     long |-> c[1] # <<>>, conversion |-> c[2], arg |-> c[3]]

AsArgs(numbers) == [k \in DOMAIN numbers |-> [n |-> numbers[k], s |-> <<>>]]

\* Text, the directive and, unless it breaks off, more text.
Format(f, w, p, c) ==
    <<"a", "%">> \o f \o w.text \o p.text \o c[1]
        \o (IF c[2] = NUL THEN <<>> ELSE <<c[2], "b">>)

DirectiveSize == 20     \* more than any of these prints

Input(f, w, p, c) ==
    [caller |-> "vsnprintf", size |-> DirectiveSize, format |-> Format(f, w, p, c),
     args |-> AsArgs(w.args) \o AsArgs(p.args) \o <<c[3]>>,
     directive |-> Directive(f, w, p, c)]

MCDirectives ==
    {Input(f, w, p, c) : f \in FlagTexts, w \in Widths, p \in Precisions, c \in Conversions}

Plain(c, t) == [conversion |-> c, arg |-> [n |-> 0, s |-> t], flags |-> {},
                width |-> 0, precision |-> -1, long |-> FALSE]

Texts == {Repeat("t", n) : n \in 0 .. 8}

\* Calls with every size of buffer, and panics with messages of every length.
MCBuffers ==
    {[caller |-> "vsnprintf", size |-> z, format |-> <<"%", "s">>,
      args |-> <<[n |-> 0, s |-> t]>>, directive |-> Plain("s", t)] :
        z \in 0 .. 8, t \in Texts}
    \cup
    {[caller |-> "panic", size |-> PanicSize, format |-> t \o nl, args |-> <<>>,
      directive |-> Plain("", <<>>)] : t \in Texts, nl \in {<<>>, <<"\n">>}}

MCInputs == MCDirectives \cup MCBuffers

-----------------------------------------------------------------------------
(* The reference *)

LeftPad(t, c, n) == IF n > Len(t) THEN Repeat(c, n - Len(t)) \o t ELSE t
RightPad(t, c, n) == IF n > Len(t) THEN t \o Repeat(c, n - Len(t)) ELSE t

DirectiveArg(d) == Signed(d.arg.n, IF d.long THEN LongBits ELSE IntBits)
DirectiveUnsigned(d) == d.arg.n % 2^(IF d.long \/ d.conversion = "p" THEN LongBits ELSE IntBits)

DirectiveNumber(d) ==
    CASE d.conversion \in {"d", "i"} -> fill_numbuf(Abs(DirectiveArg(d)), 10)
      [] d.conversion = "u" -> fill_numbuf(DirectiveUnsigned(d), 10)
      [] d.conversion = "X" -> fill_numbuf(DirectiveUnsigned(d), 16)
      [] OTHER -> fill_numbuf(DirectiveUnsigned(d), -16)

DirectiveSign(d) ==
    CASE d.conversion = "p" -> <<"0", "x">>
      [] d.conversion \in {"x", "X"} ->
            IF "#" \in d.flags /\ DirectiveUnsigned(d) # 0 THEN <<"0", d.conversion>> ELSE <<>>
      [] d.conversion = "u" -> <<>>
      [] DirectiveArg(d) < 0 -> <<"-">>
      [] OTHER -> IF "+" \in d.flags THEN <<"+">>
                  ELSE IF " " \in d.flags THEN <<" ">> ELSE <<>>

\* A number has at least the precision's digits; without one, 0 and no - fill
\* the width with digits.
NumberField(d) ==
    LET sign == DirectiveSign(d)
        least == IF d.precision < 0 /\ "0" \in d.flags /\ "-" \notin d.flags
                 THEN d.width - Len(sign) ELSE d.precision
    IN  sign \o LeftPad(DirectiveNumber(d), "0", least)

TextField(d) ==
    LET t == CASE d.conversion = "s" -> d.arg.s
               [] d.conversion = "c" -> First(d.arg.s)
               [] d.conversion = NUL -> <<"%">>
               [] OTHER -> <<d.conversion>>
    IN  IF d.precision >= 0 /\ d.precision < Len(t) THEN SubSeq(t, 1, d.precision) ELSE t

Expected(d) ==
    LET t == IF d.conversion \in {"d", "i", "u", "x", "X", "p"} THEN NumberField(d)
             ELSE TextField(d)
    IN  IF d.conversion = "C" THEN <<>>
        ELSE IF "-" \in d.flags THEN RightPad(t, " ", d.width) ELSE LeftPad(t, " ", d.width)

\* What digits in base b say, read from the left.
Value(digits, b) ==
    FoldLeft(LAMBDA n, c : b * n + (CHOOSE k \in 1 .. 16 : c \in {lower_digits[k], upper_digits[k]}) - 1,
             0, digits)

ReadsBack(d) ==
    LET digits == DirectiveNumber(d)
    IN  /\ digits[1] = "0" => Len(digits) = 1
        /\ CASE d.conversion \in {"d", "i"} -> Value(digits, 10) = Abs(DirectiveArg(d))
             [] d.conversion = "u" -> Value(digits, 10) = DirectiveUnsigned(d)
             [] OTHER -> Value(digits, 16) = DirectiveUnsigned(d)

\* A directive prints what C's printf says of its flags, width, precision and
\* argument (a precision below 0 counts as 0 and a width below 0 as none, a
\* character NUL prints nothing), between the text around it, and takes its
\* arguments in order; %C sets the color; the format is not read behind its end.  Numbers read back as they were.
DirectivePrints ==
    /\ PointerInFormat
    /\ mode = "returned" /\ in.size = DirectiveSize =>
        LET d == in.directive
        IN  /\ out = <<"a">> \o Expected(d) \o (IF d.conversion = NUL THEN <<>> ELSE <<"b">>)
            /\ ReadsBack(d)
            /\ color = IF d.conversion = "C" THEN d.arg.n ELSE 0
=============================================================================
