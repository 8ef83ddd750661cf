--------------------------- MODULE ConsoleProofs ----------------------------
(***************************************************************************)
(* The console is never overrun and a cursor below row 23 never stays, for *)
(* every console size, every set of processes and every use of printf; and *)
(* no buffer of vsnprintf or panic is overrun, for every format and size.  *)
(***************************************************************************)
EXTENDS Console, Printf, TLAPS

-----------------------------------------------------------------------------
(* Arithmetic of console_putc *)

\* Multiplication by a natural number is monotone.
LEMMA TimesMonotone ==
    ASSUME NEW q \in Nat, NEW r \in Nat, NEW c \in Nat, q <= r
    PROVE  q * c <= r * c
<1>1. PICK d \in Nat : r = q + d
  BY r - q \in Nat, r = q + (r - q)
<1>2. r * c = q * c + d * c
  BY <1>1
<1>3. d * c \in Nat /\ q * c \in Nat
  OBVIOUS
<1> QED BY <1>2, <1>3

\* The size of the console is a positive number.
LEMMA SizeType == Size \in Nat /\ Size >= CONSOLE_COLUMNS
<1>1. 1 * CONSOLE_COLUMNS <= CONSOLE_ROWS * CONSOLE_COLUMNS
  BY ConsoleAssumption, TimesMonotone
<1> QED BY <1>1, ConsoleAssumption DEF Size

\* A newline on the console ends at most at the end of the console: the loop
\* of console_putc stops at the end of a row.
LEMMA NextRowInside ==
    ASSUME NEW c \in 0 .. Size - 1
    PROVE  /\ NextRow(c) \in 0 .. Size
           /\ NextRow(c) > c
<1> DEFINE C == CONSOLE_COLUMNS
           q == c \div C
           m == c % C
<1>1. C \in Nat /\ C > 0 /\ CONSOLE_ROWS \in Nat /\ c \in Nat
  BY ConsoleAssumption, SizeType
<1>2. q \in Nat /\ m \in 0 .. C - 1 /\ c = q * C + m
  BY <1>1
<1>3. q + 1 <= CONSOLE_ROWS
  <2>1. SUFFICES ASSUME CONSOLE_ROWS <= q PROVE FALSE
    BY <1>1, <1>2
  <2>2. CONSOLE_ROWS * C <= q * C
    BY <2>1, <1>1, <1>2, TimesMonotone
  <2>3. c >= Size
    BY <2>2, <1>1, <1>2 DEF Size
  <2> QED BY <2>3, SizeType
<1>4. (q + 1) * C <= CONSOLE_ROWS * C
  BY <1>3, <1>2, <1>1, TimesMonotone
<1>5. (q + 1) * C = q * C + C
  BY <1>1, <1>2
<1>6. NextRow(c) = q * C + C
  BY <1>1, <1>2 DEF NextRow
<1> HIDE DEF q, m
<1>7. q * C \in Nat /\ Size = CONSOLE_ROWS * C
  BY <1>1, <1>2 DEF Size
<1> QED BY <1>1, <1>2, <1>4, <1>5, <1>6, <1>7, SizeType

\* Row 0 is above row 23.
LEMMA TopRow == ~(CROW(0) >= AppRows)
  BY ConsoleAssumption DEF CROW

-----------------------------------------------------------------------------
(* The invariant: types, the cells behind the console, the settling cursor. *)

ConsoleInv == TypeOK /\ NothingBeyondConsole /\ CursorposSettles

\* The start of a print is on the console or its end.
LEMMA StartPositionInside ==
    ASSUME NEW c \in Int
    PROVE  StartPosition(c) \in 0 .. Size
  BY SizeType DEF StartPosition

\* After wrapping there is room for a character.
LEMMA WrappedInside ==
    ASSUME NEW c \in 0 .. Size
    PROVE  Wrapped(c) \in 0 .. Size - 1
  BY SizeType, ConsoleAssumption DEF Wrapped

\* Storing between two positions of the console touches nothing behind it.
LEMMA StoreInside ==
    ASSUME ConsoleInv, NEW a \in Actors,
           NEW c \in 0 .. Size - 1, NEW c2 \in 0 .. Size,
           Store(a, c, c2), UNCHANGED <<cursorpos, pc>>
    PROVE  ConsoleInv'
<1>1. TypeOK'
  BY DEF ConsoleInv, TypeOK, Store
<1>2. NothingBeyondConsole'
  BY SizeType DEF ConsoleInv, NothingBeyondConsole, Store, Page, TypeOK
<1>3. CursorposSettles'
  BY DEF ConsoleInv, CursorposSettles, CROW
<1> QED BY <1>1, <1>2, <1>3 DEF ConsoleInv

\* Prints of a process or the kernel at a position of its own.
LEMMA PrintStepInv ==
    ASSUME ConsoleInv, NEW a \in Actors, PrintStep(a)
    PROVE  ConsoleInv'
<1> USE DEF ConsoleInv
<1>1. CASE Putc(a)
  <2>1. Wrapped(cursor[a]) \in 0 .. Size - 1
    BY WrappedInside DEF TypeOK
  <2>2. Wrapped(cursor[a]) + 1 \in 0 .. Size
    BY <2>1, SizeType
  <2> QED BY <1>1, <2>1, <2>2, StoreInside DEF Putc
<1>2. CASE PutNewline(a)
  <2>1. Wrapped(cursor[a]) \in 0 .. Size - 1
    BY WrappedInside DEF TypeOK
  <2>2. NextRow(Wrapped(cursor[a])) \in 0 .. Size
    BY <2>1, NextRowInside
  <2> QED BY <1>2, <2>1, <2>2, StoreInside DEF PutNewline
<1>3. CASE ConsolePrintf(a)
  <2>1. PICK cpos \in Positions \cup {cursor[a]} :
           cursor' = [cursor EXCEPT ![a] = StartPosition(cpos)]
    BY <1>3 DEF ConsolePrintf
  <2>2. cpos \in Int
    BY SizeType, ConsoleAssumption DEF TypeOK
  <2>3. StartPosition(cpos) \in 0 .. Size
    BY <2>2, StartPositionInside
  <2>4. TypeOK'
    BY <1>3, <2>1, <2>3 DEF TypeOK, ConsolePrintf
  <2>5. NothingBeyondConsole'
    BY <1>3 DEF ConsolePrintf, NothingBeyondConsole
  <2>6. CursorposSettles'
    BY <1>3 DEF ConsolePrintf, CursorposSettles, CROW, TypeOK, Actors
  <2> QED BY <2>4, <2>5, <2>6
<1>4. CASE ConsolePrintfReturn(a)
  <2>1. TypeOK'
    BY <1>4 DEF TypeOK, ConsolePrintfReturn
  <2>2. NothingBeyondConsole'
    BY <1>4 DEF ConsolePrintfReturn, NothingBeyondConsole
  <2>3. CursorposSettles'
    BY <1>4 DEF ConsolePrintfReturn, CursorposSettles, CROW, TypeOK, Actors
  <2> QED BY <2>1, <2>2, <2>3
<1> QED BY <1>1, <1>2, <1>3, <1>4 DEF PrintStep

\* The steps of app_printf.  The write may leave the cursor at the bottom, but
\* then the writer itself is before its test.
LEMMA AppStepInv ==
    ASSUME ConsoleInv, NEW p \in Processes, AppStep(p)
    PROVE  ConsoleInv'
<1> USE DEF ConsoleInv
<1>0. p \in Actors
  BY DEF Actors
<1>1. CASE AppPrintf(p)
  <2>1. StartPosition(cursorpos) \in 0 .. Size
    BY StartPositionInside, SizeType DEF TypeOK
  <2>2. TypeOK'
    BY <1>0, <1>1, <2>1 DEF TypeOK, AppPrintf
  <2>3. NothingBeyondConsole'
    BY <1>1 DEF AppPrintf, NothingBeyondConsole
  <2>4. CursorposSettles'
    BY <1>0, <1>1 DEF AppPrintf, CursorposSettles, CROW, TypeOK, Actors
  <2> QED BY <2>2, <2>3, <2>4
<1>2. CASE AppPrintfWrite(p)
  <2>1. TypeOK'
    BY <1>0, <1>2 DEF TypeOK, AppPrintfWrite
  <2>2. NothingBeyondConsole'
    BY <1>2 DEF AppPrintfWrite, NothingBeyondConsole
  <2>3. pc'[p] = "written"
    BY <1>0, <1>2 DEF AppPrintfWrite, TypeOK
  <2> QED BY <2>1, <2>2, <2>3 DEF CursorposSettles
<1>3. CASE AppPrintfCheck(p)
  <2>1. TypeOK'
    BY <1>0, <1>3 DEF TypeOK, AppPrintfCheck
  <2>2. NothingBeyondConsole'
    BY <1>3 DEF AppPrintfCheck, NothingBeyondConsole
  <2>3. cursorpos' = cursorpos
    BY <1>3 DEF AppPrintfCheck
  <2>4. ASSUME CROW(cursorpos) >= AppRows PROVE pc'[p] = "reset"
    BY <1>0, <1>3, <2>4 DEF AppPrintfCheck, TypeOK
  <2> QED BY <2>1, <2>2, <2>3, <2>4 DEF CursorposSettles, CROW
<1>4. CASE AppPrintfReset(p)
  <2>1. TypeOK'
    BY <1>0, <1>4, SizeType DEF TypeOK, AppPrintfReset
  <2>2. NothingBeyondConsole'
    BY <1>4 DEF AppPrintfReset, NothingBeyondConsole
  <2>3. CursorposSettles'
    BY <1>4, TopRow DEF AppPrintfReset, CursorposSettles, CROW
  <2> QED BY <2>1, <2>2, <2>3
<1> QED BY <1>1, <1>2, <1>3, <1>4 DEF AppStep

\* console_clear clears the console and nothing else.
LEMMA ConsoleClearInv ==
    ASSUME ConsoleInv, ConsoleClear
    PROVE  ConsoleInv'
<1> USE DEF ConsoleInv
<1>1. TypeOK'
  BY SizeType DEF TypeOK, ConsoleClear
<1>2. NothingBeyondConsole'
  BY SizeType DEF ConsoleClear, NothingBeyondConsole, Page
<1>3. CursorposSettles'
  BY TopRow DEF ConsoleClear, CursorposSettles, CROW
<1> QED BY <1>1, <1>2, <1>3

-----------------------------------------------------------------------------
\* In every state no cell behind the console was stored to, and a cursor in
\* or below row 23 is about to be reset: console_putc, console_vprintf,
\* app_printf and console_clear, interleaved in any way.
THEOREM ConsoleSafe == Spec => [](TypeOK /\ NothingBeyondConsole /\ CursorposSettles)
<1>1. Init => ConsoleInv
  <2> SUFFICES ASSUME Init PROVE ConsoleInv
    OBVIOUS
  <2>1. TypeOK
    BY SizeType DEF Init, TypeOK
  <2>2. NothingBeyondConsole
    BY DEF Init, NothingBeyondConsole
  <2>3. CursorposSettles
    BY TopRow DEF Init, CursorposSettles
  <2> QED BY <2>1, <2>2, <2>3 DEF ConsoleInv
<1>2. ConsoleInv /\ [Next]_vars => ConsoleInv'
  <2> SUFFICES ASSUME ConsoleInv, [Next]_vars PROVE ConsoleInv'
    OBVIOUS
  <2>1. CASE UNCHANGED vars
    BY <2>1 DEF vars, ConsoleInv, TypeOK, NothingBeyondConsole,
                CursorposSettles, CROW
  <2>2. CASE Next
    BY <2>2, PrintStepInv, AppStepInv, ConsoleClearInv DEF Next
  <2> QED BY <2>1, <2>2
<1> QED BY <1>1, <1>2, PTL DEF Spec, ConsoleInv

\* A cursor that a program left in or below the row app_printf resets at is
\* reset before anybody prints again: the program that moved it there is
\* about to, whatever the other programs and the kernel print in between.
THEOREM CursorSettles == Spec => []CursorposSettles
<1>1. TypeOK /\ NothingBeyondConsole /\ CursorposSettles => CursorposSettles
  OBVIOUS
<1> QED BY <1>1, ConsoleSafe, PTL

-----------------------------------------------------------------------------
(* Printf: the buffer of vsnprintf and of panic *)

\* What may be printed or stand in a format: a NUL ends both.
Characters == STRING \ {NUL}

\* Buffers have a size, formats are strings.
InputsWellFormed ==
    \A x \in Inputs : x.size \in Nat /\ x.format \in Seq(Characters)

\* What a conversion is about to print is text.  It takes the arguments that
\* the directive asks for, strings that end before their NUL among them, and
\* digits; that digits are digits is arithmetic of powers.
DirectivePrintsText ==
    mode = "conversion" /\ Char \notin {"l", "z", "C"} =>
        Printed(DataLength, Prefix, Zeros(DataLength, Len(Prefix))) \in Seq(Characters)

\* The buffer holds panic's prefix and as much of what was printed as there
\* is room for; s is behind it; the cell behind the buffer is untouched.
Filled ==
    /\ out \in Seq(Characters)
    /\ s \in Nat /\ Start =< s /\ s < in.size
    /\ buf = [k \in 0 .. in.size |-> buf[k]]
    /\ buf[in.size] = "?"
    /\ \A k \in 0 .. Start - 1 : buf[k] = "P"
    /\ s = Start + Len(out) \/ (s = End /\ s < Start + Len(out))
    /\ \A k \in 1 .. s - Start : buf[Start + k - 1] = out[k]

\* How panic's message ends.
MessageEnds ==
    \E e \in 1 .. PanicSize - 1 :
        /\ buf[e] = NUL /\ buf[e - 1] = "\n"
        /\ \A k \in 0 .. e - 1 : buf[k] # NUL

\* The inductive invariant: a call is still filling its buffer, has ended it,
\* is a panic that has printed its message, or had no buffer at all.
PrintfInv ==
    /\ in \in Inputs /\ i \in Nat \ {0}
    /\ \/ mode \notin {"returned", "printed"} /\ Filled
       \/ mode = "returned" /\ Filled /\ buf[s] = NUL
       \/ /\ mode = "printed" /\ MessageEnds /\ buf[in.size] = "?"
          /\ \A k \in 0 .. Start - 1 : buf[k] = "P"
       \/ mode = "returned" /\ in.size = 0 /\ in.caller # "panic" /\ buf[in.size] = "?"

\* What is known of the constants of a call.
LEMMA CallSizes ==
    ASSUME InputsWellFormed, in \in Inputs
    PROVE  /\ in.size \in Nat /\ in.format \in Seq(Characters)
           /\ Start \in Nat
           /\ in.caller = "panic" => in.size = PanicSize /\ Start = PanicPrefix
           /\ in.caller = "panic" => PanicSize \in Nat /\ PanicSize > PanicPrefix + 1
           /\ PanicPrefix \in Nat \ {0}
           /\ in.caller # "panic" => Start = 0
  BY PrintfAssumption DEF InputsWellFormed, Start

\* Before the first character the buffer is filled with nothing.
LEMMA PrintfInitInv ==
    ASSUME InputsWellFormed, PrintfInit
    PROVE  PrintfInv
<1>1. in \in Inputs /\ i = 1 /\ out = <<>> /\ s = Start
    /\ mode = (IF in.size > 0 THEN "text" ELSE "returned")
    /\ buf = [k \in 0 .. in.size |-> IF k < Start THEN "P" ELSE "?"]
  BY DEF PrintfInit
<1>2. in.size \in Nat /\ Start \in Nat /\ (in.size > 0 => Start < in.size)
    /\ (in.size = 0 => in.caller # "panic") /\ (in.size = 0 => Start = 0)
  BY <1>1, CallSizes
<1>3. CASE in.size > 0
  <2>1. buf = [k \in 0 .. in.size |-> buf[k]] /\ buf[in.size] = "?"
    BY <1>1, <1>2, <1>3
  <2>2. \A k \in 0 .. Start - 1 : buf[k] = "P"
    BY <1>1, <1>2, <1>3
  <2>3. Filled
    BY <1>1, <1>2, <1>3, <2>1, <2>2 DEF Filled
  <2>. QED  BY <1>1, <1>3, <2>3 DEF PrintfInv
<1>4. CASE in.size = 0
  BY <1>1, <1>2, <1>4 DEF PrintfInv
<1>. QED  BY <1>2, <1>3, <1>4

\* string_putc keeps the buffer filled with what was printed, whether the
\* characters fit, fit in part or not at all.
LEMMA PutcFills ==
    ASSUME InputsWellFormed, in \in Inputs, Filled, in' = in,
           NEW cs \in Seq(Characters), putc(cs)
    PROVE  Filled'
<1>. DEFINE n == IF Len(cs) < End - s THEN Len(cs) ELSE End - s
<1>1. in.size \in Nat /\ Start \in Nat /\ Start' = Start /\ End' = End /\ End = in.size - 1
  BY CallSizes DEF Start, End
<1>2. out' = out \o cs /\ s' = s + n
    /\ buf' = [k \in DOMAIN buf |-> IF k >= s /\ k < s + n THEN cs[k - s + 1] ELSE buf[k]]
  BY DEF putc
<1>3. /\ out \in Seq(Characters) /\ s \in Nat /\ Start =< s /\ s < in.size
      /\ buf = [k \in 0 .. in.size |-> buf[k]] /\ buf[in.size] = "?"
      /\ Len(out) \in Nat /\ Len(cs) \in Nat
  BY DEF Filled
<1>4. n \in Nat /\ n =< Len(cs) /\ s + n =< End
    /\ (n = Len(cs) \/ (s + n = End /\ n < Len(cs)))
  BY <1>1, <1>3, SMTT(60)
<1>. HIDE DEF n
<1>6. out' \in Seq(Characters) /\ Len(out') = Len(out) + Len(cs)
    /\ (\A k \in 1 .. Len(out) : out'[k] = out[k])
    /\ (\A k \in 1 .. Len(cs) : out'[Len(out) + k] = cs[k])
  BY <1>2, <1>3
<1>7. s' \in Nat /\ Start' =< s' /\ s' < in'.size
  BY <1>1, <1>2, <1>3, <1>4
<1>8. /\ DOMAIN buf' = 0 .. in.size
      /\ \A k \in 0 .. in.size : k < s => buf'[k] = buf[k]
      /\ \A k \in 0 .. in.size : k >= s + n => buf'[k] = buf[k]
      /\ \A k \in 1 .. n : buf'[s + k - 1] = cs[k]
  <2>1. DOMAIN buf = 0 .. in.size
    BY <1>3
  <2>2. \A k \in 0 .. in.size : buf'[k] = IF k >= s /\ k < s + n THEN cs[k - s + 1] ELSE buf[k]
    BY <1>2, <2>1
  <2>3. ASSUME NEW k \in 1 .. n PROVE buf'[s + k - 1] = cs[k]
    <3>1. PICK j \in 0 .. in.size : j = s + k - 1
      BY <1>1, <1>3, <1>4
    <3>2. j >= s /\ j < s + n /\ j - s + 1 = k
      BY <1>3, <1>4, <3>1
    <3>. QED  BY <2>2, <3>1, <3>2
  <2>4. \A k \in 0 .. in.size : (k < s \/ k >= s + n) => ~(k >= s /\ k < s + n)
    BY <1>3, <1>4
  <2>. QED  BY <1>2, <2>1, <2>2, <2>3, <2>4
<1>9. buf' = [k \in 0 .. in'.size |-> buf'[k]]
  BY <1>2, <1>3
<1>10. buf'[in'.size] = "?" /\ \A k \in 0 .. Start' - 1 : buf'[k] = "P"
  <2>1. in.size \in 0 .. in.size /\ in.size >= s + n
    BY <1>1, <1>3, <1>4
  <2>2. \A k \in 0 .. Start - 1 : k \in 0 .. in.size /\ k < s
    BY <1>1, <1>3
  <2>3. \A k \in 0 .. Start - 1 : buf[k] = "P"
    BY Zenon DEF Filled
  <2>. QED  BY <1>1, <1>3, <1>8, <2>1, <2>2, <2>3
<1>11. s' = Start' + Len(out') \/ (s' = End' /\ s' < Start' + Len(out'))
  <2>1. s = Start + Len(out) \/ (s = End /\ s < Start + Len(out))
    BY DEF Filled
  <2>2. CASE s = Start + Len(out)
    <3>1. Start + Len(out') = s + Len(cs)
      BY <1>1, <1>3, <1>6, <2>2
    <3>. QED  BY <1>1, <1>2, <1>3, <1>4, <3>1
  <2>3. CASE s = End /\ s < Start + Len(out)
    <3>1. n = 0
      BY <1>1, <1>3, <1>4, <2>3
    <3>. QED  BY <1>1, <1>2, <1>3, <1>4, <1>6, <2>3, <3>1
  <2>. QED  BY <2>1, <2>2, <2>3
<1>12. \A k \in 1 .. s' - Start' : buf'[Start' + k - 1] = out'[k]
  <2>. SUFFICES ASSUME NEW k \in 1 .. (s + n) - Start PROVE buf'[Start + k - 1] = out'[k]
    BY <1>1, <1>2
  <2>1. s = Start + Len(out) \/ (s = End /\ s < Start + Len(out))
    BY DEF Filled
  <2>2. s - Start =< Len(out) /\ (n > 0 => s - Start = Len(out))
    BY <1>1, <1>3, <1>4, <2>1
  <2>3. CASE k =< s - Start
    <3>1. k \in 1 .. s - Start /\ k \in 1 .. Len(out)
      BY <1>1, <1>3, <2>2, <2>3
    <3>2. PICK j \in 0 .. in.size : j = Start + k - 1 /\ j < s
      BY <1>1, <1>3, <2>3
    <3>3. buf[Start + k - 1] = out[k]
      BY <3>1 DEF Filled
    <3>. QED  BY <1>6, <1>8, <3>1, <3>2, <3>3
  <2>4. CASE k > s - Start
    <3>1. n > 0
      BY <1>1, <1>3, <1>4, <2>4
    <3>2. PICK m \in 1 .. n : k = Len(out) + m
      <4>1. k - Len(out) \in 1 .. n /\ k = Len(out) + (k - Len(out))
        BY <1>1, <1>3, <1>4, <2>2, <2>4, <3>1, SMTT(60)
      <4>. QED  BY <4>1
    <3>3. Start + k - 1 = s + m - 1
      BY <1>1, <1>3, <1>4, <2>2, <3>1, <3>2, SMTT(60)
    <3>4. m \in 1 .. Len(cs)
      BY <1>3, <1>4
    <3>. QED  BY <1>6, <1>8, <3>2, <3>3, <3>4
  <2>. QED  BY <1>1, <1>3, <1>4, <2>3, <2>4
<1>. QED  BY <1>6, <1>7, <1>9, <1>10, <1>11, <1>12 DEF Filled

\* A step that reads the format leaves the buffer alone.
LEMMA SilentFills ==
    ASSUME Filled, Silent
    PROVE  Filled' /\ in' = in
  BY DEF Filled, Silent, Start, End

\* Every step of printer_vprintf that is not the last keeps the buffer filled.
LEMMA ReadFills ==
    ASSUME InputsWellFormed, in \in Inputs, i \in Nat \ {0}, Filled, Read
    PROVE  Filled' /\ in' = in /\ i' \in Nat \ {0} /\ mode' \notin {"returned", "printed"}
<1>1. CASE Literal
  <2>1. Char \notin {"%", NUL} /\ putc(<<Char>>) /\ Goto("text", 1) /\ in' = in
    BY <1>1 DEF Literal
  <2>2. Char \in Characters
    <3>1. i =< Len(in.format) /\ Char = in.format[i]
      BY <2>1 DEF Char
    <3>2. in.format \in Seq(Characters)
      BY CallSizes
    <3>. QED  BY <3>1, <3>2
  <2>3. <<Char>> \in Seq(Characters)
    BY <2>2
  <2>4. Filled'
    BY <2>1, <2>3, PutcFills
  <2>. QED  BY <2>1, <2>4 DEF Goto
<1>2. CASE Color
  <2>1. UNCHANGED <<in, out, buf, s>> /\ Goto("text", 1)
    BY <1>2 DEF Color
  <2>2. Filled'
    BY <2>1 DEF Filled, Start, End
  <2>. QED  BY <2>1, <2>2 DEF Goto
<1>3. CASE Percent \/ Flag \/ WidthStar \/ WidthDigit \/ WidthEnd \/ Dot
           \/ PrecisionStar \/ PrecisionDigit \/ PrecisionEnd \/ LongFlag
  <2>1. Silent /\ \E k \in {0, 1} : \E m \in {"flags", "dot", "width", "precision", "digits", "conversion"} :
                     Goto(m, k)
    BY <1>3 DEF Percent, Flag, WidthStar, WidthDigit, WidthEnd, Dot,
                PrecisionStar, PrecisionDigit, PrecisionEnd, LongFlag
  <2>. QED  BY <2>1, SilentFills DEF Goto
<1>. QED  BY <1>1, <1>2, <1>3 DEF Read

\* vsnprintf ends the buffer with a NUL at s, inside it.
LEMMA TerminateEnds ==
    ASSUME InputsWellFormed, in \in Inputs, Filled, Terminate
    PROVE  Filled' /\ in' = in /\ i' = i /\ mode' = "returned" /\ buf'[s'] = NUL
<1>1. in' = in /\ i' = i /\ out' = out /\ s' = s /\ buf' = [buf EXCEPT ![s] = NUL] /\ mode' = "returned"
  BY DEF Terminate
<1>2. in.size \in Nat /\ Start \in Nat /\ s \in Nat /\ s < in.size /\ Start =< s
    /\ buf = [k \in 0 .. in.size |-> buf[k]]
  BY CallSizes DEF Filled
<1>3. buf' = [k \in 0 .. in.size |-> buf'[k]] /\ buf'[s] = NUL
    /\ (\A k \in 0 .. in.size : k # s => buf'[k] = buf[k])
  <2>1. s \in DOMAIN buf
    BY <1>2
  <2>. QED  BY <1>1, <1>2, <2>1
<1>4. buf'[in.size] = "?" /\ \A k \in 0 .. Start - 1 : buf'[k] = "P"
  <2>1. in.size \in 0 .. in.size /\ in.size # s
    BY <1>2
  <2>2. \A k \in 0 .. Start - 1 : k \in 0 .. in.size /\ k # s
    BY <1>2
  <2>. QED  BY <1>3, <2>1, <2>2 DEF Filled
<1>5. ASSUME NEW k \in 1 .. s - Start PROVE buf'[Start + k - 1] = out[k]
  <2>1. PICK j \in 0 .. in.size : j = Start + k - 1 /\ j # s
    BY <1>2
  <2>. QED  BY <1>3, <2>1 DEF Filled
<1>6. Start' = Start /\ End' = End
  BY <1>1 DEF Start, End
<1>7. Filled'
  BY <1>1, <1>2, <1>3, <1>4, <1>5, <1>6 DEF Filled
<1>. QED  BY <1>1, <1>3, <1>7

\* panic's newline and NUL go inside its buffer, behind its prefix.
LEMMA PanicEnds ==
    ASSUME InputsWellFormed, in \in Inputs, Filled, buf[s] = NUL, PanicNewline
    PROVE  /\ in' = in /\ i' = i /\ mode' = "printed"
           /\ MessageEnds' /\ buf'[in'.size] = "?"
           /\ \A k \in 0 .. Start' - 1 : buf'[k] = "P"
<1>1. in' = in /\ i' = i /\ mode' = "printed" /\ in.caller = "panic"
    /\ buf' = IF buf[s - 1] = "\n" THEN buf
              ELSE [buf EXCEPT ![NewlineAt] = "\n", ![NewlineAt + 1] = NUL]
  BY DEF PanicNewline
<1>2. /\ in.size = PanicSize /\ Start = PanicPrefix /\ PanicSize \in Nat
      /\ PanicPrefix \in Nat \ {0} /\ PanicSize > PanicPrefix + 1
      /\ s \in Nat /\ PanicPrefix =< s /\ s < PanicSize
      /\ buf = [k \in 0 .. PanicSize |-> buf[k]] /\ buf[PanicSize] = "?"
      /\ Start' = Start
  BY <1>1, CallSizes DEF Filled, Start
<1>3. \A k \in 0 .. PanicPrefix - 1 : buf[k] = "P"
  BY <1>2 DEF Filled
<1>4. ASSUME NEW k \in 0 .. s - 1 PROVE buf[k] # NUL
  <2>1. CASE k < PanicPrefix
    <3>1. k \in 0 .. PanicPrefix - 1
      BY <1>2, <2>1
    <3>2. buf[k] = "P"
      BY <1>3, <3>1, Zenon
    <3>. QED  BY <3>2 DEF NUL
  <2>2. CASE k >= PanicPrefix
    <3>1. PICK j \in 1 .. s - PanicPrefix : k = PanicPrefix + j - 1
      <4>1. k - PanicPrefix + 1 \in 1 .. s - PanicPrefix
          /\ k = PanicPrefix + (k - PanicPrefix + 1) - 1
        BY <1>2, <2>2
      <4>. QED  BY <4>1
    <3>2. buf[k] = out[j]
      BY <1>2, <3>1 DEF Filled
    <3>3. out \in Seq(Characters) /\ j \in 1 .. Len(out)
      <4>1. out \in Seq(Characters) /\ Len(out) \in Nat /\ s =< PanicPrefix + Len(out)
        BY <1>2 DEF Filled, End
      <4>. QED  BY <1>2, <4>1
    <3>4. out[j] \in Characters
      BY <3>3
    <3>. QED  BY <3>2, <3>4 DEF Characters
  <2>. QED  BY <1>2, <2>1, <2>2
<1>5. CASE buf[s - 1] = "\n"
  <2>1. s \in 1 .. PanicSize - 1
    BY <1>2
  <2>. QED  BY <1>1, <1>2, <1>3, <1>4, <1>5, <2>1 DEF MessageEnds
<1>6. CASE buf[s - 1] # "\n"
  <2>1. PICK a \in Nat : a = NewlineAt
    BY <1>2 DEF NewlineAt
  <2>2. /\ a >= PanicPrefix /\ a =< s /\ a + 1 =< PanicSize - 1
        /\ (a = s \/ a = s - 1)
    BY <1>2, <2>1 DEF NewlineAt
  <2>3. buf' = [buf EXCEPT ![a] = "\n", ![a + 1] = NUL]
    BY <1>1, <1>6, <2>1
  <2>4. buf'[a] = "\n" /\ buf'[a + 1] = NUL
      /\ (\A k \in 0 .. PanicSize : k # a /\ k # a + 1 => buf'[k] = buf[k])
    BY <1>2, <2>2, <2>3
  <2>5. ASSUME NEW k \in 0 .. a PROVE buf'[k] # NUL
    <3>1. CASE k = a
      BY <2>4, <3>1 DEF NUL
    <3>2. CASE k < a
      <4>1. k \in 0 .. s - 1 /\ k \in 0 .. PanicSize /\ k # a /\ k # a + 1
        BY <1>2, <2>2, <3>2
      <4>. QED  BY <1>4, <2>4, <4>1
    <3>. QED  BY <3>1, <3>2
  <2>6. MessageEnds'
    <3>1. a + 1 \in 1 .. PanicSize - 1 /\ (a + 1) - 1 = a
      BY <1>2, <2>2
    <3>. QED  BY <2>4, <2>5, <3>1 DEF MessageEnds
  <2>7. buf'[PanicSize] = "?"
    <3>1. PanicSize \in 0 .. PanicSize /\ PanicSize # a /\ PanicSize # a + 1
      BY <1>2, <2>2
    <3>. QED  BY <1>2, <2>4, <3>1
  <2>8. \A k \in 0 .. PanicPrefix - 1 : buf'[k] = "P"
    <3>1. \A k \in 0 .. PanicPrefix - 1 : k \in 0 .. PanicSize /\ k # a /\ k # a + 1
      BY <1>2, <2>2
    <3>. QED  BY <1>3, <2>4, <3>1
  <2>. QED  BY <1>1, <1>2, <2>6, <2>7, <2>8
<1>. QED  BY <1>5, <1>6

\* Every step preserves the invariant, if a conversion prints text.
LEMMA PrintfNextInv ==
    ASSUME InputsWellFormed, PrintfInv, DirectivePrintsText, [PrintfNext]_printfVars
    PROVE  PrintfInv'
<1>0. in \in Inputs /\ i \in Nat \ {0}
  BY DEF PrintfInv
<1>1. CASE Read
  <2>1. mode \notin {"returned", "printed"}
    BY <1>1 DEF Read, Literal, Percent, Flag, WidthStar, WidthDigit, WidthEnd, Dot,
                PrecisionStar, PrecisionDigit, PrecisionEnd, LongFlag, Color
  <2>2. Filled
    BY <2>1 DEF PrintfInv
  <2>. QED  BY <1>0, <1>1, <2>2, ReadFills DEF PrintfInv
<1>2. CASE Convert
  <2>1. mode = "conversion" /\ Char \notin {"l", "z", "C"} /\ in' = in /\ Goto("text", AfterConversion)
      /\ putc(Printed(DataLength, Prefix, Zeros(DataLength, Len(Prefix))))
    BY <1>2 DEF Convert
  <2>2. Filled
    BY <2>1 DEF PrintfInv
  <2>3. PICK cs \in Seq(Characters) : putc(cs)
    BY <2>1, Zenon DEF DirectivePrintsText
  <2>4. Filled'
    BY <1>0, <2>1, <2>2, <2>3, PutcFills
  <2>5. i' \in Nat \ {0} /\ mode' = "text"
    BY <1>0, <2>1 DEF Goto, AfterConversion
  <2>. QED  BY <1>0, <2>1, <2>4, <2>5 DEF PrintfInv
<1>3. CASE Terminate
  <2>1. mode = "text"
    BY <1>3 DEF Terminate
  <2>2. Filled
    BY <2>1 DEF PrintfInv
  <2>. QED  BY <1>0, <1>3, <2>2, TerminateEnds DEF PrintfInv
<1>4. CASE PanicNewline
  <2>1. mode = "returned" /\ in.caller = "panic"
    BY <1>4 DEF PanicNewline
  <2>2. Filled /\ buf[s] = NUL
    BY <2>1 DEF PrintfInv
  <2>. QED  BY <1>0, <1>4, <2>2, PanicEnds DEF PrintfInv
<1>5. CASE UNCHANGED printfVars
  BY <1>5 DEF printfVars, PrintfInv, Filled, MessageEnds, Start, End
<1>. QED  BY <1>1, <1>2, <1>3, <1>4, <1>5 DEF PrintfNext

\* For every format and every size, of vsnprintf's buffer and of panic's:
\* nothing is stored outside the buffer, it holds the beginning of what was
\* printed and a NUL, and panic's message ends in one newline, whatever text
\* the directives print.
THEOREM BufferAlwaysBounded ==
    ASSUME InputsWellFormed
    PROVE  PrintfSpec /\ []DirectivePrintsText => []BufferBounded
<1>1. PrintfInit => PrintfInv
  BY PrintfInitInv
<1>2. PrintfInv /\ DirectivePrintsText /\ [PrintfNext]_printfVars => PrintfInv'
  BY PrintfNextInv
<1>3. PrintfInv => BufferBounded
  <2>. SUFFICES ASSUME PrintfInv PROVE BufferBounded
    OBVIOUS
  <2>0. in \in Inputs /\ in.size \in Nat /\ Start \in Nat /\ (in.caller # "panic" => Start = 0)
    BY CallSizes DEF PrintfInv
  <2>1. CASE mode \notin {"returned", "printed"} /\ Filled
    BY <2>1 DEF BufferBounded, Filled
  <2>2. CASE mode = "returned" /\ Filled /\ buf[s] = NUL
    BY <2>2 DEF BufferBounded, Filled, End
  <2>3. CASE /\ mode = "printed" /\ MessageEnds /\ buf[in.size] = "?"
             /\ \A k \in 0 .. Start - 1 : buf[k] = "P"
    BY <2>3 DEF BufferBounded, MessageEnds
  <2>4. CASE mode = "returned" /\ in.size = 0 /\ in.caller # "panic" /\ buf[in.size] = "?"
    BY <2>0, <2>4 DEF BufferBounded
  <2>. QED  BY <2>1, <2>2, <2>3, <2>4 DEF PrintfInv
<1>. QED  BY <1>1, <1>2, <1>3, PTL DEF PrintfSpec
=============================================================================
