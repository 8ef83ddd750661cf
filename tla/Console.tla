------------------------------ MODULE Console -------------------------------
(***************************************************************************)
(* The CGA console and the shared cursor: console_putc, console_vprintf    *)
(* and console_clear of lib.c, app_printf of process.c.  The console page  *)
(* is mapped in every process, so that several processes may be in the     *)
(* middle of a print at once; the kernel prints over all of them, with     *)
(* interrupts disabled.                                                    *)
(*                                                                         *)
(* Characters are abstracted to "text" and "newline"; what is printed is   *)
(* any sequence of them.  A cell is Blank until something is stored in it. *)
(* The cells after the console in its page hold cursorpos, among others.   *)
(***************************************************************************)
EXTENDS Integers

CONSTANTS
    CONSOLE_ROWS, CONSOLE_COLUMNS,
    AppRows,          \* 23: app_printf restarts at the top from this row on
    Processes,        \* the processes that print
    Kernel,           \* the kernel as an actor
    Positions         \* where console_printf is called, CPOS(r, c)

ASSUME ConsoleAssumption ==
    /\ CONSOLE_ROWS \in Nat \ {0}
    /\ CONSOLE_COLUMNS \in Nat \ {0}
    /\ AppRows \in 1 .. CONSOLE_ROWS
    /\ Kernel \notin Processes
    /\ Positions \subseteq Int

Actors == Processes \cup {Kernel}
Size == CONSOLE_ROWS * CONSOLE_COLUMNS
Page == 0 .. Size + CONSOLE_COLUMNS
Blank == "blank"
Ink == "ink"

VARIABLES
    page,       \* the console's page, cell by cell
    cursorpos,  \* the shared variable
    cursor,     \* cp.cursor - console in each actor's console_vprintf
    pc          \* where each actor is

vars == <<page, cursorpos, cursor, pc>>

-----------------------------------------------------------------------------
(* lib.c *)

CROW(cpos) == cpos \div CONSOLE_COLUMNS

\* console_vprintf: a position that is not on the console is the top.
StartPosition(cpos) == IF cpos < 0 \/ cpos >= Size THEN 0 ELSE cpos

\* console_putc: a cursor past the last cell wraps before the character is
\* stored.
WrappedLate(c) == IF c > Size THEN 0 ELSE c
Wrapped(c) == IF c >= Size THEN 0 ELSE c

\* '\n' stores blanks up to the end of the row.
NextRow(c) == c + (CONSOLE_COLUMNS - (c % CONSOLE_COLUMNS))

\* Actor a stores into the cells from c up to, not including, c2.
Store(a, c, c2) ==
    /\ page' = [i \in Page |-> IF i >= c /\ i < c2 THEN Ink ELSE page[i]]
    /\ cursor' = [cursor EXCEPT ![a] = c2]

\* The kernel is not interrupted; a process is, between any two instructions.
MayStep(a) == a = Kernel \/ pc[Kernel] = "idle"

Putc(a) ==
    /\ MayStep(a)
    /\ pc[a] \in {"print", "app_printf"}
    /\ Store(a, Wrapped(cursor[a]), Wrapped(cursor[a]) + 1)
    /\ UNCHANGED <<cursorpos, pc>>

PutNewline(a) ==
    /\ MayStep(a)
    /\ pc[a] \in {"print", "app_printf"}
    /\ Store(a, Wrapped(cursor[a]), NextRow(Wrapped(cursor[a])))
    /\ UNCHANGED <<cursorpos, pc>>

-----------------------------------------------------------------------------
\* console_printf at a fixed position, or (panic) at the one the last call
\* returned; the caller decides what to do with the result.
ConsolePrintf(a) ==
    /\ MayStep(a)
    /\ pc[a] = "idle"
    /\ \E cpos \in Positions \cup {cursor[a]} :
          cursor' = [cursor EXCEPT ![a] = StartPosition(cpos)]
    /\ pc' = [pc EXCEPT ![a] = "print"]
    /\ UNCHANGED <<page, cursorpos>>

ConsolePrintfReturn(a) ==
    /\ MayStep(a)
    /\ pc[a] = "print"
    /\ pc' = [pc EXCEPT ![a] = "idle"]
    /\ UNCHANGED <<page, cursorpos, cursor>>

\* app_printf reads cursorpos, prints, writes cursorpos, reads it again and
\* maybe resets it; other processes run in between.
AppPrintf(p) ==
    /\ MayStep(p)
    /\ pc[p] = "idle"
    /\ cursor' = [cursor EXCEPT ![p] = StartPosition(cursorpos)]
    /\ pc' = [pc EXCEPT ![p] = "app_printf"]
    /\ UNCHANGED <<page, cursorpos>>

AppPrintfWrite(p) ==
    /\ MayStep(p)
    /\ pc[p] = "app_printf"
    /\ cursorpos' = cursor[p]
    /\ pc' = [pc EXCEPT ![p] = "written"]
    /\ UNCHANGED <<page, cursor>>

AppPrintfCheckLate(p) ==
    /\ MayStep(p)
    /\ pc[p] = "written"
    /\ pc' = [pc EXCEPT ![p] = IF CROW(cursorpos) > AppRows
                               THEN "reset" ELSE "idle"]
    /\ UNCHANGED <<page, cursorpos, cursor>>

AppPrintfCheck(p) ==
    /\ MayStep(p)
    /\ pc[p] = "written"
    /\ pc' = [pc EXCEPT ![p] = IF CROW(cursorpos) >= AppRows
                               THEN "reset" ELSE "idle"]
    /\ UNCHANGED <<page, cursorpos, cursor>>

AppPrintfReset(p) ==
    /\ MayStep(p)
    /\ pc[p] = "reset"
    /\ cursorpos' = 0
    /\ pc' = [pc EXCEPT ![p] = "idle"]
    /\ UNCHANGED <<page, cursor>>

\* A soft reboot: the processes are gone, kernel() calls console_clear.
ConsoleClear ==
    /\ pc[Kernel] = "idle"
    /\ page' = [i \in Page |-> IF i < Size THEN Blank ELSE page[i]]
    /\ cursorpos' = 0
    /\ cursor' = [a \in Actors |-> 0]
    /\ pc' = [a \in Actors |-> "idle"]

-----------------------------------------------------------------------------
Init == /\ page = [i \in Page |-> Blank]
        /\ cursorpos = 0
        /\ cursor = [a \in Actors |-> 0]
        /\ pc = [a \in Actors |-> "idle"]

PrintStep(a) == \/ Putc(a)
                \/ PutNewline(a)
                \/ ConsolePrintf(a)
                \/ ConsolePrintfReturn(a)

AppStep(p) == \/ AppPrintf(p)
              \/ AppPrintfWrite(p)
              \/ AppPrintfCheck(p)
              \/ AppPrintfReset(p)

Next == \/ \E a \in Actors : PrintStep(a)
        \/ \E p \in Processes : AppStep(p)
        \/ ConsoleClear

Spec == Init /\ [][Next]_vars

-----------------------------------------------------------------------------
(* Properties *)

TypeOK ==
    /\ page \in [Page -> {Blank, Ink}]
    /\ cursorpos \in 0 .. Size
    /\ cursor \in [Actors -> 0 .. Size]
    /\ pc \in [Actors -> {"idle", "print", "app_printf", "written", "reset"}]

\* Nobody ever stores behind the last cell of the console, where cursorpos
\* is, wherever a print starts and however it ends: the tests of
\* console_vprintf, console_putc and the newline loop together are enough.
NothingBeyondConsole == \A i \in Page : i >= Size => page[i] = Blank

\* A cursor at or below row 23 does not stay: whoever is in app_printf after
\* its write will see it and start again at the top, even if processes
\* interrupt each other at any point of app_printf.
CursorposSettles ==
    CROW(cursorpos) >= AppRows =>
        \E p \in Processes : pc[p] \in {"written", "reset"}
=============================================================================
