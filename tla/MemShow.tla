------------------------------ MODULE MemShow -------------------------------
(***************************************************************************)
(* Time in the kernel: the tick counter, the animated picture of virtual   *)
(* memory that follows it, and the grading build's dumps and time limit.   *)
(*                                                                         *)
(* One action is one exception from user mode, in the order of             *)
(* exception(): memshow_virtual_animate, then the limit and the dumps of   *)
(* TICK_LIMIT builds, then the keyboard, which may restart the kernel, and *)
(* only then the switch with ++ticks.  A restart runs kernel() again but   *)
(* initializes none of the static variables.  Of processes[] only which    *)
(* slots are used matters.                                                 *)
(***************************************************************************)
EXTENDS Integers, Sequences, FiniteSets

CONSTANTS
    NPROC,
    ClockHZ,        \* HZ, timer interrupts a second
    TicksModulus,   \* 2^32: ticks is unsigned
    TICK_LIMIT,     \* defined when the kernel is built for grading
    Commands,       \* how many processes each command starts: 1 or 4
    LogRoom         \* bound on the dumps kept

Slots == 0 .. NPROC - 1

VARIABLES
    grading,  \* how the kernel was built; nobody is at the keyboard then
    ticks, last_ticks, showing,
    used,     \* the slots of processes[] that are not P_FREE
    shown,    \* the slot the last exception displayed, or -1
    held,     \* timer interrupts since a new picture was due, up to HZ
    dumps,    \* the ticks of the dumps in the log
    power

showVars == <<grading, ticks, last_ticks, showing, used, shown, held, dumps, power>>

\* unsigned subtraction
Minus(a, b) == (a - b) % TicksModulus

ShowInit ==
    /\ grading \in BOOLEAN
    /\ ticks = 0 /\ last_ticks = 0 /\ showing = 1
    /\ \E n \in Commands : used = 1 .. n
    /\ shown = -1 /\ held = 0 /\ dumps = <<>> /\ power = "on"

-----------------------------------------------------------------------------
(* memshow_virtual_animate *)

\* Mutant: the difference of ticks is taken as a signed number.
SwitchDueSigned == last_ticks = 0 \/ ticks - last_ticks >= ClockHZ \div 2

\* "switch to a new process every 0.25 sec"
SwitchDue == last_ticks = 0 \/ Minus(ticks, last_ticks) >= ClockHZ \div 2

\* Mutant: the search gives up at the end of the table.
SearchEndTable == NPROC - 1

\* The last value of showing at which the loop still looks for a process.
SearchEnd == 2 * NPROC

\* Where the loop over free slots stops.
Found(from) ==
    LET seen == {s \in from .. SearchEnd : s % NPROC \in used}
        past == IF from > SearchEnd THEN from ELSE SearchEnd + 1
    IN  IF seen = {} THEN past ELSE CHOOSE s \in seen : \A t \in seen : s =< t

NextShown(from) == Found(from) % NPROC

memshow_virtual_animate ==
    LET next == NextShown(IF SwitchDue THEN showing + 1 ELSE showing)
    IN  /\ last_ticks' = IF SwitchDue THEN ticks ELSE last_ticks
        /\ showing' = next
        /\ shown' = IF next \in used THEN next ELSE shown

-----------------------------------------------------------------------------
(* exception *)

LimitReached == grading /\ ticks = TICK_LIMIT

\* Mutant: any exception dumps.
DumpsAny(intno) == grading /\ ticks % ClockHZ = 0

Dumps(intno) == grading /\ intno = "INT_TIMER" /\ ticks % ClockHZ = 0

\* Everything before the switch.
EnterException(intno) ==
    /\ power = "on"
    /\ memshow_virtual_animate
    /\ dumps' = IF Dumps(intno) /\ ~LimitReached /\ Len(dumps) < LogRoom
                THEN Append(dumps, ticks) ELSE dumps
    /\ power' = IF LimitReached THEN "off" ELSE "on"
    /\ UNCHANGED grading

\* Counts n timer interrupts, from the switch on if there was one.
Hold(n) ==
    held' = IF SwitchDue THEN n ELSE IF held < ClockHZ THEN held + n ELSE held

Timer ==
    /\ EnterException("INT_TIMER")
    /\ ticks' = IF LimitReached THEN ticks ELSE (ticks + 1) % TicksModulus
    /\ Hold(1)
    /\ UNCHANGED used

Other ==
    /\ EnterException("INT_SYS_YIELD")
    /\ Hold(0)
    /\ UNCHANGED <<ticks, used>>

\* fork takes the first free slot but slot 0.
Fork ==
    /\ ~LimitReached
    /\ EnterException("INT_SYS_FORK")
    /\ \E p \in Slots \ {0} :
          /\ p \notin used
          /\ 1 .. p - 1 \subseteq used
          /\ used' = used \cup {p}
    /\ Hold(0)
    /\ UNCHANGED ticks

\* check_keyboard restarts the kernel.
Restart ==
    /\ ~grading
    /\ \E intno \in {"INT_TIMER", "INT_SYS_YIELD"} : EnterException(intno)
    /\ \E n \in Commands : used' = 1 .. n
    /\ Hold(0)
    /\ UNCHANGED ticks

ShowNext == Timer \/ Other \/ Fork \/ Restart

ShowSpec == ShowInit /\ [][ShowNext]_showVars

\* The timer interrupts user mode again and again and is not always lost to a
\* restart.
ShowFairSpec == ShowSpec /\ WF_showVars(Timer)

-----------------------------------------------------------------------------
(* Properties *)

\* A process that stays in use is displayed again and again, across a wrap of
\* the tick counter, forks of others and restarts.
EveryProcessShown ==
    \A p \in Slots : []<>(shown = p \/ p \notin used \/ power = "off")

\* The picture drawn by an exception is of a process that is in use then,
\* although showing may name one that a restart has removed: the loop of
\* memshow_virtual_animate reaches every slot from wherever it starts, and
\* leaves showing an index of processes[].  Once the display has moved on, the
\* picture of a process in use stays for HZ / 2 timer interrupts, however many
\* exceptions there are; only at tick 0, which last_ticks uses for "never",
\* every exception moves on.
PicturesRight ==
    [][ /\ showing' \in Slots
        /\ power = "on" => shown' \in used
        /\ shown' # shown /\ shown \in used =>
              held >= ClockHZ \div 2 \/ ticks = 0 \/ last_ticks = 0 ]_showVars

\* The log has one dump for each second, as parse_log.py asserts when it
\* reads them (set_pm_state), the last one HZ ticks before the limit
\* (CheckInvariants).  (A restart in the exception that dumps would repeat
\* it; the grading build is not attended.)
OneDumpPerSecond ==
    grading => dumps = [i \in 1 .. (ticks + ClockHZ - 1) \div ClockHZ |->
                            (i - 1) * ClockHZ]

\* A kernel built for grading switches itself off at the limit.
LimitEnds == grading => <>(power = "off")
=============================================================================
