----------------------------- MODULE Interrupts -----------------------------
(***************************************************************************)
(* How the kernel comes to be called: segments_init, interrupt_init,       *)
(* timer_init and process_init of k-hardware.c against the hardware they   *)
(* program.  The two 8259A controllers and the 8253 timer are state        *)
(* machines that take one byte at a time, and devices raise their lines    *)
(* whenever they like, also in the middle of the set up.  User programs    *)
(* execute `int n' for any n and touch unmapped memory.                    *)
(*                                                                         *)
(* The kernel proper is reduced to: set up, run a process, handle an       *)
(* exception, return or panic; where it polls the keyboard it may reboot   *)
(* softly, with the hardware as it is.                                     *)
(***************************************************************************)
EXTENDS Integers, Sequences, FiniteSets

CONSTANTS Lines,        \* interrupt lines devices raise, 0 is the timer
          MaxReboots,   \* soft reboots the user asks for
          UserInts      \* the n of the `int n' user programs execute

ASSUME LinesAssumption == 0 \in Lines /\ Lines \subseteq 0 .. 15

VARIABLES
    pic,        \* the controllers, master 1 and slave 2
    timer,      \* the 8253: bytes still expected and the reload value
    idt,        \* interrupt_descriptors
    mode,       \* "boot", "user", "handler", or "failed": no process runs again
    script,     \* writes to ports the set up has still to make
    iflag,      \* the CPU's interrupt flag
    intno,      \* reg_intno of the last exception
    cause,      \* what it should be
    nested,     \* an interrupt arrived while the kernel was running
    reboots

vars == <<pic, timer, idt, mode, script, iflag, intno, cause, nested, reboots>>

INT_GPF       == 13
INT_PAGEFAULT == 14
INT_HARDWARE  == 32
INT_TIMER     == INT_HARDWARE + 0
INT_SYS       == 48

IO_PIC1   == 32     \* 0x20
IO_PIC2   == 160    \* 0xA0
IRQ_SLAVE == 2
IO_TIMER1 == 64     \* 0x40
TIMER_MODE == IO_TIMER1 + 3
TIMER_FREQ == 1193182
TIMER_DIV(x) == (TIMER_FREQ + (x \div 2)) \div x
HZ == 100

Bit(v, k) == (v \div 2^k) % 2 = 1
Bits(v) == {k \in 0 .. 7 : Bit(v, k)}

-----------------------------------------------------------------------------
(* 8259A: a write to the even port with bit 4 set (ICW1) starts an         *)
(* initialization: the requests and the mask are cleared and the odd port  *)
(* takes the vector base, the cascade lines and the mode.  Otherwise the   *)
(* odd port is the mask and an even port write with bit 3 set is an OCW3.  *)

PicAfterBIOS ==
    { [stage |-> "ready", base |-> b, mask |-> m, irr |-> {}, isr |-> {},
       aeoi |-> FALSE, special |-> FALSE] :
        b \in {8, 112}, m \in {{}, 0 .. 7} }

PicEven(p, v) ==
    CASE Bit(v, 4) -> [p EXCEPT !.stage = "icw2", !.mask = {}, !.irr = {},
                                !.isr = {}, !.special = FALSE]
      [] ~Bit(v, 4) /\ Bit(v, 3) /\ Bit(v, 6) -> [p EXCEPT !.special = Bit(v, 5)]
      [] OTHER -> p

PicOdd(p, v) ==
    CASE p.stage = "icw2" -> [p EXCEPT !.base = v - (v % 8), !.stage = "icw3"]
      [] p.stage = "icw3" -> [p EXCEPT !.stage = "icw4"]
      [] p.stage = "icw4" -> [p EXCEPT !.aeoi = Bit(v, 1), !.stage = "ready"]
      [] OTHER -> [p EXCEPT !.mask = Bits(v)]

\* 8253: after the mode byte, the low and the high byte of the reload value.
TimerWrite(t, port, v) ==
    CASE port = TIMER_MODE -> [t EXCEPT !.expects = 2]
      [] port # TIMER_MODE /\ t.expects = 2 ->
            [expects |-> 1, reload |-> v]
      [] port # TIMER_MODE /\ t.expects = 1 ->
            [expects |-> 0, reload |-> t.reload + 256 * v]
      [] OTHER -> t

(* A line is serviced when it is requested, not masked and no line of at   *)
(* least its priority is in service; special mask mode disregards masked   *)
(* lines in service.                                                       *)
Offers(p) ==
    IF p.stage # "ready" THEN {}
    ELSE {i \in p.irr \ p.mask :
            /\ \A j \in p.isr : j <= i => p.special /\ j \in p.mask
            /\ \A j \in p.irr \ p.mask : i <= j}

Request(i) ==
    IF i < 8 THEN [pic EXCEPT ![1].irr = @ \cup {i}]
    ELSE [pic EXCEPT ![1].irr = @ \cup {IRQ_SLAVE}, ![2].irr = @ \cup {i - 8}]

Acknowledged(p, i) ==
    [p EXCEPT !.irr = @ \ {i}, !.isr = IF p.aeoi THEN @ ELSE @ \cup {i}]

-----------------------------------------------------------------------------
(* segments_init: the segments and the gates.  A segment matters for its   *)
(* privilege level.                                                        *)

SEGSEL_KERN_CODE == 8
SEGSEL_APP_CODE  == 16
SEGSEL_KERN_DATA == 24
SEGSEL_APP_DATA  == 32

set_app_segment(dpl) == [present |-> TRUE, dpl |-> dpl]
segments ==
    [sel \in {SEGSEL_KERN_CODE, SEGSEL_APP_CODE, SEGSEL_KERN_DATA, SEGSEL_APP_DATA} |->
        set_app_segment(IF sel \in {SEGSEL_APP_CODE, SEGSEL_APP_DATA} THEN 3 ELSE 0)]

(* A gate is described by the number its handler passes to exception()     *)
(* (k-exception.S), the lowest privilege that may use the gate with int,   *)
(* and whether the gate clears the interrupt flag.                         *)

gate(number, dpl) == [number |-> number, dpl |-> dpl, clears_if |-> TRUE]
trap_gate(number, dpl) == [number |-> number, dpl |-> dpl, clears_if |-> FALSE]

DEFAULT == 0        \* default_int_handler pushes 0

set_gates_as_traps(i) ==
    CASE i = INT_TIMER -> trap_gate(INT_TIMER, 0)
      [] i \in {INT_GPF, INT_PAGEFAULT} -> trap_gate(i, 0)
      [] i \in INT_SYS .. INT_SYS + 15 -> trap_gate(i, 3)
      [] OTHER -> trap_gate(DEFAULT, 0)
set_gates(i) ==
    CASE i = INT_TIMER -> gate(INT_TIMER, 0)
      [] i \in {INT_GPF, INT_PAGEFAULT} -> gate(i, 0)
      [] i \in INT_SYS .. INT_SYS + 15 -> gate(i, 3)
      [] OTHER -> gate(DEFAULT, 0)

\* Gates 0 .. 15 that are not set are not present.
segments_init == [i \in (16 .. 255) \cup {INT_GPF, INT_PAGEFAULT} |-> set_gates(i)]

-----------------------------------------------------------------------------
(* The writes of the set up, in order.                                     *)

outb(port, v) == [port |-> port, value |-> v]

interrupt_mask(enabled) ==
    << outb(IO_PIC1 + 1, (65535 - enabled) % 256),
       outb(IO_PIC2 + 1, (65535 - enabled) \div 256) >>

interrupt_init_no_aeoi ==
    interrupt_mask(0)
    \o << outb(IO_PIC1, 17), outb(IO_PIC1 + 1, INT_HARDWARE),
          outb(IO_PIC1 + 1, 2 ^ IRQ_SLAVE), outb(IO_PIC1 + 1, 1),
          outb(IO_PIC2, 17), outb(IO_PIC2 + 1, INT_HARDWARE + 8),
          outb(IO_PIC2 + 1, IRQ_SLAVE), outb(IO_PIC2 + 1, 1),
          outb(IO_PIC1, 104), outb(IO_PIC1, 10),
          outb(IO_PIC2, 104), outb(IO_PIC2, 10) >>
    \o interrupt_mask(0)
interrupt_init ==
    interrupt_mask(0)
    \o << outb(IO_PIC1, 17),                    \* ICW1 0x11
          outb(IO_PIC1 + 1, INT_HARDWARE),      \* ICW2
          outb(IO_PIC1 + 1, 2 ^ IRQ_SLAVE),     \* ICW3
          outb(IO_PIC1 + 1, 3),                 \* ICW4: automatic EOI
          outb(IO_PIC2, 17),
          outb(IO_PIC2 + 1, INT_HARDWARE + 8),
          outb(IO_PIC2 + 1, IRQ_SLAVE),
          outb(IO_PIC2 + 1, 1),
          outb(IO_PIC1, 104), outb(IO_PIC1, 10),    \* OCW3 0x68, 0x0a
          outb(IO_PIC2, 104), outb(IO_PIC2, 10) >>
    \o interrupt_mask(0)

timer_init_high_byte_first(rate) ==
    << outb(TIMER_MODE, 52),
       outb(IO_TIMER1, TIMER_DIV(rate) \div 256),
       outb(IO_TIMER1, TIMER_DIV(rate) % 256) >>
    \o interrupt_mask(2 ^ (INT_TIMER - INT_HARDWARE))
timer_init(rate) ==
    IF rate > 0
    THEN << outb(TIMER_MODE, 52),               \* TIMER_SEL0 | RATEGEN | 16BIT
            outb(IO_TIMER1, TIMER_DIV(rate) % 256),
            outb(IO_TIMER1, TIMER_DIV(rate) \div 256) >>
         \o interrupt_mask(2 ^ (INT_TIMER - INT_HARDWARE))
    ELSE interrupt_mask(0)

SetUp == interrupt_init \o timer_init(HZ)

Init ==
    /\ pic \in [1 .. 2 -> PicAfterBIOS]
    /\ timer = [expects |-> 0, reload |-> 0]
    /\ idt = segments_init
    /\ mode = "boot"
    /\ script = SetUp
    /\ iflag = FALSE        \* entry_from_boot clears the flags
    /\ intno = -1 /\ cause = -1
    /\ nested = FALSE
    /\ reboots = 0

\* outb: one byte reaches the controller or the timer.
Outb ==
    /\ mode = "boot"
    /\ script # <<>>
    /\ LET port == Head(script).port
           v == Head(script).value
       IN  /\ pic' = CASE port = IO_PIC1 -> [pic EXCEPT ![1] = PicEven(@, v)]
                       [] port = IO_PIC1 + 1 -> [pic EXCEPT ![1] = PicOdd(@, v)]
                       [] port = IO_PIC2 -> [pic EXCEPT ![2] = PicEven(@, v)]
                       [] port = IO_PIC2 + 1 -> [pic EXCEPT ![2] = PicOdd(@, v)]
                       [] OTHER -> pic
           /\ timer' = IF port \in {IO_TIMER1, TIMER_MODE}
                       THEN TimerWrite(timer, port, v) ELSE timer
    /\ script' = Tail(script)
    /\ UNCHANGED <<idt, mode, iflag, intno, cause, nested, reboots>>

\* process_init(p, flags): the registers that matter to the CPU's privilege
\* level and interrupt flag.
PROCINIT_DISABLE_INTERRUPTS == 1    \* bit 1, 0x02
process_init(flags) ==
    [cs |-> SEGSEL_APP_CODE + 3, ss |-> SEGSEL_APP_DATA + 3,
     IF_set |-> ~Bit(flags, PROCINIT_DISABLE_INTERRUPTS)]

\* The privilege level processes run at; iret insists on a segment of it.
cpl == process_init(0).cs % 4

\* The cases of exception() that go on with a process: getpid, yield,
\* page_alloc, fork, the timer, and a page fault if another process is left.
Resumed == (INT_SYS + 1 .. INT_SYS + 4) \cup {INT_TIMER, INT_PAGEFAULT}

\* run: the kernel starts or resumes a process.
Run ==
    /\ \/ mode = "boot" /\ script = <<>>
       \/ mode = "handler" /\ intno \in Resumed
    /\ mode' = "user"
    /\ segments[process_init(0).cs - cpl].dpl = cpl
    /\ segments[process_init(0).ss - cpl].dpl = cpl
    /\ iflag' = process_init(0).IF_set
    /\ UNCHANGED <<pic, timer, idt, script, intno, cause, nested, reboots>>

-----------------------------------------------------------------------------
\* A device other than the timer raises its line.
Raise ==
    /\ \E i \in Lines \ {0} : pic' = Request(i)
    /\ UNCHANGED <<timer, idt, mode, script, iflag, intno, cause, nested, reboots>>

\* The timer does so when it is completely programmed.
TimerFires ==
    /\ timer.expects = 0
    /\ pic' = Request(0)
    /\ UNCHANGED <<timer, idt, mode, script, iflag, intno, cause, nested, reboots>>

\* The CPU enters the kernel through gate `vector' because of c.
Enter(vector, c) ==
    /\ mode' = "handler"
    /\ intno' = IF vector \in DOMAIN idt THEN idt[vector].number ELSE -1
    /\ iflag' = (iflag /\ vector \in DOMAIN idt /\ ~idt[vector].clears_if)
    /\ cause' = c

\* The CPU takes an interrupt; a request of the slave comes through the
\* master's line IRQ_SLAVE.
Deliver ==
    /\ iflag
    /\ \E i \in Offers(pic[1]) :
         IF i # IRQ_SLAVE \/ Offers(pic[2]) = {}
         THEN /\ pic' = [pic EXCEPT ![1] = Acknowledged(@, i)]
              /\ Enter(pic[1].base + i, pic[1].base + i)
         ELSE \E k \in Offers(pic[2]) :
              /\ pic' = [pic EXCEPT ![1] = Acknowledged(@, i),
                                    ![2] = Acknowledged(@, k)]
              /\ Enter(pic[2].base + k, pic[2].base + k)
    /\ nested' = (nested \/ mode # "user")
    /\ UNCHANGED <<timer, idt, script, reboots>>

\* The processor refuses int n through a gate above the program's privilege
\* or through none, with a general protection fault.
UserInt ==
    /\ mode = "user"
    /\ \E n \in UserInts :
         LET allowed == n \in DOMAIN idt /\ idt[n].dpl >= cpl
         IN  Enter(IF allowed THEN n ELSE INT_GPF,
                   IF n \in INT_SYS .. INT_SYS + 15 THEN n ELSE INT_GPF)
    /\ UNCHANGED <<pic, timer, idt, script, nested, reboots>>

PageFault ==
    /\ mode = "user"
    /\ Enter(INT_PAGEFAULT, INT_PAGEFAULT)
    /\ UNCHANGED <<pic, timer, idt, script, nested, reboots>>

\* exception() panics on a number it has no case for, and on a program's
\* panic; schedule() finds no runnable process after the last one's fault.
\* From then on the kernel only polls the keyboard.
Fail ==
    /\ mode = "handler"
    /\ intno \notin Resumed \/ intno = INT_PAGEFAULT
    /\ mode' = "failed"
    /\ UNCHANGED <<pic, timer, idt, script, iflag, intno, cause, nested, reboots>>

\* check_keyboard: entry_from_boot clears the flags, kernel() starts over.
SoftReboot ==
    /\ mode \in {"handler", "failed"}
    /\ reboots < MaxReboots
    /\ reboots' = reboots + 1
    /\ mode' = "boot"
    /\ script' = SetUp
    /\ idt' = segments_init
    /\ iflag' = FALSE
    /\ UNCHANGED <<pic, timer, intno, cause, nested>>

Next == Outb \/ Run \/ Raise \/ TimerFires \/ Deliver \/ UserInt \/ PageFault
        \/ Fail \/ SoftReboot

(* The kernel runs to its end, the timer fires again and again, and the    *)
(* CPU takes an interrupt that is offered while the flag is set.           *)
Fairness ==
    /\ WF_vars(Outb) /\ WF_vars(Run) /\ WF_vars(Fail)
    /\ WF_vars(TimerFires) /\ SF_vars(Deliver)
Spec == Init /\ [][Next]_vars /\ Fairness

-----------------------------------------------------------------------------
(* exception() is called with the number of what happened: a timer tick, a *)
(* page fault, the system call of an `int n', a general protection fault   *)
(* for every other `int n'.  No other device gets through, no handler is   *)
(* missing, and the default handler, which cannot say what happened, never *)
(* runs.  A process runs only when the timer is set to the rate the kernel *)
(* asked for, to the nearest period the timer can make, and is the only    *)
(* line both controllers let through.                                      *)
InterruptsAsSetUp ==
    /\ mode = "handler" =>
        /\ intno = cause
        /\ intno \in {INT_GPF, INT_PAGEFAULT, INT_TIMER}
                     \cup (INT_SYS .. INT_SYS + 15)
    /\ mode = "user" =>
        /\ timer.expects = 0
        /\ 2 * timer.reload * HZ \in 2 * TIMER_FREQ - HZ .. 2 * TIMER_FREQ + HZ
        /\ \A c \in 1 .. 2 : pic[c].stage = "ready"
        /\ (0 .. 7) \ pic[1].mask = {INT_TIMER - INT_HARDWARE}
        /\ pic[2].mask = 0 .. 7

(* "Hardware interrupts are disabled whenever the kernel is running": in   *)
(* the set up, in handlers, after a failure and through soft reboots.      *)
KernelNotInterrupted == ~nested

(* A running process is always interrupted by a later tick of the timer,   *)
(* unless the system panics or runs out of processes first: the kernel     *)
(* never acknowledges an interrupt, so the controller must do so itself.   *)
TicksGoOn ==
    (mode = "user") ~> (mode = "failed" \/ (mode = "handler" /\ intno = INT_TIMER))
=============================================================================
