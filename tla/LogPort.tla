------------------------------ MODULE LogPort ------------------------------
(***************************************************************************)
(* parallel_port_putc of k-hardware.c, through which log_printf and the    *)
(* memory dumps reach the host's log.txt, and a host that takes a          *)
(* character on the rising edge of the strobe when it is ready and needs   *)
(* some time, or forever, to be ready again.  The status bit is inverted:  *)
(* IO_PARALLEL_STATUS_BUSY is set when the port is not busy.               *)
(***************************************************************************)
EXTENDS Integers, Sequences

CONSTANTS TRIES,        \* polls before putc gives up waiting: 12800
          Length        \* characters the kernel logs, numbered from 1

VARIABLES
    ready,      \* IO_PARALLEL_STATUS_BUSY, set when the host is ready
    data,       \* the data register
    strobe,     \* IO_PARALLEL_CONTROL_STROBE
    log,        \* characters the host has taken
    next,       \* the character putc is called with
    tries,      \* putc's loop counter i
    port_pc,
    initialized,
    timeouts    \* characters written after TRIES polls of a busy port

logVars == <<ready, data, strobe, log, next, tries, port_pc, initialized, timeouts>>
host == <<ready, log>>

LogInit ==
    /\ ready \in BOOLEAN
    /\ data = 0
    /\ strobe \in BOOLEAN       \* as the BIOS left it
    /\ log = <<>>
    /\ next = 1
    /\ tries = 0
    /\ port_pc = "call"
    /\ initialized = FALSE
    /\ timeouts = {}

\* The host takes the character at a rising edge and is busy for a while.
Strobe(s) ==
    /\ strobe' = s
    /\ IF s /\ ~strobe /\ ready
       THEN log' = Append(log, data) /\ ready' = FALSE
       ELSE UNCHANGED host

HostReady ==
    /\ ~ready
    /\ ready' = TRUE
    /\ UNCHANGED <<data, strobe, log, next, tries, port_pc, initialized, timeouts>>

putc_call ==
    /\ port_pc = "call"
    /\ next <= Length
    /\ IF initialized THEN UNCHANGED <<strobe, host>> ELSE Strobe(FALSE)
    /\ initialized' = TRUE
    /\ tries' = 0
    /\ port_pc' = "poll"
    /\ UNCHANGED <<data, next, timeouts>>

\* i < 12800 && (inb(IO_PARALLEL1_STATUS) & IO_PARALLEL_STATUS_BUSY) == 0
keep_waiting_wrong_polarity == tries < TRIES /\ ready
keep_waiting == tries < TRIES /\ ~ready

putc_delay ==
    /\ port_pc = "poll"
    /\ keep_waiting
    /\ tries' = tries + 1
    /\ UNCHANGED <<host, data, strobe, next, port_pc, initialized, timeouts>>

putc_data ==
    /\ port_pc = "poll"
    /\ ~keep_waiting
    /\ data' = next
    /\ timeouts' = IF tries = TRIES THEN timeouts \cup {next} ELSE timeouts
    /\ port_pc' = "strobe"
    /\ UNCHANGED <<host, strobe, next, tries, initialized>>

putc_strobe ==
    /\ port_pc = "strobe"
    /\ Strobe(TRUE)
    /\ port_pc' = "release"
    /\ UNCHANGED <<data, next, tries, initialized, timeouts>>

putc_release ==
    /\ port_pc = "release"
    /\ Strobe(FALSE)
    /\ next' = next + 1
    /\ port_pc' = "call"
    /\ UNCHANGED <<data, tries, initialized, timeouts>>

putc == putc_call \/ putc_delay \/ putc_data \/ putc_strobe \/ putc_release
LogNext == putc \/ HostReady

(* The kernel runs; nothing is assumed of the host.                        *)
LogSpec == LogInit /\ [][LogNext]_logVars /\ WF_logVars(putc)

-----------------------------------------------------------------------------
(* The log is what was printed, in order and without repetition, and lacks *)
(* only characters for which putc used up its tries.                       *)
LogComplete ==
    /\ \A j, k \in DOMAIN log : j < k => log[j] < log[k]
    /\ \A c \in 1 .. next - 1 :
          c \notin timeouts => \E k \in DOMAIN log : log[k] = c

(* Logging never stops the kernel, even when the host never gets ready.    *)
LogEnds == <>(next = Length + 1)
=============================================================================
