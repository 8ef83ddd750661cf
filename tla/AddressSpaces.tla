--------------------------- MODULE AddressSpaces ---------------------------
(***************************************************************************)
(* What the kernel promises to user programs (process.h): processes with   *)
(* private memory, one running at a time, and system calls that are        *)
(* atomic.  There are no page tables and no physical pages here: the       *)
(* memory of process p at page a is image[p][a], the empty set when a is   *)
(* not mapped and {c} when it is and holds c.                              *)
(*                                                                         *)
(* The actions are relations between the states before and after, because  *)
(* what a program stores or finds in a fresh page is up to it.             *)
(***************************************************************************)
EXTENDS Integers

CONSTANTS Proc,     \* process IDs
          Address   \* pages of user memory

VARIABLES
    phase,    \* "booting", "running" or "down"
    state,    \* state[p]: "P_FREE", "P_RUNNABLE" or "P_BROKEN"
    image,    \* image[p][a]: the memory of p
    ret,      \* ret[p]: the value of %rax p resumes with
    running,  \* the process that runs, or ran last
    call      \* the exception the running process waits in, with its argument

avars == <<phase, state, image, ret, running, call>>

NoCall   == [int |-> "none", rdi |-> 0]
NoMemory == [p \in Proc |-> [a \in Address |-> {}]]

\* g differs from f at most at x.
OnlyAt(x, f, g) == \A y \in Proc \ {x} : g[y] = f[y]

Init ==
    /\ phase = "booting"
    /\ state = [p \in Proc |-> "P_FREE"]
    /\ image = NoMemory
    /\ ret = [p \in Proc |-> 0]
    /\ running \in Proc
    /\ call = NoCall

\* At boot a free slot is given a program; in the end one process runs.
Load(p) ==
    /\ phase = "booting"
    /\ state[p] = "P_FREE"
    /\ state' = [state EXCEPT ![p] = "P_RUNNABLE"]
    /\ OnlyAt(p, image, image')
    /\ OnlyAt(p, ret, ret')
    /\ \/ phase' = phase /\ running' = running
       \/ phase' = "running" /\ state'[running'] = "P_RUNNABLE"
    /\ UNCHANGED call

-----------------------------------------------------------------------------
(* The running process *)

\* It stores to memory that it has.
Store ==
    /\ phase = "running"
    /\ call = NoCall
    /\ OnlyAt(running, image, image')
    /\ \A a \in Address : (image'[running][a] = {}) = (image[running][a] = {})
    /\ UNCHANGED <<phase, state, ret, running, call>>

\* It makes a system call, faults or is interrupted; %rax holds anything.
Trap ==
    /\ phase = "running"
    /\ call = NoCall
    /\ call' # NoCall
    /\ OnlyAt(running, ret, ret')
    /\ UNCHANGED <<phase, state, image, running>>

-----------------------------------------------------------------------------
(* The kernel answers.  `running' resumes unless the action says otherwise. *)

Answer(int) ==
    /\ phase = "running"
    /\ call.int = int
    /\ call' = NoCall
    /\ UNCHANGED phase

Returns(r) == ret' = [ret EXCEPT ![running] = r]

Getpid ==
    /\ Answer("INT_SYS_GETPID")
    /\ Returns(running)
    /\ UNCHANGED <<state, image, running>>

\* Some runnable process runs next.
Yield ==
    /\ Answer("INT_SYS_YIELD") \/ Answer("INT_TIMER")
    /\ state[running'] = "P_RUNNABLE"
    /\ UNCHANGED <<state, image, ret>>

\* One page appears where the process asked for it, contents unspecified.
PageAlloc ==
    /\ Answer("INT_SYS_PAGE_ALLOC")
    /\ image[running][call.rdi] = {}
    /\ image'[running][call.rdi] # {}
    /\ \A b \in Address \ {call.rdi} : image'[running][b] = image[running][b]
    /\ OnlyAt(running, image, image')
    /\ Returns(0)
    /\ UNCHANGED <<state, running>>

\* The child is a copy of the parent but for the value returned.
Fork(child) ==
    /\ Answer("INT_SYS_FORK")
    /\ state[child] = "P_FREE"
    /\ state' = [state EXCEPT ![child] = "P_RUNNABLE"]
    /\ image' = [image EXCEPT ![child] = image[running]]
    /\ ret' = [ret EXCEPT ![running] = child, ![child] = 0]
    /\ UNCHANGED running

\* A failing sys_page_alloc or sys_fork returns -1 and does nothing else.
Fail ==
    /\ Answer("INT_SYS_PAGE_ALLOC") \/ Answer("INT_SYS_FORK")
    /\ Returns(-1)
    /\ UNCHANGED <<state, image, running>>

\* A process that touches memory it does not have never runs again.
Break ==
    /\ Answer("INT_PAGEFAULT")
    /\ state' = [state EXCEPT ![running] = "P_BROKEN"]
    /\ \/ state'[running'] = "P_RUNNABLE"
       \/ (\A p \in Proc : state'[p] # "P_RUNNABLE") /\ UNCHANGED running
    /\ UNCHANGED <<image, ret>>

-----------------------------------------------------------------------------
(* The machine *)

Halt ==
    /\ phase' = "down"
    /\ call' = NoCall
    /\ UNCHANGED <<state, image, ret, running>>

Restart ==
    /\ phase' = "booting"
    /\ state' = [p \in Proc |-> "P_FREE"]
    /\ image' = NoMemory
    /\ ret' = [p \in Proc |-> 0]
    /\ call' = NoCall
    /\ UNCHANGED running

Next ==
    \/ \E p \in Proc : Load(p)
    \/ Store \/ Trap
    \/ Getpid \/ Yield \/ PageAlloc \/ Fail \/ Break
    \/ \E p \in Proc : Fork(p)
    \/ Halt \/ Restart

Spec == Init /\ [][Next]_avars
=============================================================================
