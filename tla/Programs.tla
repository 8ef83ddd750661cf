------------------------------ MODULE Programs ------------------------------
(***************************************************************************)
(* The three user programs, p-allocator.c, p-fork.c and p-forkexit.c, over *)
(* the address spaces the kernel promises them (AddressSpaces, which the   *)
(* kernel is shown to implement): every step is also a step of             *)
(* AddressSpaces, by a conjunct of the action.                             *)
(*                                                                         *)
(* A step of a program goes from the return of a system call to the next   *)
(* trap, or stores to memory.  The timer may interrupt before any step; a  *)
(* result in %rax may then wait for long.  rand() is any number.  Pages:   *)
(* 0 the program, from HeapStart on the heap, the last one the stack.      *)
(***************************************************************************)
EXTENDS Integers, FiniteSets

CONSTANTS
    NPROC,
    HeapPages,  \* pages between the program and the stack
    MemoryFor   \* bound: the heap page up to which there is memory, for each
                \* of the three commands

Proc == 1 .. NPROC - 1
HeapStart == 1                  \* ROUNDUP(end, PAGESIZE)
Stack == HeapStart + HeapPages  \* stack_bottom
Address == 0 .. Stack

VARIABLES phase, state, image, ret, running, call,  \* as in AddressSpaces
          u,        \* u[p]: where p is, and its variables
          command   \* which of the three programs was asked for at boot

vars == <<phase, state, image, ret, running, call, u, command>>

Spaces == INSTANCE AddressSpaces
NoCall == Spaces!NoCall

Loaded == IF command = "allocator" THEN Proc ELSE {1}

Init ==
    /\ command \in {"allocator", "fork", "forkexit"}
    /\ phase = "running"
    /\ state = [p \in Proc |-> IF p \in Loaded THEN "P_RUNNABLE" ELSE "P_FREE"]
    /\ image = [p \in Proc |-> [a \in Address |->
                    IF p \in Loaded /\ a \in {0, Stack} THEN {0} ELSE {}]]
    /\ ret = [p \in Proc |-> 0]
    /\ running = 1
    /\ call = NoCall
    /\ u = [p \in Proc |-> [pc |-> "main", p1 |-> 0, p2 |-> 0, p |-> 0, heap_top |-> 0]]

-----------------------------------------------------------------------------
(* The running process.  me is its variables, result what the last system  *)
(* call returned.                                                          *)

me == u[running]
result == ret[running]

At(pc) == phase = "running" /\ call = NoCall /\ me.pc = pc

\* The process continues with the variables v at pc once the call returns.
Trap(int, rdi, v, pc) ==
    /\ call' = [int |-> int, rdi |-> rdi]
    /\ u' = [u EXCEPT ![running] = [v EXCEPT !.pc = pc]]
    /\ ret' = [ret EXCEPT ![running] = 0]
    /\ UNCHANGED <<phase, state, image, running>>
    /\ Spaces!Trap

\* A failed assertion: assert_fail calls sys_panic.
Assert(holds, then) ==
    IF holds THEN then ELSE Trap("INT_SYS_PANIC", 0, me, "stopped")

\* Mutant: the heap may grow into the stack.
HeapFullLate(v) == v.heap_top > Stack

HeapFull(v) == v.heap_top = Stack

\* if (heap_top == stack_bottom || sys_page_alloc(heap_top) < 0) break;
Alloc(v) ==
    \/ HeapFull(v) /\ Trap("INT_SYS_YIELD", 0, v, "idle")
    \/ ~HeapFull(v) /\ Trap("INT_SYS_PAGE_ALLOC", v.heap_top, v, "allocated")

\* One iteration of the program's loop; rand() decides.
Iterate(v) ==
    \/ Alloc(v)
    \/ Trap("INT_SYS_YIELD", 0, v, "loop")
    \/ /\ command = "forkexit"
       /\ \/ Trap("INT_SYS_FORK", 0, v, "reforked")
          \/ Trap("INT_SYS_EXIT", 0, v, "stopped")

(* p-fork.c *)

Fork1 ==
    /\ command = "fork"
    /\ At("main")
    /\ Trap("INT_SYS_FORK", 0, me, "p1")

Fork2 ==
    /\ At("p1")
    /\ Assert(result >= 0, Trap("INT_SYS_FORK", 0, [me EXCEPT !.p1 = result], "p2"))

Forked2 ==
    /\ At("p2")
    /\ Assert(result >= 0, Trap("INT_SYS_GETPID", 0, [me EXCEPT !.p2 = result], "check"))

CheckReturns ==
    /\ At("check")
    /\ Assert(IF result = 1 THEN me.p1 # 0 /\ me.p2 # 0 /\ me.p1 # me.p2
                            ELSE me.p1 = 0 \/ me.p2 = 0,
              Trap("INT_SYS_GETPID", 0, me, "start"))

(* p-forkexit.c *)

ForkOrYield ==
    \/ Trap("INT_SYS_FORK", 0, me, "forked")
    \/ Trap("INT_SYS_YIELD", 0, me, "main")

FirstLoop ==
    /\ command = "forkexit"
    /\ At("main") \/ (At("forked") /\ result # 0)
    /\ ForkOrYield

ChildBreaks ==
    /\ At("forked")
    /\ result = 0
    /\ Trap("INT_SYS_GETPID", 0, me, "start")

\* Mutant: the child goes on with its parent's p.
ReforkedStale ==
    /\ At("reforked")
    /\ Iterate(me)

\* if (sys_fork() == 0) { p = sys_getpid(); }
Reforked ==
    /\ At("reforked")
    /\ \/ result = 0 /\ Trap("INT_SYS_GETPID", 0, me, "repid")
       \/ result # 0 /\ Iterate(me)

Repid ==
    /\ At("repid")
    /\ Iterate([me EXCEPT !.p = result])

(* All of them *)

AllocatorMain ==
    /\ command = "allocator"
    /\ At("main")
    /\ Trap("INT_SYS_GETPID", 0, me, "start")

Start ==
    /\ At("start")
    /\ Iterate([me EXCEPT !.p = result, !.heap_top = HeapStart])

Loop ==
    /\ At("loop")
    /\ Iterate(me)

\* Mutant: a failed allocation is tried again.
AllocFailedRetries ==
    /\ At("allocated")
    /\ result < 0
    /\ Trap("INT_SYS_YIELD", 0, me, "loop")

AllocFailed ==
    /\ At("allocated")
    /\ result < 0
    /\ Trap("INT_SYS_YIELD", 0, me, "idle")

\* Mutant: heap_top stays where it is.
StoredTopStuck == [me EXCEPT !.pc = "stored"]

\* heap_top += PAGESIZE
StoredTop == [me EXCEPT !.pc = "stored", !.heap_top = @ + 1]

\* *heap_top = p
StoreHeap ==
    /\ At("allocated")
    /\ result >= 0
    /\ image' = [image EXCEPT ![running][me.heap_top] = {me.p}]
    /\ u' = [u EXCEPT ![running] = StoredTop]
    /\ UNCHANGED <<phase, state, ret, running, call>>
    /\ Spaces!Store

Stored ==
    /\ At("stored")
    /\ IF command = "forkexit" THEN Iterate(me)
       ELSE Trap("INT_SYS_YIELD", 0, me, "loop")

\* After running out of memory
Idle ==
    /\ At("idle")
    /\ \/ Trap("INT_SYS_YIELD", 0, me, "idle")
       \/ command = "forkexit" /\ Trap("INT_SYS_EXIT", 0, me, "stopped")

Step ==
    \/ Fork1 \/ Fork2 \/ Forked2 \/ CheckReturns
    \/ FirstLoop \/ ChildBreaks \/ Reforked \/ Repid
    \/ AllocatorMain \/ Start \/ Loop \/ AllocFailed \/ StoreHeap \/ Stored \/ Idle

\* The timer interrupts, with the registers as they are.
Timer ==
    /\ phase = "running" /\ call = NoCall
    /\ call' = [int |-> "INT_TIMER", rdi |-> 0]
    /\ UNCHANGED <<phase, state, image, ret, running, u>>
    /\ Spaces!Trap

-----------------------------------------------------------------------------
(* The kernel, as AddressSpaces has it.  Forks fail only without a slot.   *)

Getpid == Spaces!Getpid /\ UNCHANGED u

\* schedule(): the next runnable process in cyclic order.
Distance(p) == (p - running - 1) % NPROC
Runnable == {p \in Proc : state[p] = "P_RUNNABLE"}

schedule ==
    /\ running' = CHOOSE p \in Runnable : \A q \in Runnable : Distance(p) =< Distance(q)
    /\ Spaces!Yield
    /\ UNCHANGED u

PageAlloc ==
    /\ call.int = "INT_SYS_PAGE_ALLOC"
    /\ call.rdi =< MemoryFor[command]
    /\ image' = [image EXCEPT ![running][call.rdi] = {0}]
    /\ Spaces!PageAlloc
    /\ UNCHANGED u

FreeSlots == {p \in Proc : state[p] = "P_FREE"}

\* Mutant: the child starts with its own process ID in %rax.
ForkAnswerPid ==
    \E child \in FreeSlots :
        /\ \A p \in FreeSlots : child =< p
        /\ Spaces!Answer("INT_SYS_FORK")
        /\ state' = [state EXCEPT ![child] = "P_RUNNABLE"]
        /\ image' = [image EXCEPT ![child] = image[running]]
        /\ ret' = [ret EXCEPT ![running] = child, ![child] = child]
        /\ u' = [u EXCEPT ![child] = me]
        /\ UNCHANGED running

\* The child is in the first free slot, at the same place and with the same
\* variables as its parent: they are in registers and on the copied stack.
ForkAnswer ==
    \E child \in FreeSlots :
        /\ \A p \in FreeSlots : child =< p
        /\ Spaces!Fork(child)
        /\ u' = [u EXCEPT ![child] = me]

Fail ==
    /\ call.int = "INT_SYS_FORK" => FreeSlots = {}
    /\ Spaces!Fail
    /\ UNCHANGED u

\* sys_panic, and sys_exit, which the kernel does not know, stop the machine.
Halt ==
    /\ phase = "running"
    /\ call.int \in {"INT_SYS_PANIC", "INT_SYS_EXIT"}
    /\ Spaces!Halt
    /\ UNCHANGED u

Kernel ==
    Getpid \/ schedule \/ PageAlloc \/ ForkAnswer \/ Fail \/ Halt

Next == (Step \/ Timer \/ Kernel) /\ UNCHANGED command

Spec == Init /\ [][Next]_vars

(* A step that counts as progress: rand() does not always decide against   *)
(* an allocation (see Rand).                                               *)
UnluckyDraw(p) == u[p].pc \in {"start", "loop"} /\ u'[p].pc = "loop"
LuckyStep(p) == Step /\ running = p /\ ~UnluckyDraw(p)

-----------------------------------------------------------------------------
(* Properties *)

\* The programs only ask for pages that are not mapped, never for the stack:
\* what WeensyKernel assumes of sys_page_alloc.
AllocsUnmapped ==
    call.int = "INT_SYS_PAGE_ALLOC" => image[running][call.rdi] = {}

\* Past its start, a process has exactly the pages below heap_top, filled
\* with process IDs, and the one it has just been given; forked ones too.
HeapShape ==
    \A p \in Proc : u[p].heap_top # 0 /\ state[p] = "P_RUNNABLE" =>
        \A a \in HeapStart .. Stack - 1 :
            CASE a < u[p].heap_top -> image[p][a] \in {{q} : q \in Proc}
              [] a > u[p].heap_top -> image[p][a] = {}
              [] OTHER -> image[p][a] # {} <=>
                    /\ u[p].pc = "allocated" /\ ret[p] = 0
                    /\ p = running => call.int \in {"none", "INT_TIMER"}

\* A process stores its own process ID, also one that was forked in the
\* middle of the loop and has inherited its parent's p.
StoresOwnPid ==
    [][call = NoCall => \A p \in Proc : \A a \in HeapStart .. Stack - 1 :
          image'[p][a] # image[p][a] => p = running /\ image'[p][a] = {p}]_vars

\* "Fork a total of three new copies" (p-fork.c), although the processes are
\* interrupted between the return of fork and its use and fork further
\* processes then: no assertion fails, in the end there are four
\* processes and every one of them gets to its allocation loop.  (With four
\* slots, one more fork would fail an assertion.)
ThreeNewCopies ==
    command = "fork" =>
        <>[](/\ Cardinality({p \in Proc : state[p] # "P_FREE"}) = 4
             /\ \A p \in Proc : state[p] # "P_FREE" => u[p].heap_top # 0)

\* Every allocator runs out of memory or of addresses and then only yields.
AllocatorsFinish ==
    command = "allocator" => <>[](\A p \in Proc : u[p].pc = "idle")
=============================================================================
