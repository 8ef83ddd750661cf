-------------------------- MODULE KernelProperties --------------------------
(***************************************************************************)
(* What makes the kernel of WeensyKernel correct.                          *)
(***************************************************************************)
EXTENDS WeensyKernel

\* The type invariant: every variable of the kernel stays in its type; in
\* particular page table entries always name existing physical pages, which
\* lookup_l4pagetable asserts, and owners fit pageinfo[].
TypeOK ==
    /\ pageinfo \in [PN -> PageInfo]
    /\ mem \in [PN -> Page]
    /\ processes \in [Pid -> Processes]
    /\ current \in Pid
    /\ pagetable_owner \in Pid \cup {-1}
    /\ cr3 \in PN
    /\ kpc \in {"setup", "setup_copy", "load", "user", "dispatch", "fork_copy",
                "fork_memory", "idle", "panic", "off"}
    /\ job \in [pid : Pid, va : 0 .. MEMSIZE_VIRTUAL, pt : PN, seg : Nat]
    /\ trap \in [int : Ints \cup {"none"}, rdi : VA]
    /\ command \in Commands
    /\ reboots \in 0 .. MaxReboots

-----------------------------------------------------------------------------
(* Isolation *)

\* Processes with a page table of their own.
HasTable == {p \in Pid : processes[p].state # "P_FREE" /\ processes[p].pagetable # NULL}

\* The pages of user mappings of page table pt.
UserPages(pt) ==
    {virtual_memory_lookup(mem, pt, va).pn :
        va \in {v \in VA : PTE_U \in virtual_memory_lookup(mem, pt, v).perm}}

TablesOf(p) == {processes[p].pagetable} \cup TablesBelow(mem, processes[p].pagetable)

\* What a process can reach in user mode is its own pages and the console
\* (IsKernelIsolated and AreProcessesIsolated of parse_log.py).
\* Holds in the middle of handlers too, for the child fork() is building.
UserPagesOwned ==
    \A p \in HasTable : \A pn \in UserPages(processes[p].pagetable) :
        pn = CONSOLE \/ pageinfo[pn] = [owner |-> p, refcount |-> 1]

\* No process can reach a page that is part of a page table, its own
\* included: the page tables only change in the kernel.
PageTablesProtected ==
    \A p, q \in HasTable :
        UserPages(processes[p].pagetable) \cap (TablesOf(q) \cup KERNEL) = {}

-----------------------------------------------------------------------------
(* Ownership of pages *)

\* pageinfo[] never marks a page free that is counted as used, nor a page as
\* used that has no owner.
PageinfoConsistent ==
    \A pn \in PN : pageinfo[pn].refcount = 0 <=> pageinfo[pn].owner = PO_FREE

\* "Process 0 must never be used" (check_virtual_memory): pid 0 would be
\* PO_FREE as an owner, and the pages of its owner could be given away again.
ProcessZeroUnused ==
    /\ processes[0].state = "P_FREE"
    /\ kpc \in {"user", "dispatch", "fork_copy", "fork_memory"} => current # 0

\* Whom the kernel is working for, in the loops of boot and fork().
JobOwner ==
    /\ kpc \in {"setup", "setup_copy", "load"} => job.pid \in 1 .. LastSetup(command)
    /\ kpc \in {"fork_copy", "fork_memory"} => job.pid # 0
    /\ kpc \in {"setup_copy", "fork_copy"} => job.va =< PROC_START
    /\ pagetable_owner # 0

\* The inductive invariant behind the ownership of pages.
OwnershipInv == TypeOK /\ PageinfoConsistent /\ ProcessZeroUnused /\ JobOwner

\* A page keeps its owner until the machine is rebooted: no handler takes a
\* page that get_free_addr or assign_physical_page gave to someone else.
OwnersKept ==
    [][ \/ reboots' # reboots
        \/ \A pn \in PN : pageinfo[pn].refcount # 0 => pageinfo'[pn] = pageinfo[pn] ]_vars

\* The number of references to page pn from the tree of process p: as its
\* root, from an entry of one of its tables, or from a user mapping (the
\* kernel's own identity mapping of low memory, without PTE_U, is not one).
References(p, pn) ==
    LET root == processes[p].pagetable
        tables == TablesOf(p)
        entries == {e \in tables \X Index :
                        LET word == mem[e[1]][e[2]]
                        IN  PTE_U \in word.flags /\ word.pn = pn}
    IN  Cardinality(entries) + (IF root = pn THEN 1 ELSE 0)

\* "pageinfo[pn].refcount is the number of times physical page `pn` is
\* currently referenced" (kernel.c): whenever the kernel is about to run a
\* process, each page a process owns is referenced exactly refcount times
\* from that process's page table tree, so none is shared and none is lost.
RefcountsExact ==
    kpc = "user" =>
        \A pn \in PN : pageinfo[pn].owner > 0 =>
            References(pageinfo[pn].owner, pn) = pageinfo[pn].refcount

-----------------------------------------------------------------------------
(* What user programs see *)

\* The process fork() is still building.
Unborn == IF kpc \in {"fork_copy", "fork_memory"} THEN {job.pid} ELSE {}

Visible(p) == processes[p].state # "P_FREE" /\ p \notin Unborn

\* The contents of the memory process p can read, page by page.
MemoryOf(p) ==
    [va \in UserVA |->
        LET vam == virtual_memory_lookup(mem, processes[p].pagetable, va)
        IN  IF Visible(p) /\ PTE_U \in vam.perm THEN {mem[vam.pn]} ELSE {}]

Phase == CASE kpc \in {"setup", "setup_copy", "load"} -> "booting"
           [] kpc \in {"panic", "off"} -> "down"
           [] OTHER -> "running"

\* The kernel implements address spaces: forking, allocating, loading and
\* storing through page tables looks to user programs like the atomic
\* operations of AddressSpaces on private memories.
Spaces == INSTANCE AddressSpaces
    WITH Proc <- Pid, Address <- UserVA,
         phase <- Phase,
         state <- [p \in Pid |-> IF Visible(p) THEN processes[p].state ELSE "P_FREE"],
         image <- [p \in Pid |-> MemoryOf(p)],
         ret <- [p \in Pid |-> IF Visible(p) THEN processes[p].rax ELSE 0],
         running <- current,
         call <- trap

ImplementsAddressSpaces == Spaces!Spec

\* Even when memory runs out in the middle of a handler: a step of the
\* running process, or of the kernel on its behalf, changes neither the
\* memory nor the registers of another process that is not being created.
OnlyCurrentChanges ==
    [][ \/ reboots' # reboots
        \/ \A p \in Pid \ {current} :
             Visible(p) => MemoryOf(p)' = MemoryOf(p) /\ processes'[p] = processes[p] ]_vars

\* No assertion of the kernel fails and nothing makes it panic.
NoPanic == kpc # "panic"

-----------------------------------------------------------------------------
(* What the comments say of running out of memory.                         *)

\* "On success, return the child's process ID to the parent, and return 0 to
\* the child. On failure, return -1." (process.h): a process comes into being
\* through fork() only together with these two return values.
ForkReturnValues ==
    [][ \A p \in Pid :
          (trap.int = "INT_SYS_FORK" /\ ~Visible(p) /\ Visible(p)' /\ trap'.int = "none")
            => processes'[current].rax = p /\ processes'[p].rax = 0 ]_vars

\* "Active processes have their own page tables. A process page table should
\* be owned by that process and have reference count 1." (kernel.c): what
\* check_virtual_memory asserts holds whenever a process runs.
ChecksHold == kpc = "user" => check_virtual_memory

\* copy_pagetable "Returns the address of the new pagetable, `NULL` on
\* Faliure." (kernel.c): it does not stop the machine under fork().
CopyPagetableReturns == [][kpc = "fork_copy" => kpc' # "panic"]_vars

\* sys_exit: "Exit this process. Does not return." (process.h): the other
\* processes go on.
ExitOnlyExits ==
    [][ trap.int = "INT_SYS_EXIT" /\ Runnable(processes) # {current} => kpc' # "panic" ]_vars

-----------------------------------------------------------------------------
(* Progress *)

KernelRuns == kpc \notin {"user", "idle", "panic", "off"}

\* Weak fairness of the kernel: its code is executed.  This is
\* WF_vars(Setup \/ Handle \/ Keyboard) with its ENABLED spelled out as
\* KernelRuns: a step of the kernel changes kpc, job or trap, and there is
\* always one.
KernelFair == []<>~KernelRuns \/ []<><<KernelRuns>>_vars

\* Strong fairness of the timer, SF_vars(Timer) with its ENABLED spelled out:
\* the timer interrupt is requested HZ times a second, it stays pending
\* while the kernel runs with interrupts disabled, and every process runs
\* with EFLAGS_IF set, so a process cannot return from system calls for
\* ever without the pending interrupt being taken.
TimerFair == <>[](kpc # "user") \/ []<><<Timer>>_vars

FairSpec == Spec /\ KernelFair /\ TimerFair

\* Every loop of boot, process_setup and fork ends: the kernel always comes
\* back to a process, goes idle, or stops.
KernelReturns ==
    KernelRuns ~> ~KernelRuns

\* No runnable process starves, whatever the running one does: round robin
\* with a timer reaches it unless the machine stops or reboots first.
RunnableRuns ==
    \A p \in Pid :
        (kpc = "user" /\ processes[p].state = "P_RUNNABLE")
            ~> (kpc = "user" /\ current = p) \/ kpc \in {"panic", "off", "setup"}
=============================================================================
