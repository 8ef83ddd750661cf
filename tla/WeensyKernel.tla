---------------------------- MODULE WeensyKernel ----------------------------
(***************************************************************************)
(* The WeensyOS kernel: boot, process setup and program loading, the       *)
(* exception handler with its system calls, fork, page allocation, the     *)
(* scheduler and the soft reboot, over the page tables of VirtualMemory,   *)
(* and user processes that run between exceptions.                         *)
(*                                                                         *)
(* The kernel runs with interrupts disabled on one CPU, so nothing comes   *)
(* between two steps of a handler; its loops over pages (copy_pagetable,   *)
(* program_load, the copying loop of fork) are still one step an           *)
(* iteration, in the order of the code, because each iteration may fail    *)
(* and return early with what was done so far.  kpc says where the kernel  *)
(* is and job holds the local variables of the loop.  Only check_keyboard  *)
(* lets the outside in: it is called once in every exception, and for ever *)
(* by schedule() with nothing to run and by panic().                       *)
(***************************************************************************)
EXTENDS VirtualMemory, Sequences

CONSTANTS
    KERNEL,       \* pages [KERNEL_START_ADDR, end) and the kernel stack page
    RESERVED,     \* pages for which physical_memory_isreserved
    CONSOLE,      \* the page of the CGA console
    KPT,          \* the first of the five pages of kernel_pagetables[]
    KTEXT,        \* the page of default_int_handler and virtual_memory_map
    TEMPPT,       \* the first page of check_keyboard's page table (0x8000)
    PROC_START,   \* PROC_START_ADDR
    NALLOC,       \* processes of the allocator command: 4 in the code
    Segments,     \* Segments[n]: pages of the loadable segments of program n
    Image,        \* Image[n]: what a page of program n holds once loaded
    Commands,     \* the commands the kernel may be booted with
    Syscalls,     \* the system calls user programs make
    AllocVAs,     \* the pages user programs ask sys_page_alloc for
    RemapVAs,     \* those they ask for even if they have them
    TouchVAs,     \* the pages user programs store to
    TouchIndexes, \* the words of the page they store to
    UserWords,    \* what they store
    UserRax,      \* the values %rax has when they trap
    MaxReboots    \* bound on the number of soft reboots

Program == 0 .. NALLOC + 1

ASSUME LayoutAssumption ==
    /\ NPAGETABLEENTRIES >= 2
    /\ NPAGES =< 2 * NPAGETABLEENTRIES
    /\ PROC_START \in VA /\ PROC_START \in PN
    /\ KERNEL \subseteq 0 .. PROC_START - 1
    /\ RESERVED \subseteq 0 .. PROC_START - 1
    /\ KERNEL \cap RESERVED = {}
    /\ NULL \in RESERVED /\ CONSOLE \in RESERVED /\ CONSOLE # NULL
    /\ KPT \in Nat /\ KPT .. KPT + 4 \subseteq KERNEL
    /\ KTEXT \in KERNEL \ (KPT .. KPT + 4)
    /\ TEMPPT \in Nat /\ TEMPPT .. TEMPPT + 2 \subseteq PN \ (KERNEL \cup RESERVED)

ASSUME ProgramAssumption ==
    /\ NALLOC \in 1 .. NPROC - 1
    /\ Segments \in [Program -> Seq(PROC_START .. MEMSIZE_VIRTUAL - 1)]
    /\ \A n \in Program : Len(Segments[n]) >= 1
    /\ Image \in [Program -> Page]

\* Four levels of indexes tell all addresses apart, one last-level table maps
\* what copy_pagetable copies (256 of 512 entries in the code), and there is
\* memory to boot: a process of the allocator command takes its root table,
\* three tables for the kernel's part of its address space, its segments, its
\* stack page and at most three more tables for that, less the three tables
\* of the last process (at most 4 * 10 - 3 of about 400 free pages in the code).
ASSUME BootAssumption ==
    /\ \A va \in VA : Upper(Upper(Upper(va))) < NPAGETABLEENTRIES
    /\ PROC_START =< NPAGETABLEENTRIES
    /\ \E segments \in {Len(Segments[n]) : n \in Program} :
         /\ \A n \in Program : Len(Segments[n]) =< segments
         /\ Cardinality(PN \ (KERNEL \cup RESERVED)) >= NALLOC * (8 + segments) - 3

\* Where programs are linked (link/*.ld): in physical memory, within reach of
\* the page table for low memory (0x100000 to 0x1FFFFF in the code), each at
\* an address of its own, which is not the stack's; and the pages below
\* PROC_START are enough for what is allocated before the last program is
\* loaded (28 of about 140 in the code).
ASSUME LinkAssumption ==
    /\ \A n \in Program : \A k \in DOMAIN Segments[n] :
         /\ Segments[n][k] < NPAGES /\ Segments[n][k] < NPAGETABLEENTRIES
         /\ Segments[n][k] # MEMSIZE_VIRTUAL - 1
    /\ \A n1, n2 \in Program : n1 = n2 \/ (n1 < NALLOC /\ n2 < NALLOC) =>
         \A k1 \in DOMAIN Segments[n1], k2 \in DOMAIN Segments[n2] :
            Segments[n1][k1] = Segments[n2][k2] => n1 = n2 /\ k1 = k2
    /\ Cardinality((0 .. PROC_START - 1) \ (KERNEL \cup RESERVED)) >= 8 * (NALLOC - 1) + 4

ASSUME UserAssumption ==
    /\ Commands \subseteq {"allocator", "fork", "forkexit"}
    /\ Syscalls \subseteq {"INT_SYS_PANIC", "INT_SYS_GETPID", "INT_SYS_YIELD",
                           "INT_SYS_PAGE_ALLOC", "INT_SYS_FORK", "INT_SYS_EXIT"}
    /\ AllocVAs \subseteq PROC_START .. MEMSIZE_VIRTUAL - 1
    /\ RemapVAs \subseteq AllocVAs
    /\ TouchVAs \subseteq VA
    /\ TouchIndexes \subseteq Index
    /\ UserWords \subseteq Word
    /\ UserRax \subseteq Int
    /\ MaxReboots \in Nat

VARIABLES
    pageinfo,          \* the pageinfo[] array
    mem,               \* physical memory
    processes,         \* the processes[] array
    current,           \* the process `current' points to
    pagetable_owner,   \* __pagetable_owner__
    cr3,               \* the page table the processor uses
    kpc,               \* where the kernel is, "user" when it is not running
    job,               \* locals of process_setup, copy_pagetable and fork
    trap,              \* the exception being handled
    command,           \* the command of the last boot
    reboots            \* number of soft reboots so far

vars == <<pageinfo, mem, processes, current, pagetable_owner, cr3, kpc, job,
          trap, command, reboots>>

FAILED == -1
RWU    == {PTE_P, PTE_W, PTE_U}
UserVA == PROC_START .. MEMSIZE_VIRTUAL - 1

Ints == {"INT_SYS_PANIC", "INT_SYS_GETPID", "INT_SYS_YIELD", "INT_SYS_PAGE_ALLOC",
         "INT_SYS_FORK", "INT_SYS_EXIT", "INT_TIMER", "INT_PAGEFAULT"}

NoJob  == [pid |-> 0, va |-> 0, pt |-> NULL, seg |-> 1]
NoTrap == [int |-> "none", rdi |-> 0]

FreeProcess == [state |-> "P_FREE", pagetable |-> NULL, rip |-> 0, rax |-> 0]
Processes   == [state : {"P_FREE", "P_RUNNABLE", "P_BROKEN"}, pagetable : PN,
                rip : VA, rax : Int]

-----------------------------------------------------------------------------
(* Boot *)

\* The owner pageinfo_init gives a page.
InitOwner(pn) == IF pn \in RESERVED THEN PO_RESERVED
                 ELSE IF pn \in KERNEL THEN PO_KERNEL ELSE PO_FREE

\* Mutant: pageinfo_init counts no reference for reserved and kernel pages.
pageinfo_init_uncounted ==
    [pn \in PN |-> [owner |-> InitOwner(pn), refcount |-> 0]]

\* Mutant: only the kernel's pages are counted as used.
pageinfo_init_reserved_uncounted ==
    [pn \in PN |-> [owner |-> InitOwner(pn),
                    refcount |-> IF InitOwner(pn) = PO_KERNEL THEN 1 ELSE 0]]

\* pageinfo_init()
pageinfo_init ==
    [pn \in PN |-> [owner |-> InitOwner(pn),
                    refcount |-> IF InitOwner(pn) # PO_FREE THEN 1 ELSE 0]]

\* Mutant: only the kernel's own image is taken away from users.
KernelPermImageOnly(va) == IF va \in KERNEL THEN {PTE_P, PTE_W} ELSE RWU

\* The identity mapping of page pn in kernel_pagetable: virtual_memory_init
\* maps all physical memory for users, kernel() then takes PTE_U away below
\* PROC_START_ADDR, the console excepted.
KernelPerm(va) == IF va < PROC_START /\ va # CONSOLE THEN {PTE_P, PTE_W} ELSE RWU

\* Mutant: virtual_memory_init maps more than there is of physical memory.
KernelLeafTooFar(va) == [pn |-> va, flags |-> KernelPerm(va)]

KernelLeaf(va) == IF va \in PN THEN [pn |-> va, flags |-> KernelPerm(va)] ELSE ZeroWord

\* The five pages of kernel_pagetables[] after virtual_memory_init and the
\* two mappings of kernel().
KernelTable(n) ==
    [i \in Index |->
        CASE n \in {0, 1} -> IF i = 0 THEN TableEntry(KPT + n + 1) ELSE ZeroWord
          [] n = 2 -> IF i < 2 THEN TableEntry(KPT + 3 + i) ELSE ZeroWord
          [] n = 3 -> KernelLeaf(i)
          [] OTHER -> KernelLeaf(NPAGETABLEENTRIES + i)]

\* Memory once kernel_pagetables[] is set up; the rest keeps its contents.
KernelMapped(m) ==
    [pn \in PN |-> IF pn \in KPT .. KPT + 4 THEN KernelTable(pn - KPT) ELSE m[pn]]

\* The temporary page table check_keyboard builds to survive a soft reboot.
TemporaryTable(m) ==
    [pn \in PN |->
        IF pn \in TEMPPT .. TEMPPT + 2
        THEN [ZeroPage EXCEPT ![0] = TableEntry(IF pn < TEMPPT + 2 THEN pn + 1 ELSE 0)]
        ELSE m[pn]]

\* kernel(command) decides which programs to load.
LastSetup(cmd) == IF cmd \in {"fork", "forkexit"} THEN 1 ELSE NALLOC
ProgramNumber(cmd, pid) == CASE cmd = "fork" -> NALLOC
                             [] cmd = "forkexit" -> NALLOC + 1
                             [] OTHER -> pid - 1

BootProcesses == [p \in Pid |-> FreeProcess]

\* The machine is switched on: the state in which kernel(command) enters
\* its first process_setup.  current is still NULL, here process 0.
Init ==
    /\ pageinfo = pageinfo_init
    /\ mem = KernelMapped([pn \in PN |-> ZeroPage])
    /\ processes = BootProcesses
    /\ current = 0
    /\ pagetable_owner = -1
    /\ cr3 = KPT
    /\ kpc = "setup"
    /\ job = [NoJob EXCEPT !.pid = 1]
    /\ trap = NoTrap
    /\ command \in Commands
    /\ reboots = 0

\* 'a', 'f' or 'e' was typed: check_keyboard jumps to entry_from_boot, which
\* calls kernel(command) again.  Memory is not cleared, and __pagetable_
\* owner__ keeps its value.
SoftReboot(cmd) ==
    /\ kpc \in {"dispatch", "idle", "panic"}
    /\ reboots < MaxReboots
    /\ pageinfo' = pageinfo_init
    /\ mem' = KernelMapped(TemporaryTable(mem))
    /\ processes' = BootProcesses
    /\ cr3' = KPT
    /\ kpc' = "setup"
    /\ job' = [NoJob EXCEPT !.pid = 1]
    /\ trap' = NoTrap
    /\ command' = cmd
    /\ reboots' = reboots + 1
    /\ UNCHANGED <<current, pagetable_owner>>

\* Control-C or 'q' was typed.
Poweroff ==
    /\ kpc \in {"dispatch", "idle", "panic"}
    /\ kpc' = "off"
    /\ trap' = NoTrap
    /\ UNCHANGED <<pageinfo, mem, processes, current, pagetable_owner, cr3, job,
                   command, reboots>>

\* Nothing was typed: the loops of schedule, fail and poweroff go round.
Spin ==
    /\ kpc \in {"idle", "panic", "off"}
    /\ UNCHANGED vars

-----------------------------------------------------------------------------
(* Leaving the kernel.  These operators fix kpc, current and cr3. *)

\* panic(), and a failed assert(), wait for a key.
Panic == kpc' = "panic" /\ UNCHANGED <<current, cr3>>

MapsIdentically(m, pagetable, pn) == virtual_memory_lookup(m, pagetable, pn).pn = pn

\* The assertions of set_pagetable(pagetable).
SetPagetableOK(m, pagetable) ==
    /\ MapsIdentically(m, pagetable, KTEXT)
    /\ MapsIdentically(m, KPT, pagetable)
    /\ MapsIdentically(m, pagetable, KPT)

\* run(p), in processes procs and memory m.  current is set before the
\* assertions of set_pagetable.
run(procs, m, p) ==
    IF procs[p].state # "P_RUNNABLE"
    THEN Panic
    ELSE /\ current' = p
         /\ IF SetPagetableOK(m, procs[p].pagetable)
            THEN kpc' = "user" /\ cr3' = procs[p].pagetable
            ELSE kpc' = "panic" /\ UNCHANGED cr3

Runnable(procs) == {p \in Pid : procs[p].state = "P_RUNNABLE"}

\* Mutant: schedule() looks at the current process first.
DistanceFromCurrent(p) == CHOOSE d \in 0 .. NPROC - 1 : (current + d) % NPROC = p

\* How many rounds of schedule()'s loop it takes to come to p.
Distance(p) == CHOOSE d \in 1 .. NPROC : (current + d) % NPROC = p

\* schedule()
schedule(procs, m) ==
    \/ /\ Runnable(procs) = {}
       /\ kpc' = "idle"
       /\ UNCHANGED <<current, cr3>>
    \/ \E p \in Runnable(procs) :
        /\ \A q \in Runnable(procs) : Distance(p) =< Distance(q)
        /\ run(procs, m, p)

\* The last lines of exception().
ReturnFromException(procs, m) ==
    IF procs[current].state = "P_RUNNABLE" THEN run(procs, m, current)
                                           ELSE schedule(procs, m)

-----------------------------------------------------------------------------
(* process_setup(pid, program_number) and copy_pagetable(pagetable, owner) *)

\* process_init and the first lines of copy_pagetable.  Without a page for
\* the root program_load cannot map anything and the assertion on its
\* result fails.
ProcessSetup ==
    /\ kpc = "setup"
    /\ LET root == pagetable_alloc(pageinfo, mem, job.pid)
       IN  /\ pageinfo' = root.pageinfo
           /\ mem' = root.mem
           /\ pagetable_owner' = job.pid
           /\ IF root.pn = NULL
              THEN Panic /\ UNCHANGED job
              ELSE /\ kpc' = "setup_copy"
                   /\ job' = [job EXCEPT !.pt = root.pn, !.va = 0]
                   /\ UNCHANGED <<current, cr3>>
    /\ UNCHANGED <<processes, trap, command, reboots>>

\* Mutant: the loop variable is too narrow and wraps around.
NextVAWraps(va) == (va + 1) % PROC_START

\* The loops over pages.
NextVA(va) == va + 1

\* The table copy_pagetable reads.
CopySource == IF kpc = "setup_copy" THEN KPT ELSE processes[current].pagetable

\* One iteration of the loop of copy_pagetable.
CopyMapping ==
    /\ kpc \in {"setup_copy", "fork_copy"}
    /\ job.va < PROC_START
    /\ LET mapping == virtual_memory_lookup(mem, CopySource, job.va)
           map == virtual_memory_map(pageinfo, mem, job.pt, job.va, mapping.pn,
                                     mapping.perm, pagetable_owner, TRUE)
       IN  IF mapping.perm = {}
           THEN /\ job' = [job EXCEPT !.va = NextVA(job.va)]
                /\ UNCHANGED <<pageinfo, mem, kpc, current, cr3>>
           ELSE /\ pageinfo' = map.pageinfo
                /\ mem' = map.mem
                /\ IF map.res = "ok"
                   THEN /\ job' = [job EXCEPT !.va = NextVA(job.va)]
                        /\ UNCHANGED <<kpc, current, cr3>>
                   ELSE Panic /\ UNCHANGED job
    /\ UNCHANGED <<processes, pagetable_owner, trap, command, reboots>>

\* copy_pagetable returns and its caller stores the new root.
CopyReturn ==
    /\ kpc \in {"setup_copy", "fork_copy"}
    /\ job.va = PROC_START
    /\ processes' = [processes EXCEPT ![job.pid].pagetable = job.pt]
    /\ kpc' = IF kpc = "setup_copy" THEN "load" ELSE "fork_memory"
    /\ UNCHANGED <<pageinfo, mem, current, pagetable_owner, cr3, job, trap, command,
                   reboots>>

\* The program process_setup is loading, and its segments.
Loading == ProgramNumber(command, job.pid)

\* program_load_segment for a segment of one page (every program's text and
\* data segments are): the page at the same physical address is assigned and
\* mapped, without an allocator, and filled through the new mapping.
ProgramLoadSegment ==
    /\ kpc = "load"
    /\ job.seg =< Len(Segments[Loading])
    /\ LET addr == Segments[Loading][job.seg]
           map  == virtual_memory_map(Assign(pageinfo, addr, job.pid), mem, job.pt, addr,
                                      addr, RWU, pagetable_owner, FALSE)
           filled == virtual_memory_lookup(map.mem, job.pt, addr).pn
       IN  IF ~CanAssign(pageinfo, addr)
           THEN Panic /\ UNCHANGED <<pageinfo, mem, job>>
           ELSE /\ pageinfo' = map.pageinfo
                /\ IF map.res = "ok" /\ SetPagetableOK(map.mem, job.pt)
                   THEN /\ mem' = [map.mem EXCEPT ![filled] = Image[Loading]]
                        /\ job' = [job EXCEPT !.seg = job.seg + 1]
                        /\ UNCHANGED <<kpc, current, cr3>>
                   ELSE Panic /\ mem' = map.mem /\ UNCHANGED job
    /\ UNCHANGED <<processes, pagetable_owner, trap, command, reboots>>

\* The rest of process_setup: entry point, stack page (out of memory is not
\* noticed, and neither is a failure to map it), P_RUNNABLE.  kernel() then
\* sets up the next process or runs process 1.
SetupStack ==
    /\ kpc = "load"
    /\ job.seg > Len(Segments[Loading])
    /\ LET stack == get_free_addr(pageinfo, job.pid)
           map   == virtual_memory_map(stack.pageinfo, mem, job.pt, MEMSIZE_VIRTUAL - 1,
                                       stack.pn, RWU, pagetable_owner, TRUE)
           ready == [state |-> "P_RUNNABLE", pagetable |-> processes[job.pid].pagetable,
                     rip |-> Segments[Loading][1], rax |-> 0]
           procs == [processes EXCEPT ![job.pid] = ready]
       IN  /\ pageinfo' = map.pageinfo
           /\ mem' = map.mem
           /\ IF map.res = "assert"
              THEN Panic /\ UNCHANGED <<processes, job>>
              ELSE /\ processes' = procs
                   /\ IF job.pid < LastSetup(command)
                      THEN /\ kpc' = "setup"
                           /\ job' = [NoJob EXCEPT !.pid = job.pid + 1]
                           /\ UNCHANGED <<current, cr3>>
                      ELSE run(procs, map.mem, 1) /\ job' = NoJob
    /\ UNCHANGED <<pagetable_owner, trap, command, reboots>>

-----------------------------------------------------------------------------
(* check_virtual_memory() *)

CheckMappings(pt) ==
    \A va \in KERNEL : LET vam == virtual_memory_lookup(mem, pt, va)
                       IN  vam.pn = va /\ (va # KTEXT => PTE_W \in vam.perm)

CheckOwnership(pt, owner, refcount) ==
    /\ pageinfo[pt] = [owner |-> owner, refcount |-> refcount]
    /\ \A t \in TablesBelow(mem, pt) :
            pageinfo[t] = [owner |-> owner, refcount |-> 1]

\* All of its assertions hold.
check_virtual_memory ==
    LET active == {p \in Pid : processes[p].state # "P_FREE"}
        onKernelTable == {p \in active : processes[p].pagetable = KPT}
    IN  /\ processes[0].state = "P_FREE"
        /\ CheckMappings(KPT)
        /\ CheckOwnership(KPT, PO_KERNEL, 1 + Cardinality(onKernelTable))
        /\ \A p \in active \ onKernelTable :
                /\ CheckMappings(processes[p].pagetable)
                /\ CheckOwnership(processes[p].pagetable, p, 1)
        /\ \A pn \in PN : pageinfo[pn].refcount > 0 /\ pageinfo[pn].owner >= 0
                            => pageinfo[pn].owner \in active

-----------------------------------------------------------------------------
(* User mode.  A process executes whatever its code page says, through the *)
(* page table in cr3.                                                      *)

UserPerm(va) == virtual_memory_lookup(mem, cr3, va).perm

\* The instruction at %rip can be fetched.
Executing == kpc = "user" /\ PTE_U \in UserPerm(processes[current].rip)

\* A store by the running process.
UserStore(va, i, w) ==
    /\ Executing
    /\ {PTE_W, PTE_U} \subseteq UserPerm(va)
    /\ mem' = [mem EXCEPT ![virtual_memory_lookup(mem, cr3, va).pn][i] = w]
    /\ UNCHANGED <<pageinfo, processes, current, pagetable_owner, cr3, kpc, job, trap,
                   command, reboots>>

\* exception(reg) up to check_keyboard: the registers are saved, the kernel's
\* page table is loaded and the checks of check_virtual_memory are made.
exception(int, rdi, rax) ==
    /\ processes' = [processes EXCEPT ![current].rax = rax]
    /\ cr3' = IF SetPagetableOK(mem, KPT) THEN KPT ELSE cr3
    /\ IF SetPagetableOK(mem, KPT) /\ check_virtual_memory
       THEN kpc' = "dispatch" /\ trap' = [int |-> int, rdi |-> rdi]
       ELSE kpc' = "panic" /\ trap' = NoTrap
    /\ UNCHANGED <<pageinfo, mem, current, pagetable_owner, job, command, reboots>>

\* A system call other than sys_page_alloc.
Syscall(int, rax) ==
    /\ Executing
    /\ int # "INT_SYS_PAGE_ALLOC"
    /\ exception(int, 0, rax)

\* sys_page_alloc(addr): the repository's programs pass heap_top, which they
\* do not have yet; another program may ask for a page again.
SyscallPageAlloc(addr, rax) ==
    /\ Executing
    /\ "INT_SYS_PAGE_ALLOC" \in Syscalls
    /\ addr \in RemapVAs \/ UserPerm(addr) = {}
    /\ exception("INT_SYS_PAGE_ALLOC", addr, rax)

\* The timer interrupts, whatever the process is doing.
TimerInterrupt(rax) ==
    /\ kpc = "user"
    /\ exception("INT_TIMER", 0, rax)

\* The process touches an address it may not, or cannot fetch its code.
PageFault(va, rax) ==
    /\ kpc = "user"
    /\ ~Executing \/ ~({PTE_W, PTE_U} \subseteq UserPerm(va))
    /\ exception("INT_PAGEFAULT", 0, rax)

-----------------------------------------------------------------------------
(* The switch of exception().  No key was pressed. *)

\* break out of the switch, after changes to processes[], memory and pageinfo.
Return(procs, m, pi) ==
    /\ processes' = procs
    /\ mem' = m
    /\ pageinfo' = pi
    /\ job' = NoJob
    /\ trap' = NoTrap
    /\ ReturnFromException(procs, m)

SetRax(procs, p, rax) == [procs EXCEPT ![p].rax = rax]

HandlePanic ==
    /\ kpc = "dispatch"
    /\ trap.int \in {"INT_SYS_PANIC", "INT_SYS_EXIT"}
    /\ Panic
    /\ trap' = NoTrap
    /\ UNCHANGED <<pageinfo, mem, processes, pagetable_owner, job, command, reboots>>

HandleGetpid ==
    /\ kpc = "dispatch"
    /\ trap.int = "INT_SYS_GETPID"
    /\ Return(SetRax(processes, current, current), mem, pageinfo)
    /\ UNCHANGED <<pagetable_owner, command, reboots>>

HandleYieldOrTimer ==
    /\ kpc = "dispatch"
    /\ trap.int \in {"INT_SYS_YIELD", "INT_TIMER"}
    /\ schedule(processes, mem)
    /\ trap' = NoTrap
    /\ UNCHANGED <<pageinfo, mem, processes, pagetable_owner, job, command, reboots>>

HandlePageFault ==
    /\ kpc = "dispatch"
    /\ trap.int = "INT_PAGEFAULT"
    /\ Return([processes EXCEPT ![current].state = "P_BROKEN"], mem, pageinfo)
    /\ UNCHANGED <<pagetable_owner, command, reboots>>

\* Mutant: out of memory is logged but not reported to the process.
HandlePageAllocOOMSilent ==
    /\ kpc = "dispatch"
    /\ trap.int = "INT_SYS_PAGE_ALLOC"
    /\ FreeAddr(pageinfo) = NULL
    /\ Return(processes, mem, pageinfo)
    /\ pagetable_owner' = current
    /\ UNCHANGED <<command, reboots>>

\* sys_page_alloc without a free page.
HandlePageAllocOOM ==
    /\ kpc = "dispatch"
    /\ trap.int = "INT_SYS_PAGE_ALLOC"
    /\ FreeAddr(pageinfo) = NULL
    /\ Return(SetRax(processes, current, FAILED), mem, pageinfo)
    /\ pagetable_owner' = current
    /\ UNCHANGED <<command, reboots>>

\* sys_page_alloc with one; mapping it may still fail for want of a table.
HandlePageAlloc ==
    /\ kpc = "dispatch"
    /\ trap.int = "INT_SYS_PAGE_ALLOC"
    /\ FreeAddr(pageinfo) # NULL
    /\ LET pa  == get_free_addr(pageinfo, current)
           map == virtual_memory_map(pa.pageinfo, mem, processes[current].pagetable,
                                     trap.rdi, pa.pn, RWU, current, TRUE)
       IN  IF map.res = "assert"
           THEN /\ Panic
                /\ pageinfo' = map.pageinfo
                /\ mem' = map.mem
                /\ trap' = NoTrap
                /\ UNCHANGED <<processes, job>>
           ELSE Return(SetRax(processes, current, IF map.res = "ok" THEN 0 ELSE FAILED),
                       map.mem, map.pageinfo)
    /\ pagetable_owner' = current
    /\ UNCHANGED <<command, reboots>>

-----------------------------------------------------------------------------
(* fork() *)

FreeSlots == {i \in 1 .. NPROC - 1 : processes[i].state = "P_FREE"}

\* The child's descriptor as fork() first fills it in.
Child == [processes[current] EXCEPT !.state = "P_RUNNABLE", !.pagetable = NULL]

\* No process slot is left.
ForkNoSlot ==
    /\ kpc = "dispatch"
    /\ trap.int = "INT_SYS_FORK"
    /\ FreeSlots = {}
    /\ Return(SetRax(processes, current, FAILED), mem, pageinfo)
    /\ UNCHANGED <<pagetable_owner, command, reboots>>

\* fork() up to the loop of copy_pagetable.  The child is made runnable
\* first; without a page for its root table it stays so.
ForkBegin ==
    /\ kpc = "dispatch"
    /\ trap.int = "INT_SYS_FORK"
    /\ \E i \in FreeSlots :
        LET procs == [processes EXCEPT ![i] = Child]
            root  == pagetable_alloc(pageinfo, mem, i)
        IN  /\ \A j \in FreeSlots : i =< j
            /\ pagetable_owner' = i
            /\ IF root.pn = NULL
               THEN Return(SetRax(procs, current, FAILED), mem, pageinfo)
               ELSE /\ processes' = procs
                    /\ pageinfo' = root.pageinfo
                    /\ mem' = root.mem
                    /\ kpc' = "fork_copy"
                    /\ job' = [NoJob EXCEPT !.pid = i, !.pt = root.pn]
                    /\ UNCHANGED <<current, cr3, trap>>
    /\ UNCHANGED <<command, reboots>>

\* One iteration of fork()'s loop over the parent's memory.
ForkCopyPage ==
    /\ kpc = "fork_memory"
    /\ job.va < MEMSIZE_VIRTUAL
    /\ LET mapping == virtual_memory_lookup(mem, processes[current].pagetable, job.va)
           new    == get_free_addr(pageinfo, job.pid)
           copied == [mem EXCEPT ![new.pn] = mem[mapping.pn]]
           map    == virtual_memory_map(new.pageinfo, copied, processes[job.pid].pagetable,
                                        job.va, new.pn, mapping.perm, pagetable_owner, TRUE)
           failed == SetRax(processes, current, FAILED)
       IN  IF PTE_W \notin mapping.perm
           THEN /\ job' = [job EXCEPT !.va = NextVA(job.va)]
                /\ UNCHANGED <<pageinfo, mem, processes, kpc, current, cr3, trap>>
           ELSE IF new.pn = NULL
           THEN Return(failed, mem, pageinfo)
           ELSE IF map.res = "fail"
           THEN Return(failed, map.mem, map.pageinfo)
           ELSE /\ pageinfo' = map.pageinfo
                /\ mem' = map.mem
                /\ IF map.res = "ok"
                   THEN /\ job' = [job EXCEPT !.va = NextVA(job.va)]
                        /\ UNCHANGED <<kpc, current, cr3, trap>>
                   ELSE Panic /\ trap' = NoTrap /\ UNCHANGED job
                /\ UNCHANGED processes
    /\ UNCHANGED <<pagetable_owner, command, reboots>>

\* Mutant: fork() leaves the child's %rax as it was copied.
ForkEndNoZero ==
    /\ kpc = "fork_memory"
    /\ job.va = MEMSIZE_VIRTUAL
    /\ Return(SetRax(processes, current, job.pid), mem, pageinfo)
    /\ UNCHANGED <<pagetable_owner, command, reboots>>

\* Everything is copied: the two return values of fork().
ForkEnd ==
    /\ kpc = "fork_memory"
    /\ job.va = MEMSIZE_VIRTUAL
    /\ Return(SetRax(SetRax(processes, current, job.pid), job.pid, 0), mem, pageinfo)
    /\ UNCHANGED <<pagetable_owner, command, reboots>>

-----------------------------------------------------------------------------
Setup == ProcessSetup \/ CopyMapping \/ CopyReturn \/ ProgramLoadSegment \/ SetupStack

User ==
    \/ \E va \in TouchVAs, i \in TouchIndexes, w \in UserWords : UserStore(va, i, w)
    \/ \E int \in Syscalls, rax \in UserRax : Syscall(int, rax)
    \/ \E addr \in AllocVAs, rax \in UserRax : SyscallPageAlloc(addr, rax)
    \/ \E va \in TouchVAs, rax \in UserRax : PageFault(va, rax)

Timer == \E rax \in UserRax : TimerInterrupt(rax)

Handle ==
    \/ HandlePanic \/ HandleGetpid \/ HandleYieldOrTimer \/ HandlePageFault
    \/ HandlePageAlloc \/ HandlePageAllocOOM \/ ForkNoSlot \/ ForkBegin \/ ForkCopyPage \/ ForkEnd

Keyboard == Poweroff \/ \E cmd \in Commands : SoftReboot(cmd)

Next == Setup \/ User \/ Timer \/ Handle \/ Keyboard \/ Spin

Spec == Init /\ [][Next]_vars
=============================================================================
