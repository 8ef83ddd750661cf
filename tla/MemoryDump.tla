----------------------------- MODULE MemoryDump -----------------------------
(***************************************************************************)
(* The pictures of memory that kernel.c draws on the console, the dumps it *)
(* writes to the log once a second, and what parse_log.py concludes from   *)
(* them about the kernel.  A dump is numbers: owners are printed as        *)
(* unsigned bytes, a page that is not mapped as three zeros.  A picture    *)
(* has one character for a page: its owner as a letter, reversed if users  *)
(* may access it, darker if it is shared.                                  *)
(***************************************************************************)
EXTENDS KernelProperties

\* Owners as "%u" prints them, converted to uint8_t.
uint8_t(owner) == owner % 256

\* memdump_physical()
memdump_physical ==
    [pn \in PN |-> [owner |-> uint8_t(pageinfo[pn].owner),
                    refcount |-> pageinfo[pn].refcount]]

\* memdump_virtual(pagetable, name)
memdump_virtual(pagetable) ==
    [va \in VA |->
        LET vam == virtual_memory_lookup(mem, pagetable, va)
        IN  IF vam.pn < 0 THEN [owner |-> 0, refcount |-> 0, perm |-> {}]
            ELSE [owner |-> uint8_t(pageinfo[vam.pn].owner),
                  refcount |-> pageinfo[vam.pn].refcount,
                  perm |-> vam.perm]]

\* memdump_virtual_all(): the dumps by process, as add_vm_state keeps them.
memdump_virtual_all ==
    [p \in {q \in Pid : processes[q].state # "P_FREE"} |->
        memdump_virtual(processes[p].pagetable)]

-----------------------------------------------------------------------------
(* The pictures *)

\* The letter for page pn: memstate_colors[owner - PO_KERNEL].
Letter(pn) == IF pageinfo[pn].refcount = 0 THEN PO_FREE ELSE pageinfo[pn].owner

\* memshow_physical()
memshow_physical ==
    [pn \in PN |-> [letter |-> Letter(pn), dark |-> pageinfo[pn].refcount > 1]]

\* memshow_virtual(pagetable, name)
Blank == [letter |-> "none"]
memshow_virtual(pagetable) ==
    [va \in VA |->
        LET vam == virtual_memory_lookup(mem, pagetable, va)
        IN  IF vam.pn < 0 THEN Blank
            ELSE [letter |-> Letter(vam.pn),
                  reverse |-> PTE_U \in vam.perm,
                  dark |-> pageinfo[vam.pn].refcount > 1]]

\* The picture a reader of the log would draw of a dumped page.
DrawnPhysical(e) ==
    [letter |-> IF e.owner > 127 THEN e.owner - 256 ELSE e.owner, dark |-> e.refcount > 1]

DrawnVirtual(e) ==
    IF PTE_P \notin e.perm THEN Blank
    ELSE [letter |-> IF e.owner > 127 THEN e.owner - 256 ELSE e.owner,
          reverse |-> PTE_U \in e.perm,
          dark |-> e.refcount > 1]

\* "Dumps to the log file same information as memshow_physical" and "as
\* memshow_virtual_animate" (kernel.c): at every exception the pictures can
\* be drawn from the dumps, although only the pictures look at the refcount
\* before the owner and only the dumps squeeze owners into a byte.
DumpsMatchPictures ==
    kpc = "dispatch" =>
        /\ memshow_physical = [pn \in PN |-> DrawnPhysical(memdump_physical[pn])]
        /\ \A p \in DOMAIN memdump_virtual_all :
              memshow_virtual(processes[p].pagetable) =
                 [va \in VA |-> DrawnVirtual(memdump_virtual_all[p][va])]

-----------------------------------------------------------------------------
(* parse_log.py.  vm is what memdump_virtual_all wrote. *)

Low == {va \in VA : va < PROC_START}
High == VA \ Low
Accessible(entry) == PTE_U \in entry.perm

IsKernelIsolated(vm) ==
    \A p \in DOMAIN vm : \A va \in Low \ {CONSOLE} : ~Accessible(vm[p][va])

AreProcessesIsolated(vm) ==
    \A p \in DOMAIN vm : \A va \in High :
        Accessible(vm[p][va]) => vm[p][va].owner \in {0, p}

CheckOwnershipInvariant(vm) ==
    \A p \in DOMAIN vm : \A va \in High :
        vm[p][va].owner = p => Accessible(vm[p][va])

CheckCGAAccessInvariant(vm) ==
    \A p \in DOMAIN vm : Accessible(vm[p][CONSOLE])

IsForkOK(vm) ==
    \A p \in DOMAIN vm :
        LET entry == vm[p][PROC_START]
        IN  entry.owner # 0 /\ (entry.owner # p => PTE_W \notin entry.perm)

\* Whatever the processes have done when the timer's exception makes the
\* kernel dump memory, the log passes the checks of parse_log.py: the kernel
\* and the processes are isolated, nothing a process owns is lost to it, all
\* reach the console, and every process has its program where fork copied it.
LogChecksPass ==
    kpc = "dispatch" /\ trap.int = "INT_TIMER" =>
        /\ IsKernelIsolated(memdump_virtual_all)
        /\ AreProcessesIsolated(memdump_virtual_all)
        /\ CheckOwnershipInvariant(memdump_virtual_all)
        /\ CheckCGAAccessInvariant(memdump_virtual_all)
        /\ IsForkOK(memdump_virtual_all)

\* The log of the dumps says what the screen shows, and passes the checks.
DumpsRight == DumpsMatchPictures /\ LogChecksPass
=============================================================================
