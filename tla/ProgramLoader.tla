--------------------------- MODULE ProgramLoader ---------------------------
(***************************************************************************)
(* k-loader.c, byte by byte: program_load copies a program's segments from *)
(* the ELF image linked into the kernel to the memory of a new process.    *)
(* WeensyKernel models the same calls page by page, with the page tables   *)
(* and the owners of pages; here pages are only free or not, and what is   *)
(* followed is which cells of the process get which contents.  Memory is   *)
(* Stale at first: a soft reboot clears nothing, so a page may hold what   *)
(* an earlier program left there.                                          *)
(***************************************************************************)
EXTENDS Elf

VARIABLES
    image,      \* the image at ramimages[programnumber].begin
    header_no,  \* program_load's loop counter i
    mapped,     \* addresses of the pages mapped for the process
    mem,        \* the process's memory
    touched,    \* cells the kernel wrote through the process's page table
    rip,        \* p->p_registers.reg_rip, Stale before it is set
    result      \* what program_load returned, Running before it does

loadVars == <<image, header_no, mapped, mem, touched, rip, result>>

Running == 1
PROC_START_ADDR == 2 * PAGESIZE
MEMSIZE ==
    PROC_START_ADDR + ROUNDUP(MaxText, PAGESIZE) + ROUNDUP(MaxData, PAGESIZE)
Pages == {a \in 0 .. MEMSIZE - 1 : a % PAGESIZE = 0}

LoadInit ==
    /\ image \in Images(PROC_START_ADDR)
    /\ header_no = 0
    /\ mapped = {}
    /\ mem = [a \in 0 .. MEMSIZE - 1 |-> Stale]
    /\ touched = {}
    /\ rip = Stale
    /\ result = Running

-----------------------------------------------------------------------------
header == image.ph[header_no + 1]

end_file == header.p_va + header.p_filesz
end_mem  == header.p_va + header.p_memsz
va       == ROUNDDOWN(header.p_va, PAGESIZE)

\* The addresses of the allocation loop, in increasing order.
SegmentPages == {a \in Pages : va <= a /\ a < end_mem}

\* assign_physical_page or virtual_memory_map fails at one of the pages;
\* the ones before it stay mapped, nothing is copied.
program_load_segment_fails ==
    /\ \E bad \in SegmentPages :
          mapped' = mapped \cup {a \in SegmentPages : a < bad}
    /\ result' = -1
    /\ UNCHANGED <<image, header_no, mem, touched, rip>>

\* memcpy(va, src, end_file - va); memset(end_file, 0, end_mem - end_file)
program_load_segment_no_memset ==
    /\ SegmentPages \cap mapped = {}
    /\ mapped' = mapped \cup SegmentPages
    /\ mem' = [a \in DOMAIN mem |->
                IF a \in va .. end_file - 1 THEN header.p_offset + (a - va)
                ELSE mem[a]]
    /\ touched' = touched \cup (va .. end_file - 1)
    /\ header_no' = header_no + 1
    /\ UNCHANGED <<image, rip, result>>
program_load_segment ==
    /\ SegmentPages \cap mapped = {}
    /\ mapped' = mapped \cup SegmentPages
    /\ mem' = [a \in DOMAIN mem |->
                IF a \in va .. end_file - 1 THEN header.p_offset + (a - va)
                ELSE IF a \in end_file .. end_mem - 1 THEN Zero
                ELSE mem[a]]
    /\ touched' = touched \cup (va .. end_mem - 1)
    /\ header_no' = header_no + 1
    /\ UNCHANGED <<image, rip, result>>

is_loadable == header.p_type = ELF_PTYPE_LOAD

LoadSegment ==
    /\ result = Running
    /\ header_no < Len(image.ph)
    /\ is_loadable
    /\ program_load_segment \/ program_load_segment_fails

SkipHeader ==
    /\ result = Running
    /\ header_no < Len(image.ph)
    /\ ~is_loadable
    /\ header_no' = header_no + 1
    /\ UNCHANGED <<image, mapped, mem, touched, rip, result>>

program_load_returns ==
    /\ result = Running
    /\ header_no = Len(image.ph)
    /\ rip' = image.e_entry
    /\ result' = 0
    /\ UNCHANGED <<image, header_no, mapped, mem, touched>>

LoadNext == LoadSegment \/ SkipHeader \/ program_load_returns
LoadSpec == LoadInit /\ [][LoadNext]_loadVars

-----------------------------------------------------------------------------
(* A program that was loaded successfully has the contents its image asks  *)
(* for, .bss cleared, whatever an earlier program left in its pages; one   *)
(* that was not is never given an entry point.  The kernel writes through  *)
(* the new page table only where the allocation loop has mapped a page,    *)
(* and so cannot fault while it loads a program.                           *)
ProgramLoaded ==
    /\ result = 0 => ImageLoaded(mem, image) /\ rip = image.e_entry
    /\ result = -1 => rip = Stale
    /\ \A a \in touched : ROUNDDOWN(a, PAGESIZE) \in mapped
=============================================================================
