-------------------------------- MODULE Elf --------------------------------
(***************************************************************************)
(* ELF images as the two loaders of the system read them: boot.c loads the *)
(* kernel from disk, k-loader.c loads programs from the kernel's memory.   *)
(*                                                                         *)
(* Memory and files are made of cells.  A cell is large enough for an      *)
(* elf_header or an elf_program and is the unit of all sizes, so a page    *)
(* and a sector are a few cells.  What a cell holds is told by a number:   *)
(* the offset it was copied from in the file, Zero when it was cleared,    *)
(* Stale when it still holds what was there before.                        *)
(***************************************************************************)
EXTENDS Integers, Sequences

CONSTANTS PAGESIZE,     \* cells of a page
          MaxText,      \* cells of the largest text segment
          MaxData       \* cells of the largest data segment, .bss included

Zero  == -1
Stale == -2

ROUNDUP(a, n)   == ((a + n - 1) \div n) * n
ROUNDDOWN(a, n) == a - (a % n)

ELF_PTYPE_LOAD == 1
PT_GNU_STACK   == 2     \* any p_type that is not ELF_PTYPE_LOAD

elf_program(type, offset, va, filesz, memsz) ==
    [p_type |-> type, p_offset |-> offset, p_va |-> va,
     p_filesz |-> filesz, p_memsz |-> memsz]

(* The images link/kernel.ld and link/process.ld produce: text at address  *)
(* base, data and .bss from the next page on, both at page-aligned file    *)
(* offsets after the page of the headers; a data segment without contents  *)
(* has offset 0; the linker may add a header for the stack, which is       *)
(* empty.                                                                  *)
LoadHeaders(base, text, data, memsz) ==
    LET doffset == PAGESIZE + ROUNDUP(text, PAGESIZE)
        dva     == base + ROUNDUP(text, PAGESIZE)
    IN  << elf_program(ELF_PTYPE_LOAD, PAGESIZE, base, text, text),
           elf_program(ELF_PTYPE_LOAD, IF data = 0 THEN 0 ELSE doffset,
                       dva, data, memsz) >>

StackHeaders == { <<>>, << elf_program(PT_GNU_STACK, 0, 0, 0, 0) >> }

LinkedImage(base, text, sz, stack) ==
    [e_magic |-> TRUE, e_entry |-> base, e_phoff |-> 1,
     ph |-> LoadHeaders(base, text, sz[1], sz[2]) \o stack]

Images(base) ==
    { LinkedImage(base, text, sz, stack) :
        text \in 1 .. MaxText,
        sz \in {s \in (0 .. MaxData) \X (1 .. MaxData) : s[1] <= s[2]},
        stack \in StackHeaders }

(* What elf.h promises of a segment: "any bytes beyond p_filesz are        *)
(* initialized to zero".                                                   *)
SegmentLoaded(mem, ph) ==
    \A i \in 0 .. ph.p_memsz - 1 :
        mem[ph.p_va + i] = IF i < ph.p_filesz THEN ph.p_offset + i ELSE Zero

ImageLoaded(mem, image) ==
    \A k \in DOMAIN image.ph :
        image.ph[k].p_type = ELF_PTYPE_LOAD => SegmentLoaded(mem, image.ph[k])
=============================================================================
