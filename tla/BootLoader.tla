----------------------------- MODULE BootLoader -----------------------------
(***************************************************************************)
(* boot.c: the boot loader reads the kernel's ELF image from an IDE disk   *)
(* by programmed I/O and jumps to it.  The disk is a process of its own:   *)
(* it raises and lowers its status bits when it likes, ignores commands    *)
(* while it is not ready and delivers a sector some time after it was      *)
(* asked for it.  Sector n > 0 of the disk holds the cells of the image    *)
(* from offset (n - 1) * SECTORSIZE on.                                    *)
(***************************************************************************)
EXTENDS Elf

CONSTANTS SECTORSIZE,   \* cells of a sector
          BYTE          \* values of a byte: 256

VARIABLES
    kernel_image, \* the image on the disk
    boot_mem,   \* physical memory
    status,     \* the ATA status register: a set of the bits below
    lba,        \* the ATA registers 0x1F3 .. 0x1F6, low byte first
    buffer,     \* the sector waiting at the data port, NoSector if none
    boot_pc,
    ph, eph,    \* boot's variables; ph is 0 while the header is read
    ptr, end_ptr, memsz, src_sect,      \* boot_readseg's variables
    kernel_rip  \* where boot jumped to, Stale before

bootVars == <<kernel_image, boot_mem, status, lba, buffer, boot_pc, ph, eph,
              ptr, end_ptr, memsz, src_sect, kernel_rip>>
disk == <<status, lba, buffer>>
seg  == <<ptr, end_ptr, memsz, src_sect>>

BSY  == 128     \* 0x80
DRDY == 64      \* 0x40
NoSector == -1

(* Memory: one page for the boot sector, its stack and its page tables     *)
(* (bootstart.S), the scratch page, and the kernel from link/kernel.ld.    *)
KERNEL_START == 2 * PAGESIZE
BOOT_MEMSIZE == KERNEL_START + ROUNDUP(MaxText, PAGESIZE) + ROUNDUP(MaxData, PAGESIZE)
LoaderArea == 0 .. PAGESIZE - 1

ELFHDR == PAGESIZE

(* A disk without a kernel holds the same sectors but no ELF_MAGIC.        *)
BootImages == Images(KERNEL_START) \cup
    {[im EXCEPT !.e_magic = FALSE] :
        im \in {i \in Images(KERNEL_START) : i.ph[1].p_filesz = MaxText}}

-----------------------------------------------------------------------------
(* The disk                                                                *)

Sector(n) == [j \in 0 .. SECTORSIZE - 1 |->
                IF n > 0 THEN (n - 1) * SECTORSIZE + j ELSE Stale]

\* Some time later the disk has finished what it was doing.
DiskReadies ==
    /\ status # {DRDY}
    /\ status' = {DRDY}
    /\ buffer' = IF lba = <<>> THEN buffer
                 ELSE lba[1] + BYTE * (lba[2] + BYTE * (lba[3] + BYTE * lba[4]))
    /\ UNCHANGED <<kernel_image, boot_mem, lba, boot_pc, ph, eph, seg, kernel_rip>>

\* boot_waitdisk: (inb(0x1F7) & 0xC0) == 0x40
boot_waitdisk_ready_bit_only == DRDY \in status
boot_waitdisk == status = {DRDY}

-----------------------------------------------------------------------------
(* boot_readsect                                                           *)

\* src_sect, src_sect >> 8, src_sect >> 16, src_sect >> 24
outb_sector(n) ==
    LET n8 == n \div BYTE
        n16 == n8 \div BYTE
        n24 == n16 \div BYTE
    IN  << n % BYTE, n8 % BYTE, n16 % BYTE, n24 % BYTE >>

\* The first boot_waitdisk and the outb's: a disk that is not ready ignores
\* them, one that is goes to work.
boot_readsect_command ==
    /\ boot_pc = "readsect"
    /\ boot_waitdisk
    /\ boot_pc' = "data"
    /\ IF status = {DRDY}
       THEN /\ lba' = outb_sector(src_sect)
            /\ status' \in {{BSY}, {BSY, DRDY}}
            /\ buffer' = NoSector
       ELSE UNCHANGED disk
    /\ UNCHANGED <<kernel_image, boot_mem, ph, eph, seg, kernel_rip>>

\* The second boot_waitdisk and insl, then the end of an iteration of
\* boot_readseg's loop.
boot_readsect_data ==
    /\ boot_pc = "data"
    /\ boot_waitdisk
    /\ boot_mem' = [a \in DOMAIN boot_mem |->
                IF a \notin ptr .. ptr + SECTORSIZE - 1 THEN boot_mem[a]
                ELSE IF buffer = NoSector THEN Stale
                ELSE Sector(buffer)[a - ptr]]
    /\ buffer' = NoSector
    /\ ptr' = ptr + SECTORSIZE
    /\ src_sect' = src_sect + 1
    /\ boot_pc' = "readseg"
    /\ UNCHANGED <<kernel_image, status, lba, ph, eph, end_ptr, memsz, kernel_rip>>

-----------------------------------------------------------------------------
(* boot_readseg                                                            *)

boot_readseg(dst, sect, fsz, msz) ==
    /\ end_ptr' = dst + fsz
    /\ memsz' = dst + msz
    /\ ptr' = ROUNDDOWN(dst, SECTORSIZE)
    /\ src_sect' = sect
    /\ boot_pc' = "readseg"

readseg_more == ptr < end_ptr

boot_readseg_sector ==
    /\ boot_pc = "readseg"
    /\ readseg_more
    /\ boot_pc' = "readsect"
    /\ UNCHANGED <<kernel_image, boot_mem, disk, ph, eph, seg, kernel_rip>>

\* The .bss loop and the return to boot, which goes on to the next header.
boot_readseg_clear ==
    /\ boot_pc = "readseg"
    /\ ~readseg_more
    /\ boot_mem' = [a \in DOMAIN boot_mem |->
                IF a \in end_ptr .. memsz - 1 THEN Zero ELSE boot_mem[a]]
    /\ boot_pc' = IF ph = 0 THEN "magic" ELSE "walk"
    /\ ph' = IF ph = 0 THEN 0 ELSE ph + 1
    /\ end_ptr' = IF end_ptr < memsz THEN memsz ELSE end_ptr
    /\ UNCHANGED <<kernel_image, disk, eph, ptr, memsz, src_sect, kernel_rip>>

-----------------------------------------------------------------------------
(* boot                                                                    *)

(* The headers are read from memory: a cell holds a header of the image    *)
(* when it still holds what was read from the header's place in the file.  *)
e_magic == boot_mem[ELFHDR] = 0 /\ kernel_image.e_magic
e_entry == IF boot_mem[ELFHDR] = 0 THEN kernel_image.e_entry ELSE Stale
program_header ==
    LET k == boot_mem[ph] - kernel_image.e_phoff + 1
    IN  IF k \in DOMAIN kernel_image.ph THEN kernel_image.ph[k]
        ELSE elf_program(ELF_PTYPE_LOAD, 0, 0, 0, 0)

BootInit ==
    /\ kernel_image \in BootImages
    /\ boot_mem = [a \in 0 .. BOOT_MEMSIZE - 1 |-> Stale]
    /\ status \in SUBSET {BSY, DRDY}
    /\ lba = <<>>
    /\ buffer = NoSector
    /\ ph = 0
    /\ eph = 0
    /\ end_ptr = ELFHDR + PAGESIZE      \* boot_readseg(ELFHDR, 1, PAGESIZE,
    /\ memsz = ELFHDR + PAGESIZE        \*              PAGESIZE)
    /\ ptr = ELFHDR
    /\ src_sect = 1
    /\ boot_pc = "readseg"
    /\ kernel_rip = Stale

boot_start ==
    /\ boot_pc = "magic"
    /\ e_magic
    /\ ph' = ELFHDR + kernel_image.e_phoff
    /\ eph' = ELFHDR + kernel_image.e_phoff + Len(kernel_image.ph)
    /\ boot_pc' = "walk"
    /\ UNCHANGED <<kernel_image, boot_mem, disk, seg, kernel_rip>>

boot_segment ==
    /\ boot_pc = "walk"
    /\ ph < eph
    /\ boot_readseg(program_header.p_va,
                    (program_header.p_offset \div SECTORSIZE) + 1,
                    program_header.p_filesz, program_header.p_memsz)
    /\ UNCHANGED <<kernel_image, boot_mem, disk, ph, eph, kernel_rip>>

boot_enter ==
    /\ boot_pc = "walk"
    /\ ph >= eph
    /\ kernel_rip' = e_entry
    /\ boot_pc' = "kernel"
    /\ UNCHANGED <<kernel_image, boot_mem, disk, ph, eph, seg>>

\* boot_waitdisk polls; without a kernel on the disk boot spins; after the
\* jump the kernel runs.
Spin ==
    /\ \/ boot_pc \in {"readsect", "data"} /\ ~boot_waitdisk
       \/ boot_pc = "magic" /\ ~e_magic
       \/ boot_pc = "kernel"
    /\ UNCHANGED bootVars

Boot == \/ boot_readsect_command \/ boot_readsect_data
        \/ boot_readseg_sector \/ boot_readseg_clear
        \/ boot_start \/ boot_segment \/ boot_enter

BootNext == Boot \/ DiskReadies \/ Spin

(* The loader is the only program on the machine; a working disk answers.  *)
BootFairness == WF_bootVars(Boot) /\ WF_bootVars(DiskReadies)
BootSpec == BootInit /\ [][BootNext]_bootVars /\ BootFairness

-----------------------------------------------------------------------------
(* Whenever the kernel is entered, it is entered at its entry point and    *)
(* all its segments are in memory, file contents and cleared .bss, though  *)
(* whole sectors were read over what follows a segment's last byte, and    *)
(* however slow the disk was.  While segments are read, the scratch page   *)
(* still holds the headers that say what to read next.  The page of the    *)
(* boot sector, its stack and its page tables is never written: a header   *)
(* that asks for nothing, with address 0, reads nothing.                   *)
KernelLoaded ==
    /\ kernel_rip # Stale => /\ kernel_image.e_magic
                             /\ kernel_rip = kernel_image.e_entry
                             /\ ImageLoaded(boot_mem, kernel_image)
    /\ boot_pc \in {"magic", "walk"} =>
          \A i \in 0 .. PAGESIZE - 1 : boot_mem[ELFHDR + i] = i
    /\ \A a \in LoaderArea : boot_mem[a] = Stale

(* With a kernel on the disk the loader finally jumps to it: neither wait  *)
(* for the disk nor the walk over the headers lasts forever.               *)
KernelEntered == kernel_image.e_magic => <>(boot_pc = "kernel")
=============================================================================
