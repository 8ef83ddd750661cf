----------------------------- MODULE MCAllocator -----------------------------
(***************************************************************************)
(* The allocator command in small: two allocator programs, whose code      *)
(* pages lie at different addresses as p-allocator1 to 4 do.               *)
(*   page 0 reserved, 1-5 kernel_pagetables, 6 kernel text, 7 console,     *)
(*   8-19 free below PROC_START (six for each process at boot),            *)
(*   20 and 21 the programs, 22 and up free.                               *)
(* The last two pages of the address space, the stack page and the page    *)
(* below it, are in a last-level page table of their own.                  *)
(***************************************************************************)
EXTENDS KernelProperties

MCSegments == [n \in 0 .. 3 |-> IF n = 1 THEN <<21>> ELSE <<20>>]

\* Each program's page is told apart by its contents.
MCImage == [n \in 0 .. 3 |-> [ZeroPage EXCEPT ![1] = [pn |-> n, flags |-> {}]]]

\* A stored word that looks like a page table entry for the kernel's text.
MCUserWords == {[pn |-> 6, flags |-> RWU]}
=============================================================================
