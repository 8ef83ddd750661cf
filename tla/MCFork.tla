------------------------------- MODULE MCFork -------------------------------
(***************************************************************************)
(* A machine with the layout of the code in small, for the fork command:   *)
(*   page 0 reserved, 1-5 kernel_pagetables, 6 kernel text, 7 console,     *)
(*   8-11 free below PROC_START, 12 and up process memory.                 *)
(* A process needs seven pages: root, two inner tables, two last-level     *)
(* tables, its code page and its stack page.                               *)
(***************************************************************************)
EXTENDS MemoryDump

MCSegments == [n \in 0 .. 2 |-> <<12>>]
MCImage == [n \in 0 .. 2 |-> [ZeroPage EXCEPT ![1] = [pn |-> n, flags |-> {}]]]

\* A stored word that looks like a page table entry for the kernel's text.
MCUserWords == {[pn |-> 6, flags |-> RWU]}
=============================================================================
