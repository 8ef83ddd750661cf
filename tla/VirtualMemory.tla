--------------------------- MODULE VirtualMemory ---------------------------
(***************************************************************************)
(* Physical pages, the pageinfo[] array and x86-64 four-level page tables, *)
(* as kernel.c, k-hardware.c and x86-64.h manipulate them.                 *)
(*                                                                         *)
(* Addresses are page numbers: the code only ever works with page-aligned  *)
(* addresses, so a page number is an address divided by PAGESIZE and the   *)
(* alignment assertions hold by construction.  A 64-bit word of memory is  *)
(* a record of the page number it would denote as a page table entry and   *)
(* of the PTE_P, PTE_W, PTE_U bits it has set.  Page tables live in the    *)
(* same memory as everything else, so a write through a wrong mapping      *)
(* shows up as a changed page table.                                       *)
(*                                                                         *)
(* The operators are pure: they take the memory and pageinfo[] as they     *)
(* are and return them as they become.                                     *)
(***************************************************************************)
EXTENDS Integers, FiniteSets

CONSTANTS
    NPAGES,             \* PAGENUMBER(MEMSIZE_PHYSICAL): 512 in the code
    NPAGETABLEENTRIES,  \* entries of one page table: 512 in the code
    MEMSIZE_VIRTUAL,    \* pages of virtual memory: 0x300 in the code
    NPROC               \* process descriptors: 16 in the code

ASSUME SizeAssumption ==
    /\ NPAGES \in Nat \ {0}
    /\ NPAGETABLEENTRIES \in Nat \ {0}
    /\ MEMSIZE_VIRTUAL \in Nat \ {0}
    /\ NPROC \in Nat \ {0, 1}

PO_FREE     == 0
PO_RESERVED == -1
PO_KERNEL   == -2

PN    == 0 .. NPAGES - 1
VA    == 0 .. MEMSIZE_VIRTUAL - 1
Index == 0 .. NPAGETABLEENTRIES - 1
Pid   == 0 .. NPROC - 1
Owner == {PO_KERNEL, PO_RESERVED} \cup Pid

\* NULL and OUTOFMEMORY are both the address 0.
NULL == 0

PTE_P == "P"
PTE_W == "W"
PTE_U == "U"
Flags == {PTE_P, PTE_W, PTE_U}
Word  == [pn : PN, flags : SUBSET Flags]
Page  == [Index -> Word]

ZeroWord == [pn |-> 0, flags |-> {}]
ZeroPage == [i \in Index |-> ZeroWord]

PageInfo == [owner : Owner, refcount : {0, 1}]

-----------------------------------------------------------------------------
(* pageinfo[] *)

\* The condition of get_free_addr's loop.
IsFree(pageinfo, pn) ==
    pageinfo[pn].refcount = 0 /\ pageinfo[pn].owner = PO_FREE

\* Mutant: assign_physical_page does not count the reference.
AssignUncounted(pageinfo, pn, owner) ==
    [pageinfo EXCEPT ![pn] = [owner |-> owner, refcount |-> 0]]

\* assign_physical_page(addr, owner); the caller has checked the refcount.
Assign(pageinfo, pn, owner) ==
    [pageinfo EXCEPT ![pn] = [owner |-> owner, refcount |-> 1]]

\* assign_physical_page fails when the page is in use.
CanAssign(pageinfo, pn) == pn \in PN /\ pageinfo[pn].refcount = 0

FreePages(pageinfo) == {pn \in PN : IsFree(pageinfo, pn)}

\* Mutant: without a free page get_free_addr returns the last one it looked at.
FreeAddrLast(pageinfo) ==
    IF FreePages(pageinfo) = {} THEN NPAGES - 1
    ELSE CHOOSE pn \in FreePages(pageinfo) :
            \A other \in FreePages(pageinfo) : pn =< other

\* The page get_free_addr returns: the lowest free one, or OUTOFMEMORY.
FreeAddr(pageinfo) ==
    IF FreePages(pageinfo) = {} THEN NULL
    ELSE CHOOSE pn \in FreePages(pageinfo) :
            \A other \in FreePages(pageinfo) : pn =< other

\* Page pn, if there is one, becomes the owner's.
Give(pageinfo, pn, owner) ==
    [pn |-> pn,
     pageinfo |-> IF pn = NULL THEN pageinfo ELSE Assign(pageinfo, pn, owner)]

\* get_free_addr(owner)
get_free_addr(pageinfo, owner) == Give(pageinfo, FreeAddr(pageinfo), owner)

\* Mutant: pagetable_alloc does not clear the page.
ClearedNot(free, mem) == [pn |-> free.pn, pageinfo |-> free.pageinfo, mem |-> mem]

\* The memset of pagetable_alloc on what get_free_addr returned.
Cleared(free, mem) ==
    [pn |-> free.pn,
     pageinfo |-> free.pageinfo,
     mem |-> IF free.pn = NULL THEN mem ELSE [mem EXCEPT ![free.pn] = ZeroPage]]

\* pagetable_alloc(): a zeroed page for __pagetable_owner__.
pagetable_alloc(pageinfo, mem, owner) == Cleared(get_free_addr(pageinfo, owner), mem)

-----------------------------------------------------------------------------
(* Page tables *)

\* The address without the index of its level-4 page table.
Upper(va) == va \div NPAGETABLEENTRIES

\* PAGEINDEX(va, level): the four base-NPAGETABLEENTRIES digits of va.
PAGEINDEX(va, level) ==
    LET digits == CASE level = 3 -> va
                    [] level = 2 -> Upper(va)
                    [] level = 1 -> Upper(Upper(va))
                    [] OTHER     -> Upper(Upper(Upper(va)))
    IN  digits % NPAGETABLEENTRIES

\* virtual_memory_lookup(pagetable, va): the page and the permissions that
\* the four entries on the path to va give it together.
virtual_memory_lookup(mem, pagetable, va) ==
    LET e0 == mem[pagetable][PAGEINDEX(va, 0)]
        e1 == mem[e0.pn][PAGEINDEX(va, 1)]
        e2 == mem[e1.pn][PAGEINDEX(va, 2)]
        e3 == mem[e2.pn][PAGEINDEX(va, 3)]
        perm == e0.flags \cap e1.flags \cap e2.flags \cap e3.flags
    IN  IF PTE_P \in perm THEN [pn |-> e3.pn, perm |-> perm]
                          ELSE [pn |-> -1, perm |-> {}]

\* Mutant: the entry for a new table does not let users through.
TableEntryForKernel(pn) == [pn |-> pn, flags |-> {PTE_P, PTE_W}]

\* The entry lookup_l4pagetable puts into a table for a new next-level table.
TableEntry(pn) == [pn |-> pn, flags |-> {PTE_P, PTE_W, PTE_U}]

\* The page `new' from the allocator becomes the table at an index of the
\* table reached.
Link(walk, index, new) ==
    IF new.pn = NULL THEN [walk EXCEPT !.res = "null"]
    ELSE [pageinfo |-> new.pageinfo,
          mem |-> [new.mem EXCEPT ![walk.pt][index] = TableEntry(new.pn),
                                  ![new.pn] = ZeroPage],
          pt  |-> new.pn,
          res |-> "ok"]

\* One iteration of the loop of lookup_l4pagetable.  `walk' is what the loop
\* has so far: memory, pageinfo, the table reached and how it went ("ok",
\* "null" when a table is missing and none can be allocated, "assert" when a
\* sanity check fails).
Descend(walk, va, level, perm, owner, allocator) ==
    LET index == PAGEINDEX(va, level)
        pe    == walk.mem[walk.pt][index]
    IN  IF walk.res # "ok" THEN walk
        ELSE IF PTE_P \in pe.flags THEN
            IF perm \cap {PTE_W, PTE_U} \subseteq pe.flags
            THEN [walk EXCEPT !.pt = pe.pn]
            ELSE [walk EXCEPT !.res = "assert"]
        ELSE IF PTE_P \notin perm \/ ~allocator
            THEN [walk EXCEPT !.res = "null"]
        ELSE Link(walk, index, pagetable_alloc(walk.pageinfo, walk.mem, owner))

\* lookup_l4pagetable(pagetable, va, perm, allocator).  The tables it has
\* linked in stay linked when a later level fails.
lookup_l4pagetable(pageinfo, mem, pagetable, va, perm, owner, allocator) ==
    LET w0 == [pageinfo |-> pageinfo, mem |-> mem, pt |-> pagetable, res |-> "ok"]
        w1 == Descend(w0, va, 0, perm, owner, allocator)
        w2 == Descend(w1, va, 1, perm, owner, allocator)
    IN  Descend(w2, va, 2, perm, owner, allocator)

\* The end of virtual_memory_map, with the level-4 table that was found.
SetEntry(l4, va, pa, perm) ==
    [pageinfo |-> l4.pageinfo,
     mem |-> IF l4.res = "ok"
             THEN [l4.mem EXCEPT ![l4.pt][PAGEINDEX(va, 3)] =
                        [pn |-> IF PTE_P \in perm THEN pa ELSE 0, flags |-> perm]]
             ELSE l4.mem,
     res |-> IF l4.res = "null"
             THEN IF PTE_P \in perm THEN "fail" ELSE "ok"
             ELSE l4.res]

\* virtual_memory_map(pagetable, va, pa, PAGESIZE, perm, allocator): the new
\* memory and pageinfo, and in res "ok" for 0, "fail" for -1 and "assert"
\* when an assertion fails.  owner is __pagetable_owner__, allocator is
\* FALSE for a NULL allocator.
virtual_memory_map(pageinfo, mem, pagetable, va, pa, perm, owner, allocator) ==
    SetEntry(lookup_l4pagetable(pageinfo, mem, pagetable, va, perm, owner, allocator),
             va, pa, perm)

-----------------------------------------------------------------------------
(* The level-by-level reading of a page table tree, for the checks. *)

\* The pages that the nonzero entries of the tables in T name.
NextTables(mem, T) ==
    UNION {{mem[t][i].pn : i \in {j \in Index : mem[t][j] # ZeroWord}} : t \in T}

\* The tables of the tree rooted at pt, level by level (check_page_table_
\* ownership_level stops below level 3).
TablesBelow(mem, pt) ==
    LET l2 == NextTables(mem, {pt})
        l3 == NextTables(mem, l2)
        l4 == NextTables(mem, l3)
    IN  l2 \cup l3 \cup l4
=============================================================================
