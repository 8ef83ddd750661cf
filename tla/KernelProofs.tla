---------------------------- MODULE KernelProofs ----------------------------
(***************************************************************************)
(* Theorems about WeensyKernel, for every layout of memory, every number   *)
(* of pages and processes and every user program: types, the ownership of  *)
(* pages, and the lemmas about page table trees on which the proof of      *)
(* memory isolation in IsolationProofs rests.                              *)
(***************************************************************************)
EXTENDS KernelProperties, WellFoundedInduction, FiniteSetTheorems, TLAPS

-----------------------------------------------------------------------------
(* Physical pages *)

\* A nonempty set of pages has a lowest one, so get_free_addr's search for the
\* first free page finds one when there is any.
LEMMA LowestPage ==
    ASSUME NEW S \in SUBSET Nat, S # {}
    PROVE  \E pn \in S : \A other \in S : pn =< other
<1>. DEFINE less == {ss \in Nat \X Nat : ss[1] < ss[2]}
<1>1. IsWellFoundedOn(less, Nat)
    BY NatLessThanWellFounded DEF OpToRel
<1>. HIDE DEF less
<1>2. PICK x \in S : \A y \in S : ~(<<y, x>> \in less)
    BY <1>1, WFMin, S \subseteq Nat, Zenon
<1>3. \A y \in S : ~(y < x)
    BY <1>2 DEF less
<1>. QED  BY <1>3

\* get_free_addr's search returns an existing page, and a free one unless it
\* found none.
LEMMA FreeAddrType ==
    ASSUME NEW pi \in [PN -> PageInfo]
    PROVE  /\ FreeAddr(pi) \in PN
           /\ FreeAddr(pi) # NULL => IsFree(pi, FreeAddr(pi))
<1>1. NULL \in PN
    BY SizeAssumption DEF NULL, PN
<1>2. CASE FreePages(pi) = {}
    BY <1>1, <1>2 DEF FreeAddr
<1>3. CASE FreePages(pi) # {}
    <2>1. FreePages(pi) \in SUBSET Nat
        BY SizeAssumption DEF FreePages, PN
    <2>2. \E pn \in FreePages(pi) : \A other \in FreePages(pi) : pn =< other
        BY <1>3, <2>1, LowestPage
    <2>3. FreeAddr(pi) \in FreePages(pi)
        BY <1>3, <2>2 DEF FreeAddr
    <2>. QED  BY <2>3 DEF FreePages
<1>. QED  BY <1>2, <1>3

\* pi2 is pi with at most some free pages given away, each to an owner in Os.
Grown(pi, pi2, Os) ==
    /\ pi2 \in [PN -> PageInfo]
    /\ \A pn \in PN : \/ pi2[pn] = pi[pn]
                      \/ /\ pi[pn].refcount = 0
                         /\ pi2[pn].refcount = 1
                         /\ pi2[pn].owner \in Os

\* An array that does not change has only grown.
LEMMA GrownReflexive ==
    ASSUME NEW pi \in [PN -> PageInfo], NEW Os
    PROVE  Grown(pi, pi, Os)
BY DEF Grown

\* Naming more owners allows more.
LEMMA GrownMonotone ==
    ASSUME NEW pi, NEW pi2, NEW Os, NEW Os2, Os \subseteq Os2, Grown(pi, pi2, Os)
    PROVE  Grown(pi, pi2, Os2)
BY DEF Grown

\* Two handlers' worth of growing is growing.
LEMMA GrownTransitive ==
    ASSUME NEW p1 \in [PN -> PageInfo], NEW p2, NEW p3, NEW Os,
           Grown(p1, p2, Os), Grown(p2, p3, Os)
    PROVE  Grown(p1, p3, Os)
BY DEF Grown

\* assign_physical_page of an unused page changes that entry only.
LEMMA AssignGrows ==
    ASSUME NEW pi \in [PN -> PageInfo], NEW pn \in PN, NEW owner \in Owner,
           pi[pn].refcount = 0
    PROVE  Grown(pi, Assign(pi, pn, owner), {owner})
BY DEF Grown, Assign, PageInfo

\* get_free_addr gives away at most one page, which was free.
LEMMA GetFreeAddrType ==
    ASSUME NEW pi \in [PN -> PageInfo], NEW owner \in Owner
    PROVE  LET free == get_free_addr(pi, owner)
           IN  free.pn \in PN /\ Grown(pi, free.pageinfo, {owner})
<1>1. FreeAddr(pi) \in PN /\ (FreeAddr(pi) # NULL => pi[FreeAddr(pi)].refcount = 0)
    BY FreeAddrType DEF IsFree
<1>2. CASE FreeAddr(pi) = NULL
    BY <1>1, <1>2, GrownReflexive DEF get_free_addr, Give
<1>3. CASE FreeAddr(pi) # NULL
    BY <1>1, <1>3, AssignGrows DEF get_free_addr, Give
<1>. QED  BY <1>2, <1>3

\* What memset(pa, 0, PAGESIZE) leaves is a page of null entries.
LEMMA ZeroPageType == ZeroPage \in Page
BY SizeAssumption DEF ZeroPage, ZeroWord, Page, Word, PN

\* pagetable_alloc gives away at most one page and clears only that one.
LEMMA PagetableAllocType ==
    ASSUME NEW pi \in [PN -> PageInfo], NEW m \in [PN -> Page], NEW owner \in Owner
    PROVE  LET new == pagetable_alloc(pi, m, owner)
           IN  /\ new.pn \in PN
               /\ Grown(pi, new.pageinfo, {owner})
               /\ new.mem \in [PN -> Page]
BY GetFreeAddrType, ZeroPageType DEF pagetable_alloc, Cleared

-----------------------------------------------------------------------------
(* Page tables *)

\* Quotient and remainder of the digits of an address.
LEMMA DivType ==
    ASSUME NEW a \in Nat, NEW n \in Nat \ {0}
    PROVE  a \div n \in Nat /\ a % n \in 0 .. n - 1
OBVIOUS

\* PAGEINDEX stays inside the page table at every level.
LEMMA PageIndexType ==
    ASSUME NEW va \in Nat, NEW level
    PROVE  PAGEINDEX(va, level) \in Index
<1>1. NPAGETABLEENTRIES \in Nat \ {0}
    BY SizeAssumption
<1>2. Upper(va) \in Nat /\ Upper(Upper(va)) \in Nat /\ Upper(Upper(Upper(va))) \in Nat
    BY <1>1, DivType DEF Upper
<1>3. \A digits \in Nat : digits % NPAGETABLEENTRIES \in Index
    BY <1>1, DivType DEF Index
<1>. QED  BY <1>2, <1>3 DEF PAGEINDEX

\* virtual_memory_lookup follows entries to existing pages only.
LEMMA LookupType ==
    ASSUME NEW m \in [PN -> Page], NEW pt \in PN, NEW va \in Nat
    PROVE  LET vam == virtual_memory_lookup(m, pt, va)
           IN  /\ vam.perm \subseteq Flags
               /\ vam.perm # {} => vam.pn \in PN
<1>. DEFINE e0 == m[pt][PAGEINDEX(va, 0)]
            e1 == m[e0.pn][PAGEINDEX(va, 1)]
            e2 == m[e1.pn][PAGEINDEX(va, 2)]
            e3 == m[e2.pn][PAGEINDEX(va, 3)]
            perm == e0.flags \cap e1.flags \cap e2.flags \cap e3.flags
<1>1. e0 \in Word
    BY PageIndexType DEF Page
<1>2. e1 \in Word
    BY <1>1, PageIndexType DEF Page, Word
<1>3. e2 \in Word
    BY <1>2, PageIndexType DEF Page, Word
<1>4. e3 \in Word
    BY <1>3, PageIndexType DEF Page, Word
<1>5. perm \subseteq Flags /\ e3.pn \in PN
    BY <1>4 DEF Word
<1>6. virtual_memory_lookup(m, pt, va) =
        IF PTE_P \in perm THEN [pn |-> e3.pn, perm |-> perm] ELSE [pn |-> -1, perm |-> {}]
    BY DEF virtual_memory_lookup
<1>. HIDE DEF perm, e3
<1>. QED  BY <1>5, <1>6

\* The entries lookup_l4pagetable writes name existing pages.
LEMMA TableEntryType ==
    ASSUME NEW pn \in PN
    PROVE  TableEntry(pn) \in Word
BY DEF TableEntry, Word, Flags

\* What one level of lookup_l4pagetable does to memory and pageinfo[].
Walk == [pageinfo : [PN -> PageInfo], mem : [PN -> Page], pt : PN,
         res : {"ok", "null", "assert"}]

\* One level of lookup_l4pagetable keeps memory well formed and assigns at most
\* free pages, to the owner the allocator works for.
LEMMA DescendType ==
    ASSUME NEW walk \in Walk, NEW va \in Nat, NEW level, NEW perm, NEW owner \in Owner,
           NEW allocator
    PROVE  LET w == Descend(walk, va, level, perm, owner, allocator)
           IN  w \in Walk /\ Grown(walk.pageinfo, w.pageinfo, {owner})
<1>. DEFINE index == PAGEINDEX(va, level)
            pe    == walk.mem[walk.pt][index]
            new   == pagetable_alloc(walk.pageinfo, walk.mem, owner)
            w     == Descend(walk, va, level, perm, owner, allocator)
            linked == [pageinfo |-> new.pageinfo,
                       mem |-> [new.mem EXCEPT ![walk.pt][index] = TableEntry(new.pn),
                                               ![new.pn] = ZeroPage],
                       pt  |-> new.pn,
                       res |-> "ok"]
<1>1. index \in Index /\ pe \in Word
    BY PageIndexType DEF Walk, Page
<1>2. new.pn \in PN /\ Grown(walk.pageinfo, new.pageinfo, {owner}) /\ new.mem \in [PN -> Page]
    BY PagetableAllocType DEF Walk
<1>3. w \in {walk, [walk EXCEPT !.pt = pe.pn], [walk EXCEPT !.res = "assert"],
             [walk EXCEPT !.res = "null"], linked}
    BY DEF Descend, Link
<1>. HIDE DEF w, index, pe, new
<1>4. TableEntry(new.pn) \in Word /\ ZeroPage \in Page
    BY <1>2, TableEntryType, ZeroPageType
<1>5. linked \in Walk /\ Grown(walk.pageinfo, linked.pageinfo, {owner})
    <2>1. linked.mem \in [PN -> Page]
        BY <1>1, <1>2, <1>4 DEF Page, Walk
    <2>. QED  BY <1>2, <2>1 DEF Walk, Grown
<1>6. /\ walk \in Walk
      /\ [walk EXCEPT !.pt = pe.pn] \in Walk
      /\ [walk EXCEPT !.res = "assert"] \in Walk
      /\ [walk EXCEPT !.res = "null"] \in Walk
    BY <1>1 DEF Walk, Word
<1>7. Grown(walk.pageinfo, walk.pageinfo, {owner})
    BY GrownReflexive DEF Walk
<1>. HIDE DEF linked
<1>8. w \in Walk /\ (w = linked \/ w.pageinfo = walk.pageinfo)
    BY <1>3, <1>5, <1>6 DEF Walk
<1>. QED  BY <1>5, <1>7, <1>8 DEF w

\* virtual_memory_map keeps memory well formed and gives its page tables only
\* free pages, whether it succeeds, fails or stops at an assertion.
LEMMA MapType ==
    ASSUME NEW pi \in [PN -> PageInfo], NEW m \in [PN -> Page], NEW pt \in PN,
           NEW va \in Nat, NEW pa \in PN, NEW perm \in SUBSET Flags, NEW owner \in Owner,
           NEW allocator
    PROVE  LET map == virtual_memory_map(pi, m, pt, va, pa, perm, owner, allocator)
           IN  /\ Grown(pi, map.pageinfo, {owner})
               /\ map.mem \in [PN -> Page]
<1>. DEFINE w0 == [pageinfo |-> pi, mem |-> m, pt |-> pt, res |-> "ok"]
            w1 == Descend(w0, va, 0, perm, owner, allocator)
            w2 == Descend(w1, va, 1, perm, owner, allocator)
            w3 == Descend(w2, va, 2, perm, owner, allocator)
            entry == [pn |-> IF PTE_P \in perm THEN pa ELSE 0, flags |-> perm]
            map == virtual_memory_map(pi, m, pt, va, pa, perm, owner, allocator)
<1>1. w0 \in Walk
    BY DEF Walk
<1>2. w1 \in Walk /\ Grown(w0.pageinfo, w1.pageinfo, {owner})
    BY <1>1, DescendType
<1>3. w2 \in Walk /\ Grown(w1.pageinfo, w2.pageinfo, {owner})
    BY <1>2, DescendType
<1>4. w3 \in Walk /\ Grown(w2.pageinfo, w3.pageinfo, {owner})
    BY <1>3, DescendType
<1>. HIDE DEF w1, w2, w3
<1>5. Grown(pi, w3.pageinfo, {owner})
    <2>1. Grown(pi, w1.pageinfo, {owner})
        BY <1>2
    <2>2. Grown(pi, w2.pageinfo, {owner})
        BY <1>3, <2>1, GrownTransitive
    <2>. QED  BY <1>4, <2>2, GrownTransitive
<1>6. entry \in Word
    BY SizeAssumption DEF Word, PN
<1>7. PAGEINDEX(va, 3) \in Index
    BY PageIndexType
<1>8. lookup_l4pagetable(pi, m, pt, va, perm, owner, allocator) = w3
    BY DEF lookup_l4pagetable, w1, w2, w3
<1>9. /\ map.pageinfo = w3.pageinfo
      /\ map.mem = IF w3.res = "ok" THEN [w3.mem EXCEPT ![w3.pt][PAGEINDEX(va, 3)] = entry]
                                    ELSE w3.mem
    BY <1>8 DEF virtual_memory_map, SetEntry
<1>. HIDE DEF entry, map
<1>10. map.mem \in [PN -> Page]
    BY <1>4, <1>6, <1>7, <1>9 DEF Walk, Page
<1>. QED  BY <1>5, <1>9, <1>10 DEF map

-----------------------------------------------------------------------------
(* Leaving the kernel *)

\* Processes and memory a handler may leave behind.
ProcsOK(procs) == procs \in [Pid -> Processes] /\ procs[0].state = "P_FREE"

\* run(p) never starts process 0.
LEMMA RunType ==
    ASSUME TypeOK, NEW procs, ProcsOK(procs), NEW m, NEW p \in Pid, run(procs, m, p)
    PROVE  /\ kpc' \in {"user", "panic"}
           /\ current' \in Pid
           /\ cr3' \in PN
           /\ kpc' = "user" => current' # 0
<1>1. CASE procs[p].state # "P_RUNNABLE"
    BY <1>1 DEF run, Panic, TypeOK
<1>2. CASE procs[p].state = "P_RUNNABLE"
    <2>1. p # 0 /\ procs[p].pagetable \in PN
        BY <1>2 DEF ProcsOK, Processes
    <2>2. current' = p /\ (kpc' = "user" \/ kpc' = "panic") /\ cr3' \in {cr3, procs[p].pagetable}
        BY <1>2 DEF run
    <2>. QED  BY <2>1, <2>2 DEF TypeOK
<1>. QED  BY <1>1, <1>2

\* schedule() never starts process 0 and otherwise idles or panics.
LEMMA ScheduleType ==
    ASSUME TypeOK, NEW procs, ProcsOK(procs), NEW m, schedule(procs, m)
    PROVE  /\ kpc' \in {"user", "panic", "idle"}
           /\ current' \in Pid
           /\ cr3' \in PN
           /\ kpc' = "user" => current' # 0
<1>1. CASE Runnable(procs) = {} /\ kpc' = "idle" /\ UNCHANGED <<current, cr3>>
    BY <1>1 DEF TypeOK
<1>2. CASE \E p \in Runnable(procs) : run(procs, m, p)
    <2>1. PICK p \in Pid : run(procs, m, p)
        BY <1>2 DEF Runnable
    <2>. QED  BY <2>1, RunType
<1>. QED  BY <1>1, <1>2 DEF schedule

\* What every system call that returns establishes.
LEMMA ReturnType ==
    ASSUME TypeOK, NEW procs, ProcsOK(procs), NEW m, NEW pi, Return(procs, m, pi)
    PROVE  /\ kpc' \in {"user", "panic", "idle"}
           /\ current' \in Pid
           /\ cr3' \in PN
           /\ kpc' = "user" => current' # 0
           /\ job' = NoJob
           /\ trap' = NoTrap
<1>1. job' = NoJob /\ trap' = NoTrap /\ ReturnFromException(procs, m)
    BY DEF Return
<1>2. current \in Pid
    BY DEF TypeOK
<1>3. CASE procs[current].state = "P_RUNNABLE"
    <2>1. run(procs, m, current)
        BY <1>1, <1>3 DEF ReturnFromException
    <2>. QED  BY <1>1, <1>2, <2>1, RunType
<1>4. CASE procs[current].state # "P_RUNNABLE"
    <2>1. schedule(procs, m)
        BY <1>1, <1>4 DEF ReturnFromException
    <2>. QED  BY <1>1, <2>1, ScheduleType
<1>. QED  BY <1>3, <1>4

\* Storing a return value keeps the process table well formed.
LEMMA SetRaxType ==
    ASSUME NEW procs, ProcsOK(procs), NEW p \in Pid, NEW rax \in Int
    PROVE  ProcsOK(SetRax(procs, p, rax))
BY SizeAssumption DEF ProcsOK, SetRax, Processes, Pid

-----------------------------------------------------------------------------
(* The inductive invariant *)

\* Whom get_free_addr and assign_physical_page are ever called for.
Owners == (Pid \ {0}) \cup {-1}

\* Giving free pages to processes other than 0, or to PO_RESERVED, keeps free
\* and unreferenced the same thing.
LEMMA GrownConsistent ==
    ASSUME TypeOK, PageinfoConsistent, NEW Os \in SUBSET Owners,
           Grown(pageinfo, pageinfo', Os)
    PROVE  PageinfoConsistent' /\ Grown(pageinfo, pageinfo', Owners)
BY DEF TypeOK, PageinfoConsistent, Grown, Owners, PageInfo, PO_FREE

\* What the assumptions on the memory layout say about types.
LEMMA LayoutTypes ==
    /\ 0 \in Pid /\ 1 \in Pid /\ 0 \in PN /\ KPT \in PN
    /\ PROC_START \in Nat /\ PROC_START =< MEMSIZE_VIRTUAL - 1
    /\ NoJob \in [pid : Pid, va : 0 .. MEMSIZE_VIRTUAL, pt : PN, seg : Nat]
    /\ NoTrap \in [int : Ints \cup {"none"}, rdi : VA]
    /\ \A i \in 0 .. 4 : KPT + i \in PN
    /\ \A cmd : LastSetup(cmd) \in 1 .. NPROC - 1
<1>1. PROC_START \in Nat /\ PROC_START =< MEMSIZE_VIRTUAL - 1 /\ PROC_START =< NPAGES - 1
    BY SizeAssumption, LayoutAssumption DEF VA, PN
<1>2. \A i \in 0 .. 4 : KPT + i \in PN
    <2>1. \A i \in 0 .. 4 : KPT + i \in KPT .. KPT + 4
        BY LayoutAssumption
    <2>2. \A i \in 0 .. 4 : KPT + i \in 0 .. PROC_START - 1
        BY <2>1, LayoutAssumption
    <2>. QED  BY <1>1, <2>2, SizeAssumption DEF PN
<1>3. KPT + 0 = KPT
    BY LayoutAssumption
<1>4. KPT \in PN
    BY <1>2, <1>3
<1>5. 0 \in Pid /\ 1 \in Pid /\ 0 \in PN /\ 0 \in VA /\ 0 \in 0 .. MEMSIZE_VIRTUAL
    BY SizeAssumption DEF Pid, PN, VA
<1>6. \A cmd : LastSetup(cmd) \in 1 .. NPROC - 1
    BY SizeAssumption, ProgramAssumption DEF LastSetup
<1>. QED  BY <1>1, <1>2, <1>4, <1>5, <1>6 DEF NoJob, NoTrap, NULL

\* The page tables built at boot, and the temporary one of a soft reboot, are
\* well formed.
LEMMA KernelTableType ==
    /\ \A n \in 0 .. 4 : KernelTable(n) \in Page
    /\ \A m \in [PN -> Page] : KernelMapped(m) \in [PN -> Page]
    /\ \A m \in [PN -> Page] : TemporaryTable(m) \in [PN -> Page]
<1>1. \A va : KernelLeaf(va) \in Word
    BY LayoutTypes, SizeAssumption
    DEF KernelLeaf, KernelPerm, Word, ZeroWord, RWU, Flags, PN
<1>2. \A n \in 0 .. 2 : TableEntry(KPT + n + 1) \in Word
    BY LayoutTypes, LayoutAssumption, TableEntryType
<1>3. \A i \in Index : i < 2 => TableEntry(KPT + 3 + i) \in Word
    BY LayoutTypes, LayoutAssumption, SizeAssumption, TableEntryType DEF Index
<1>4. ZeroWord \in Word
    BY LayoutTypes DEF ZeroWord, Word
<1>5. ASSUME NEW n \in 0 .. 4, NEW i \in Index
      PROVE  KernelTable(n)[i] \in Word
    <2>1. CASE n \in {0, 1}
        BY <1>2, <1>4, <2>1 DEF KernelTable
    <2>2. CASE n = 2
        BY <1>3, <1>4, <2>2 DEF KernelTable
    <2>3. CASE n \in {3, 4}
        BY <1>1, <2>3 DEF KernelTable
    <2>. QED  BY <2>1, <2>2, <2>3
<1>6. \A n \in 0 .. 4 : KernelTable(n) \in Page
    BY <1>5 DEF Page, KernelTable
<1>7. ASSUME NEW m \in [PN -> Page] PROVE KernelMapped(m) \in [PN -> Page]
    <2>1. \A pn \in KPT .. KPT + 4 : pn - KPT \in 0 .. 4
        BY LayoutAssumption
    <2>. QED  BY <1>6, <2>1 DEF KernelMapped
<1>8. ASSUME NEW m \in [PN -> Page] PROVE TemporaryTable(m) \in [PN -> Page]
    <2>1. ASSUME NEW pn \in PN, pn \in TEMPPT .. TEMPPT + 2
          PROVE  TableEntry(IF pn < TEMPPT + 2 THEN pn + 1 ELSE 0) \in Word
        <3>1. pn < TEMPPT + 2 => pn + 1 \in TEMPPT .. TEMPPT + 2
            BY <2>1, LayoutAssumption, SizeAssumption DEF PN
        <3>2. (IF pn < TEMPPT + 2 THEN pn + 1 ELSE 0) \in PN
            BY <3>1, LayoutAssumption, LayoutTypes
        <3>. QED  BY <3>2, TableEntryType
    <2>2. 0 \in Index
        BY SizeAssumption DEF Index
    <2>3. ASSUME NEW w \in Word PROVE [ZeroPage EXCEPT ![0] = w] \in Page
        BY <2>2, ZeroPageType DEF Page
    <2>. QED  BY <2>1, <2>3 DEF TemporaryTable
<1>. QED  BY <1>6, <1>7, <1>8

\* pageinfo_init and the cleared process table are well formed.
LEMMA BootState ==
    /\ pageinfo_init \in [PN -> PageInfo]
    /\ \A pn \in PN : pageinfo_init[pn].refcount = 0 <=> pageinfo_init[pn].owner = PO_FREE
    /\ ProcsOK(BootProcesses)
<1>1. {PO_RESERVED, PO_KERNEL, PO_FREE} \subseteq Owner
    BY LayoutTypes DEF Owner, PO_FREE
<1>2. \A pn : InitOwner(pn) \in Owner
    BY <1>1 DEF InitOwner
<1>3. FreeProcess \in Processes
    BY LayoutTypes, SizeAssumption DEF FreeProcess, Processes, NULL, VA
<1>. QED  BY <1>2, <1>3, LayoutTypes
    DEF pageinfo_init, PageInfo, BootProcesses, ProcsOK, FreeProcess

\* The machine is switched on in a state that satisfies the ownership invariant.
THEOREM InitOwnership == Init => OwnershipInv
<1>. SUFFICES ASSUME Init PROVE OwnershipInv
    OBVIOUS
<1>1. mem \in [PN -> Page]
    <2>1. [pn \in PN |-> ZeroPage] \in [PN -> Page]
        BY ZeroPageType
    <2>. QED  BY <2>1, KernelTableType DEF Init
<1>2. job \in [pid : Pid, va : 0 .. MEMSIZE_VIRTUAL, pt : PN, seg : Nat] /\ job.pid = 1
    BY LayoutTypes DEF Init, NoJob
<1>3. TypeOK
    BY <1>1, <1>2, LayoutTypes, BootState, UserAssumption DEF Init, TypeOK, ProcsOK
<1>4. PageinfoConsistent
    BY BootState DEF Init, PageinfoConsistent
<1>5. ProcessZeroUnused
    BY BootState DEF Init, ProcessZeroUnused, ProcsOK
<1>6. JobOwner
    BY <1>2, LayoutTypes DEF Init, JobOwner
<1>. QED  BY <1>3, <1>4, <1>5, <1>6 DEF OwnershipInv

-----------------------------------------------------------------------------
(* Every action preserves the invariant and only gives away free pages. *)

\* What each step lemma shows.
Preserves == OwnershipInv' /\ Grown(pageinfo, pageinfo', Owners)

\* A handler that leaves pageinfo[] alone keeps it consistent.
LEMMA NothingAssigned ==
    ASSUME OwnershipInv, UNCHANGED pageinfo
    PROVE  PageinfoConsistent' /\ Grown(pageinfo, pageinfo', Owners)
<1>1. Grown(pageinfo, pageinfo', {})
    BY GrownReflexive DEF OwnershipInv, TypeOK
<1>. QED  BY <1>1, GrownConsistent DEF OwnershipInv

\* process_setup gives the root table to the process it sets up.
LEMMA ProcessSetupStep == OwnershipInv /\ ProcessSetup => Preserves
<1>. SUFFICES ASSUME OwnershipInv, ProcessSetup PROVE Preserves
    OBVIOUS
<1>. DEFINE root == pagetable_alloc(pageinfo, mem, job.pid)
<1>1. TypeOK /\ PageinfoConsistent /\ ProcessZeroUnused /\ JobOwner
    BY DEF OwnershipInv
<1>2. job.pid \in Pid \ {0} /\ job.pid \in Owner /\ job.pid \in 1 .. LastSetup(command)
    BY <1>1, LayoutTypes, SizeAssumption DEF JobOwner, ProcessSetup, TypeOK, Owner, Pid
<1>3. root.pn \in PN /\ Grown(pageinfo, root.pageinfo, {job.pid}) /\ root.mem \in [PN -> Page]
    BY <1>1, <1>2, PagetableAllocType DEF TypeOK
<1>. HIDE DEF root
<1>4. /\ pageinfo' = root.pageinfo /\ mem' = root.mem /\ pagetable_owner' = job.pid
      /\ UNCHANGED <<processes, current, cr3, trap, command, reboots>>
      /\ \/ kpc' = "panic" /\ job' = job
         \/ kpc' = "setup_copy" /\ job' = [job EXCEPT !.pt = root.pn, !.va = 0]
    BY DEF ProcessSetup, Panic, root
<1>5. PageinfoConsistent' /\ Grown(pageinfo, pageinfo', Owners)
    BY <1>1, <1>2, <1>3, <1>4, GrownConsistent DEF Owners
<1>6. /\ job' \in [pid : Pid, va : 0 .. MEMSIZE_VIRTUAL, pt : PN, seg : Nat]
      /\ job'.pid = job.pid
      /\ kpc' = "setup_copy" => job'.va = 0
    <2>1. job \in [pid : Pid, va : 0 .. MEMSIZE_VIRTUAL, pt : PN, seg : Nat]
        BY <1>1 DEF TypeOK
    <2>2. 0 \in 0 .. MEMSIZE_VIRTUAL
        BY SizeAssumption
    <2>3. CASE kpc' = "panic" /\ job' = job
        BY <2>1, <2>3
    <2>4. CASE job' = [job EXCEPT !.pt = root.pn, !.va = 0]
        BY <1>3, <2>1, <2>2, <2>4
    <2>. QED  BY <1>4, <2>3, <2>4
<1>7. TypeOK'
    BY <1>1, <1>2, <1>3, <1>4, <1>5, <1>6 DEF TypeOK, Grown
<1>8. ProcessZeroUnused'
    BY <1>1, <1>4 DEF ProcessZeroUnused
<1>9. JobOwner'
    BY <1>2, <1>4, <1>6, LayoutTypes DEF JobOwner
<1>. QED  BY <1>5, <1>7, <1>8, <1>9 DEF Preserves, OwnershipInv

\* One iteration of copy_pagetable gives free pages to __pagetable_owner__.
LEMMA CopyMappingStep == OwnershipInv /\ CopyMapping => Preserves
<1>. SUFFICES ASSUME OwnershipInv, CopyMapping PROVE Preserves
    OBVIOUS
<1>. DEFINE mapping == virtual_memory_lookup(mem, CopySource, job.va)
            map == virtual_memory_map(pageinfo, mem, job.pt, job.va, mapping.pn,
                                      mapping.perm, pagetable_owner, TRUE)
<1>1. TypeOK /\ PageinfoConsistent /\ ProcessZeroUnused /\ JobOwner
    BY DEF OwnershipInv
<1>2. pagetable_owner \in Owners /\ pagetable_owner \in Owner
    BY <1>1 DEF TypeOK, JobOwner, Owners, Owner, PO_RESERVED
<1>3. CopySource \in PN /\ job.va \in Nat /\ job.pt \in PN
    BY <1>1, LayoutTypes DEF CopySource, TypeOK, Processes
<1>4. mapping.perm \subseteq Flags /\ (mapping.perm # {} => mapping.pn \in PN)
    BY <1>1, <1>3, LookupType DEF TypeOK
<1>. HIDE DEF mapping
<1>5. mapping.perm # {} =>
        Grown(pageinfo, map.pageinfo, {pagetable_owner}) /\ map.mem \in [PN -> Page]
    BY <1>1, <1>2, <1>3, <1>4, MapType DEF TypeOK
<1>. HIDE DEF map
<1>6. /\ UNCHANGED <<processes, current, cr3, pagetable_owner, trap, command, reboots>>
      /\ \/ UNCHANGED <<pageinfo, mem>>
         \/ mapping.perm # {} /\ pageinfo' = map.pageinfo /\ mem' = map.mem
      /\ \/ kpc' = kpc /\ job' = [job EXCEPT !.va = job.va + 1]
         \/ kpc' = "panic" /\ job' = job
      /\ kpc \in {"setup_copy", "fork_copy"}
      /\ job.va < PROC_START
    BY DEF CopyMapping, Panic, NextVA, mapping, map
<1>7. PageinfoConsistent' /\ Grown(pageinfo, pageinfo', Owners)
    <2>1. CASE UNCHANGED <<pageinfo, mem>>
        BY <2>1, NothingAssigned
    <2>2. CASE mapping.perm # {} /\ pageinfo' = map.pageinfo /\ mem' = map.mem
        BY <1>1, <1>2, <1>5, <2>2, GrownConsistent
    <2>. QED  BY <1>6, <2>1, <2>2
<1>8. /\ job' \in [pid : Pid, va : 0 .. MEMSIZE_VIRTUAL, pt : PN, seg : Nat]
      /\ job'.pid = job.pid
      /\ job'.va =< PROC_START
    BY <1>1, <1>6, LayoutTypes, SizeAssumption DEF TypeOK
<1>9. mem' \in [PN -> Page]
    BY <1>1, <1>5, <1>6 DEF TypeOK
<1>10. TypeOK'
    BY <1>1, <1>6, <1>7, <1>8, <1>9 DEF TypeOK, Grown
<1>11. ProcessZeroUnused'
    BY <1>1, <1>6 DEF ProcessZeroUnused
<1>12. JobOwner'
    BY <1>1, <1>6, <1>8 DEF JobOwner
<1>. QED  BY <1>7, <1>10, <1>11, <1>12 DEF Preserves, OwnershipInv

\* Storing the root in the process table assigns nothing.
LEMMA CopyReturnStep == OwnershipInv /\ CopyReturn => Preserves
<1>. SUFFICES ASSUME OwnershipInv, CopyReturn PROVE Preserves
    OBVIOUS
<1>1. TypeOK /\ PageinfoConsistent /\ ProcessZeroUnused /\ JobOwner
    BY DEF OwnershipInv
<1>2. processes' \in [Pid -> Processes] /\ processes'[0].state = processes[0].state
    BY <1>1, LayoutTypes DEF CopyReturn, TypeOK, Processes
<1>3. PageinfoConsistent' /\ Grown(pageinfo, pageinfo', Owners)
    BY NothingAssigned DEF CopyReturn
<1>4. TypeOK'
    BY <1>1, <1>2 DEF CopyReturn, TypeOK
<1>5. ProcessZeroUnused' /\ JobOwner'
    BY <1>1, <1>2 DEF CopyReturn, ProcessZeroUnused, JobOwner
<1>. QED  BY <1>3, <1>4, <1>5 DEF Preserves, OwnershipInv

\* kernel(command) only loads programs that exist, for processes other than 0.
LEMMA LoadingType ==
    ASSUME OwnershipInv, kpc \in {"setup_copy", "load"}
    PROVE  /\ job.pid \in Pid \ {0} /\ job.pid \in Owner
           /\ Loading \in Program
           /\ Segments[Loading] \in Seq(UserVA) /\ Len(Segments[Loading]) >= 1
           /\ UserVA \subseteq Nat /\ UserVA \subseteq VA
<1>1. job.pid \in 1 .. LastSetup(command) /\ job.pid \in Pid
    BY DEF OwnershipInv, JobOwner, TypeOK
<1>2. job.pid \in Pid \ {0} /\ job.pid \in Owner
    BY <1>1, LayoutTypes DEF Owner
<1>3. Loading \in Program
    <2>1. NALLOC \in Nat /\ NALLOC >= 1
        BY ProgramAssumption, SizeAssumption
    <2>2. CASE command \in {"fork", "forkexit"}
        <3>1. NALLOC \in Program /\ NALLOC + 1 \in Program
            BY <2>1 DEF Program
        <3>. QED  BY <2>2, <3>1 DEF Loading, ProgramNumber
    <2>3. CASE command \notin {"fork", "forkexit"}
        <3>1. LastSetup(command) = NALLOC
            BY <2>3 DEF LastSetup
        <3>2. job.pid - 1 \in Program
            BY <1>1, <2>1, <3>1 DEF Program
        <3>. QED  BY <2>3, <3>2 DEF Loading, ProgramNumber
    <2>. QED  BY <2>2, <2>3
<1>4. UserVA \subseteq Nat /\ UserVA \subseteq VA
    BY LayoutTypes, SizeAssumption DEF UserVA, VA
<1>. QED  BY <1>2, <1>3, <1>4, ProgramAssumption DEF UserVA

\* program_load_segment assigns the page of the segment only if it is unused.
LEMMA ProgramLoadSegmentStep == OwnershipInv /\ ProgramLoadSegment => Preserves
<1>. SUFFICES ASSUME OwnershipInv, ProgramLoadSegment PROVE Preserves
    OBVIOUS
<1>. DEFINE addr == Segments[Loading][job.seg]
            given == Assign(pageinfo, addr, job.pid)
            map == virtual_memory_map(given, mem, job.pt, addr, addr, RWU,
                                      pagetable_owner, FALSE)
            filled == virtual_memory_lookup(map.mem, job.pt, addr).pn
<1>1. TypeOK /\ PageinfoConsistent /\ ProcessZeroUnused /\ JobOwner /\ kpc = "load"
    BY DEF OwnershipInv, ProgramLoadSegment
<1>2. /\ job.pid \in Pid \ {0} /\ job.pid \in Owner
      /\ Loading \in Program
      /\ Image[Loading] \in Page
    BY <1>1, LoadingType, ProgramAssumption
<1>3. pagetable_owner \in Owners /\ pagetable_owner \in Owner
    BY <1>1 DEF TypeOK, JobOwner, Owners, Owner, PO_RESERVED
<1>4. CASE ~CanAssign(pageinfo, addr)
    <2>1. /\ kpc' = "panic"
          /\ UNCHANGED <<pageinfo, mem, processes, current, cr3, pagetable_owner, job,
                         trap, command, reboots>>
        BY <1>4 DEF ProgramLoadSegment, Panic
    <2>2. PageinfoConsistent' /\ Grown(pageinfo, pageinfo', Owners)
        BY <2>1, NothingAssigned
    <2>. QED  BY <1>1, <2>1, <2>2
        DEF Preserves, OwnershipInv, TypeOK, ProcessZeroUnused, JobOwner
<1>5. CASE CanAssign(pageinfo, addr)
    <2>1. addr \in Nat /\ addr \in PN /\ pageinfo[addr].refcount = 0
        BY <1>5, SizeAssumption DEF CanAssign, PN
    <2>. HIDE DEF addr
    <2>2. Grown(pageinfo, given, {job.pid})
        BY <1>1, <1>2, <2>1, AssignGrows DEF TypeOK
    <2>3. RWU \in SUBSET Flags /\ given \in [PN -> PageInfo] /\ job.pt \in PN
        BY <1>1, <2>2 DEF RWU, Flags, Grown, TypeOK
    <2>. HIDE DEF given
    <2>4. Grown(given, map.pageinfo, {pagetable_owner}) /\ map.mem \in [PN -> Page]
        BY <1>1, <1>3, <2>1, <2>3, MapType DEF TypeOK
    <2>5. Grown(pageinfo, map.pageinfo, Owners)
        <3>1. {job.pid} \subseteq Owners /\ {pagetable_owner} \subseteq Owners
            BY <1>2, <1>3 DEF Owners
        <3>2. Grown(pageinfo, given, Owners) /\ Grown(given, map.pageinfo, Owners)
            BY <2>2, <2>4, <3>1, GrownMonotone
        <3>. QED  BY <1>1, <3>2, GrownTransitive DEF TypeOK
    <2>. HIDE DEF map, filled
    <2>6. /\ UNCHANGED <<processes, pagetable_owner, trap, command, reboots, current, cr3>>
          /\ pageinfo' = map.pageinfo
          /\ \/ /\ mem' = [map.mem EXCEPT ![filled] = Image[Loading]]
                /\ job' = [job EXCEPT !.seg = job.seg + 1]
                /\ kpc' = kpc
             \/ mem' = map.mem /\ kpc' = "panic" /\ job' = job
        BY <1>5 DEF ProgramLoadSegment, Panic, map, filled, addr, given
    <2>7. mem' \in [PN -> Page]
        BY <1>2, <2>4, <2>6
    <2>8. PageinfoConsistent'
        BY <1>1, <2>5, <2>6, GrownConsistent
    <2>9. /\ job' \in [pid : Pid, va : 0 .. MEMSIZE_VIRTUAL, pt : PN, seg : Nat]
          /\ job'.pid = job.pid
        BY <1>1, <2>6 DEF TypeOK
    <2>10. TypeOK'
        BY <1>1, <2>5, <2>6, <2>7, <2>9 DEF TypeOK, Grown
    <2>11. ProcessZeroUnused' /\ JobOwner'
        BY <1>1, <2>6, <2>9 DEF ProcessZeroUnused, JobOwner
    <2>. QED  BY <2>5, <2>6, <2>8, <2>10, <2>11 DEF Preserves, OwnershipInv
<1>. QED  BY <1>4, <1>5

\* The end of process_setup gives away the stack page and its tables.
LEMMA SetupStackStep == OwnershipInv /\ SetupStack => Preserves
<1>. SUFFICES ASSUME OwnershipInv, SetupStack PROVE Preserves
    OBVIOUS
<1>. DEFINE stack == get_free_addr(pageinfo, job.pid)
            map   == virtual_memory_map(stack.pageinfo, mem, job.pt, MEMSIZE_VIRTUAL - 1,
                                        stack.pn, RWU, pagetable_owner, TRUE)
            ready == [state |-> "P_RUNNABLE", pagetable |-> processes[job.pid].pagetable,
                      rip |-> Segments[Loading][1], rax |-> 0]
            procs == [processes EXCEPT ![job.pid] = ready]
<1>1. TypeOK /\ PageinfoConsistent /\ ProcessZeroUnused /\ JobOwner /\ kpc = "load"
    BY DEF OwnershipInv, SetupStack
<1>2. job.pid \in Pid \ {0} /\ job.pid \in Owner /\ Segments[Loading][1] \in VA
    BY <1>1, LoadingType
<1>3. pagetable_owner \in Owners /\ pagetable_owner \in Owner
    BY <1>1 DEF TypeOK, JobOwner, Owners, Owner, PO_RESERVED
<1>4. stack.pn \in PN /\ Grown(pageinfo, stack.pageinfo, {job.pid})
    BY <1>1, <1>2, GetFreeAddrType DEF TypeOK
<1>5. /\ RWU \in SUBSET Flags /\ stack.pageinfo \in [PN -> PageInfo] /\ job.pt \in PN
      /\ MEMSIZE_VIRTUAL - 1 \in Nat
    BY <1>1, <1>4, SizeAssumption DEF RWU, Flags, Grown, TypeOK
<1>. HIDE DEF stack
<1>6. Grown(stack.pageinfo, map.pageinfo, {pagetable_owner}) /\ map.mem \in [PN -> Page]
    BY <1>1, <1>3, <1>4, <1>5, MapType DEF TypeOK
<1>7. Grown(pageinfo, map.pageinfo, Owners)
    <2>1. {job.pid} \subseteq Owners /\ {pagetable_owner} \subseteq Owners
        BY <1>2, <1>3 DEF Owners
    <2>2. Grown(pageinfo, stack.pageinfo, Owners) /\ Grown(stack.pageinfo, map.pageinfo, Owners)
        BY <1>4, <1>6, <2>1, GrownMonotone
    <2>. QED  BY <1>1, <2>2, GrownTransitive DEF TypeOK
<1>8. ProcsOK(procs)
    <2>1. ready \in Processes
        BY <1>1, <1>2 DEF TypeOK, Processes
    <2>. HIDE DEF ready
    <2>. QED  BY <1>1, <1>2, <2>1, LayoutTypes DEF ProcsOK, TypeOK, ProcessZeroUnused
<1>. HIDE DEF map, procs
<1>9. /\ UNCHANGED <<pagetable_owner, trap, command, reboots>>
      /\ pageinfo' = map.pageinfo /\ mem' = map.mem
      /\ \/ /\ kpc' = "panic"
            /\ UNCHANGED <<processes, job, current, cr3>>
         \/ /\ processes' = procs
            /\ job.pid < LastSetup(command)
            /\ kpc' = "setup"
            /\ job' = [NoJob EXCEPT !.pid = job.pid + 1]
            /\ UNCHANGED <<current, cr3>>
         \/ /\ processes' = procs
            /\ run(procs, map.mem, 1)
            /\ job' = NoJob
    BY DEF SetupStack, Panic, stack, map, procs
<1>10. PageinfoConsistent' /\ Grown(pageinfo, pageinfo', Owners)
    BY <1>1, <1>7, <1>9, GrownConsistent
<1>11. /\ pageinfo' \in [PN -> PageInfo] /\ mem' \in [PN -> Page]
       /\ pagetable_owner' \in Pid \cup {-1} /\ pagetable_owner' # 0
       /\ trap' \in [int : Ints \cup {"none"}, rdi : VA]
       /\ command' \in Commands /\ reboots' \in 0 .. MaxReboots
    BY <1>1, <1>6, <1>7, <1>9 DEF TypeOK, Grown, JobOwner
<1>12. CASE kpc' = "panic" /\ UNCHANGED <<processes, job, current, cr3>>
    BY <1>1, <1>10, <1>11, <1>12
    DEF Preserves, OwnershipInv, TypeOK, ProcessZeroUnused, JobOwner
<1>13. CASE /\ processes' = procs
            /\ job.pid < LastSetup(command)
            /\ kpc' = "setup"
            /\ job' = [NoJob EXCEPT !.pid = job.pid + 1]
            /\ UNCHANGED <<current, cr3>>
    <2>1. LastSetup(command) \in 1 .. NPROC - 1 /\ job.pid \in Nat
        BY <1>2, LayoutTypes, SizeAssumption DEF Pid
    <2>2. job.pid + 1 \in 1 .. LastSetup(command) /\ job.pid + 1 \in Pid
        BY <1>13, <2>1, SizeAssumption DEF Pid
    <2>3. job' \in [pid : Pid, va : 0 .. MEMSIZE_VIRTUAL, pt : PN, seg : Nat]
        BY <1>13, <2>2, LayoutTypes DEF NoJob
    <2>4. job'.pid = job.pid + 1
        BY <1>13 DEF NoJob
    <2>5. JobOwner'
        BY <1>9, <1>11, <1>13, <2>2, <2>4 DEF JobOwner
    <2>. QED  BY <1>1, <1>8, <1>10, <1>11, <1>13, <2>3, <2>5
        DEF Preserves, OwnershipInv, TypeOK, ProcessZeroUnused, ProcsOK
<1>14. CASE processes' = procs /\ run(procs, map.mem, 1) /\ job' = NoJob
    <2>1. /\ kpc' \in {"user", "panic"} /\ current' \in Pid /\ cr3' \in PN
          /\ kpc' = "user" => current' # 0
        BY <1>1, <1>8, <1>14, LayoutTypes, RunType
    <2>. QED  BY <1>8, <1>10, <1>11, <1>14, <2>1, LayoutTypes
        DEF Preserves, OwnershipInv, TypeOK, ProcessZeroUnused, JobOwner, ProcsOK
<1>. QED  BY <1>9, <1>12, <1>13, <1>14

-----------------------------------------------------------------------------
(* User mode and the way into the kernel *)

\* A store reaches one word of an existing page.
LEMMA UserStoreStep ==
    ASSUME OwnershipInv, NEW va \in TouchVAs, NEW i \in TouchIndexes, NEW w \in UserWords,
           UserStore(va, i, w)
    PROVE  Preserves
<1>1. TypeOK /\ ProcessZeroUnused /\ JobOwner
    BY DEF OwnershipInv
<1>2. i \in Index /\ w \in Word
    BY UserAssumption
<1>3. mem' \in [PN -> Page]
    BY <1>1, <1>2 DEF UserStore, TypeOK, Page
<1>4. PageinfoConsistent' /\ Grown(pageinfo, pageinfo', Owners)
    BY NothingAssigned DEF UserStore
<1>5. TypeOK'
    BY <1>1, <1>3 DEF UserStore, TypeOK
<1>6. ProcessZeroUnused' /\ JobOwner'
    BY <1>1 DEF UserStore, ProcessZeroUnused, JobOwner
<1>. QED  BY <1>4, <1>5, <1>6 DEF Preserves, OwnershipInv

\* An exception out of user mode saves registers and changes the page table
\* in use, nothing that pages depend on.
LEMMA ExceptionStep ==
    ASSUME OwnershipInv, kpc = "user", NEW int \in Ints, NEW rdi \in VA, NEW rax \in Int,
           exception(int, rdi, rax)
    PROVE  Preserves
<1>1. TypeOK /\ ProcessZeroUnused /\ JobOwner /\ current # 0
    BY DEF OwnershipInv, ProcessZeroUnused
<1>2. processes' \in [Pid -> Processes] /\ processes'[0].state = processes[0].state
    BY <1>1, LayoutTypes DEF exception, TypeOK, Processes
<1>3. PageinfoConsistent' /\ Grown(pageinfo, pageinfo', Owners)
    BY NothingAssigned DEF exception
<1>4. /\ UNCHANGED <<pageinfo, mem, current, pagetable_owner, job, command, reboots>>
      /\ cr3' \in {KPT, cr3}
      /\ \/ kpc' = "dispatch" /\ trap' = [int |-> int, rdi |-> rdi]
         \/ kpc' = "panic" /\ trap' = NoTrap
    BY DEF exception
<1>5. trap' \in [int : Ints \cup {"none"}, rdi : VA]
    BY <1>4, LayoutTypes
<1>6. TypeOK'
    BY <1>1, <1>2, <1>4, <1>5, LayoutTypes DEF TypeOK
<1>7. ProcessZeroUnused' /\ JobOwner'
    BY <1>1, <1>2, <1>4 DEF ProcessZeroUnused, JobOwner
<1>. QED  BY <1>3, <1>6, <1>7 DEF Preserves, OwnershipInv

\* Whatever user programs do.
LEMMA UserStep == OwnershipInv /\ (User \/ Timer) => Preserves
<1>. SUFFICES ASSUME OwnershipInv, User \/ Timer PROVE Preserves
    OBVIOUS
<1>1. Syscalls \subseteq Ints /\ AllocVAs \subseteq VA /\ UserRax \subseteq Int /\ 0 \in VA
    BY UserAssumption, LayoutTypes, SizeAssumption DEF Ints, VA
<1>2. {"INT_SYS_PAGE_ALLOC", "INT_PAGEFAULT", "INT_TIMER"} \subseteq Ints
    BY DEF Ints
<1>3. CASE \E va \in TouchVAs, i \in TouchIndexes, w \in UserWords : UserStore(va, i, w)
    BY <1>3, UserStoreStep
<1>4. CASE \E int \in Syscalls, rax \in UserRax : Syscall(int, rax)
    BY <1>1, <1>4, ExceptionStep DEF Syscall, Executing
<1>5. CASE \E addr \in AllocVAs, rax \in UserRax : SyscallPageAlloc(addr, rax)
    BY <1>1, <1>2, <1>5, ExceptionStep DEF SyscallPageAlloc, Executing
<1>6. CASE \E va \in TouchVAs, rax \in UserRax : PageFault(va, rax)
    BY <1>1, <1>2, <1>6, ExceptionStep DEF PageFault
<1>7. CASE Timer
    BY <1>1, <1>2, <1>7, ExceptionStep DEF Timer, TimerInterrupt
<1>. QED  BY <1>3, <1>4, <1>5, <1>6, <1>7 DEF User

-----------------------------------------------------------------------------
(* The handlers *)

\* A handler that returns preserves the invariant if what it leaves behind is
\* well formed and it gave away only free pages.
LEMMA ReturnStep ==
    ASSUME OwnershipInv, NEW procs, ProcsOK(procs), NEW m \in [PN -> Page], NEW pi,
           Grown(pageinfo, pi, Owners), Return(procs, m, pi),
           pagetable_owner' \in Pid \cup {-1}, pagetable_owner' # 0,
           UNCHANGED <<command, reboots>>
    PROVE  Preserves
<1>1. TypeOK /\ PageinfoConsistent
    BY DEF OwnershipInv
<1>2. /\ kpc' \in {"user", "panic", "idle"} /\ current' \in Pid /\ cr3' \in PN
      /\ kpc' = "user" => current' # 0
      /\ job' = NoJob /\ trap' = NoTrap
    BY <1>1, ReturnType
<1>3. processes' = procs /\ mem' = m /\ pageinfo' = pi
    BY DEF Return
<1>4. PageinfoConsistent' /\ Grown(pageinfo, pageinfo', Owners)
    BY <1>1, <1>3, GrownConsistent
<1>5. TypeOK'
    BY <1>1, <1>2, <1>3, LayoutTypes DEF TypeOK, ProcsOK, Grown
<1>6. ProcessZeroUnused' /\ JobOwner'
    BY <1>2, <1>3 DEF ProcessZeroUnused, JobOwner, ProcsOK
<1>. QED  BY <1>4, <1>5, <1>6 DEF Preserves, OwnershipInv

\* What a handler finds when it starts.
LEMMA HandlerState ==
    ASSUME OwnershipInv, kpc \in {"dispatch", "fork_copy", "fork_memory"}
    PROVE  /\ ProcsOK(processes) /\ mem \in [PN -> Page]
           /\ pageinfo \in [PN -> PageInfo] /\ Grown(pageinfo, pageinfo, Owners)
           /\ current \in Pid \ {0} /\ current \in Owner
           /\ pagetable_owner \in Pid \cup {-1} /\ pagetable_owner # 0
           /\ processes[current].pagetable \in PN
           /\ FAILED \in Int /\ 0 \in Int /\ Pid \subseteq Int
<1>1. current \in Pid \ {0} /\ current \in Owner
    BY DEF OwnershipInv, ProcessZeroUnused, TypeOK, Owner
<1>2. ProcsOK(processes) /\ processes[current].pagetable \in PN
    BY <1>1 DEF OwnershipInv, ProcessZeroUnused, TypeOK, ProcsOK, Processes
<1>3. Pid \subseteq Int /\ FAILED \in Int
    BY SizeAssumption DEF Pid, FAILED
<1>4. pageinfo \in [PN -> PageInfo] /\ Grown(pageinfo, pageinfo, Owners)
    BY GrownReflexive DEF OwnershipInv, TypeOK
<1>. QED  BY <1>1, <1>2, <1>3, <1>4 DEF OwnershipInv, TypeOK, JobOwner

\* The handlers that allocate nothing.
LEMMA SimpleHandlerStep ==
    OwnershipInv /\ (HandlePanic \/ HandleGetpid \/ HandleYieldOrTimer \/ HandlePageFault
                     \/ HandlePageAllocOOM \/ ForkNoSlot \/ ForkEnd) => Preserves
<1>. SUFFICES ASSUME OwnershipInv,
                     HandlePanic \/ HandleGetpid \/ HandleYieldOrTimer \/ HandlePageFault
                     \/ HandlePageAllocOOM \/ ForkNoSlot \/ ForkEnd
              PROVE  Preserves
    OBVIOUS
<1>1. kpc \in {"dispatch", "fork_copy", "fork_memory"}
    BY DEF HandlePanic, HandleGetpid, HandleYieldOrTimer, HandlePageFault,
           HandlePageAllocOOM, ForkNoSlot, ForkEnd
<1>2. /\ ProcsOK(processes) /\ mem \in [PN -> Page]
      /\ pageinfo \in [PN -> PageInfo] /\ Grown(pageinfo, pageinfo, Owners)
      /\ current \in Pid \ {0}
      /\ pagetable_owner \in Pid \cup {-1} /\ pagetable_owner # 0
      /\ FAILED \in Int /\ 0 \in Int /\ Pid \subseteq Int
    BY <1>1, HandlerState
<1>3. TypeOK /\ ProcessZeroUnused /\ JobOwner /\ job.pid \in Pid
    BY DEF OwnershipInv, TypeOK
<1>4. \A rax \in Int : ProcsOK(SetRax(processes, current, rax))
    BY <1>2, SetRaxType
<1>5. CASE HandlePanic
    <2>1. /\ kpc' = "panic" /\ trap' = NoTrap
          /\ UNCHANGED <<pageinfo, mem, processes, current, pagetable_owner, cr3, job,
                         command, reboots>>
        BY <1>5 DEF HandlePanic, Panic
    <2>2. TypeOK' /\ ProcessZeroUnused' /\ JobOwner'
        BY <1>3, <2>1, LayoutTypes DEF TypeOK, ProcessZeroUnused, JobOwner
    <2>. QED  BY <2>1, <2>2, NothingAssigned DEF Preserves, OwnershipInv
<1>6. CASE HandleGetpid
    <2>1. ProcsOK(SetRax(processes, current, current))
        BY <1>2, <1>4
    <2>. QED  BY <1>2, <1>6, <2>1, ReturnStep DEF HandleGetpid
<1>7. CASE HandleYieldOrTimer
    <2>1. /\ schedule(processes, mem) /\ trap' = NoTrap
          /\ UNCHANGED <<pageinfo, mem, processes, pagetable_owner, job, command, reboots>>
        BY <1>7 DEF HandleYieldOrTimer
    <2>2. /\ kpc' \in {"user", "panic", "idle"} /\ current' \in Pid /\ cr3' \in PN
          /\ kpc' = "user" => current' # 0
        BY <1>2, <1>3, <2>1, ScheduleType
    <2>3. TypeOK' /\ ProcessZeroUnused' /\ JobOwner'
        BY <1>3, <2>1, <2>2, LayoutTypes DEF TypeOK, ProcessZeroUnused, JobOwner
    <2>. QED  BY <2>1, <2>3, NothingAssigned DEF Preserves, OwnershipInv
<1>8. CASE HandlePageFault
    <2>. DEFINE broken == [processes EXCEPT ![current].state = "P_BROKEN"]
    <2>1. ProcsOK(broken)
        BY <1>2 DEF ProcsOK, Processes
    <2>2. /\ Return(broken, mem, pageinfo)
          /\ UNCHANGED <<pagetable_owner, command, reboots>>
        BY <1>8 DEF HandlePageFault
    <2>. HIDE DEF broken
    <2>. QED  BY <1>2, <2>1, <2>2, ReturnStep
<1>9. CASE HandlePageAllocOOM
    BY <1>2, <1>4, <1>9, ReturnStep DEF HandlePageAllocOOM
<1>10. CASE ForkNoSlot
    BY <1>2, <1>4, <1>10, ReturnStep DEF ForkNoSlot
<1>11. CASE ForkEnd
    <2>1. ProcsOK(SetRax(SetRax(processes, current, job.pid), job.pid, 0))
        BY <1>2, <1>3, <1>4, SetRaxType
    <2>. QED  BY <1>2, <1>11, <2>1, ReturnStep DEF ForkEnd
<1>. QED  BY <1>5, <1>6, <1>7, <1>8, <1>9, <1>10, <1>11

\* sys_page_alloc: the page and the tables above it all go to the caller.
LEMMA HandlePageAllocStep == OwnershipInv /\ HandlePageAlloc => Preserves
<1>. SUFFICES ASSUME OwnershipInv, HandlePageAlloc PROVE Preserves
    OBVIOUS
<1>. DEFINE pa  == get_free_addr(pageinfo, current)
            map == virtual_memory_map(pa.pageinfo, mem, processes[current].pagetable,
                                      trap.rdi, pa.pn, RWU, current, TRUE)
            rax == IF map.res = "ok" THEN 0 ELSE FAILED
<1>1. /\ ProcsOK(processes) /\ mem \in [PN -> Page] /\ pageinfo \in [PN -> PageInfo]
      /\ current \in Pid \ {0} /\ current \in Owner
      /\ processes[current].pagetable \in PN
      /\ FAILED \in Int /\ 0 \in Int
    BY HandlerState DEF HandlePageAlloc
<1>2. TypeOK /\ PageinfoConsistent /\ ProcessZeroUnused /\ JobOwner
    BY DEF OwnershipInv
<1>3. pa.pn \in PN /\ Grown(pageinfo, pa.pageinfo, {current})
    BY <1>1, GetFreeAddrType
<1>4. pa.pageinfo \in [PN -> PageInfo] /\ trap.rdi \in Nat /\ RWU \in SUBSET Flags
    BY <1>2, <1>3, SizeAssumption DEF Grown, TypeOK, VA, RWU, Flags
<1>. HIDE DEF pa
<1>5. Grown(pa.pageinfo, map.pageinfo, {current}) /\ map.mem \in [PN -> Page]
    BY <1>1, <1>3, <1>4, MapType
<1>. HIDE DEF map
<1>6. Grown(pageinfo, map.pageinfo, Owners)
    <2>1. Grown(pageinfo, map.pageinfo, {current})
        BY <1>1, <1>3, <1>5, GrownTransitive
    <2>2. {current} \subseteq Owners
        BY <1>1 DEF Owners
    <2>. QED  BY <2>1, <2>2, GrownMonotone
<1>7. ProcsOK(SetRax(processes, current, rax))
    <2>1. rax \in Int
        BY <1>1
    <2>. HIDE DEF rax
    <2>. QED  BY <1>1, <2>1, SetRaxType
<1>8. /\ pagetable_owner' = current /\ UNCHANGED <<command, reboots>>
      /\ \/ /\ kpc' = "panic" /\ pageinfo' = map.pageinfo /\ mem' = map.mem
            /\ trap' = NoTrap /\ UNCHANGED <<processes, job, current, cr3>>
         \/ Return(SetRax(processes, current, rax), map.mem, map.pageinfo)
    BY DEF HandlePageAlloc, Panic, map, pa
<1>. HIDE DEF rax
<1>9. CASE /\ kpc' = "panic" /\ pageinfo' = map.pageinfo /\ mem' = map.mem
           /\ trap' = NoTrap /\ UNCHANGED <<processes, job, current, cr3>>
    <2>1. PageinfoConsistent' /\ Grown(pageinfo, pageinfo', Owners)
        BY <1>2, <1>6, <1>9, GrownConsistent
    <2>2. TypeOK' /\ ProcessZeroUnused' /\ JobOwner'
        BY <1>1, <1>2, <1>5, <1>8, <1>9, <2>1, LayoutTypes
        DEF TypeOK, ProcessZeroUnused, JobOwner, Grown
    <2>. QED  BY <2>1, <2>2 DEF Preserves, OwnershipInv
<1>10. CASE Return(SetRax(processes, current, rax), map.mem, map.pageinfo)
    BY <1>1, <1>5, <1>6, <1>7, <1>8, <1>10, ReturnStep
<1>. QED  BY <1>8, <1>9, <1>10

\* fork() takes a free slot other than slot 0 and gives the root table to it.
LEMMA ForkBeginStep == OwnershipInv /\ ForkBegin => Preserves
<1>. SUFFICES ASSUME OwnershipInv, ForkBegin PROVE Preserves
    OBVIOUS
<1>1. /\ ProcsOK(processes) /\ mem \in [PN -> Page] /\ pageinfo \in [PN -> PageInfo]
      /\ Grown(pageinfo, pageinfo, Owners)
      /\ current \in Pid \ {0} /\ FAILED \in Int
    BY HandlerState DEF ForkBegin
<1>2. TypeOK /\ PageinfoConsistent /\ ProcessZeroUnused /\ JobOwner
    BY DEF OwnershipInv
<1>3. PICK i \in FreeSlots :
        LET procs == [processes EXCEPT ![i] = Child]
            root  == pagetable_alloc(pageinfo, mem, i)
        IN  /\ pagetable_owner' = i
            /\ IF root.pn = NULL
               THEN Return(SetRax(procs, current, FAILED), mem, pageinfo)
               ELSE /\ processes' = procs
                    /\ pageinfo' = root.pageinfo
                    /\ mem' = root.mem
                    /\ kpc' = "fork_copy"
                    /\ job' = [NoJob EXCEPT !.pid = i, !.pt = root.pn]
                    /\ UNCHANGED <<current, cr3, trap>>
    BY DEF ForkBegin
<1>. DEFINE procs == [processes EXCEPT ![i] = Child]
            root  == pagetable_alloc(pageinfo, mem, i)
<1>4. i \in Pid \ {0} /\ i \in Owner /\ {i} \subseteq Owners
    BY SizeAssumption DEF FreeSlots, Pid, Owner, Owners
<1>5. Child \in Processes
    <2>1. processes[current] \in Processes
        BY <1>1 DEF ProcsOK
    <2>. QED  BY <2>1, LayoutTypes DEF Child, Processes, NULL
<1>6. ProcsOK(procs)
    BY <1>1, <1>4, <1>5, LayoutTypes DEF ProcsOK
<1>7. root.pn \in PN /\ Grown(pageinfo, root.pageinfo, {i}) /\ root.mem \in [PN -> Page]
    BY <1>1, <1>4, PagetableAllocType
<1>. HIDE DEF procs, root
<1>8. UNCHANGED <<command, reboots>>
    BY DEF ForkBegin
<1>9. CASE root.pn = NULL
    <2>1. Return(SetRax(procs, current, FAILED), mem, pageinfo) /\ pagetable_owner' = i
        BY <1>3, <1>9 DEF procs, root
    <2>2. ProcsOK(SetRax(procs, current, FAILED))
        BY <1>1, <1>6, SetRaxType
    <2>. QED  BY <1>1, <1>4, <1>8, <2>1, <2>2, ReturnStep
<1>10. CASE root.pn # NULL
    <2>1. /\ processes' = procs /\ pageinfo' = root.pageinfo /\ mem' = root.mem
          /\ kpc' = "fork_copy" /\ pagetable_owner' = i
          /\ job' = [NoJob EXCEPT !.pid = i, !.pt = root.pn]
          /\ UNCHANGED <<current, cr3, trap>>
        BY <1>3, <1>10 DEF procs, root
    <2>2. /\ job' \in [pid : Pid, va : 0 .. MEMSIZE_VIRTUAL, pt : PN, seg : Nat]
          /\ job'.pid = i /\ job'.va = 0
        BY <1>4, <1>7, <2>1, LayoutTypes DEF NoJob
    <2>3. PageinfoConsistent' /\ Grown(pageinfo, pageinfo', Owners)
        BY <1>2, <1>4, <1>7, <2>1, GrownConsistent DEF Owners
    <2>4. TypeOK'
        BY <1>2, <1>4, <1>6, <1>7, <1>8, <2>1, <2>2, <2>3 DEF TypeOK, ProcsOK, Grown
    <2>5. ProcessZeroUnused' /\ JobOwner'
        BY <1>1, <1>4, <1>6, <2>1, <2>2, LayoutTypes DEF ProcessZeroUnused, JobOwner, ProcsOK
    <2>. QED  BY <2>3, <2>4, <2>5 DEF Preserves, OwnershipInv
<1>. QED  BY <1>9, <1>10

\* One page of fork()'s copying loop: the copy goes to the child, the tables
\* above it to __pagetable_owner__.
LEMMA ForkCopyPageStep == OwnershipInv /\ ForkCopyPage => Preserves
<1>. SUFFICES ASSUME OwnershipInv, ForkCopyPage PROVE Preserves
    OBVIOUS
<1>. DEFINE mapping == virtual_memory_lookup(mem, processes[current].pagetable, job.va)
            new    == get_free_addr(pageinfo, job.pid)
            copied == [mem EXCEPT ![new.pn] = mem[mapping.pn]]
            map    == virtual_memory_map(new.pageinfo, copied, processes[job.pid].pagetable,
                                         job.va, new.pn, mapping.perm, pagetable_owner, TRUE)
            failed == SetRax(processes, current, FAILED)
<1>1. /\ ProcsOK(processes) /\ mem \in [PN -> Page] /\ pageinfo \in [PN -> PageInfo]
      /\ Grown(pageinfo, pageinfo, Owners)
      /\ current \in Pid \ {0}
      /\ pagetable_owner \in Pid \cup {-1} /\ pagetable_owner # 0
      /\ processes[current].pagetable \in PN /\ FAILED \in Int
    BY HandlerState DEF ForkCopyPage
<1>2. TypeOK /\ PageinfoConsistent /\ ProcessZeroUnused /\ JobOwner
    BY DEF OwnershipInv
<1>3. /\ job.pid \in Pid \ {0} /\ job.pid \in Owner /\ {job.pid} \subseteq Owners
      /\ job.va \in Nat /\ processes[job.pid].pagetable \in PN
    BY <1>2 DEF ForkCopyPage, TypeOK, JobOwner, Owner, Owners, Processes
<1>4. pagetable_owner \in Owner /\ {pagetable_owner} \subseteq Owners
    BY <1>1 DEF Owner, Owners, PO_RESERVED
<1>5. mapping.perm \in SUBSET Flags /\ (PTE_W \in mapping.perm => mapping.pn \in PN)
    BY <1>1, <1>3, LookupType
<1>6. new.pn \in PN /\ Grown(pageinfo, new.pageinfo, {job.pid})
      /\ new.pageinfo \in [PN -> PageInfo]
    BY <1>1, <1>3, GetFreeAddrType DEF Grown
<1>. HIDE DEF mapping, new
<1>7. PTE_W \in mapping.perm =>
        Grown(new.pageinfo, map.pageinfo, {pagetable_owner}) /\ map.mem \in [PN -> Page]
    <2>1. PTE_W \in mapping.perm => copied \in [PN -> Page]
        BY <1>1, <1>5, <1>6
    <2>. HIDE DEF copied
    <2>. QED  BY <1>3, <1>4, <1>5, <1>6, <2>1, MapType
<1>. HIDE DEF map
<1>8. PTE_W \in mapping.perm => Grown(pageinfo, map.pageinfo, Owners)
    <2>1. Grown(pageinfo, new.pageinfo, Owners)
        BY <1>3, <1>6, GrownMonotone
    <2>2. PTE_W \in mapping.perm => Grown(new.pageinfo, map.pageinfo, Owners)
        BY <1>4, <1>7, GrownMonotone
    <2>. QED  BY <1>1, <2>1, <2>2, GrownTransitive
<1>9. ProcsOK(failed)
    BY <1>1, SetRaxType
<1>. HIDE DEF failed
<1>10. /\ UNCHANGED <<pagetable_owner, command, reboots>>
       /\ \/ /\ job' = [job EXCEPT !.va = job.va + 1]
             /\ UNCHANGED <<pageinfo, mem, processes, kpc, current, cr3, trap>>
          \/ Return(failed, mem, pageinfo)
          \/ PTE_W \in mapping.perm /\ Return(failed, map.mem, map.pageinfo)
          \/ /\ PTE_W \in mapping.perm /\ pageinfo' = map.pageinfo /\ mem' = map.mem
             /\ UNCHANGED <<processes, current, cr3>>
             /\ \/ job' = [job EXCEPT !.va = job.va + 1] /\ UNCHANGED <<kpc, trap>>
                \/ job' = job /\ kpc' = "panic" /\ trap' = NoTrap
    BY DEF ForkCopyPage, Panic, NextVA, failed, map, new, mapping
<1>11. CASE /\ job' \in {job, [job EXCEPT !.va = job.va + 1]}
            /\ UNCHANGED <<processes, current, cr3>>
            /\ Grown(pageinfo, pageinfo', Owners) /\ mem' \in [PN -> Page]
            /\ kpc' \in {kpc, "panic"} /\ trap' \in {trap, NoTrap}
    <2>1. job.va < MEMSIZE_VIRTUAL /\ kpc = "fork_memory"
        BY DEF ForkCopyPage
    <2>2. /\ job' \in [pid : Pid, va : 0 .. MEMSIZE_VIRTUAL, pt : PN, seg : Nat]
          /\ job'.pid = job.pid
        BY <1>2, <1>11, <2>1, SizeAssumption DEF TypeOK
    <2>3. PageinfoConsistent' /\ Grown(pageinfo, pageinfo', Owners)
        BY <1>2, <1>11, GrownConsistent
    <2>4. TypeOK'
        BY <1>2, <1>10, <1>11, <2>2, <2>3, LayoutTypes DEF TypeOK, Grown
    <2>5. ProcessZeroUnused' /\ JobOwner'
        BY <1>2, <1>3, <1>10, <1>11, <2>1, <2>2 DEF ProcessZeroUnused, JobOwner
    <2>. QED  BY <2>3, <2>4, <2>5 DEF Preserves, OwnershipInv
<1>12. CASE Return(failed, mem, pageinfo)
    BY <1>1, <1>9, <1>10, <1>12, ReturnStep
<1>13. CASE PTE_W \in mapping.perm /\ Return(failed, map.mem, map.pageinfo)
    BY <1>1, <1>7, <1>8, <1>9, <1>10, <1>13, ReturnStep
<1>. QED  BY <1>1, <1>7, <1>8, <1>10, <1>11, <1>12, <1>13

-----------------------------------------------------------------------------
(* The keyboard *)

\* kernel(command) starts again from a fresh pageinfo[], whatever the memory
\* holds and whichever process was current.
LEMMA SoftRebootStep ==
    ASSUME OwnershipInv, NEW cmd \in Commands, SoftReboot(cmd)
    PROVE  OwnershipInv' /\ reboots' # reboots
<1>1. TypeOK /\ JobOwner
    BY DEF OwnershipInv
<1>2. mem' \in [PN -> Page]
    BY <1>1, KernelTableType DEF SoftReboot, TypeOK
<1>3. job' \in [pid : Pid, va : 0 .. MEMSIZE_VIRTUAL, pt : PN, seg : Nat] /\ job'.pid = 1
    BY LayoutTypes DEF SoftReboot, NoJob
<1>4. reboots' \in 0 .. MaxReboots /\ reboots' # reboots
    BY <1>1, UserAssumption DEF SoftReboot, TypeOK
<1>5. TypeOK'
    BY <1>1, <1>2, <1>3, <1>4, LayoutTypes, BootState DEF SoftReboot, TypeOK, ProcsOK
<1>6. PageinfoConsistent'
    BY BootState DEF SoftReboot, PageinfoConsistent
<1>7. ProcessZeroUnused'
    BY BootState DEF SoftReboot, ProcessZeroUnused, ProcsOK
<1>8. JobOwner'
    BY <1>1, <1>3, LayoutTypes DEF SoftReboot, JobOwner
<1>. QED  BY <1>4, <1>5, <1>6, <1>7, <1>8 DEF OwnershipInv

\* Switching off changes nothing but where the kernel is.
LEMMA PoweroffStep == OwnershipInv /\ Poweroff => Preserves
<1>. SUFFICES ASSUME OwnershipInv, Poweroff PROVE Preserves
    OBVIOUS
<1>1. TypeOK' /\ ProcessZeroUnused' /\ JobOwner'
    BY LayoutTypes DEF OwnershipInv, Poweroff, TypeOK, ProcessZeroUnused, JobOwner
<1>. QED  BY <1>1, NothingAssigned DEF Preserves, OwnershipInv, Poweroff

\* A step that changes nothing preserves the invariant.
LEMMA StutterStep == OwnershipInv /\ UNCHANGED vars => Preserves
<1>. SUFFICES ASSUME OwnershipInv, UNCHANGED vars PROVE Preserves
    OBVIOUS
<1>1. TypeOK' /\ ProcessZeroUnused' /\ JobOwner'
    BY DEF OwnershipInv, vars, TypeOK, ProcessZeroUnused, JobOwner
<1>. QED  BY <1>1, NothingAssigned DEF Preserves, OwnershipInv, vars

-----------------------------------------------------------------------------
(* The theorems *)

\* Every step of the machine preserves the ownership invariant, and between
\* two reboots no step changes the pageinfo[] entry of a page in use.
THEOREM NextOwnership ==
    ASSUME OwnershipInv, [Next]_vars
    PROVE  OwnershipInv' /\ (reboots' # reboots \/ Grown(pageinfo, pageinfo', Owners))
<1>1. CASE Setup
    BY <1>1, ProcessSetupStep, CopyMappingStep, CopyReturnStep, ProgramLoadSegmentStep,
       SetupStackStep DEF Setup, Preserves
<1>2. CASE User \/ Timer
    BY <1>2, UserStep DEF Preserves
<1>3. CASE Handle
    BY <1>3, SimpleHandlerStep, HandlePageAllocStep, ForkBeginStep, ForkCopyPageStep
    DEF Handle, Preserves
<1>4. CASE Keyboard
    BY <1>4, SoftRebootStep, PoweroffStep DEF Keyboard, Preserves
<1>5. CASE UNCHANGED vars
    BY <1>5, StutterStep DEF Preserves
<1>. QED  BY <1>1, <1>2, <1>3, <1>4, <1>5 DEF Next, Spin

\* pageinfo[] is consistent, process 0 is never used and the kernel never
\* works for pid 0, in every state of the machine.
THEOREM OwnershipInvariant == Spec => []OwnershipInv
<1>1. OwnershipInv /\ [Next]_vars => OwnershipInv'
    BY NextOwnership
<1>. QED  BY InitOwnership, <1>1, PTL DEF Spec

\* The variables keep their types; in particular every page table entry names
\* an existing page.
THEOREM TypeCorrect == Spec => []TypeOK
<1>1. OwnershipInv => TypeOK
    BY DEF OwnershipInv
<1>. QED  BY OwnershipInvariant, <1>1, PTL

\* No handler takes a page in use away from its owner, even when it fails
\* half way: only a reboot does.
THEOREM PagesKeepOwners == Spec => OwnersKept
<1>1. OwnershipInv /\ [Next]_vars =>
        [ \/ reboots' # reboots
          \/ \A pn \in PN : pageinfo[pn].refcount # 0 => pageinfo'[pn] = pageinfo[pn] ]_vars
    BY NextOwnership DEF Grown
<1>. QED  BY OwnershipInvariant, <1>1, PTL DEF Spec, OwnersKept

-----------------------------------------------------------------------------
(* Page table trees.  Each physical page has a place: the level of the     *)
(* page table it is, or that it is user memory, or neither, and for a page *)
(* table the indexes that lead to it from its root.  Page tables only have *)
(* entries for tables of the next level, of the same owner, at the place   *)
(* the index says, and a user entry of a last-level table is for the       *)
(* console below PROC_START_ADDR and for user memory of the owner above.   *)
(* The lemmas say what the operations of VirtualMemory do to the places.   *)

-----------------------------------------------------------------------------
(* Places *)

\* Page tables have levels 0 to 3, user memory is at level 4.
UserLevel == 4
NoLevel   == 5
Level     == 0 .. 5

Path == [0 .. 3 -> Index]

\* The indexes on the way to address va.
PathTo(va) == [level \in 0 .. 3 |-> PAGEINDEX(va, level)]

\* The paths copy_pagetable copies.
LowPaths == {PathTo(va) : va \in 0 .. PROC_START - 1}

\* Page pn is owned by process p.
Owns(pi, p, pn) == pi[pn] = [owner |-> p, refcount |-> 1]

\* Only pages that a process owns have a place.
PlacesOwned(lev, pi) ==
    \A t \in PN : lev[t] # NoLevel => pi[t].refcount = 1 /\ pi[t].owner \in Pid \ {0}

\* The entry `word' at index i of a table t above the last level.
LinkOK(lev, path, pi, t, i, word) ==
    \/ word = ZeroWord
    \/ /\ word = TableEntry(word.pn)
       /\ lev[word.pn] = lev[t] + 1
       /\ path[word.pn] = [path[t] EXCEPT ![lev[t]] = i]
       /\ pi[word.pn] = pi[t]

\* The entry `word' at index i of a last-level table t.
LeafOK(lev, path, pi, t, i, word) ==
    PTE_U \in word.flags =>
        IF [path[t] EXCEPT ![3] = i] \in LowPaths
        THEN word.pn = CONSOLE
        ELSE lev[word.pn] = UserLevel /\ pi[word.pn] = pi[t]

\* The entry of a table of any level.
EntryOK(lev, path, pi, t, i, word) ==
    /\ lev[t] \in 0 .. 2 => LinkOK(lev, path, pi, t, i, word)
    /\ lev[t] = 3 => LeafOK(lev, path, pi, t, i, word)

\* Memory m and pageinfo[] pi agree with the places.
Placed(lev, path, m, pi) ==
    /\ lev \in [PN -> Level]
    /\ path \in [PN -> Path]
    /\ PlacesOwned(lev, pi)
    /\ \A t \in PN, i \in Index : EntryOK(lev, path, pi, t, i, m[t][i])

\* pt is the root of a tree of process p.
Root(lev, pi, pt, p) == lev[pt] = 0 /\ Owns(pi, p, pt)

\* What no process and no handler changes: page 0, kernel_pagetables[] and
\* the owners of the reserved and the kernel's pages.
KernelIntact(m, pi) ==
    /\ m[NULL] = ZeroPage
    /\ \A n \in 0 .. 4 : m[KPT + n] = KernelTable(n)
    /\ \A pn \in RESERVED : pi[pn] = [owner |-> PO_RESERVED, refcount |-> 1]
    /\ \A pn \in KERNEL : pi[pn] = [owner |-> PO_KERNEL, refcount |-> 1]

\* The entries that virtual_memory_lookup reads, level by level.
Entry0(m, pt, va) == m[pt][PAGEINDEX(va, 0)]
Entry1(m, pt, va) == m[Entry0(m, pt, va).pn][PAGEINDEX(va, 1)]
Entry2(m, pt, va) == m[Entry1(m, pt, va).pn][PAGEINDEX(va, 2)]
Entry3(m, pt, va) == m[Entry2(m, pt, va).pn][PAGEINDEX(va, 3)]

\* The tables on the way to va are there.
Present(m, pt, va) ==
    /\ PTE_P \in Entry0(m, pt, va).flags
    /\ PTE_P \in Entry1(m, pt, va).flags
    /\ PTE_P \in Entry2(m, pt, va).flags

-----------------------------------------------------------------------------
(* Addresses and their indexes *)

\* A number is determined by its quotient and its last digit.
LEMMA DigitsDetermine ==
    ASSUME NEW a \in Nat, NEW b \in Nat, NEW n \in Nat \ {0},
           a \div n = b \div n, a % n = b % n
    PROVE  a = b
<1>1. a = (n * (a \div n)) + (a % n)
    OBVIOUS
<1>2. b = (n * (b \div n)) + (b % n)
    OBVIOUS
<1>. QED  BY <1>1, <1>2

\* A number below the base is its last digit.
LEMMA SmallDigit ==
    ASSUME NEW a \in Nat, NEW n \in Nat \ {0}, a < n
    PROVE  a \div n = 0 /\ a % n = a
OBVIOUS

\* The four PAGEINDEXes of an address tell it from every other address.
LEMMA PathInjective ==
    ASSUME NEW va \in VA, NEW vb \in VA, PathTo(va) = PathTo(vb)
    PROVE  va = vb
<1>. DEFINE a1 == Upper(va)  a2 == Upper(a1)  a3 == Upper(a2)
            b1 == Upper(vb)  b2 == Upper(b1)  b3 == Upper(b2)
            n == NPAGETABLEENTRIES
<1>1. n \in Nat \ {0} /\ va \in Nat /\ vb \in Nat
    BY SizeAssumption DEF VA
<1>2. a1 \in Nat /\ a2 \in Nat /\ a3 \in Nat /\ b1 \in Nat /\ b2 \in Nat /\ b3 \in Nat
    BY <1>1, DivType DEF Upper
<1>3. a3 < n /\ b3 < n
    BY BootAssumption
<1>4. \A level \in 0 .. 3 : PAGEINDEX(va, level) = PAGEINDEX(vb, level)
    BY DEF PathTo
<1>5. va % n = vb % n /\ a1 % n = b1 % n /\ a2 % n = b2 % n /\ a3 % n = b3 % n
    BY <1>4 DEF PAGEINDEX
<1>6. a1 = va \div n /\ a2 = a1 \div n /\ a3 = a2 \div n
      /\ b1 = vb \div n /\ b2 = b1 \div n /\ b3 = b2 \div n
    BY DEF Upper
<1>. HIDE DEF a1, a2, a3, b1, b2, b3, n
<1>7. a3 = b3
    BY <1>1, <1>2, <1>3, <1>5, SmallDigit
<1>8. a2 = b2
    <2>1. a2 \div n = b2 \div n
        BY <1>6, <1>7
    <2>. QED  BY <1>1, <1>2, <1>5, <2>1, DigitsDetermine, Zenon
<1>9. a1 = b1
    <2>1. a1 \div n = b1 \div n
        BY <1>6, <1>8
    <2>. QED  BY <1>1, <1>2, <1>5, <2>1, DigitsDetermine, Zenon
<1>10. va \div n = vb \div n
    BY <1>6, <1>9
<1>. QED  BY <1>1, <1>5, <1>10, DigitsDetermine, Zenon

\* Which paths are copied and which are a process's own.
LEMMA PathLow ==
    ASSUME NEW va \in VA
    PROVE  /\ PathTo(va) \in Path
           /\ PathTo(va) \in LowPaths <=> va < PROC_START
<1>1. va \in Nat /\ 0 .. PROC_START - 1 \subseteq VA
    BY SizeAssumption, LayoutTypes DEF VA
<1>2. PathTo(va) \in Path
    BY <1>1, PageIndexType DEF PathTo, Path
<1>3. va < PROC_START => PathTo(va) \in LowPaths
    BY <1>1, LayoutTypes DEF LowPaths
<1>4. ASSUME PathTo(va) \in LowPaths PROVE va < PROC_START
    <2>1. PICK vb \in 0 .. PROC_START - 1 : PathTo(va) = PathTo(vb)
        BY <1>4 DEF LowPaths
    <2>2. va = vb
        BY <1>1, <2>1, PathInjective
    <2>. QED  BY <2>1, <2>2, LayoutTypes
<1>. QED  BY <1>2, <1>3, <1>4

\* A path that agrees with an address on three levels is completed by the last
\* index of the address.
LEMMA PathComplete ==
    ASSUME NEW va \in Nat, NEW q \in Path, q[0] = PAGEINDEX(va, 0),
           q[1] = PAGEINDEX(va, 1), q[2] = PAGEINDEX(va, 2)
    PROVE  [q EXCEPT ![3] = PAGEINDEX(va, 3)] = PathTo(va)
<1>. DEFINE i3 == PAGEINDEX(va, 3)
            full == [q EXCEPT ![3] = i3]
<1>1. i3 \in Index
    BY PageIndexType
<1>. HIDE DEF i3
<1>2. full \in Path /\ full[3] = i3 /\ \A k \in 0 .. 3 : k # 3 => full[k] = q[k]
    BY <1>1 DEF Path
<1>. HIDE DEF full
<1>3. ASSUME NEW k \in 0 .. 3 PROVE full[k] = PAGEINDEX(va, k)
    <2>1. k = 0 \/ k = 1 \/ k = 2 \/ k = 3
        OBVIOUS
    <2>. QED  BY <1>2, <2>1 DEF i3
<1>4. full = PathTo(va)
    BY <1>2, <1>3 DEF Path, PathTo
<1>. QED  BY <1>4 DEF full, i3

\* The part of the address space that is copied lies in one last-level table.
LEMMA LowIndexes ==
    ASSUME NEW va \in Nat, va < PROC_START
    PROVE  /\ PAGEINDEX(va, 0) = 0 /\ PAGEINDEX(va, 1) = 0 /\ PAGEINDEX(va, 2) = 0
           /\ PAGEINDEX(va, 3) = va
<1>. DEFINE n == NPAGETABLEENTRIES
<1>1. n \in Nat \ {0} /\ va < n /\ 0 < n
    BY SizeAssumption, BootAssumption, LayoutTypes
<1>2. va \div n = 0 /\ va % n = va /\ 0 \div n = 0 /\ 0 % n = 0
    BY <1>1, SmallDigit
<1>. QED  BY <1>2 DEF PAGEINDEX, Upper

-----------------------------------------------------------------------------
(* Looking up an address *)

\* An entry above the last level is empty or leads to a table of the next
\* level of the same process.
LEMMA LinkFollowed ==
    ASSUME NEW m \in [PN -> Page], NEW pi, NEW lev, NEW path, Placed(lev, path, m, pi),
           NEW t \in PN, lev[t] \in 0 .. 2, NEW i \in Index, m[t][i] # ZeroWord
    PROVE  LET word == m[t][i]
           IN  /\ word.pn \in PN /\ word = TableEntry(word.pn)
               /\ lev[word.pn] = lev[t] + 1
               /\ path[word.pn] = [path[t] EXCEPT ![lev[t]] = i]
               /\ pi[word.pn] = pi[t]
<1>1. m[t][i].pn \in PN
    BY DEF Page, Word
<1>2. LinkOK(lev, path, pi, t, i, m[t][i])
    BY DEF Placed, EntryOK
<1>. QED  BY <1>1, <1>2 DEF LinkOK

\* Where a lookup that finds something passes: three tables of the owner of
\* the root, each at the place the address says.
LEMMA WalkPlaced ==
    ASSUME NEW m \in [PN -> Page], NEW pi, NEW lev, NEW path, Placed(lev, path, m, pi),
           NEW pt \in PN, lev[pt] = 0, NEW va \in VA,
           Entry0(m, pt, va) # ZeroWord, Entry1(m, pt, va) # ZeroWord,
           Entry2(m, pt, va) # ZeroWord
    PROVE  LET t1 == Entry0(m, pt, va).pn
               t2 == Entry1(m, pt, va).pn
               t3 == Entry2(m, pt, va).pn
           IN  /\ t1 \in PN /\ t2 \in PN /\ t3 \in PN
               /\ lev[t1] = 1 /\ lev[t2] = 2 /\ lev[t3] = 3
               /\ pi[t1] = pi[pt] /\ pi[t2] = pi[pt] /\ pi[t3] = pi[pt]
               /\ [path[t3] EXCEPT ![3] = PAGEINDEX(va, 3)] = PathTo(va)
<1>. DEFINE i0 == PAGEINDEX(va, 0)
            i1 == PAGEINDEX(va, 1)
            i2 == PAGEINDEX(va, 2)
            i3 == PAGEINDEX(va, 3)
            t1 == Entry0(m, pt, va).pn
            t2 == Entry1(m, pt, va).pn
            t3 == Entry2(m, pt, va).pn
<1>1. i0 \in Index /\ i1 \in Index /\ i2 \in Index /\ i3 \in Index
    BY PageIndexType, SizeAssumption DEF VA
<1>2. path \in [PN -> Path]
    BY DEF Placed
<1>3. /\ m[pt][i0] # ZeroWord /\ m[t1][i1] # ZeroWord /\ m[t2][i2] # ZeroWord
      /\ t1 = m[pt][i0].pn /\ t2 = m[t1][i1].pn /\ t3 = m[t2][i2].pn
    BY DEF Entry0, Entry1, Entry2
<1>4. va \in Nat
    BY SizeAssumption DEF VA
<1>. HIDE DEF i0, i1, i2, i3, t1, t2, t3
<1>5. t1 \in PN /\ lev[t1] = 1 /\ pi[t1] = pi[pt] /\ path[t1] = [path[pt] EXCEPT ![0] = i0]
    BY <1>1, <1>3, LinkFollowed, SMTT(60)
<1>6. t2 \in PN /\ lev[t2] = 2 /\ pi[t2] = pi[pt] /\ path[t2] = [path[t1] EXCEPT ![1] = i1]
    BY <1>1, <1>3, <1>5, LinkFollowed, SMTT(60)
<1>7. t3 \in PN /\ lev[t3] = 3 /\ pi[t3] = pi[pt] /\ path[t3] = [path[t2] EXCEPT ![2] = i2]
    <2>5. lev[t2] \in 0 .. 2
        BY <1>6
    <2>1. lev[t2] \in 0 .. 2 /\ m[t2][i2] # ZeroWord /\ t2 \in PN /\ i2 \in Index
        BY <1>1, <1>3, <1>6, <2>5, Zenon
    <2>2. /\ m[t2][i2].pn \in PN /\ lev[m[t2][i2].pn] = lev[t2] + 1
          /\ path[m[t2][i2].pn] = [path[t2] EXCEPT ![lev[t2]] = i2]
          /\ pi[m[t2][i2].pn] = pi[t2]
        BY <2>1, LinkFollowed
    <2>3. t3 \in PN /\ pi[t3] = pi[pt] /\ path[t3] = [path[t2] EXCEPT ![2] = i2]
        BY <1>3, <1>6, <2>2, Zenon
    <2>4. lev[t3] = 3
        <3>1. lev[t3] = lev[t2] + 1
            BY <1>3, <2>2, Zenon
        <3>. QED  BY <1>6, <3>1
    <2>. QED  BY <2>3, <2>4
<1>8. path[t3] \in Path /\ path[t3][0] = i0 /\ path[t3][1] = i1 /\ path[t3][2] = i2
    BY <1>1, <1>2, <1>5, <1>6, <1>7 DEF Path
<1>9. [path[t3] EXCEPT ![3] = i3] = PathTo(va)
    BY <1>4, <1>8, PathComplete DEF i0, i1, i2, i3
<1>. QED  BY <1>5, <1>6, <1>7, <1>9 DEF i3, t1, t2, t3

\* A lookup finds what the four entries grant together, or nothing.
LEMMA LookupReads ==
    ASSUME NEW m, NEW pt, NEW va
    PROVE  LET e0 == Entry0(m, pt, va)
               e1 == Entry1(m, pt, va)
               e2 == Entry2(m, pt, va)
               e3 == Entry3(m, pt, va)
               perm == e0.flags \cap e1.flags \cap e2.flags \cap e3.flags
               vam == virtual_memory_lookup(m, pt, va)
           IN  /\ vam = IF PTE_P \in perm THEN [pn |-> e3.pn, perm |-> perm]
                                           ELSE [pn |-> -1, perm |-> {}]
               /\ vam.perm # {} =>
                    /\ PTE_P \in vam.perm
                    /\ vam.pn = e3.pn
                    /\ vam.perm \subseteq e0.flags /\ vam.perm \subseteq e1.flags
                    /\ vam.perm \subseteq e2.flags /\ vam.perm \subseteq e3.flags
<1>. DEFINE e0 == Entry0(m, pt, va)
            e1 == Entry1(m, pt, va)
            e2 == Entry2(m, pt, va)
            e3 == Entry3(m, pt, va)
            perm == e0.flags \cap e1.flags \cap e2.flags \cap e3.flags
            vam == virtual_memory_lookup(m, pt, va)
<1>1. vam = IF PTE_P \in perm THEN [pn |-> e3.pn, perm |-> perm] ELSE [pn |-> -1, perm |-> {}]
    BY DEF virtual_memory_lookup, Entry0, Entry1, Entry2, Entry3
<1>. HIDE DEF vam
<1>. QED  BY <1>1 DEF vam

\* A user mapping of a process is for the console below PROC_START_ADDR and for
\* user memory of the process above.
LEMMA LookupPlaced ==
    ASSUME NEW m \in [PN -> Page], NEW pi, NEW lev, NEW path, Placed(lev, path, m, pi),
           NEW pt \in PN, lev[pt] = 0, NEW va \in VA,
           PTE_U \in virtual_memory_lookup(m, pt, va).perm
    PROVE  LET vam == virtual_memory_lookup(m, pt, va)
           IN  /\ vam.pn \in PN
               /\ IF va < PROC_START THEN vam.pn = CONSOLE
                  ELSE lev[vam.pn] = UserLevel /\ pi[vam.pn] = pi[pt]
<1>. DEFINE e0 == Entry0(m, pt, va)
            e1 == Entry1(m, pt, va)
            e2 == Entry2(m, pt, va)
            e3 == Entry3(m, pt, va)
            vam == virtual_memory_lookup(m, pt, va)
<1>1. /\ vam.pn = e3.pn
      /\ PTE_U \in e0.flags /\ PTE_U \in e1.flags /\ PTE_U \in e2.flags /\ PTE_U \in e3.flags
    BY LookupReads
<1>2. e0 # ZeroWord /\ e1 # ZeroWord /\ e2 # ZeroWord
    BY <1>1 DEF ZeroWord
<1>3. /\ e2.pn \in PN /\ lev[e2.pn] = 3 /\ pi[e2.pn] = pi[pt]
      /\ [path[e2.pn] EXCEPT ![3] = PAGEINDEX(va, 3)] = PathTo(va)
    BY <1>2, WalkPlaced
<1>4. PAGEINDEX(va, 3) \in Index
    BY PageIndexType, SizeAssumption DEF VA
<1>5. e3 = m[e2.pn][PAGEINDEX(va, 3)]
    BY DEF Entry3
<1>6. e3.pn \in PN
    BY <1>3, <1>4, <1>5 DEF Page, Word
<1>7. LeafOK(lev, path, pi, e2.pn, PAGEINDEX(va, 3), e3)
    BY <1>3, <1>4, <1>5 DEF Placed, EntryOK
<1>8. IF PathTo(va) \in LowPaths THEN e3.pn = CONSOLE
      ELSE lev[e3.pn] = UserLevel /\ pi[e3.pn] = pi[pt]
    BY <1>1, <1>3, <1>7 DEF LeafOK
<1>. QED  BY <1>1, <1>6, <1>8, PathLow

\* kernel_pagetable maps low memory to itself, for users only the console.
LEMMA LookupKernel ==
    ASSUME NEW m, NEW pi, KernelIntact(m, pi), NEW va \in Nat, va < PROC_START
    PROVE  virtual_memory_lookup(m, KPT, va) = [pn |-> va, perm |-> KernelPerm(va)]
<1>. DEFINE e0 == Entry0(m, KPT, va)
            e1 == Entry1(m, KPT, va)
            e2 == Entry2(m, KPT, va)
            e3 == Entry3(m, KPT, va)
<1>1. 0 \in Index /\ va \in Index /\ va \in PN
    BY SizeAssumption, BootAssumption, LayoutTypes, LayoutAssumption DEF Index, PN
<1>2. KPT + 0 = KPT /\ KPT + 0 + 1 = KPT + 1 /\ KPT + 1 + 1 = KPT + 2 /\ KPT + 3 + 0 = KPT + 3
    BY LayoutAssumption
<1>3. /\ KernelTable(0)[0] = TableEntry(KPT + 1)
      /\ KernelTable(1)[0] = TableEntry(KPT + 2)
      /\ KernelTable(2)[0] = TableEntry(KPT + 3)
      /\ KernelTable(3)[va] = [pn |-> va, flags |-> KernelPerm(va)]
    BY <1>1, <1>2 DEF KernelTable, KernelLeaf
<1>4. /\ m[KPT] = KernelTable(0) /\ m[KPT + 1] = KernelTable(1)
      /\ m[KPT + 2] = KernelTable(2) /\ m[KPT + 3] = KernelTable(3)
    BY <1>2 DEF KernelIntact
<1>5. /\ e0 = TableEntry(KPT + 1) /\ e1 = TableEntry(KPT + 2) /\ e2 = TableEntry(KPT + 3)
      /\ e3 = [pn |-> va, flags |-> KernelPerm(va)]
    <2>1. e0 = TableEntry(KPT + 1)
        BY <1>3, <1>4, LowIndexes DEF Entry0
    <2>2. e1 = TableEntry(KPT + 2)
        BY <1>3, <1>4, <2>1, LowIndexes DEF Entry1, TableEntry
    <2>3. e2 = TableEntry(KPT + 3)
        BY <1>3, <1>4, <2>2, LowIndexes DEF Entry2, TableEntry
    <2>4. e3 = [pn |-> va, flags |-> KernelPerm(va)]
        BY <1>3, <1>4, <2>3, LowIndexes DEF Entry3, TableEntry
    <2>. QED  BY <2>1, <2>2, <2>3, <2>4
<1>6. PTE_P \in KernelPerm(va) /\ KernelPerm(va) \subseteq Flags
    BY DEF KernelPerm, RWU, Flags
<1>7. /\ e0.flags = Flags /\ e1.flags = Flags /\ e2.flags = Flags
      /\ e3.flags = KernelPerm(va) /\ e3.pn = va
    BY <1>5 DEF TableEntry, Flags
<1>8. e0.flags \cap e1.flags \cap e2.flags \cap e3.flags = KernelPerm(va)
    BY <1>6, <1>7
<1>. QED  BY <1>6, <1>7, <1>8, LookupReads

\* Page 0 is no page table: nothing can be reached through it.
LEMMA LookupNull ==
    ASSUME NEW m, m[NULL] = ZeroPage, NEW va \in Nat
    PROVE  virtual_memory_lookup(m, NULL, va) = [pn |-> -1, perm |-> {}]
<1>1. m[NULL][PAGEINDEX(va, 0)] = ZeroWord
    BY PageIndexType DEF ZeroPage
<1>. QED  BY <1>1, SMTT(60) DEF virtual_memory_lookup, ZeroWord

-----------------------------------------------------------------------------
(* Building page tables *)

\* What the kernel does for process p: every page in use keeps its owner and
\* its place, and of these pages only page tables of p change.
Built(p, lev, path, pi, m, lev2, path2, pi2, m2) ==
    /\ pi2 \in [PN -> PageInfo] /\ m2 \in [PN -> Page]
    /\ Placed(lev2, path2, m2, pi2)
    /\ \A t \in PN : pi[t].refcount # 0 =>
         /\ pi2[t] = pi[t] /\ lev2[t] = lev[t] /\ path2[t] = path[t]
         /\ pi[t].owner # p \/ lev[t] \notin 0 .. 3 => m2[t] = m[t]

\* Doing nothing is building.
LEMMA BuiltReflexive ==
    ASSUME NEW p, NEW lev, NEW path, NEW pi \in [PN -> PageInfo], NEW m \in [PN -> Page],
           Placed(lev, path, m, pi)
    PROVE  Built(p, lev, path, pi, m, lev, path, pi, m)
BY DEF Built

\* What two levels of lookup_l4pagetable build together.
LEMMA BuiltTransitive ==
    ASSUME NEW p, NEW lev, NEW path, NEW pi, NEW m,
           NEW lev2, NEW path2, NEW pi2, NEW m2,
           NEW lev3, NEW path3, NEW pi3, NEW m3,
           Built(p, lev, path, pi, m, lev2, path2, pi2, m2),
           Built(p, lev2, path2, pi2, m2, lev3, path3, pi3, m3)
    PROVE  Built(p, lev, path, pi, m, lev3, path3, pi3, m3)
<1>1. ASSUME NEW t \in PN, pi[t].refcount # 0
      PROVE  /\ pi3[t] = pi[t] /\ lev3[t] = lev[t] /\ path3[t] = path[t]
             /\ pi[t].owner # p \/ lev[t] \notin 0 .. 3 => m3[t] = m[t]
    BY <1>1 DEF Built
<1>. QED  BY <1>1 DEF Built

\* Pages in use keep owner and place.
Kept(lev, path, pi, lev2, path2, pi2) ==
    \A t \in PN : pi[t].refcount # 0 =>
        pi2[t] = pi[t] /\ lev2[t] = lev[t] /\ path2[t] = path[t]

\* Entries stay right when free pages get places.
LEMMA EntriesKept ==
    ASSUME NEW lev, NEW path, NEW pi, NEW m \in [PN -> Page], Placed(lev, path, m, pi),
           NEW lev2, NEW path2, NEW pi2,
           Kept(lev, path, pi, lev2, path2, pi2),
           NEW t \in PN, pi[t].refcount # 0, NEW i \in Index
    PROVE  EntryOK(lev2, path2, pi2, t, i, m[t][i])
<1>. DEFINE word == m[t][i]
<1>1. word.pn \in PN
    BY DEF Page, Word
<1>2. EntryOK(lev, path, pi, t, i, word) /\ PlacesOwned(lev, pi)
    BY DEF Placed
<1>. HIDE DEF word
<1>3. lev2[t] = lev[t] /\ path2[t] = path[t] /\ pi2[t] = pi[t]
    BY DEF Kept
<1>4. lev[word.pn] # NoLevel =>
        lev2[word.pn] = lev[word.pn] /\ path2[word.pn] = path[word.pn]
        /\ pi2[word.pn] = pi[word.pn]
    BY <1>1, <1>2 DEF PlacesOwned, Kept
<1>5. ASSUME lev[t] \in 0 .. 2 PROVE LinkOK(lev2, path2, pi2, t, i, word)
    <2>1. LinkOK(lev, path, pi, t, i, word)
        BY <1>2, <1>5 DEF EntryOK
    <2>2. lev[t] + 1 # NoLevel
        BY <1>5 DEF NoLevel
    <2>. QED  BY <1>3, <1>4, <2>1, <2>2 DEF LinkOK
<1>6. ASSUME lev[t] = 3 PROVE LeafOK(lev2, path2, pi2, t, i, word)
    <2>1. LeafOK(lev, path, pi, t, i, word)
        BY <1>2, <1>6 DEF EntryOK
    <2>. QED  BY <1>3, <1>4, <2>1 DEF LeafOK, UserLevel, NoLevel
<1>. QED  BY <1>3, <1>5, <1>6 DEF EntryOK, word

\* New places and changed entries that are right make a right memory.
LEMMA PlacedAgain ==
    ASSUME NEW lev, NEW path, NEW pi, NEW m \in [PN -> Page], Placed(lev, path, m, pi),
           NEW lev2 \in [PN -> Level], NEW path2 \in [PN -> Path], NEW pi2, NEW m2,
           PlacesOwned(lev2, pi2),
           Kept(lev, path, pi, lev2, path2, pi2),
           \A t \in PN, i \in Index :
                \/ pi[t].refcount # 0 /\ m2[t][i] = m[t][i]
                \/ EntryOK(lev2, path2, pi2, t, i, m2[t][i])
    PROVE  Placed(lev2, path2, m2, pi2)
<1>1. ASSUME NEW t \in PN, NEW i \in Index
      PROVE  EntryOK(lev2, path2, pi2, t, i, m2[t][i])
    <2>1. CASE pi[t].refcount # 0 /\ m2[t][i] = m[t][i]
        <3>1. EntryOK(lev2, path2, pi2, t, i, m[t][i])
            BY <2>1, EntriesKept
        <3>. QED  BY <2>1, <3>1
    <2>2. CASE EntryOK(lev2, path2, pi2, t, i, m2[t][i])
        BY <2>2
    <2>. QED  BY <2>1, <2>2
<1>. QED  BY <1>1 DEF Placed

\* A free page becomes the table at index i of table t.
LEMMA LinkPlaced ==
    ASSUME NEW p \in Pid \ {0}, NEW lev, NEW path, NEW pi \in [PN -> PageInfo],
           NEW m \in [PN -> Page], Placed(lev, path, m, pi),
           NEW t \in PN, lev[t] \in 0 .. 2, Owns(pi, p, t), NEW i \in Index,
           NEW n \in PN, pi[n].refcount = 0,
           NEW m2 \in [PN -> Page], m2[n] = ZeroPage, m2[t] = [m[t] EXCEPT ![i] = TableEntry(n)],
           \A u \in PN : u # n /\ u # t => m2[u] = m[u]
    PROVE  Built(p, lev, path, pi, m,
                 [lev EXCEPT ![n] = lev[t] + 1],
                 [path EXCEPT ![n] = [path[t] EXCEPT ![lev[t]] = i]],
                 Assign(pi, n, p), m2)
<1>. DEFINE lev2 == [lev EXCEPT ![n] = lev[t] + 1]
            path2 == [path EXCEPT ![n] = [path[t] EXCEPT ![lev[t]] = i]]
            pi2 == Assign(pi, n, p)
<1>1. lev \in [PN -> Level] /\ path \in [PN -> Path] /\ PlacesOwned(lev, pi)
    BY DEF Placed
<1>2. n # t
    BY DEF Owns
<1>3. /\ lev2 \in [PN -> Level] /\ lev2[n] = lev[t] + 1
      /\ \A u \in PN : u # n => lev2[u] = lev[u]
    BY <1>1 DEF Level
<1>4. /\ path2 \in [PN -> Path] /\ path2[n] = [path[t] EXCEPT ![lev[t]] = i]
      /\ \A u \in PN : u # n => path2[u] = path[u]
    BY <1>1 DEF Path
<1>5. /\ pi2 \in [PN -> PageInfo] /\ pi2[n] = [owner |-> p, refcount |-> 1]
      /\ \A u \in PN : u # n => pi2[u] = pi[u]
    BY DEF Assign, PageInfo, Owner
<1>. HIDE DEF lev2, path2, pi2
<1>6. Kept(lev, path, pi, lev2, path2, pi2)
    BY <1>3, <1>4, <1>5 DEF Kept
<1>7. PlacesOwned(lev2, pi2)
    <2>1. ASSUME NEW u \in PN, lev2[u] # NoLevel
          PROVE  pi2[u].refcount = 1 /\ pi2[u].owner \in Pid \ {0}
        <3>1. CASE u = n
            BY <1>5, <3>1
        <3>2. CASE u # n
            BY <1>1, <1>3, <1>5, <2>1, <3>2 DEF PlacesOwned
        <3>. QED  BY <3>1, <3>2
    <2>. QED  BY <2>1 DEF PlacesOwned
<1>8. pi[t] = [owner |-> p, refcount |-> 1] /\ pi[t].refcount # 0
    BY DEF Owns
<1>9. ASSUME NEW u \in PN, NEW j \in Index
      PROVE  \/ pi[u].refcount # 0 /\ m2[u][j] = m[u][j]
             \/ EntryOK(lev2, path2, pi2, u, j, m2[u][j])
    <2>1. CASE u = n
        <3>1. m2[u][j] = ZeroWord
            BY <2>1 DEF ZeroPage
        <3>2. LinkOK(lev2, path2, pi2, u, j, m2[u][j])
            BY <3>1 DEF LinkOK
        <3>3. LeafOK(lev2, path2, pi2, u, j, m2[u][j])
            BY <3>1 DEF LeafOK, ZeroWord
        <3>. QED  BY <3>2, <3>3 DEF EntryOK
    <2>2. CASE u = t /\ j = i
        <3>1. m[t] \in Page
            OBVIOUS
        <3>2. m2[u][j] = TableEntry(n) /\ m2[u][j].pn = n
            BY <2>2, <3>1 DEF Page, TableEntry
        <3>3. lev2[u] = lev[t] /\ path2[u] = path[t] /\ pi2[u] = pi2[n]
            BY <1>2, <1>3, <1>4, <1>5, <1>8, <2>2
        <3>4. LinkOK(lev2, path2, pi2, u, j, m2[u][j])
            BY <1>3, <1>4, <2>2, <3>2, <3>3 DEF LinkOK
        <3>. QED  BY <3>3, <3>4 DEF EntryOK
    <2>3. CASE u = t /\ j # i
        <3>1. m[t] \in Page
            OBVIOUS
        <3>. QED  BY <1>8, <2>3, <3>1 DEF Page
    <2>4. CASE u # n /\ u # t
        <3>1. CASE pi[u].refcount # 0
            BY <2>4, <3>1
        <3>2. CASE pi[u].refcount = 0
            <4>1. lev2[u] = NoLevel
                BY <1>1, <1>3, <2>4, <3>2 DEF PlacesOwned
            <4>. QED  BY <4>1 DEF EntryOK, NoLevel
        <3>. QED  BY <3>1, <3>2
    <2>. QED  BY <2>1, <2>2, <2>3, <2>4
<1>10. Placed(lev2, path2, m2, pi2)
    BY <1>3, <1>4, <1>6, <1>7, <1>9, PlacedAgain
<1>11. ASSUME NEW u \in PN, pi[u].refcount # 0
       PROVE  /\ pi2[u] = pi[u] /\ lev2[u] = lev[u] /\ path2[u] = path[u]
              /\ pi[u].owner # p \/ lev[u] \notin 0 .. 3 => m2[u] = m[u]
    <2>1. pi2[u] = pi[u] /\ lev2[u] = lev[u] /\ path2[u] = path[u] /\ u # n
        BY <1>6, <1>11 DEF Kept
    <2>2. u = t => pi[u].owner = p /\ lev[u] \in 0 .. 3
        BY <1>8
    <2>. QED  BY <2>1, <2>2
<1>12. Built(p, lev, path, pi, m, lev2, path2, pi2, m2)
    BY <1>5, <1>10, <1>11 DEF Built
<1>. QED  BY <1>12 DEF lev2, path2, pi2

-----------------------------------------------------------------------------
(* What building leaves alone: where the addresses of all processes lead.  *)

NoMapping == [pn |-> -1, perm |-> {}]

\* An entry that is not present hides the address.
LEMMA LookupNone ==
    ASSUME NEW m, NEW pt, NEW va,
           \/ PTE_P \notin Entry0(m, pt, va).flags \/ PTE_P \notin Entry1(m, pt, va).flags
           \/ PTE_P \notin Entry2(m, pt, va).flags \/ PTE_P \notin Entry3(m, pt, va).flags
    PROVE  virtual_memory_lookup(m, pt, va) = NoMapping
BY LookupReads DEF NoMapping

\* The links of all tables, in one formula.
LEMMA LinksLead ==
    ASSUME NEW m \in [PN -> Page], NEW pi, NEW lev, NEW path, Placed(lev, path, m, pi)
    PROVE  \A u \in PN, j \in Index : lev[u] \in 0 .. 2 /\ m[u][j] # ZeroWord =>
              m[u][j].pn \in PN /\ lev[m[u][j].pn] = lev[u] + 1
<1>. SUFFICES ASSUME NEW u \in PN, NEW j \in Index, lev[u] \in 0 .. 2, m[u][j] # ZeroWord
              PROVE  m[u][j].pn \in PN /\ lev[m[u][j].pn] = lev[u] + 1
    OBVIOUS
<1>1. LinkOK(lev, path, pi, u, j, m[u][j])
    BY DEF Placed, EntryOK
<1>2. m[u][j].pn \in PN
    BY DEF Page, Word
<1>. QED  BY <1>1, <1>2 DEF LinkOK

\* An address leads where it led when present entries are kept, entries that
\* were not present lead at most to empty tables, and the last entry is kept.
LEMMA WalkSame ==
    ASSUME NEW m \in [PN -> Page], NEW pi, NEW lev, NEW path, Placed(lev, path, m, pi),
           NEW m2, NEW r \in PN, lev[r] = 0, NEW va \in VA,
           \A u \in PN, j \in Index : lev[u] \in 0 .. 2 =>
                \/ m2[u][j] = m[u][j]
                \/ PTE_P \notin m[u][j].flags /\ m2[m2[u][j].pn] = ZeroPage,
           \A u \in PN : lev[u] = 3 /\ pi[u] = pi[r]
                           /\ [path[u] EXCEPT ![3] = PAGEINDEX(va, 3)] = PathTo(va)
                         => m2[u][PAGEINDEX(va, 3)] = m[u][PAGEINDEX(va, 3)]
    PROVE  virtual_memory_lookup(m2, r, va) = virtual_memory_lookup(m, r, va)
<1>. DEFINE e0 == Entry0(m, r, va)  e1 == Entry1(m, r, va)
            e2 == Entry2(m, r, va)  e3 == Entry3(m, r, va)
            f0 == Entry0(m2, r, va)  f1 == Entry1(m2, r, va)
            f2 == Entry2(m2, r, va)  f3 == Entry3(m2, r, va)
            i0 == PAGEINDEX(va, 0)  i1 == PAGEINDEX(va, 1)
            i2 == PAGEINDEX(va, 2)  i3 == PAGEINDEX(va, 3)
<1>1. i0 \in Index /\ i1 \in Index /\ i2 \in Index /\ i3 \in Index
    BY PageIndexType, SizeAssumption DEF VA
<1>2. /\ e0 = m[r][i0] /\ e1 = m[e0.pn][i1] /\ e2 = m[e1.pn][i2] /\ e3 = m[e2.pn][i3]
      /\ f0 = m2[r][i0] /\ f1 = m2[f0.pn][i1] /\ f2 = m2[f1.pn][i2] /\ f3 = m2[f2.pn][i3]
    BY DEF Entry0, Entry1, Entry2, Entry3
<1>3. \A j \in Index : PTE_P \notin ZeroPage[j].flags
    BY DEF ZeroPage, ZeroWord
<1>4. /\ PTE_P \notin e0.flags \/ PTE_P \notin e1.flags \/ PTE_P \notin e2.flags
           \/ PTE_P \notin e3.flags => virtual_memory_lookup(m, r, va) = NoMapping
      /\ PTE_P \notin f0.flags \/ PTE_P \notin f1.flags \/ PTE_P \notin f2.flags
           \/ PTE_P \notin f3.flags => virtual_memory_lookup(m2, r, va) = NoMapping
    BY LookupNone
<1>5. e0 # ZeroWord /\ e1 # ZeroWord /\ e2 # ZeroWord =>
            /\ e2.pn \in PN /\ lev[e2.pn] = 3 /\ pi[e2.pn] = pi[r]
            /\ [path[e2.pn] EXCEPT ![3] = i3] = PathTo(va)
    BY WalkPlaced
<1>6. ZeroWord.flags = {}
    BY DEF ZeroWord
<1>. HIDE DEF e0, e1, e2, e3, f0, f1, f2, f3, i0, i1, i2, i3
<1>7. \A u \in PN, j \in Index : lev[u] \in 0 .. 2 /\ m[u][j] # ZeroWord =>
          m[u][j].pn \in PN /\ lev[m[u][j].pn] = lev[u] + 1
    BY LinksLead
<1>8. ASSUME NEW u \in PN, lev[u] \in 0 .. 2, NEW j \in Index, NEW k \in Index
      PROVE  /\ m2[u][j] = m[u][j]
                \/ (PTE_P \notin m[u][j].flags /\ PTE_P \notin m2[m2[u][j].pn][k].flags)
             /\ m[u][j] # ZeroWord => m[u][j].pn \in PN /\ lev[m[u][j].pn] = lev[u] + 1
    <2>1. m[u][j] # ZeroWord => m[u][j].pn \in PN /\ lev[m[u][j].pn] = lev[u] + 1
        BY <1>8, <1>7, Zenon
    <2>2. \/ m2[u][j] = m[u][j]
          \/ PTE_P \notin m[u][j].flags /\ m2[m2[u][j].pn] = ZeroPage
        BY <1>8
    <2>3. m2[m2[u][j].pn] = ZeroPage => PTE_P \notin m2[m2[u][j].pn][k].flags
        BY <1>3
    <2>. QED  BY <2>1, <2>2, <2>3
<1>9. lev[r] \in 0 .. 2 /\ lev[r] + 1 = 1
    OBVIOUS
<1>10. /\ f0 = e0 \/ (PTE_P \notin e0.flags /\ PTE_P \notin f1.flags)
       /\ e0 # ZeroWord => e0.pn \in PN /\ lev[e0.pn] = 1
    <2>1. /\ m2[r][i0] = m[r][i0]
             \/ (PTE_P \notin m[r][i0].flags /\ PTE_P \notin m2[m2[r][i0].pn][i1].flags)
          /\ m[r][i0] # ZeroWord => m[r][i0].pn \in PN /\ lev[m[r][i0].pn] = lev[r] + 1
        BY <1>1, <1>8, <1>9, Zenon
    <2>. QED  BY <1>2, <1>9, <2>1, Zenon
<1>11. e0 # ZeroWord /\ f0 = e0 =>
        /\ f1 = e1 \/ (PTE_P \notin e1.flags /\ PTE_P \notin f2.flags)
        /\ e1 # ZeroWord => e1.pn \in PN /\ lev[e1.pn] = 2
    <2>. SUFFICES ASSUME e0 # ZeroWord, f0 = e0
                  PROVE  /\ f1 = e1 \/ (PTE_P \notin e1.flags /\ PTE_P \notin f2.flags)
                         /\ e1 # ZeroWord => e1.pn \in PN /\ lev[e1.pn] = 2
        OBVIOUS
    <2>1. e0.pn \in PN /\ lev[e0.pn] \in 0 .. 2 /\ lev[e0.pn] + 1 = 2
        BY <1>10
    <2>2. /\ m2[e0.pn][i1] = m[e0.pn][i1]
             \/ (PTE_P \notin m[e0.pn][i1].flags /\ PTE_P \notin m2[m2[e0.pn][i1].pn][i2].flags)
          /\ m[e0.pn][i1] # ZeroWord =>
               m[e0.pn][i1].pn \in PN /\ lev[m[e0.pn][i1].pn] = lev[e0.pn] + 1
        BY <1>1, <1>8, <2>1, Zenon
    <2>. QED  BY <1>2, <2>1, <2>2, Zenon
<1>12. e0 # ZeroWord /\ e1 # ZeroWord /\ f0 = e0 /\ f1 = e1 =>
        f2 = e2 \/ (PTE_P \notin e2.flags /\ PTE_P \notin f3.flags)
    <2>. SUFFICES ASSUME e0 # ZeroWord, e1 # ZeroWord, f0 = e0, f1 = e1
                  PROVE  f2 = e2 \/ (PTE_P \notin e2.flags /\ PTE_P \notin f3.flags)
        OBVIOUS
    <2>1. e1.pn \in PN /\ lev[e1.pn] \in 0 .. 2
        BY <1>11
    <2>2. \/ m2[e1.pn][i2] = m[e1.pn][i2]
          \/ PTE_P \notin m[e1.pn][i2].flags /\ PTE_P \notin m2[m2[e1.pn][i2].pn][i3].flags
        BY <1>1, <1>8, <2>1, Zenon
    <2>. QED  BY <1>2, <2>2, Zenon
<1>13. e0 # ZeroWord /\ e1 # ZeroWord /\ e2 # ZeroWord /\ f0 = e0 /\ f1 = e1 /\ f2 = e2 =>
        f3 = e3
    <2>1. \A u \in PN : lev[u] = 3 /\ pi[u] = pi[r] /\ [path[u] EXCEPT ![3] = i3] = PathTo(va)
                         => m2[u][i3] = m[u][i3]
        BY DEF i3
    <2>. QED  BY <1>2, <1>5, <2>1, ZenonT(60)
<1>14. CASE f0 = e0 /\ f1 = e1 /\ f2 = e2 /\ f3 = e3
    <2>1. virtual_memory_lookup(m, r, va) =
            LET perm == e0.flags \cap e1.flags \cap e2.flags \cap e3.flags
            IN  IF PTE_P \in perm THEN [pn |-> e3.pn, perm |-> perm]
                                  ELSE [pn |-> -1, perm |-> {}]
        BY LookupReads DEF e0, e1, e2, e3
    <2>2. virtual_memory_lookup(m2, r, va) =
            LET perm == f0.flags \cap f1.flags \cap f2.flags \cap f3.flags
            IN  IF PTE_P \in perm THEN [pn |-> f3.pn, perm |-> perm]
                                  ELSE [pn |-> -1, perm |-> {}]
        BY LookupReads DEF f0, f1, f2, f3
    <2>. QED  BY <1>14, <2>1, <2>2
<1>15. CASE ~(f0 = e0 /\ f1 = e1 /\ f2 = e2 /\ f3 = e3)
    <2>1. /\ PTE_P \in e0.flags => e0 # ZeroWord
          /\ PTE_P \in e1.flags => e1 # ZeroWord
          /\ PTE_P \in e2.flags => e2 # ZeroWord
        BY <1>6
    <2>2. ASSUME PTE_P \in e0.flags, PTE_P \in e1.flags, PTE_P \in e2.flags PROVE FALSE
        <3>1. f0 = e0 /\ e0 # ZeroWord /\ e1 # ZeroWord /\ e2 # ZeroWord
            BY <1>10, <2>1, <2>2
        <3>2. f1 = e1
            BY <1>11, <2>2, <3>1
        <3>3. f2 = e2
            BY <1>12, <2>2, <3>1, <3>2
        <3>. QED  BY <1>13, <1>15, <3>1, <3>2, <3>3
    <2>3. ASSUME PTE_P \in f0.flags, PTE_P \in f1.flags, PTE_P \in f2.flags, PTE_P \in f3.flags
          PROVE  FALSE
        <3>1. f0 = e0
            BY <1>10, <2>3
        <3>2. f1 = e1
            BY <1>11, <2>1, <2>3, <3>1
        <3>3. f2 = e2
            BY <1>12, <2>1, <2>3, <3>1, <3>2
        <3>. QED  BY <1>13, <1>15, <2>1, <2>3, <3>1, <3>2, <3>3
    <2>. QED  BY <1>4, <2>2, <2>3
<1>. QED  BY <1>14, <1>15

\* Every root leads in m2 where it led in m.
SeesSame(lev, m, m2) ==
    \A r \in PN, v \in VA : lev[r] = 0 =>
        virtual_memory_lookup(m2, r, v) = virtual_memory_lookup(m, r, v)

\* What is not a page table has no say in where addresses lead.
LEMMA SameTables ==
    ASSUME NEW m \in [PN -> Page], NEW pi, NEW lev, NEW path, Placed(lev, path, m, pi),
           NEW m2, \A u \in PN : lev[u] \in 0 .. 3 => m2[u] = m[u]
    PROVE  SeesSame(lev, m, m2)
<1>. SUFFICES ASSUME NEW r \in PN, NEW va \in VA, lev[r] = 0
              PROVE  virtual_memory_lookup(m2, r, va) = virtual_memory_lookup(m, r, va)
    BY DEF SeesSame
<1>1. \A u \in PN : lev[u] \in 0 .. 2 \/ lev[u] = 3 => m2[u] = m[u]
    OBVIOUS
<1>. QED  BY <1>1, WalkSame

\* An empty table changes nothing.
LEMMA LinkSees ==
    ASSUME NEW m \in [PN -> Page], NEW pi, NEW lev, NEW path, Placed(lev, path, m, pi),
           NEW t \in PN, lev[t] \in 0 .. 2, NEW i \in Index, PTE_P \notin m[t][i].flags,
           NEW n \in PN, pi[n].refcount = 0,
           NEW m2, m2[n] = ZeroPage, m2[t] = [m[t] EXCEPT ![i] = TableEntry(n)],
           \A u \in PN : u # n /\ u # t => m2[u] = m[u]
    PROVE  SeesSame(lev, m, m2)
<1>. SUFFICES ASSUME NEW r \in PN, NEW va \in VA, lev[r] = 0
              PROVE  virtual_memory_lookup(m2, r, va) = virtual_memory_lookup(m, r, va)
    BY DEF SeesSame
<1>1. lev[n] = NoLevel
    BY DEF Placed, PlacesOwned
<1>2. ASSUME NEW u \in PN, NEW j \in Index, lev[u] \in 0 .. 2
      PROVE  \/ m2[u][j] = m[u][j]
             \/ PTE_P \notin m[u][j].flags /\ m2[m2[u][j].pn] = ZeroPage
    <2>1. u # n
        BY <1>1, <1>2 DEF NoLevel
    <2>2. CASE u = t /\ j = i
        <3>1. m2[u][j] = TableEntry(n)
            BY <2>2 DEF Page
        <3>. QED  BY <2>2, <3>1 DEF TableEntry
    <2>3. CASE u = t /\ j # i
        BY <2>3 DEF Page
    <2>4. CASE u # t
        BY <2>1, <2>4
    <2>. QED  BY <2>2, <2>3, <2>4
<1>3. ASSUME NEW u \in PN, lev[u] = 3 PROVE m2[u] = m[u]
    BY <1>1, <1>3 DEF NoLevel
<1>. QED  BY <1>2, <1>3, WalkSame

\* An entry of a last-level table changes one address of the process.
LEMMA LeafSees ==
    ASSUME NEW m \in [PN -> Page], NEW pi, NEW lev, NEW path, Placed(lev, path, m, pi),
           NEW t \in PN, lev[t] = 3, NEW va \in VA,
           [path[t] EXCEPT ![3] = PAGEINDEX(va, 3)] = PathTo(va),
           NEW m2, \A u \in PN : u # t => m2[u] = m[u],
           \A j \in Index : j # PAGEINDEX(va, 3) => m2[t][j] = m[t][j],
           NEW r \in PN, lev[r] = 0, NEW v \in VA, pi[r] # pi[t] \/ v # va
    PROVE  virtual_memory_lookup(m2, r, v) = virtual_memory_lookup(m, r, v)
<1>. DEFINE i == PAGEINDEX(va, 3)
<1>1. i \in Index /\ PAGEINDEX(v, 3) \in Index
    BY PageIndexType, SizeAssumption DEF VA
<1>2. /\ \A u \in PN : u # t => m2[u] = m[u]
      /\ \A j \in Index : j # i => m2[t][j] = m[t][j]
    OBVIOUS
<1>3. \A u \in PN, j \in Index : lev[u] \in 0 .. 2 => m2[u][j] = m[u][j]
    BY <1>2
<1>4. ASSUME NEW u \in PN, lev[u] = 3, pi[u] = pi[r],
             [path[u] EXCEPT ![3] = PAGEINDEX(v, 3)] = PathTo(v)
      PROVE  m2[u][PAGEINDEX(v, 3)] = m[u][PAGEINDEX(v, 3)]
    <2>1. CASE u = t /\ PAGEINDEX(v, 3) = i
        <3>1. PathTo(v) = PathTo(va)
            BY <1>4, <2>1
        <3>2. v = va
            BY <3>1, PathInjective
        <3>. QED  BY <1>4, <2>1, <3>2
    <2>2. CASE ~(u = t /\ PAGEINDEX(v, 3) = i)
        BY <1>1, <1>2, <2>2
    <2>. QED  BY <2>1, <2>2
<1>. QED  BY <1>3, <1>4, WalkSame

-----------------------------------------------------------------------------
(* How often pages are referenced.                                         *)

\* Entry i of page table t is for page n, and users may pass through it.
Refers(lev, m, t, i, n) ==
    lev[t] \in 0 .. 3 /\ PTE_U \in m[t][i].flags /\ m[t][i].pn = n

\* Every page of a process is a page table or user memory; all but the roots
\* and the user memory S, which is not mapped yet, are referenced once.
Counted(S, lev, pi, m) ==
    /\ \A n \in PN : pi[n].refcount # 0 /\ pi[n].owner \in Pid \ {0} => lev[n] # NoLevel
    /\ \A n \in PN : lev[n] \in 1 .. 4 /\ n \notin S =>
         \E t \in PN, i \in Index : Refers(lev, m, t, i, n)
    /\ \A n \in PN, t, u \in PN, i, j \in Index :
         lev[n] \in 1 .. 4 /\ Refers(lev, m, t, i, n) /\ Refers(lev, m, u, j, n)
            => t = u /\ i = j
    /\ \A n \in S : lev[n] = UserLevel
                    /\ \A t \in PN, i \in Index : ~Refers(lev, m, t, i, n)
    /\ \A t \in PN, i \in Index : lev[t] = 3 /\ PTE_U \in m[t][i].flags => PTE_P \in m[t][i].flags

\* Nothing refers to a free page.
LEMMA FreeUnreferenced ==
    ASSUME NEW m \in [PN -> Page], NEW pi, NEW lev, NEW path, Placed(lev, path, m, pi),
           pi[CONSOLE].refcount # 0, NEW n \in PN, pi[n].refcount = 0,
           NEW t \in PN, NEW i \in Index
    PROVE  ~Refers(lev, m, t, i, n)
<1>. SUFFICES ASSUME Refers(lev, m, t, i, n) PROVE FALSE
    OBVIOUS
<1>1. lev[n] = NoLevel
    BY DEF Placed, PlacesOwned
<1>2. m[t][i].pn = n /\ PTE_U \in m[t][i].flags /\ lev[t] \in 0 .. 3 /\ m[t][i] # ZeroWord
    BY DEF Refers, ZeroWord
<1>3. CASE lev[t] \in 0 .. 2
    <2>1. \A u \in PN, j \in Index : lev[u] \in 0 .. 2 /\ m[u][j] # ZeroWord =>
            m[u][j].pn \in PN /\ lev[m[u][j].pn] = lev[u] + 1
        BY LinksLead
    <2>2. lev[n] = lev[t] + 1
        BY <1>2, <1>3, <2>1
    <2>. QED  BY <1>1, <1>3, <2>2 DEF NoLevel
<1>4. CASE lev[t] = 3
    <2>1. LeafOK(lev, path, pi, t, i, m[t][i])
        BY <1>4 DEF Placed, EntryOK
    <2>2. n = CONSOLE \/ lev[n] = UserLevel
        BY <1>2, <2>1 DEF LeafOK
    <2>. QED  BY <1>1, <2>2 DEF NoLevel, UserLevel
<1>. QED  BY <1>2, <1>3, <1>4

\* A new table is referenced where it is linked in, and nothing else changes.
LEMMA LinkCounted ==
    ASSUME NEW p \in Pid \ {0}, NEW m \in [PN -> Page], NEW pi \in [PN -> PageInfo],
           NEW lev, NEW path, Placed(lev, path, m, pi), pi[CONSOLE].refcount # 0,
           NEW t \in PN, lev[t] \in 0 .. 2, NEW i \in Index, PTE_P \notin m[t][i].flags,
           NEW n \in PN, pi[n].refcount = 0,
           NEW m2, m2[n] = ZeroPage, m2[t] = [m[t] EXCEPT ![i] = TableEntry(n)],
           \A u \in PN : u # n /\ u # t => m2[u] = m[u],
           NEW S \in SUBSET PN, Counted(S, lev, pi, m)
    PROVE  Counted(S, [lev EXCEPT ![n] = lev[t] + 1], Assign(pi, n, p), m2)
<1>. DEFINE lev2 == [lev EXCEPT ![n] = lev[t] + 1]
            pi2 == Assign(pi, n, p)
<1>1. lev \in [PN -> Level] /\ lev[n] = NoLevel
    BY DEF Placed, PlacesOwned
<1>2. n # t
    BY <1>1 DEF NoLevel
<1>3. lev2[n] = lev[t] + 1 /\ \A u \in PN : u # n => lev2[u] = lev[u]
    BY <1>1
<1>4. \A u \in PN : u # n => pi2[u] = pi[u]
    BY DEF Assign
<1>5. m[t][i] = ZeroWord
    <2>1. LinkOK(lev, path, pi, t, i, m[t][i])
        BY DEF Placed, EntryOK
    <2>. QED  BY <2>1 DEF LinkOK, TableEntry
<1>. HIDE DEF lev2, pi2
<1>6. ASSUME NEW u \in PN, NEW j \in Index, NEW x
      PROVE  Refers(lev2, m2, u, j, x) <=> Refers(lev, m, u, j, x) \/ (u = t /\ j = i /\ x = n)
    <2>1. CASE u = n
        <3>1. m2[u][j] = ZeroWord
            BY <2>1 DEF ZeroPage
        <3>. QED  BY <1>1, <1>2, <2>1, <3>1 DEF Refers, ZeroWord, NoLevel
    <2>2. CASE u = t /\ j = i
        <3>1. m2[u][j] = TableEntry(n)
            BY <2>2 DEF Page
        <3>2. lev2[u] \in 0 .. 3
            BY <1>2, <1>3, <2>2
        <3>. QED  BY <1>5, <2>2, <3>1, <3>2 DEF Refers, ZeroWord, TableEntry
    <2>3. CASE u # n /\ ~(u = t /\ j = i)
        <3>1. m2[u][j] = m[u][j]
            BY <2>3 DEF Page
        <3>2. lev2[u] = lev[u]
            BY <1>3, <2>3
        <3>. QED  BY <2>3, <3>1, <3>2 DEF Refers
    <2>. QED  BY <2>1, <2>2, <2>3
<1>7. \A u \in PN, j \in Index : ~Refers(lev, m, u, j, n)
    BY FreeUnreferenced
<1>8. \A x \in PN : pi2[x].refcount # 0 /\ pi2[x].owner \in Pid \ {0} => lev2[x] # NoLevel
    BY <1>3, <1>4 DEF Counted, NoLevel
<1>9. ASSUME NEW x \in PN, lev2[x] \in 1 .. 4, x \notin S
      PROVE  \E u \in PN, j \in Index : Refers(lev2, m2, u, j, x)
    <2>1. CASE x = n
        BY <1>6, <2>1
    <2>2. CASE x # n
        <3>1. PICK u \in PN, j \in Index : Refers(lev, m, u, j, x)
            BY <1>3, <1>9, <2>2 DEF Counted
        <3>. QED  BY <1>6, <3>1
    <2>. QED  BY <2>1, <2>2
<1>10. ASSUME NEW x \in PN, NEW u \in PN, NEW v \in PN, NEW j \in Index, NEW k \in Index,
              lev2[x] \in 1 .. 4, Refers(lev2, m2, u, j, x), Refers(lev2, m2, v, k, x)
       PROVE  u = v /\ j = k
    <2>1. CASE x = n
        BY <1>6, <1>7, <1>10, <2>1
    <2>2. CASE x # n
        <3>1. lev[x] \in 1 .. 4 /\ Refers(lev, m, u, j, x) /\ Refers(lev, m, v, k, x)
            BY <1>3, <1>6, <1>10, <2>2
        <3>. QED  BY <3>1 DEF Counted
    <2>. QED  BY <2>1, <2>2
<1>11. ASSUME NEW x \in S
       PROVE  lev2[x] = UserLevel /\ \A u \in PN, j \in Index : ~Refers(lev2, m2, u, j, x)
    <2>1. x \in PN /\ lev[x] = UserLevel /\ \A u \in PN, j \in Index : ~Refers(lev, m, u, j, x)
        BY DEF Counted
    <2>2. x # n
        BY <1>1, <2>1 DEF UserLevel, NoLevel
    <2>. QED  BY <1>3, <1>6, <2>1, <2>2
<1>12. ASSUME NEW u \in PN, NEW j \in Index, lev2[u] = 3, PTE_U \in m2[u][j].flags
       PROVE  PTE_P \in m2[u][j].flags
    <2>1. CASE u = n
        BY <1>12, <2>1 DEF ZeroPage, ZeroWord
    <2>2. CASE u # n
        <3>1. lev[u] = 3 /\ u # t
            BY <1>3, <1>12, <2>2
        <3>. QED  BY <1>12, <2>2, <3>1 DEF Counted
    <2>. QED  BY <2>1, <2>2
<1>13. Counted(S, lev2, pi2, m2)
    BY <1>8, <1>9, <1>10, <1>11, <1>12 DEF Counted
<1>. QED  BY <1>13 DEF lev2, pi2

\* An entry for user memory that was not mapped yet is its reference.
LEMMA LeafCounted ==
    ASSUME NEW m \in [PN -> Page], NEW pi, NEW lev, NEW path, Placed(lev, path, m, pi),
           NEW t \in PN, lev[t] = 3, NEW i \in Index, PTE_P \notin m[t][i].flags,
           NEW entry, PTE_P \in entry.flags,
           NEW S \in SUBSET PN, Counted(S, lev, pi, m),
           PTE_U \in entry.flags => entry.pn \in S \/ lev[entry.pn] = NoLevel
    PROVE  Counted(IF PTE_U \in entry.flags THEN S \ {entry.pn} ELSE S, lev, pi,
                   [m EXCEPT ![t][i] = entry])
<1>. DEFINE m2 == [m EXCEPT ![t][i] = entry]
            S2 == IF PTE_U \in entry.flags THEN S \ {entry.pn} ELSE S
<1>1. /\ m2[t][i] = entry
      /\ \A u \in PN, j \in Index : ~(u = t /\ j = i) => m2[u][j] = m[u][j]
    BY DEF Page
<1>2. PTE_U \notin m[t][i].flags
    BY DEF Counted
<1>. HIDE DEF m2
<1>3. ASSUME NEW u \in PN, NEW j \in Index, NEW x
      PROVE  Refers(lev, m2, u, j, x) <=>
                \/ Refers(lev, m, u, j, x)
                \/ u = t /\ j = i /\ PTE_U \in entry.flags /\ x = entry.pn
    <2>1. CASE u = t /\ j = i
        BY <1>1, <1>2, <2>1 DEF Refers
    <2>2. CASE ~(u = t /\ j = i)
        BY <1>1, <2>2 DEF Refers
    <2>. QED  BY <2>1, <2>2
<1>4. ASSUME NEW x \in PN, lev[x] \in 1 .. 4, x \notin S2
      PROVE  \E u \in PN, j \in Index : Refers(lev, m2, u, j, x)
    <2>1. CASE x \in S
        BY <1>3, <1>4, <2>1
    <2>2. CASE x \notin S
        <3>1. PICK u \in PN, j \in Index : Refers(lev, m, u, j, x)
            BY <1>4, <2>2 DEF Counted
        <3>. QED  BY <1>3, <3>1
    <2>. QED  BY <2>1, <2>2
<1>5. ASSUME NEW x \in PN, NEW u \in PN, NEW v \in PN, NEW j \in Index, NEW k \in Index,
             lev[x] \in 1 .. 4, Refers(lev, m2, u, j, x), Refers(lev, m2, v, k, x)
      PROVE  u = v /\ j = k
    <2>1. CASE PTE_U \in entry.flags /\ x = entry.pn
        <3>1. x \in S
            BY <1>5, <2>1 DEF NoLevel
        <3>2. \A w \in PN, l \in Index : ~Refers(lev, m, w, l, x)
            BY <3>1 DEF Counted
        <3>. QED  BY <1>3, <1>5, <3>2
    <2>2. CASE ~(PTE_U \in entry.flags /\ x = entry.pn)
        <3>1. Refers(lev, m, u, j, x) /\ Refers(lev, m, v, k, x)
            BY <1>3, <1>5, <2>2
        <3>. QED  BY <1>5, <3>1 DEF Counted
    <2>. QED  BY <2>1, <2>2
<1>6. ASSUME NEW x \in S2
      PROVE  lev[x] = UserLevel /\ \A u \in PN, j \in Index : ~Refers(lev, m2, u, j, x)
    <2>1. x \in S /\ ~(PTE_U \in entry.flags /\ x = entry.pn)
        OBVIOUS
    <2>2. lev[x] = UserLevel /\ \A u \in PN, j \in Index : ~Refers(lev, m, u, j, x)
        BY <2>1 DEF Counted
    <2>. QED  BY <1>3, <2>1, <2>2
<1>7. ASSUME NEW u \in PN, NEW j \in Index, lev[u] = 3, PTE_U \in m2[u][j].flags
      PROVE  PTE_P \in m2[u][j].flags
    <2>1. CASE u = t /\ j = i
        BY <1>1, <2>1
    <2>2. CASE ~(u = t /\ j = i)
        BY <1>1, <1>7, <2>2 DEF Counted
    <2>. QED  BY <2>1, <2>2
<1>8. \A x \in PN : pi[x].refcount # 0 /\ pi[x].owner \in Pid \ {0} => lev[x] # NoLevel
    BY DEF Counted
<1>. HIDE DEF S2
<1>9. Counted(S2, lev, pi, m2)
    BY <1>4, <1>5, <1>6, <1>7, <1>8 DEF Counted
<1>. QED  BY <1>9 DEF m2, S2

\* A free page that becomes user memory is not mapped yet; a cleared one that
\* becomes a root needs no reference.
LEMMA GiveCounted ==
    ASSUME NEW p \in Pid \ {0}, NEW m \in [PN -> Page], NEW pi \in [PN -> PageInfo],
           NEW lev, NEW path, Placed(lev, path, m, pi), pi[CONSOLE].refcount # 0,
           NEW n \in PN, pi[n].refcount = 0, NEW l \in {0, UserLevel},
           NEW page, l = 0 => page = ZeroPage, NEW S \in SUBSET PN, Counted(S, lev, pi, m)
    PROVE  Counted(IF l = 0 THEN S ELSE S \cup {n}, [lev EXCEPT ![n] = l], Assign(pi, n, p),
                   [m EXCEPT ![n] = page])
<1>. DEFINE lev2 == [lev EXCEPT ![n] = l]
            pi2 == Assign(pi, n, p)
            m2 == [m EXCEPT ![n] = page]
            S2 == IF l = 0 THEN S ELSE S \cup {n}
<1>1. lev \in [PN -> Level] /\ lev[n] = NoLevel /\ l \in {0, 4}
    BY DEF Placed, PlacesOwned, UserLevel
<1>2. /\ lev2[n] = l /\ \A u \in PN : u # n => lev2[u] = lev[u]
      /\ m2[n] = page /\ \A u \in PN : u # n => m2[u] = m[u]
      /\ \A u \in PN : u # n => pi2[u] = pi[u]
    BY <1>1 DEF Assign
<1>. HIDE DEF lev2, pi2, m2
<1>3. ASSUME NEW u \in PN, NEW j \in Index, NEW x
      PROVE  Refers(lev2, m2, u, j, x) <=> Refers(lev, m, u, j, x)
    <2>1. CASE u = n
        <3>1. ~Refers(lev, m, u, j, x)
            BY <1>1, <2>1 DEF Refers, NoLevel
        <3>2. CASE l = 0
            <4>1. m2[u][j] = ZeroWord
                BY <1>2, <2>1, <3>2 DEF ZeroPage
            <4>. QED  BY <3>1, <4>1 DEF Refers, ZeroWord
        <3>3. CASE l = 4
            BY <1>2, <2>1, <3>1, <3>3 DEF Refers
        <3>. QED  BY <1>1, <3>2, <3>3
    <2>2. CASE u # n
        BY <1>2, <2>2 DEF Refers
    <2>. QED  BY <2>1, <2>2
<1>4. \A u \in PN, j \in Index : ~Refers(lev, m, u, j, n)
    BY FreeUnreferenced
<1>5. \A x \in PN : pi2[x].refcount # 0 /\ pi2[x].owner \in Pid \ {0} => lev2[x] # NoLevel
    BY <1>1, <1>2 DEF Counted, NoLevel
<1>6. ASSUME NEW x \in PN, lev2[x] \in 1 .. 4, x \notin S2
      PROVE  \E u \in PN, j \in Index : Refers(lev2, m2, u, j, x)
    <2>1. x # n /\ x \notin S
        BY <1>1, <1>2, <1>6
    <2>2. PICK u \in PN, j \in Index : Refers(lev, m, u, j, x)
        BY <1>2, <1>6, <2>1 DEF Counted
    <2>. QED  BY <1>3, <2>2
<1>7. ASSUME NEW x \in PN, NEW u \in PN, NEW v \in PN, NEW j \in Index, NEW k \in Index,
             lev2[x] \in 1 .. 4, Refers(lev2, m2, u, j, x), Refers(lev2, m2, v, k, x)
      PROVE  u = v /\ j = k
    <2>1. x # n /\ Refers(lev, m, u, j, x) /\ Refers(lev, m, v, k, x)
        BY <1>3, <1>4, <1>7
    <2>. QED  BY <1>2, <1>7, <2>1 DEF Counted
<1>8. ASSUME NEW x \in S2
      PROVE  lev2[x] = UserLevel /\ \A u \in PN, j \in Index : ~Refers(lev2, m2, u, j, x)
    <2>1. CASE x = n
        <3>1. l = UserLevel
            <4>1. l = 0 => x \in S /\ lev[x] = UserLevel
                BY DEF Counted
            <4>. QED  BY <1>1, <2>1, <4>1 DEF UserLevel, NoLevel
        <3>. QED  BY <1>2, <1>3, <1>4, <2>1, <3>1
    <2>2. CASE x # n
        <3>1. x \in S
            BY <2>2
        <3>2. lev[x] = UserLevel /\ \A u \in PN, j \in Index : ~Refers(lev, m, u, j, x)
            BY <3>1 DEF Counted
        <3>. QED  BY <1>2, <1>3, <2>2, <3>1, <3>2
    <2>. QED  BY <2>1, <2>2
<1>9. ASSUME NEW u \in PN, NEW j \in Index, lev2[u] = 3, PTE_U \in m2[u][j].flags
      PROVE  PTE_P \in m2[u][j].flags
    <2>1. u # n
        BY <1>1, <1>2, <1>9
    <2>. QED  BY <1>2, <1>9, <2>1 DEF Counted
<1>. HIDE DEF S2
<1>10. Counted(S2, lev2, pi2, m2)
    BY <1>5, <1>6, <1>7, <1>8, <1>9 DEF Counted
<1>. QED  BY <1>10 DEF lev2, pi2, m2, S2

\* The kernel's pages are among the existing ones.
LEMMA KernelPages ==
    /\ NULL \in PN /\ CONSOLE \in PN
    /\ KERNEL \subseteq PN /\ RESERVED \subseteq PN
    /\ \A n \in 0 .. 4 : KPT + n \in KERNEL
    /\ NULL \notin KERNEL /\ CONSOLE \notin KERNEL
    /\ PROC_START > 0
<1>1. 0 .. PROC_START - 1 \subseteq PN
    BY LayoutTypes, LayoutAssumption, SizeAssumption DEF PN
<1>2. \A n \in 0 .. 4 : KPT + n \in KPT .. KPT + 4
    BY LayoutAssumption
<1>3. 0 \in 0 .. PROC_START - 1
    BY LayoutAssumption DEF NULL
<1>4. PROC_START > 0
    BY <1>3, LayoutTypes
<1>. QED  BY <1>1, <1>2, <1>4, LayoutAssumption

\* What linking in tables leaves as it is.
Extends(lev, pi, m, lev2, pi2, m2) ==
    /\ SeesSame(lev, m, m2)
    /\ \A t \in PN : pi[t].refcount = 0 /\ lev2[t] # NoLevel => lev2[t] \in 1 .. 3
    /\ pi[CONSOLE].refcount # 0 =>
         \A S \in SUBSET PN : Counted(S, lev, pi, m) => Counted(S, lev2, pi2, m2)

\* Doing nothing leaves everything.
LEMMA ExtendsReflexive ==
    ASSUME NEW lev, NEW path, NEW pi, NEW m, Placed(lev, path, m, pi)
    PROVE  Extends(lev, pi, m, lev, pi, m)
BY DEF Extends, SeesSame, Placed, PlacesOwned

\* Two levels of lookup_l4pagetable together leave it as well.
LEMMA ExtendsTransitive ==
    ASSUME NEW p, NEW lev, NEW path, NEW pi, NEW m, NEW lev2, NEW path2, NEW pi2, NEW m2,
           NEW lev3, NEW pi3, NEW m3, Placed(lev, path, m, pi),
           Built(p, lev, path, pi, m, lev2, path2, pi2, m2),
           Extends(lev, pi, m, lev2, pi2, m2), Extends(lev2, pi2, m2, lev3, pi3, m3),
           \A t \in PN : pi2[t].refcount # 0 => lev3[t] = lev2[t]
    PROVE  Extends(lev, pi, m, lev3, pi3, m3)
<1>1. \A t \in PN : lev[t] # NoLevel => pi[t].refcount # 0 /\ lev2[t] = lev[t]
    BY DEF Placed, PlacesOwned, Built
<1>2. SeesSame(lev, m, m3)
    BY <1>1 DEF Extends, SeesSame, NoLevel
<1>3. ASSUME NEW t \in PN, pi[t].refcount = 0, lev3[t] # NoLevel PROVE lev3[t] \in 1 .. 3
    <2>1. CASE pi2[t].refcount = 0
        BY <1>3, <2>1 DEF Extends
    <2>2. CASE pi2[t].refcount # 0
        BY <1>3, <2>2 DEF Extends
    <2>. QED  BY <2>1, <2>2
<1>4. pi[CONSOLE].refcount # 0 => pi2[CONSOLE].refcount # 0
    BY KernelPages DEF Built
<1>. QED  BY <1>2, <1>3, <1>4 DEF Extends

\* What pagetable_alloc returns: a free page, cleared, or NULL and no change.
FreshTable(pi, m, owner, new) ==
    /\ new.pn = FreeAddr(pi) /\ new.pn \in PN
    /\ new.pn = NULL => new.pageinfo = pi /\ new.mem = m
    /\ new.pn # NULL => /\ pi[new.pn].refcount = 0
                        /\ new.pageinfo = Assign(pi, new.pn, owner)
                        /\ new.mem = [m EXCEPT ![new.pn] = ZeroPage]

\* pagetable_alloc returns a free page, cleared, or NULL and changes nothing.
LEMMA PagetableAllocFresh ==
    ASSUME NEW pi \in [PN -> PageInfo], NEW m \in [PN -> Page], NEW owner
    PROVE  FreshTable(pi, m, owner, pagetable_alloc(pi, m, owner))
<1>1. FreeAddr(pi) \in PN /\ (FreeAddr(pi) # NULL => pi[FreeAddr(pi)].refcount = 0)
    BY FreeAddrType DEF IsFree
<1>. QED  BY <1>1 DEF FreshTable, pagetable_alloc, Cleared, get_free_addr, Give

\* The table a walk of lookup_l4pagetable has reached: at the given level of
\* process p's tree, on the path to va.
Reached(w, lev, path, p, level, va) ==
    w.res = "ok" => /\ lev[w.pt] = level
                    /\ Owns(w.pageinfo, p, w.pt)
                    /\ \A k \in 0 .. 3 : k < level => path[w.pt][k] = PAGEINDEX(va, k)

\* What one level of lookup_l4pagetable does: the table it comes to is the one
\* the entry named or a new one, and it writes to the table it was in only.
Descended(p, lev, path, walk, w, level, va) ==
    \E lev2 \in [PN -> Level], path2 \in [PN -> Path] :
        /\ Built(p, lev, path, walk.pageinfo, walk.mem, lev2, path2, w.pageinfo, w.mem)
        /\ Extends(lev, walk.pageinfo, walk.mem, lev2, w.pageinfo, w.mem)
        /\ Reached(w, lev2, path2, p, level + 1, va)
        /\ w.res = "ok" => /\ walk.res = "ok"
                           /\ w.mem[walk.pt][PAGEINDEX(va, level)] = TableEntry(w.pt)
        /\ \A t \in PN : walk.pageinfo[t].refcount # 0 /\ t # walk.pt
                           => w.mem[t] = walk.mem[t]

\* One iteration of the loop of lookup_l4pagetable keeps to the process's tree.
LEMMA DescendPlaced ==
    ASSUME NEW p \in Pid \ {0}, NEW lev, NEW path, NEW walk \in Walk,
           Placed(lev, path, walk.mem, walk.pageinfo),
           NEW va \in Nat, NEW level \in 0 .. 2, Reached(walk, lev, path, p, level, va),
           NEW perm, PTE_P \in perm, NEW allocator
    PROVE  Descended(p, lev, path, walk, Descend(walk, va, level, perm, p, allocator), level, va)
<1>. DEFINE i   == PAGEINDEX(va, level)
            pi  == walk.pageinfo
            m   == walk.mem
            t   == walk.pt
            pe  == m[t][i]
            new == pagetable_alloc(pi, m, p)
            w   == Descend(walk, va, level, perm, p, allocator)
<1>1. i \in Index /\ pi \in [PN -> PageInfo] /\ m \in [PN -> Page] /\ t \in PN
    BY PageIndexType DEF Walk
<1>2. lev \in [PN -> Level] /\ path \in [PN -> Path]
    BY DEF Placed
<1>3. Built(p, lev, path, pi, m, lev, path, pi, m)
    BY <1>1, BuiltReflexive
<1>8. Extends(lev, pi, m, lev, pi, m)
    BY ExtendsReflexive
<1>4. CASE w.pageinfo = pi /\ w.mem = m /\ w.res # "ok"
    <2>. HIDE DEF pi, m, w, t
    <2>1. Reached(w, lev, path, p, level + 1, va)
        BY <1>4 DEF Reached
    <2>. QED  BY <1>2, <1>3, <1>4, <1>8, <2>1 DEF pi, m, w, t, Descended
<1>5. CASE walk.res = "ok" /\ PTE_P \in pe.flags /\ w = [walk EXCEPT !.pt = pe.pn]
           /\ perm \cap {PTE_W, PTE_U} \subseteq pe.flags
    <2>1. lev[t] = level /\ Owns(pi, p, t)
          /\ \A k \in 0 .. 3 : k < level => path[t][k] = PAGEINDEX(va, k)
        BY <1>5 DEF Reached
    <2>2. pe # ZeroWord
        BY <1>5 DEF ZeroWord
    <2>3. /\ pe.pn \in PN /\ pe = TableEntry(pe.pn) /\ lev[pe.pn] = level + 1
          /\ path[pe.pn] = [path[t] EXCEPT ![level] = i] /\ pi[pe.pn] = pi[t]
        BY <1>1, <2>1, <2>2, LinkFollowed
    <2>4. w.pageinfo = pi /\ w.mem = m /\ w.pt = pe.pn /\ w.res = "ok"
        BY <1>5 DEF Walk
    <2>5. \A k \in 0 .. 3 : k < level + 1 => path[pe.pn][k] = PAGEINDEX(va, k)
        BY <1>1, <1>2, <2>1, <2>3 DEF Path
    <2>6. w.mem[t][i] = TableEntry(w.pt) /\ TableEntry(w.pt) = pe
        BY <2>3, <2>4
    <2>. HIDE DEF pi, m, w, t, pe, i
    <2>7. Reached(w, lev, path, p, level + 1, va)
        BY <2>1, <2>3, <2>4, <2>5 DEF Reached, Owns
    <2>. QED  BY <1>2, <1>3, <1>5, <1>8, <2>4, <2>6, <2>7 DEF pi, m, w, t, i, Descended
<1>6. CASE walk.res = "ok" /\ PTE_P \notin pe.flags /\ new.pn # NULL /\ w = Link(walk, i, new)
    <2>1. lev[t] = level /\ Owns(pi, p, t)
          /\ \A k \in 0 .. 3 : k < level => path[t][k] = PAGEINDEX(va, k)
        BY <1>6 DEF Reached
    <2>2. /\ new.pn \in PN /\ pi[new.pn].refcount = 0
          /\ new.pageinfo = Assign(pi, new.pn, p) /\ new.mem = [m EXCEPT ![new.pn] = ZeroPage]
        BY <1>1, <1>6, PagetableAllocFresh DEF FreshTable
    <2>3. /\ w.pageinfo = Assign(pi, new.pn, p) /\ w.pt = new.pn /\ w.res = "ok"
          /\ w.mem = [[m EXCEPT ![new.pn] = ZeroPage]
                        EXCEPT ![t][i] = TableEntry(new.pn), ![new.pn] = ZeroPage]
        BY <1>6, <2>2 DEF Link
    <2>. DEFINE n == new.pn
                lev2 == [lev EXCEPT ![n] = lev[t] + 1]
                path2 == [path EXCEPT ![n] = [path[t] EXCEPT ![lev[t]] = i]]
    <2>. HIDE DEF pi, m, w, t, pe, i, new, n
    <2>4. n \in PN /\ n # t /\ pi[n].refcount = 0
        BY <2>1, <2>2 DEF n, Owns
    <2>5. /\ w.mem \in [PN -> Page] /\ w.mem[n] = ZeroPage
          /\ w.mem[t] = [m[t] EXCEPT ![i] = TableEntry(n)]
          /\ \A u \in PN : u # n /\ u # t => w.mem[u] = m[u]
        <3>1. TableEntry(n) \in Word /\ ZeroPage \in Page
            BY <2>4, TableEntryType, ZeroPageType
        <3>2. w.mem = [[m EXCEPT ![n] = ZeroPage] EXCEPT ![t][i] = TableEntry(n), ![n] = ZeroPage]
            BY <2>3 DEF n
        <3>3. m[t] \in Page /\ [m[t] EXCEPT ![i] = TableEntry(n)] \in Page
            BY <1>1, <3>1 DEF Page
        <3>. QED  BY <1>1, <2>4, <3>1, <3>2, <3>3
    <2>6. lev[t] \in 0 .. 2
        BY <2>1
    <2>7. Built(p, lev, path, pi, m, lev2, path2, Assign(pi, n, p), w.mem)
        BY <1>1, <2>1, <2>4, <2>5, <2>6, LinkPlaced DEF pi, m
    <2>8. lev2 \in [PN -> Level] /\ path2 \in [PN -> Path]
        BY <2>7 DEF Built, Placed
    <2>15. Extends(lev, pi, m, lev2, Assign(pi, n, p), w.mem)
        <3>1. PTE_P \notin m[t][i].flags
            BY <1>6 DEF pe
        <3>5. Placed(lev, path, m, pi)
            BY DEF pi, m
        <3>2. SeesSame(lev, m, w.mem)
            BY <1>1, <2>4, <2>5, <2>6, <3>1, <3>5, LinkSees, SMTT(60)
        <3>3. \A S \in SUBSET PN : pi[CONSOLE].refcount # 0 /\ Counted(S, lev, pi, m)
                => Counted(S, lev2, Assign(pi, n, p), w.mem)
            BY <1>1, <2>4, <2>5, <2>6, <3>1, LinkCounted DEF pi, m
        <3>4. \A u \in PN : pi[u].refcount = 0 /\ lev2[u] # NoLevel => lev2[u] \in 1 .. 3
            BY <1>2, <2>6 DEF Placed, PlacesOwned, pi
        <3>. QED  BY <3>2, <3>3, <3>4 DEF Extends
    <2>9. lev2[n] = level + 1 /\ path2[n] = [path[t] EXCEPT ![level] = i]
        BY <1>2, <2>1, <2>4
    <2>10. Owns(w.pageinfo, p, n) /\ w.pt = n /\ w.pageinfo = Assign(pi, n, p)
        BY <1>1, <2>3, <2>4 DEF n, Owns, Assign
    <2>11. \A k \in 0 .. 3 : k < level + 1 => path2[n][k] = PAGEINDEX(va, k)
        BY <1>1, <1>2, <2>1, <2>9 DEF Path, i
    <2>. HIDE DEF lev2, path2
    <2>12. Reached(w, lev2, path2, p, level + 1, va)
        BY <2>9, <2>10, <2>11 DEF Reached
    <2>13. w.mem[t][i] = TableEntry(w.pt)
        BY <1>1, <2>5, <2>10 DEF Page
    <2>14. \A u \in PN : pi[u].refcount # 0 /\ u # t => w.mem[u] = m[u]
        BY <2>4, <2>5
    <2>. QED  BY <1>6, <2>7, <2>8, <2>10, <2>12, <2>13, <2>14, <2>15
        DEF pi, m, t, i, w, Descended
<1>7. \/ w.pageinfo = pi /\ w.mem = m /\ w.res # "ok"
      \/ walk.res = "ok" /\ PTE_P \in pe.flags /\ w = [walk EXCEPT !.pt = pe.pn]
         /\ perm \cap {PTE_W, PTE_U} \subseteq pe.flags
      \/ walk.res = "ok" /\ PTE_P \notin pe.flags /\ new.pn # NULL /\ w = Link(walk, i, new)
    BY DEF Descend, Link, Walk
<1>. QED  BY <1>4, <1>5, <1>6, <1>7

\* Writing an entry for a page of the kernel's choice into a last-level table.
LEMMA LeafPlaced ==
    ASSUME NEW p, NEW lev, NEW path, NEW pi \in [PN -> PageInfo], NEW m \in [PN -> Page],
           Placed(lev, path, m, pi),
           NEW t \in PN, lev[t] = 3, Owns(pi, p, t), NEW i \in Index, NEW entry \in Word,
           LeafOK(lev, path, pi, t, i, entry)
    PROVE  Built(p, lev, path, pi, m, lev, path, pi, [m EXCEPT ![t][i] = entry])
<1>. DEFINE m2 == [m EXCEPT ![t][i] = entry]
<1>1. /\ m2 \in [PN -> Page] /\ m2[t][i] = entry
      /\ \A j \in Index : j # i => m2[t][j] = m[t][j]
      /\ \A u \in PN : u # t => m2[u] = m[u]
    BY DEF Page
<1>. HIDE DEF m2
<1>2. lev \in [PN -> Level] /\ path \in [PN -> Path] /\ PlacesOwned(lev, pi)
    BY DEF Placed
<1>3. ASSUME NEW u \in PN, NEW j \in Index
      PROVE  EntryOK(lev, path, pi, u, j, m2[u][j])
    <2>1. CASE u = t /\ j = i
        BY <1>1, <2>1 DEF EntryOK
    <2>2. CASE ~(u = t /\ j = i)
        <3>1. m2[u][j] = m[u][j]
            BY <1>1, <2>2
        <3>. QED  BY <3>1 DEF Placed
    <2>. QED  BY <2>1, <2>2
<1>4. Placed(lev, path, m2, pi)
    BY <1>2, <1>3 DEF Placed
<1>5. ASSUME NEW u \in PN, pi[u].owner # p \/ lev[u] \notin 0 .. 3
      PROVE  m2[u] = m[u]
    <2>1. u # t
        BY <1>5 DEF Owns
    <2>. QED  BY <1>1, <2>1
<1>6. Built(p, lev, path, pi, m, lev, path, pi, m2)
    BY <1>1, <1>4, <1>5 DEF Built
<1>. QED  BY <1>6 DEF m2

\* What virtual_memory_map may map for a process: the console low in its address
\* space and user memory of its own above, or what users cannot reach.
MayMap(p, lev, pi, va, pa, perm) ==
    PTE_U \in perm => IF va < PROC_START THEN pa = CONSOLE
                                         ELSE lev[pa] = UserLevel /\ Owns(pi, p, pa)

\* The references after virtual_memory_map: the new pages are tables, referenced
\* once, and the page that was mapped at a free address has got its reference.
MapCounts(lev, pi, m, pt, va, pa, perm, map, lev2) ==
    /\ \A t \in PN : pi[t].refcount = 0 /\ lev2[t] # NoLevel => lev2[t] \in 1 .. 3
    /\ pi[CONSOLE].refcount # 0 =>
         \A S \in SUBSET PN : Counted(S, lev, pi, m) =>
            /\ map.res # "ok" => Counted(S, lev2, map.pageinfo, map.mem)
            /\ /\ map.res = "ok"
               /\ virtual_memory_lookup(m, pt, va) = NoMapping
               /\ PTE_U \in perm => pa \in S \/ (lev[pa] = NoLevel /\ pi[pa].refcount # 0)
               => Counted(IF PTE_U \in perm THEN S \ {pa} ELSE S, lev2, map.pageinfo, map.mem)

\* All addresses lead where they led, but for the one that was mapped.
MapSees(p, lev, pi, m, va, map) ==
    \A r \in PN, v \in VA : lev[r] = 0 /\ (~Owns(pi, p, r) \/ v # va \/ map.res # "ok") =>
        virtual_memory_lookup(map.mem, r, v) = virtual_memory_lookup(m, r, v)

\* What virtual_memory_map does for process p: it builds p's tree, and if it
\* succeeds a lookup finds what was mapped.
MapBuilds(p, lev, path, pi, m, pt, va, pa, perm, map) ==
    /\ \E lev2 \in [PN -> Level], path2 \in [PN -> Path] :
         /\ Built(p, lev, path, pi, m, lev2, path2, map.pageinfo, map.mem)
         /\ MapCounts(lev, pi, m, pt, va, pa, perm, map, lev2)
    /\ MapSees(p, lev, pi, m, va, map)
    /\ map.res = "ok" => virtual_memory_lookup(map.mem, pt, va) = [pn |-> pa, perm |-> perm]

\* virtual_memory_map for process p builds only p's page tables, whether it
\* succeeds or not; when it does, the address is mapped as asked.
LEMMA MapPlaced ==
    ASSUME NEW p \in Pid \ {0}, NEW lev, NEW path, NEW pi \in [PN -> PageInfo],
           NEW m \in [PN -> Page], Placed(lev, path, m, pi),
           NEW pt \in PN, Root(lev, pi, pt, p), NEW va \in VA, NEW pa \in PN,
           NEW perm \in SUBSET Flags, PTE_P \in perm, MayMap(p, lev, pi, va, pa, perm),
           NEW allocator
    PROVE  MapBuilds(p, lev, path, pi, m, pt, va, pa, perm,
                     virtual_memory_map(pi, m, pt, va, pa, perm, p, allocator))
<1>. DEFINE w0 == [pageinfo |-> pi, mem |-> m, pt |-> pt, res |-> "ok"]
            w1 == Descend(w0, va, 0, perm, p, allocator)
            w2 == Descend(w1, va, 1, perm, p, allocator)
            w3 == Descend(w2, va, 2, perm, p, allocator)
            i0 == PAGEINDEX(va, 0)
            i1 == PAGEINDEX(va, 1)
            i2 == PAGEINDEX(va, 2)
            i3 == PAGEINDEX(va, 3)
            entry == [pn |-> pa, flags |-> perm]
            map == virtual_memory_map(pi, m, pt, va, pa, perm, p, allocator)
<1>. SUFFICES /\ \E lev2 \in [PN -> Level], path2 \in [PN -> Path] :
                    /\ Built(p, lev, path, pi, m, lev2, path2, map.pageinfo, map.mem)
                    /\ MapCounts(lev, pi, m, pt, va, pa, perm, map, lev2)
              /\ MapSees(p, lev, pi, m, va, map)
              /\ map.res = "ok" =>
                    virtual_memory_lookup(map.mem, pt, va) = [pn |-> pa, perm |-> perm]
    BY DEF MapBuilds
<1>1. va \in Nat /\ p \in Owner /\ i0 \in Index /\ i1 \in Index /\ i2 \in Index /\ i3 \in Index
    BY PageIndexType, SizeAssumption DEF VA, Owner
<1>2. w0 \in Walk /\ Reached(w0, lev, path, p, 0, va)
    BY DEF Walk, Reached, Root
<1>3. w0.pageinfo = pi /\ w0.mem = m /\ w0.pt = pt
    OBVIOUS
<1>. HIDE DEF w0
<1>4. w1 \in Walk /\ Grown(w0.pageinfo, w1.pageinfo, {p})
    BY <1>1, <1>2, DescendType
<1>5. PICK lev1 \in [PN -> Level], path1 \in [PN -> Path] :
        /\ Built(p, lev, path, pi, m, lev1, path1, w1.pageinfo, w1.mem)
        /\ Extends(lev, pi, m, lev1, w1.pageinfo, w1.mem)
        /\ Reached(w1, lev1, path1, p, 1, va)
        /\ w1.res = "ok" => w1.mem[pt][i0] = TableEntry(w1.pt)
    <2>1. Descended(p, lev, path, w0, w1, 0, va)
        <3>1. Placed(lev, path, w0.mem, w0.pageinfo) /\ 0 \in 0 .. 2
            BY <1>3
        <3>. QED  BY <1>1, <1>2, <3>1, DescendPlaced, Zenon
    <2>. HIDE DEF w1
    <2>. QED  BY <1>3, <2>1 DEF Descended
<1>6. Placed(lev1, path1, w1.mem, w1.pageinfo)
    BY <1>5 DEF Built
<1>. HIDE DEF w1
<1>7. w2 \in Walk /\ Grown(w1.pageinfo, w2.pageinfo, {p})
    BY <1>1, <1>4, DescendType
<1>8. PICK lev2 \in [PN -> Level], path2 \in [PN -> Path] :
        /\ Built(p, lev1, path1, w1.pageinfo, w1.mem, lev2, path2, w2.pageinfo, w2.mem)
        /\ Extends(lev1, w1.pageinfo, w1.mem, lev2, w2.pageinfo, w2.mem)
        /\ Reached(w2, lev2, path2, p, 2, va)
        /\ w2.res = "ok" => w1.res = "ok" /\ w2.mem[w1.pt][i1] = TableEntry(w2.pt)
        /\ \A t \in PN : w1.pageinfo[t].refcount # 0 /\ t # w1.pt => w2.mem[t] = w1.mem[t]
    <2>1. Descended(p, lev1, path1, w1, w2, 1, va)
        <3>1. 1 \in 0 .. 2
            OBVIOUS
        <3>. QED  BY <1>1, <1>4, <1>5, <1>6, <3>1, DescendPlaced, Zenon
    <2>. HIDE DEF w2
    <2>. QED  BY <2>1 DEF Descended
<1>9. Placed(lev2, path2, w2.mem, w2.pageinfo)
    BY <1>8 DEF Built
<1>. HIDE DEF w2
<1>10. w3 \in Walk
    BY <1>1, <1>7, DescendType
<1>11. PICK lev3 \in [PN -> Level], path3 \in [PN -> Path] :
        /\ Built(p, lev2, path2, w2.pageinfo, w2.mem, lev3, path3, w3.pageinfo, w3.mem)
        /\ Extends(lev2, w2.pageinfo, w2.mem, lev3, w3.pageinfo, w3.mem)
        /\ Reached(w3, lev3, path3, p, 3, va)
        /\ w3.res = "ok" => w2.res = "ok" /\ w3.mem[w2.pt][i2] = TableEntry(w3.pt)
        /\ \A t \in PN : w2.pageinfo[t].refcount # 0 /\ t # w2.pt => w3.mem[t] = w2.mem[t]
    <2>1. Descended(p, lev2, path2, w2, w3, 2, va)
        <3>1. 2 \in 0 .. 2
            OBVIOUS
        <3>. QED  BY <1>1, <1>7, <1>8, <1>9, <3>1, DescendPlaced, Zenon
    <2>. HIDE DEF w3
    <2>. QED  BY <2>1 DEF Descended
<1>12. Built(p, lev, path, pi, m, lev3, path3, w3.pageinfo, w3.mem)
    <2>1. Built(p, lev, path, pi, m, lev2, path2, w2.pageinfo, w2.mem)
        BY <1>5, <1>8, BuiltTransitive
    <2>. QED  BY <1>11, <2>1, BuiltTransitive
<1>13. Placed(lev3, path3, w3.mem, w3.pageinfo)
    BY <1>11 DEF Built
<1>18. Extends(lev, pi, m, lev3, w3.pageinfo, w3.mem)
    <2>1. /\ \A t \in PN : w1.pageinfo[t].refcount # 0 => lev2[t] = lev1[t]
          /\ \A t \in PN : w2.pageinfo[t].refcount # 0 => lev3[t] = lev2[t]
        BY <1>8, <1>11 DEF Built
    <2>2. Extends(lev, pi, m, lev2, w2.pageinfo, w2.mem)
        BY <1>5, <1>8, <2>1, ExtendsTransitive
    <2>3. Built(p, lev, path, pi, m, lev2, path2, w2.pageinfo, w2.mem)
        BY <1>5, <1>8, BuiltTransitive
    <2>. QED  BY <1>11, <2>1, <2>2, <2>3, ExtendsTransitive
<1>. HIDE DEF w3
<1>14. lookup_l4pagetable(pi, m, pt, va, perm, p, allocator) = w3
    BY DEF lookup_l4pagetable, w0, w1, w2, w3
<1>15. /\ map.pageinfo = w3.pageinfo
       /\ map.mem = IF w3.res = "ok" THEN [w3.mem EXCEPT ![w3.pt][i3] = entry] ELSE w3.mem
       /\ map.res = "ok" => w3.res = "ok"
    BY <1>14 DEF virtual_memory_map, SetEntry
<1>. HIDE DEF map
<1>16. CASE w3.res # "ok"
    <2>1. MapCounts(lev, pi, m, pt, va, pa, perm, map, lev3)
        BY <1>15, <1>16, <1>18 DEF MapCounts, Extends
    <2>2. MapSees(p, lev, pi, m, va, map)
        BY <1>15, <1>16, <1>18 DEF MapSees, Extends, SeesSame
    <2>. QED  BY <1>12, <1>15, <1>16, <2>1, <2>2 DEF map
<1>17. CASE w3.res = "ok"
    <2>1. /\ w3.pt \in PN /\ lev3[w3.pt] = 3 /\ Owns(w3.pageinfo, p, w3.pt)
          /\ path3[w3.pt][0] = i0 /\ path3[w3.pt][1] = i1 /\ path3[w3.pt][2] = i2
        BY <1>10, <1>11, <1>17 DEF Walk, Reached
    <2>2. entry \in Word /\ w3.pageinfo \in [PN -> PageInfo] /\ w3.mem \in [PN -> Page]
        BY <1>10 DEF Word, Walk
    <2>3. [path3[w3.pt] EXCEPT ![3] = i3] = PathTo(va)
        BY <1>1, <2>1, PathComplete
    <2>4. LeafOK(lev3, path3, w3.pageinfo, w3.pt, i3, entry)
        <3>1. PathTo(va) \in LowPaths <=> va < PROC_START
            BY PathLow
        <3>2. ASSUME PTE_U \in perm, ~(va < PROC_START)
              PROVE  lev3[pa] = UserLevel /\ w3.pageinfo[pa] = w3.pageinfo[w3.pt]
            <4>1. lev[pa] = UserLevel /\ Owns(pi, p, pa)
                BY <3>2 DEF MayMap
            <4>2. lev3[pa] = lev[pa] /\ w3.pageinfo[pa] = pi[pa]
                BY <1>12, <4>1 DEF Built, Owns
            <4>. QED  BY <2>1, <4>1, <4>2 DEF Owns
        <3>3. PTE_U \in perm /\ va < PROC_START => pa = CONSOLE
            BY DEF MayMap
        <3>4. entry.flags = perm /\ entry.pn = pa
            OBVIOUS
        <3>. HIDE DEF entry
        <3>. QED  BY <2>3, <3>1, <3>2, <3>3, <3>4 DEF LeafOK
    <2>. HIDE DEF entry
    <2>5. Built(p, lev3, path3, w3.pageinfo, w3.mem, lev3, path3, map.pageinfo, map.mem)
        BY <1>1, <1>13, <1>15, <1>17, <2>1, <2>2, <2>4, LeafPlaced
    <2>6. Built(p, lev, path, pi, m, lev3, path3, map.pageinfo, map.mem)
        BY <1>12, <2>5, BuiltTransitive
    <2>7. /\ w1.res = "ok" /\ w2.res = "ok"
          /\ w1.pt \in PN /\ lev1[w1.pt] = 1 /\ Owns(w1.pageinfo, p, w1.pt)
          /\ w2.pt \in PN /\ lev2[w2.pt] = 2 /\ Owns(w2.pageinfo, p, w2.pt)
        BY <1>4, <1>5, <1>7, <1>8, <1>11, <1>17 DEF Walk, Reached
    <2>8. /\ lev1[pt] = 0 /\ Owns(w1.pageinfo, p, pt)
          /\ lev2[pt] = 0 /\ Owns(w2.pageinfo, p, pt)
          /\ lev3[pt] = 0 /\ Owns(w3.pageinfo, p, pt)
        BY <1>5, <1>8, <1>11 DEF Root, Built, Owns
    <2>9. /\ lev2[w1.pt] = 1 /\ Owns(w2.pageinfo, p, w1.pt)
          /\ lev3[w1.pt] = 1 /\ Owns(w3.pageinfo, p, w1.pt)
        BY <1>8, <1>11, <2>7 DEF Built, Owns
    <2>10. lev3[w2.pt] = 2
        BY <1>11, <2>7 DEF Built, Owns
    <2>11. pt # w1.pt /\ pt # w2.pt /\ pt # w3.pt /\ w1.pt # w2.pt /\ w1.pt # w3.pt
           /\ w2.pt # w3.pt
        BY <2>1, <2>7, <2>8, <2>9, <2>10
    <2>12. w3.mem[pt][i0] = TableEntry(w1.pt)
        BY <1>5, <1>8, <1>11, <2>7, <2>8, <2>11 DEF Owns
    <2>13. w3.mem[w1.pt][i1] = TableEntry(w2.pt)
        BY <1>8, <1>11, <2>7, <2>9, <2>11 DEF Owns
    <2>14. w3.mem[w2.pt][i2] = TableEntry(w3.pt)
        BY <1>11, <1>17
    <2>15. /\ map.mem[pt] = w3.mem[pt] /\ map.mem[w1.pt] = w3.mem[w1.pt]
           /\ map.mem[w2.pt] = w3.mem[w2.pt] /\ map.mem[w3.pt][i3] = entry
        BY <1>1, <1>15, <1>17, <2>1, <2>2, <2>7, <2>11 DEF Page
    <2>16. /\ Entry0(map.mem, pt, va) = TableEntry(w1.pt)
           /\ Entry1(map.mem, pt, va) = TableEntry(w2.pt)
           /\ Entry2(map.mem, pt, va) = TableEntry(w3.pt)
           /\ Entry3(map.mem, pt, va) = entry
        <3>1. \A n : TableEntry(n).pn = n
            BY DEF TableEntry
        <3>2. Entry0(map.mem, pt, va) = TableEntry(w1.pt)
            BY <2>12, <2>15 DEF Entry0
        <3>3. Entry1(map.mem, pt, va) = TableEntry(w2.pt)
            BY <2>13, <2>15, <3>1, <3>2 DEF Entry1
        <3>4. Entry2(map.mem, pt, va) = TableEntry(w3.pt)
            BY <2>14, <2>15, <3>1, <3>3 DEF Entry2
        <3>5. Entry3(map.mem, pt, va) = entry
            BY <2>15, <3>1, <3>4 DEF Entry3
        <3>. QED  BY <3>2, <3>3, <3>4, <3>5
    <2>17. \A n : TableEntry(n).flags = Flags
        BY DEF TableEntry, Flags
    <2>18. entry.flags = perm /\ entry.pn = pa /\ Flags \cap Flags \cap Flags \cap perm = perm
        BY DEF entry
    <2>19. virtual_memory_lookup(map.mem, pt, va) = [pn |-> pa, perm |-> perm]
        <3>1. Flags \cap Flags \cap Flags \cap perm = perm
            OBVIOUS
        <3>. DEFINE e0 == Entry0(map.mem, pt, va)
                    e1 == Entry1(map.mem, pt, va)
                    e2 == Entry2(map.mem, pt, va)
                    e3 == Entry3(map.mem, pt, va)
        <3>2. e0.flags \cap e1.flags \cap e2.flags \cap e3.flags = perm /\ e3.pn = pa
            BY <2>16, <2>17, <2>18, <3>1
        <3>. QED  BY <3>2, LookupReads
    <2>20. MapSees(p, lev, pi, m, va, map)
        <3>. SUFFICES ASSUME NEW r \in PN, NEW v \in VA, lev[r] = 0,
                             ~Owns(pi, p, r) \/ v # va \/ map.res # "ok"
                      PROVE  virtual_memory_lookup(map.mem, r, v) = virtual_memory_lookup(m, r, v)
            BY DEF MapSees
        <3>1. lev3[r] = 0 /\ w3.pageinfo[r] = pi[r]
            BY <1>12 DEF Built, Placed, PlacesOwned, NoLevel
        <3>2. map.res = "ok"
            BY <1>14, <1>17 DEF map, virtual_memory_map, SetEntry
        <3>3. w3.pageinfo[r] # w3.pageinfo[w3.pt] \/ v # va
            BY <2>1, <3>1, <3>2 DEF Owns
        <3>4. /\ \A u \in PN : u # w3.pt => map.mem[u] = w3.mem[u]
              /\ \A j \in Index : j # PAGEINDEX(va, 3) => map.mem[w3.pt][j] = w3.mem[w3.pt][j]
            BY <1>1, <1>15, <1>17, <2>1, <2>2 DEF Page
        <3>7. [path3[w3.pt] EXCEPT ![3] = PAGEINDEX(va, 3)] = PathTo(va)
            BY <2>3
        <3>5. virtual_memory_lookup(map.mem, r, v) = virtual_memory_lookup(w3.mem, r, v)
            BY <1>13, <2>1, <2>2, <3>1, <3>3, <3>4, <3>7, LeafSees, SMTT(60)
        <3>6. virtual_memory_lookup(w3.mem, r, v) = virtual_memory_lookup(m, r, v)
            BY <1>18 DEF Extends, SeesSame
        <3>. QED  BY <3>5, <3>6
    <2>21. MapCounts(lev, pi, m, pt, va, pa, perm, map, lev3)
        <3>1. \A t \in PN : pi[t].refcount = 0 /\ lev3[t] # NoLevel => lev3[t] \in 1 .. 3
            BY <1>18 DEF Extends
        <3>2. ASSUME pi[CONSOLE].refcount # 0, NEW S \in SUBSET PN, Counted(S, lev, pi, m),
                     virtual_memory_lookup(m, pt, va) = NoMapping,
                     PTE_U \in perm => pa \in S \/ (lev[pa] = NoLevel /\ pi[pa].refcount # 0)
              PROVE  Counted(IF PTE_U \in perm THEN S \ {pa} ELSE S, lev3, map.pageinfo, map.mem)
            <4>1. Counted(S, lev3, w3.pageinfo, w3.mem)
                BY <1>18, <3>2 DEF Extends
            <4>2. virtual_memory_lookup(w3.mem, pt, va) = NoMapping
                BY <1>18, <3>2 DEF Extends, SeesSame, Root
            <4>3. PTE_P \notin w3.mem[w3.pt][i3].flags
                <5>. DEFINE e0 == Entry0(w3.mem, pt, va)  e1 == Entry1(w3.mem, pt, va)
                            e2 == Entry2(w3.mem, pt, va)  e3 == Entry3(w3.mem, pt, va)
                <5>1. \A n : TableEntry(n).pn = n /\ TableEntry(n).flags = Flags
                    BY DEF TableEntry, Flags
                <5>2. e0 = TableEntry(w1.pt)
                    BY <2>12 DEF Entry0
                <5>3. e1 = TableEntry(w2.pt)
                    BY <2>13, <5>1, <5>2 DEF Entry1
                <5>4. e2 = TableEntry(w3.pt)
                    BY <2>14, <5>1, <5>3 DEF Entry2
                <5>5. e3 = w3.mem[w3.pt][i3]
                    BY <5>1, <5>4 DEF Entry3
                <5>6. PTE_P \in e0.flags /\ PTE_P \in e1.flags /\ PTE_P \in e2.flags
                    BY <5>1, <5>2, <5>3, <5>4 DEF Flags
                <5>7. NoMapping.perm = {} /\ NoMapping.pn = -1
                    BY DEF NoMapping
                <5>8. PTE_P \in e3.flags => PTE_P \in virtual_memory_lookup(w3.mem, pt, va).perm
                    BY <5>6, LookupReads
                <5>. QED  BY <4>2, <5>5, <5>7, <5>8
            <4>4. entry.flags = perm /\ entry.pn = pa
                BY DEF entry
            <4>5. PTE_U \in perm => pa \in S \/ lev3[pa] = NoLevel
                BY <1>12, <3>2 DEF Built
            <4>6. /\ w3.mem \in [PN -> Page] /\ lev3[w3.pt] = 3 /\ w3.pt \in PN /\ i3 \in Index
                  /\ PTE_P \in entry.flags
                  /\ PTE_U \in entry.flags => entry.pn \in S \/ lev3[entry.pn] = NoLevel
                BY <1>1, <2>1, <2>2, <4>4, <4>5
            <4>. HIDE DEF i3
            <4>7. Counted(IF PTE_U \in entry.flags THEN S \ {entry.pn} ELSE S, lev3, w3.pageinfo,
                          [w3.mem EXCEPT ![w3.pt][i3] = entry])
                BY <1>13, <4>1, <4>3, <4>6, LeafCounted
            <4>. QED  BY <1>15, <1>17, <4>4, <4>7
        <3>3. map.res = "ok"
            BY <1>14, <1>17 DEF map, virtual_memory_map, SetEntry
        <3>. QED  BY <3>1, <3>2, <3>3 DEF MapCounts
    <2>. QED  BY <2>6, <2>19, <2>20, <2>21 DEF map
<1>. QED  BY <1>16, <1>17

-----------------------------------------------------------------------------
(* Pages given away and pages stored to *)

\* A free page becomes user memory of process p, with any contents, or cleared
\* the root of its page table.
LEMMA GivePlaced ==
    ASSUME NEW p \in Pid \ {0}, NEW lev, NEW path, NEW pi \in [PN -> PageInfo],
           NEW m \in [PN -> Page], Placed(lev, path, m, pi),
           NEW n \in PN, pi[n].refcount = 0, NEW l \in {0, UserLevel},
           NEW page \in Page, l = 0 => page = ZeroPage
    PROVE  Built(p, lev, path, pi, m, [lev EXCEPT ![n] = l], path, Assign(pi, n, p),
                 [m EXCEPT ![n] = page])
<1>. DEFINE lev2 == [lev EXCEPT ![n] = l]
            pi2 == Assign(pi, n, p)
            m2 == [m EXCEPT ![n] = page]
<1>1. lev \in [PN -> Level] /\ path \in [PN -> Path] /\ PlacesOwned(lev, pi)
    BY DEF Placed
<1>2. /\ lev2 \in [PN -> Level] /\ lev2[n] = l
      /\ \A u \in PN : u # n => lev2[u] = lev[u]
    BY <1>1 DEF Level, UserLevel
<1>3. /\ pi2 \in [PN -> PageInfo] /\ pi2[n] = [owner |-> p, refcount |-> 1]
      /\ \A u \in PN : u # n => pi2[u] = pi[u]
    BY DEF Assign, PageInfo, Owner
<1>4. m2 \in [PN -> Page] /\ m2[n] = page /\ \A u \in PN : u # n => m2[u] = m[u]
    OBVIOUS
<1>. HIDE DEF lev2, pi2, m2
<1>5. Kept(lev, path, pi, lev2, path, pi2)
    BY <1>2, <1>3 DEF Kept
<1>6. PlacesOwned(lev2, pi2)
    <2>1. ASSUME NEW u \in PN, lev2[u] # NoLevel
          PROVE  pi2[u].refcount = 1 /\ pi2[u].owner \in Pid \ {0}
        <3>1. CASE u = n
            BY <1>3, <3>1
        <3>2. CASE u # n
            BY <1>1, <1>2, <1>3, <2>1, <3>2 DEF PlacesOwned
        <3>. QED  BY <3>1, <3>2
    <2>. QED  BY <2>1 DEF PlacesOwned
<1>7. ASSUME NEW u \in PN, NEW j \in Index
      PROVE  \/ pi[u].refcount # 0 /\ m2[u][j] = m[u][j]
             \/ EntryOK(lev2, path, pi2, u, j, m2[u][j])
    <2>1. CASE u = n /\ l = UserLevel
        BY <1>2, <2>1 DEF EntryOK, UserLevel
    <2>2. CASE u = n /\ l = 0
        <3>1. m2[u][j] = ZeroWord
            BY <1>4, <2>2 DEF ZeroPage
        <3>2. LinkOK(lev2, path, pi2, u, j, m2[u][j])
            BY <3>1 DEF LinkOK
        <3>. QED  BY <1>2, <2>2, <3>2 DEF EntryOK
    <2>3. CASE u # n /\ pi[u].refcount # 0
        BY <1>4, <2>3
    <2>4. CASE u # n /\ pi[u].refcount = 0
        <3>1. lev2[u] = NoLevel
            BY <1>1, <1>2, <2>4 DEF PlacesOwned
        <3>. QED  BY <3>1 DEF EntryOK, NoLevel
    <2>. QED  BY <2>1, <2>2, <2>3, <2>4
<1>8. Placed(lev2, path, m2, pi2)
    BY <1>1, <1>2, <1>5, <1>6, <1>7, PlacedAgain
<1>9. ASSUME NEW u \in PN, pi[u].refcount # 0
      PROVE  pi2[u] = pi[u] /\ lev2[u] = lev[u] /\ m2[u] = m[u]
    BY <1>2, <1>3, <1>4, <1>9
<1>10. Built(p, lev, path, pi, m, lev2, path, pi2, m2)
    BY <1>3, <1>4, <1>8, <1>9 DEF Built
<1>. QED  BY <1>10 DEF lev2, pi2, m2

\* Page n, taken from the free ones and mapped at va for process p.
MappedFresh(p, lev, path, pi, m, map, pt, va, n, perm) ==
    /\ \E lev2 \in [PN -> Level], path2 \in [PN -> Path] :
         /\ Built(p, lev, path, pi, m, lev2, path2, map.pageinfo, map.mem)
         /\ lev2[n] = UserLevel
         /\ \A t \in PN : pi[t].refcount = 0 /\ lev2[t] # NoLevel => lev2[t] \in 1 .. 4
         /\ /\ pi[CONSOLE].refcount # 0 /\ Counted({}, lev, pi, m)
            /\ map.res = "ok" /\ PTE_U \in perm /\ virtual_memory_lookup(m, pt, va) = NoMapping
            => Counted({}, lev2, map.pageinfo, map.mem)
    /\ MapSees(p, lev, pi, m, va, map)
    /\ map.pageinfo[n].refcount # 0
    /\ map.res = "ok" => virtual_memory_lookup(map.mem, pt, va) = [pn |-> n, perm |-> perm]

\* Giving process p a free page and mapping it above PROC_START_ADDR, as
\* process_setup, sys_page_alloc and fork() do, builds p's tree.
LEMMA GivenAndMapped ==
    ASSUME NEW p \in Pid \ {0}, NEW lev, NEW path, NEW pi \in [PN -> PageInfo],
           NEW m \in [PN -> Page], Placed(lev, path, m, pi),
           NEW pt \in PN, Root(lev, pi, pt, p), NEW va \in VA, va >= PROC_START,
           NEW n \in PN, pi[n].refcount = 0, NEW perm \in SUBSET Flags, PTE_P \in perm,
           NEW m1 \in [PN -> Page], \A t \in PN : t # n => m1[t] = m[t], NEW allocator
    PROVE  MappedFresh(p, lev, path, pi, m,
                       virtual_memory_map(Assign(pi, n, p), m1, pt, va, n, perm, p, allocator),
                       pt, va, n, perm)
<1>. DEFINE lev1 == [lev EXCEPT ![n] = UserLevel]
            pi1 == Assign(pi, n, p)
            map == virtual_memory_map(pi1, m1, pt, va, n, perm, p, allocator)
<1>1. Built(p, lev, path, pi, m, lev1, path, pi1, m1)
    <2>1. UserLevel \in {0, UserLevel} /\ m1[n] \in Page /\ UserLevel # 0
        BY DEF UserLevel
    <2>2. Built(p, lev, path, pi, m, lev1, path, pi1, [m EXCEPT ![n] = m1[n]])
        BY <2>1, GivePlaced
    <2>3. m1 = [m EXCEPT ![n] = m1[n]]
        OBVIOUS
    <2>. QED  BY <2>2, <2>3, Zenon
<1>2. lev1[n] = UserLevel /\ Owns(pi1, p, n) /\ pi1[n].refcount # 0
    BY DEF Placed, Owns, Assign
<1>. HIDE DEF lev1, pi1
<1>3. pi1 \in [PN -> PageInfo] /\ Placed(lev1, path, m1, pi1)
    BY <1>1 DEF Built
<1>4. Root(lev1, pi1, pt, p)
    BY <1>1 DEF Built, Root, Owns
<1>5. MayMap(p, lev1, pi1, va, n, perm)
    <2>1. va \in Int /\ PROC_START \in Int
        BY LayoutTypes, SizeAssumption DEF VA
    <2>. QED  BY <1>2, <2>1 DEF MayMap
<1>6. /\ \E l \in [PN -> Level], q \in [PN -> Path] :
            /\ Built(p, lev1, path, pi1, m1, l, q, map.pageinfo, map.mem)
            /\ MapCounts(lev1, pi1, m1, pt, va, n, perm, map, l)
      /\ MapSees(p, lev1, pi1, m1, va, map)
      /\ map.res = "ok" => virtual_memory_lookup(map.mem, pt, va) = [pn |-> n, perm |-> perm]
    <2>1. MapBuilds(p, lev1, path, pi1, m1, pt, va, n, perm, map)
        BY <1>3, <1>4, <1>5, MapPlaced
    <2>. HIDE DEF map
    <2>. QED  BY <2>1 DEF MapBuilds
<1>. HIDE DEF map
<1>7. PICK l \in [PN -> Level], q \in [PN -> Path] :
        /\ Built(p, lev1, path, pi1, m1, l, q, map.pageinfo, map.mem)
        /\ MapCounts(lev1, pi1, m1, pt, va, n, perm, map, l)
    BY <1>6
<1>8. l[n] = UserLevel /\ map.pageinfo[n].refcount # 0
    BY <1>2, <1>7 DEF Built
<1>9. Built(p, lev, path, pi, m, l, q, map.pageinfo, map.mem)
    BY <1>1, <1>7, BuiltTransitive
<1>10. SeesSame(lev, m, m1)
    <2>1. \A u \in PN : lev[u] \in 0 .. 3 => m1[u] = m[u]
        BY DEF Placed, PlacesOwned, NoLevel
    <2>. QED  BY <2>1, SameTables
<1>11. MapSees(p, lev, pi, m, va, map)
    <2>. SUFFICES ASSUME NEW r \in PN, NEW v \in VA, lev[r] = 0,
                         ~Owns(pi, p, r) \/ v # va \/ map.res # "ok"
                  PROVE  virtual_memory_lookup(map.mem, r, v) = virtual_memory_lookup(m, r, v)
        BY DEF MapSees
    <2>1. lev1[r] = 0 /\ pi1[r] = pi[r]
        BY <1>1 DEF Built, Placed, PlacesOwned, NoLevel
    <2>2. virtual_memory_lookup(map.mem, r, v) = virtual_memory_lookup(m1, r, v)
        BY <1>6, <2>1 DEF MapSees, Owns
    <2>. QED  BY <1>10, <2>2 DEF SeesSame
<1>12. ASSUME NEW t \in PN, pi[t].refcount = 0, l[t] # NoLevel PROVE l[t] \in 1 .. 4
    <2>1. CASE t = n
        BY <1>8, <2>1 DEF UserLevel
    <2>2. CASE t # n
        <3>1. pi1[t].refcount = 0
            BY <1>12, <2>2 DEF pi1, Assign
        <3>. QED  BY <1>7, <1>12, <3>1 DEF MapCounts
    <2>. QED  BY <2>1, <2>2
<1>13. ASSUME pi[CONSOLE].refcount # 0, Counted({}, lev, pi, m), map.res = "ok", PTE_U \in perm,
              virtual_memory_lookup(m, pt, va) = NoMapping
       PROVE  Counted({}, l, map.pageinfo, map.mem)
    <2>1. Counted({n}, lev1, pi1, m1)
        <3>1. UserLevel \in {0, UserLevel} /\ UserLevel # 0 /\ {} \in SUBSET PN
            BY DEF UserLevel
        <3>2. Counted(IF UserLevel = 0 THEN {} ELSE {} \cup {n}, [lev EXCEPT ![n] = UserLevel],
                      Assign(pi, n, p), [m EXCEPT ![n] = m1[n]])
            BY <1>13, <3>1, GiveCounted
        <3>3. m1 = [m EXCEPT ![n] = m1[n]]
            OBVIOUS
        <3>4. (IF UserLevel = 0 THEN {} ELSE {} \cup {n}) = {n}
            BY <3>1
        <3>. QED  BY <3>2, <3>3, <3>4, Zenon DEF lev1, pi1
    <2>2. pi1[CONSOLE].refcount # 0
        BY <1>1, <1>13, KernelPages DEF Built
    <2>3. virtual_memory_lookup(m1, pt, va) = NoMapping
        BY <1>10, <1>13 DEF SeesSame, Root
    <2>4. {n} \in SUBSET PN /\ n \in {n}
        OBVIOUS
    <2>5. Counted(IF PTE_U \in perm THEN {n} \ {n} ELSE {n}, l, map.pageinfo, map.mem)
        BY <1>7, <1>13, <2>1, <2>2, <2>3, <2>4 DEF MapCounts
    <2>6. (IF PTE_U \in perm THEN {n} \ {n} ELSE {n}) = {}
        BY <1>13
    <2>. QED  BY <2>5, <2>6, Zenon
<1>14. MappedFresh(p, lev, path, pi, m, map, pt, va, n, perm)
    BY <1>6, <1>8, <1>9, <1>11, <1>12, <1>13 DEF MappedFresh
<1>. QED  BY <1>14 DEF map, pi1

\* A store to a page that is no page table leaves all page tables alone.
LEMMA StorePlaced ==
    ASSUME NEW lev, NEW path, NEW pi, NEW m, Placed(lev, path, m, pi),
           NEW n \in PN, lev[n] \notin 0 .. 3, NEW m2, \A u \in PN : u # n => m2[u] = m[u]
    PROVE  Placed(lev, path, m2, pi)
<1>1. ASSUME NEW u \in PN, NEW j \in Index
      PROVE  EntryOK(lev, path, pi, u, j, m2[u][j])
    <2>1. CASE u = n
        BY <2>1 DEF EntryOK
    <2>2. CASE u # n
        BY <2>2 DEF Placed
    <2>. QED  BY <2>1, <2>2
<1>. QED  BY <1>1 DEF Placed

\* What the kernel builds for a process leaves its own tables, page 0 and the
\* owners of its pages as they are.
LEMMA BuiltIntact ==
    ASSUME NEW p \in Pid, NEW lev, NEW path, NEW pi, NEW m, NEW lev2, NEW path2, NEW pi2,
           NEW m2, Built(p, lev, path, pi, m, lev2, path2, pi2, m2), KernelIntact(m, pi)
    PROVE  KernelIntact(m2, pi2)
<1>1. p \in Nat
    BY SizeAssumption DEF Pid
<1>2. ASSUME NEW t \in KERNEL \cup RESERVED
      PROVE  m2[t] = m[t] /\ pi2[t] = pi[t]
    <2>1. t \in PN /\ pi[t].refcount # 0 /\ pi[t].owner # p
        BY <1>1, KernelPages DEF KernelIntact, PO_RESERVED, PO_KERNEL
    <2>. QED  BY <2>1 DEF Built
<1>3. NULL \in RESERVED /\ \A n \in 0 .. 4 : KPT + n \in KERNEL
    BY KernelPages, LayoutAssumption
<1>. QED  BY <1>2, <1>3 DEF KernelIntact

-----------------------------------------------------------------------------
(* The tree of a process *)

\* The page tables of a process are pages at levels 0 to 3, and its own.
LEMMA TreePlaced ==
    ASSUME NEW m \in [PN -> Page], NEW pi, NEW lev, NEW path, Placed(lev, path, m, pi),
           NEW pt \in PN, lev[pt] = 0, NEW t \in TablesBelow(m, pt)
    PROVE  t \in PN /\ lev[t] \in 1 .. 3 /\ pi[t] = pi[pt]
<1>. DEFINE l2 == NextTables(m, {pt})
            l3 == NextTables(m, l2)
            l4 == NextTables(m, l3)
<1>1. ASSUME NEW T, NEW level \in 0 .. 2, \A u \in T : u \in PN /\ lev[u] = level /\ pi[u] = pi[pt]
      PROVE  \A u \in NextTables(m, T) : u \in PN /\ lev[u] = level + 1 /\ pi[u] = pi[pt]
    <2>1. ASSUME NEW u \in NextTables(m, T) PROVE u \in PN /\ lev[u] = level + 1 /\ pi[u] = pi[pt]
        <3>1. PICK v \in T, i \in Index : m[v][i] # ZeroWord /\ u = m[v][i].pn
            BY DEF NextTables
        <3>2. v \in PN /\ lev[v] \in 0 .. 2 /\ lev[v] = level /\ pi[v] = pi[pt]
            BY <1>1
        <3>3. m[v][i].pn \in PN /\ lev[m[v][i].pn] = lev[v] + 1 /\ pi[m[v][i].pn] = pi[v]
            <4>1. LinkOK(lev, path, pi, v, i, m[v][i])
                BY <3>2 DEF Placed, EntryOK
            <4>2. m[v][i].pn \in PN
                BY <3>2 DEF Page, Word
            <4>. QED  BY <3>1, <4>1, <4>2 DEF LinkOK
        <3>. QED  BY <3>1, <3>2, <3>3
    <2>. QED  BY <2>1
<1>2. \A u \in l2 : u \in PN /\ lev[u] = 1 /\ pi[u] = pi[pt]
    <2>1. 0 \in 0 .. 2 /\ 0 + 1 = 1 /\ \A u \in {pt} : u \in PN /\ lev[u] = 0 /\ pi[u] = pi[pt]
        OBVIOUS
    <2>. QED  BY <1>1, <2>1
<1>. HIDE DEF l2
<1>3. \A u \in l3 : u \in PN /\ lev[u] = 2 /\ pi[u] = pi[pt]
    BY <1>1, <1>2
<1>. HIDE DEF l3
<1>4. \A u \in l4 : u \in PN /\ lev[u] = 3 /\ pi[u] = pi[pt]
    BY <1>1, <1>3
<1>. HIDE DEF l4
<1>5. t \in l2 \/ t \in l3 \/ t \in l4
    BY DEF TablesBelow, l2, l3, l4
<1>. QED  BY <1>2, <1>3, <1>4, <1>5

\* What a process sees depends on its own pages and page 0 only.
LEMMA SameLookup ==
    ASSUME NEW m \in [PN -> Page], NEW pi, NEW lev, NEW path, Placed(lev, path, m, pi),
           m[NULL] = ZeroPage, NEW q, NEW pt \in PN, Root(lev, pi, pt, q), NEW m2,
           m2[NULL] = m[NULL], \A t \in PN : Owns(pi, q, t) => m2[t] = m[t],
           NEW va \in VA
    PROVE  virtual_memory_lookup(m2, pt, va) = virtual_memory_lookup(m, pt, va)
<1>. DEFINE e0 == Entry0(m, pt, va)
            e1 == Entry1(m, pt, va)
            e2 == Entry2(m, pt, va)
            e3 == Entry3(m, pt, va)
            At(t, level) == \/ t = NULL
                            \/ t \in PN /\ lev[t] = level /\ Owns(pi, q, t)
<1>1. va \in Nat
    BY SizeAssumption DEF VA
<1>2. \A k : PAGEINDEX(va, k) \in Index
    BY <1>1, PageIndexType
<1>3. ASSUME NEW t, NEW level \in 0 .. 2, At(t, level), NEW i \in Index
      PROVE  m2[t] = m[t] /\ At(m[t][i].pn, level + 1)
    <2>1. ZeroWord.pn = NULL
        BY DEF ZeroWord, NULL
    <2>2. m2[t] = m[t]
        BY <1>3
    <2>3. CASE m[t][i] = ZeroWord
        BY <2>1, <2>2, <2>3
    <2>4. CASE m[t][i] # ZeroWord
        <3>1. t # NULL
            BY <2>4 DEF ZeroPage
        <3>2. t \in PN /\ lev[t] = level /\ Owns(pi, q, t) /\ lev[t] \in 0 .. 2
            BY <1>3, <3>1
        <3>3. m[t][i].pn \in PN /\ lev[m[t][i].pn] = lev[t] + 1 /\ pi[m[t][i].pn] = pi[t]
            <4>1. LinkOK(lev, path, pi, t, i, m[t][i])
                BY <3>2 DEF Placed, EntryOK
            <4>2. m[t][i].pn \in PN
                BY <3>2 DEF Page, Word
            <4>. QED  BY <2>4, <4>1, <4>2 DEF LinkOK
        <3>. QED  BY <2>2, <3>2, <3>3 DEF Owns
    <2>. QED  BY <2>3, <2>4
<1>4. At(pt, 0) /\ 0 \in 0 .. 2 /\ 1 \in 0 .. 2 /\ 2 \in 0 .. 2 /\ 0 + 1 = 1 /\ 1 + 1 = 2 /\ 2 + 1 = 3
    BY DEF Root
<1>. HIDE DEF At
<1>5. Entry0(m2, pt, va) = e0 /\ At(e0.pn, 1)
    BY <1>2, <1>3, <1>4 DEF Entry0
<1>6. Entry1(m2, pt, va) = e1 /\ At(e1.pn, 2)
    BY <1>2, <1>3, <1>4, <1>5 DEF Entry1
<1>7. Entry2(m2, pt, va) = e2 /\ At(e2.pn, 3)
    BY <1>2, <1>3, <1>4, <1>6 DEF Entry2
<1>8. Entry3(m2, pt, va) = e3
    BY <1>7 DEF Entry3, At
<1>. HIDE DEF e0, e1, e2, e3
<1>9. virtual_memory_lookup(m, pt, va) =
        LET perm == e0.flags \cap e1.flags \cap e2.flags \cap e3.flags
        IN  IF PTE_P \in perm THEN [pn |-> e3.pn, perm |-> perm] ELSE [pn |-> -1, perm |-> {}]
    BY LookupReads DEF e0, e1, e2, e3
<1>10. virtual_memory_lookup(m2, pt, va) =
        LET perm == e0.flags \cap e1.flags \cap e2.flags \cap e3.flags
        IN  IF PTE_P \in perm THEN [pn |-> e3.pn, perm |-> perm] ELSE [pn |-> -1, perm |-> {}]
    BY <1>5, <1>6, <1>7, <1>8, LookupReads
<1>. QED  BY <1>9, <1>10

-----------------------------------------------------------------------------
(* How much memory the kernel takes *)

FreeCount(pi) == Cardinality(FreePages(pi))

\* Giving away a page costs at most that page.
LEMMA AssignCost ==
    ASSUME NEW pi \in [PN -> PageInfo], NEW n \in PN, NEW owner
    PROVE  FreeCount(pi) \in Nat /\ FreeCount(Assign(pi, n, owner)) \in Nat
           /\ FreeCount(Assign(pi, n, owner)) >= FreeCount(pi) - 1
<1>. DEFINE F == FreePages(pi)
            G == FreePages(Assign(pi, n, owner))
<1>1. IsFiniteSet(PN)
    BY FS_Interval, SizeAssumption DEF PN
<1>2. F \subseteq PN /\ G \subseteq PN
    BY DEF FreePages
<1>3. IsFiniteSet(F) /\ IsFiniteSet(G)
    BY <1>1, <1>2, FS_Subset
<1>4. F \ {n} \subseteq G
    BY DEF FreePages, IsFree, Assign
<1>. HIDE DEF F, G
<1>5. Cardinality(F) \in Nat /\ Cardinality(G) \in Nat
    BY <1>3, FS_CardinalityType
<1>6. Cardinality(F \ {n}) >= Cardinality(F) - 1
    <2>1. Cardinality(F \ {n}) = IF n \in F THEN Cardinality(F) - 1 ELSE Cardinality(F)
        BY <1>3, FS_RemoveElement, Zenon
    <2>. QED  BY <1>5, <2>1
<1>7. Cardinality(F \ {n}) =< Cardinality(G) /\ Cardinality(F \ {n}) \in Nat
    <2>1. IsFiniteSet(F \ {n})
        BY <1>3, FS_RemoveElement, FS_Subset
    <2>. QED  BY <1>3, <1>4, <2>1, FS_Subset, FS_CardinalityType
<1>. QED  BY <1>5, <1>6, <1>7 DEF FreeCount, F, G

\* One level of lookup_l4pagetable costs at most a page, and none if there is no
\* allocator or the table is there.
LEMMA DescendCost ==
    ASSUME NEW walk \in Walk, NEW va, NEW level, NEW perm, NEW owner, NEW allocator
    PROVE  LET w == Descend(walk, va, level, perm, owner, allocator)
           IN  /\ FreeCount(walk.pageinfo) \in Nat /\ FreeCount(w.pageinfo) \in Nat
               /\ FreeCount(w.pageinfo) >= FreeCount(walk.pageinfo) - 1
               /\ ~allocator => w.pageinfo = walk.pageinfo
<1>. DEFINE i   == PAGEINDEX(va, level)
            new == pagetable_alloc(walk.pageinfo, walk.mem, owner)
            w   == Descend(walk, va, level, perm, owner, allocator)
<1>1. walk.pageinfo \in [PN -> PageInfo] /\ walk.mem \in [PN -> Page]
    BY DEF Walk
<1>2. \/ w.pageinfo = walk.pageinfo
      \/ new.pn # NULL /\ w.pageinfo = new.pageinfo /\ allocator
    BY DEF Descend, Link, Walk
<1>3. /\ new.pn \in PN
      /\ new.pn # NULL => /\ walk.pageinfo[new.pn].refcount = 0
                          /\ new.pageinfo = Assign(walk.pageinfo, new.pn, owner)
                          /\ new.mem = [walk.mem EXCEPT ![new.pn] = ZeroPage]
    BY <1>1, PagetableAllocFresh DEF FreshTable
<1>. HIDE DEF new, w
<1>4. FreeCount(walk.pageinfo) \in Nat
      /\ FreeCount(Assign(walk.pageinfo, new.pn, owner)) \in Nat
      /\ FreeCount(Assign(walk.pageinfo, new.pn, owner)) >= FreeCount(walk.pageinfo) - 1
    BY <1>1, <1>3, AssignCost
<1>. QED  BY <1>2, <1>3, <1>4 DEF w

\* What virtual_memory_map takes: at most three page tables, and none if there
\* is no allocator or the tables are there.
MapCosts(pi, m, pt, va, allocator, map) ==
    /\ FreeCount(pi) \in Nat /\ FreeCount(map.pageinfo) \in Nat
    /\ FreeCount(map.pageinfo) >= FreeCount(pi) - 3
    /\ ~allocator \/ Present(m, pt, va) => map.pageinfo = pi

\* virtual_memory_map costs at most three page tables.
LEMMA MapCost ==
    ASSUME NEW pi \in [PN -> PageInfo], NEW m \in [PN -> Page], NEW pt \in PN,
           NEW va \in Nat, NEW pa, NEW perm, NEW owner \in Owner, NEW allocator
    PROVE  MapCosts(pi, m, pt, va, allocator,
                    virtual_memory_map(pi, m, pt, va, pa, perm, owner, allocator))
<1>. DEFINE w0 == [pageinfo |-> pi, mem |-> m, pt |-> pt, res |-> "ok"]
            w1 == Descend(w0, va, 0, perm, owner, allocator)
            w2 == Descend(w1, va, 1, perm, owner, allocator)
            w3 == Descend(w2, va, 2, perm, owner, allocator)
            map == virtual_memory_map(pi, m, pt, va, pa, perm, owner, allocator)
<1>1. /\ w0 \in Walk /\ w0.pageinfo = pi /\ w0.mem = m /\ w0.res = "ok"
      /\ w0.pt = pt
    BY DEF Walk
<1>2. map.pageinfo = w3.pageinfo
    BY DEF virtual_memory_map, lookup_l4pagetable, SetEntry
<1>. HIDE DEF w0, map
<1>3. w1 \in Walk /\ FreeCount(w0.pageinfo) \in Nat /\ FreeCount(w1.pageinfo) \in Nat
      /\ FreeCount(w1.pageinfo) >= FreeCount(w0.pageinfo) - 1
      /\ (~allocator => w1.pageinfo = w0.pageinfo)
    <2>1. w1 \in Walk
        BY <1>1, DescendType
    <2>. QED  BY <1>1, <2>1, DescendCost
<1>4. PTE_P \in Entry0(m, pt, va).flags =>
        /\ w1.pageinfo = pi /\ w1.mem = m
        /\ w1.res = "ok" => w1.pt = Entry0(m, pt, va).pn
    BY <1>1 DEF Descend, Entry0, Walk
<1>. HIDE DEF w1
<1>5. w2 \in Walk /\ FreeCount(w2.pageinfo) \in Nat
      /\ FreeCount(w2.pageinfo) >= FreeCount(w1.pageinfo) - 1
      /\ (~allocator => w2.pageinfo = w1.pageinfo)
    <2>1. w2 \in Walk
        BY <1>3, DescendType
    <2>. QED  BY <1>3, <2>1, DescendCost
<1>6. PTE_P \in Entry0(m, pt, va).flags /\ PTE_P \in Entry1(m, pt, va).flags =>
        /\ w2.pageinfo = pi /\ w2.mem = m
        /\ w2.res = "ok" => w2.pt = Entry1(m, pt, va).pn
    BY <1>3, <1>4 DEF Descend, Entry1, Walk
<1>. HIDE DEF w2
<1>7. FreeCount(w3.pageinfo) \in Nat
      /\ FreeCount(w3.pageinfo) >= FreeCount(w2.pageinfo) - 1
      /\ (~allocator => w3.pageinfo = w2.pageinfo)
    BY <1>5, DescendCost
<1>8. Present(m, pt, va) => w3.pageinfo = pi
    BY <1>5, <1>6 DEF Descend, Entry2, Walk, Present
<1>. HIDE DEF w3
<1>9. MapCosts(pi, m, pt, va, allocator, map)
    BY <1>1, <1>2, <1>3, <1>5, <1>7, <1>8 DEF MapCosts
<1>. QED  BY <1>9 DEF map

\* While page 0 is not free, get_free_addr finds a page if any is free.
LEMMA FreeAddrFound ==
    ASSUME NEW pi \in [PN -> PageInfo], pi[NULL].refcount # 0, FreeCount(pi) > 0
    PROVE  FreeAddr(pi) # NULL
<1>1. FreePages(pi) # {}
    BY FS_EmptySet DEF FreeCount
<1>2. FreePages(pi) \in SUBSET Nat
    BY SizeAssumption DEF FreePages, PN
<1>3. \E pn \in FreePages(pi) : \A other \in FreePages(pi) : pn =< other
    BY <1>1, <1>2, LowestPage
<1>4. FreeAddr(pi) \in FreePages(pi)
    BY <1>1, <1>3 DEF FreeAddr
<1>. QED  BY <1>4 DEF FreePages, IsFree
=============================================================================
