---------------------------- MODULE SpacesProofs ----------------------------
(***************************************************************************)
(* What the kernel of WeensyKernel does to address spaces, for every       *)
(* layout, every number of pages and processes and every user program.     *)
(* The kernel panics only when it is asked to, or when fork() is called    *)
(* with a free slot and fewer than four free pages.  While memory lasts,   *)
(* reference counts are exact, the kernel implements AddressSpaces and the *)
(* dumps of memory are right.                                              *)
(***************************************************************************)
EXTENDS IsolationProofs, MemoryDump

-----------------------------------------------------------------------------
(* The invariant behind NoPanic *)

Booting == {"setup", "setup_copy", "load"}

\* Address va is mapped as kernel_pagetable maps it.
LowAt(m, pt, va) == virtual_memory_lookup(m, pt, va) = [pn |-> va, perm |-> KernelPerm(va)]

\* The page table has all of the kernel's part of an address space.
LowOK(m, pt) == \A va \in 0 .. PROC_START - 1 : LowAt(m, pt, va)

\* Every page table has it, and one that copy_pagetable fills has what was
\* copied so far.
LowInv ==
    /\ \A p \in HasTable : LowOK(mem, processes[p].pagetable)
    /\ kpc \in {"setup_copy", "fork_copy"} => \A va \in 0 .. job.va - 1 : LowAt(mem, job.pt, va)
    /\ kpc \in {"load", "fork_memory"} => LowOK(mem, job.pt)

\* Who is active: processes with a page table, the child of fork() while its
\* table is copied, who has none yet; pages belong to them, or to the process
\* that is being set up; and those set up before it run.
ActiveInv ==
    /\ \A p \in Pid : processes[p].state # "P_FREE" =>
         p \in HasTable \/ (kpc = "fork_copy" /\ p = job.pid)
    /\ kpc = "fork_copy" => processes[job.pid].state # "P_FREE" /\ job.pid \notin HasTable
    /\ \A pn \in PN : pageinfo[pn].owner \in Pid \ {0} =>
         \/ processes[pageinfo[pn].owner].state # "P_FREE"
         \/ kpc \in {"setup_copy", "load"} /\ pageinfo[pn].owner = job.pid
    /\ kpc \in Booting => \A q \in 1 .. job.pid - 1 : processes[q].state = "P_RUNNABLE"

LowPages(pi) == {pn \in FreePages(pi) : pn < PROC_START}
LowCount(pi) == Cardinality(LowPages(pi))

\* The pages below PROC_START that the setup of the processes after job.pid takes.
LowForTheRest(cmd, pid) == 8 * (LastSetup(cmd) - pid)

\* The segments of the program of process q.
SegmentsOf(cmd, q) == Segments[ProgramNumber(cmd, q)]

\* At boot nothing is in use above PROC_START but the programs loaded so far:
\* the allocator takes the lowest page, and there are enough below.
LoadInv ==
    /\ kpc \in Booting => \A pn \in PN : pn >= PROC_START /\ pageinfo[pn].refcount # 0 =>
         \E q \in 1 .. job.pid : \E k \in DOMAIN SegmentsOf(command, q) :
            /\ pn = SegmentsOf(command, q)[k]
            /\ q = job.pid => kpc = "load" /\ k < job.seg
    /\ LET spare == LowCount(pageinfo) - LowForTheRest(command, job.pid)
       IN  /\ kpc = "setup" => spare >= 4
           /\ kpc = "setup_copy" => spare >= IF job.va = 0 THEN 3 ELSE 0
           /\ kpc = "load" => spare >= 0

\* copy_pagetable under fork() needs three pages, for the first address.
ForkInv == kpc = "fork_copy" /\ job.va = 0 => FreeCount(pageinfo) >= 3

LiveInv == LowInv /\ ActiveInv /\ LoadInv /\ ForkInv /\ NoPanic

\* What the theorem asks of programs and memory: no program asks the kernel to
\* panic (sys_exit does), and fork() is called with no free slot or with
\* four free pages, for the root and the three tables of low memory.
Survivable ==
    /\ kpc = "dispatch" => trap.int \notin {"INT_SYS_PANIC", "INT_SYS_EXIT"}
    /\ kpc = "dispatch" /\ trap.int = "INT_SYS_FORK" =>
         FreeSlots = {} \/ FreeCount(pageinfo) >= 4

-----------------------------------------------------------------------------
(* Mapping succeeds *)

\* How one level of lookup_l4pagetable ends.
DescendEnds(walk, va, level, allocator, w) ==
    /\ w.res \in {"ok", "null"}
    /\ \/ PTE_P \in walk.mem[walk.pt][PAGEINDEX(va, level)].flags
       \/ allocator /\ FreeAddr(walk.pageinfo) # NULL
       => w.res = "ok"

\* One level of lookup_l4pagetable trips over no assertion, and finds or makes
\* a table if there is one or there is memory.
LEMMA DescendSucceeds ==
    ASSUME NEW p \in Pid \ {0}, NEW lev, NEW path, NEW walk \in Walk, walk.res = "ok",
           Placed(lev, path, walk.mem, walk.pageinfo), NEW level \in 0 .. 2, NEW va \in Nat,
           Reached(walk, lev, path, p, level, va),
           NEW perm \in SUBSET Flags, PTE_P \in perm, NEW allocator
    PROVE  DescendEnds(walk, va, level, allocator,
                       Descend(walk, va, level, perm, p, allocator))
<1>. DEFINE i   == PAGEINDEX(va, level)
            pe  == walk.mem[walk.pt][i]
            new == pagetable_alloc(walk.pageinfo, walk.mem, p)
            w   == Descend(walk, va, level, perm, p, allocator)
<1>1. walk.pageinfo \in [PN -> PageInfo] /\ walk.mem \in [PN -> Page] /\ walk.pt \in PN
    BY DEF Walk
<1>2. i \in Index /\ lev[walk.pt] \in 0 .. 2
    BY PageIndexType DEF Reached
<1>3. PTE_P \in pe.flags => pe.flags = Flags
    <2>1. LinkOK(lev, path, walk.pageinfo, walk.pt, i, pe)
        BY <1>1, <1>2 DEF Placed, EntryOK
    <2>. QED  BY <2>1, SMTT(60) DEF LinkOK, ZeroWord, TableEntry, Flags
<1>4. new.pn = FreeAddr(walk.pageinfo)
    <2>1. FreshTable(walk.pageinfo, walk.mem, p, new)
        BY <1>1, PagetableAllocFresh
    <2>. QED  BY <2>1 DEF FreshTable
<1>. HIDE DEF i, pe, new
<1>5. CASE PTE_P \in pe.flags
    <2>1. perm \cap {PTE_W, PTE_U} \subseteq pe.flags
        BY <1>3, <1>5 DEF Flags
    <2>2. w = [walk EXCEPT !.pt = pe.pn]
        BY <1>5, <2>1 DEF Descend, i, pe
    <2>. QED  BY <2>2 DEF Walk, DescendEnds
<1>6. CASE PTE_P \notin pe.flags /\ ~allocator
    <2>1. w = [walk EXCEPT !.res = "null"]
        BY <1>6 DEF Descend, i, pe
    <2>. HIDE DEF w
    <2>2. w.res = "null"
        BY <2>1 DEF Walk
    <2>. QED  BY <1>6, <2>2 DEF w, pe, i, DescendEnds
<1>7. CASE PTE_P \notin pe.flags /\ allocator
    <2>1. w = Link(walk, i, new)
        BY <1>7 DEF Descend, i, pe, new
    <2>. HIDE DEF w
    <2>2. w.res = IF new.pn = NULL THEN "null" ELSE "ok"
        BY <2>1 DEF Link, Walk
    <2>. QED  BY <1>4, <1>7, <2>2 DEF w, pe, i, DescendEnds
<1>. QED  BY <1>5, <1>6, <1>7

\* How virtual_memory_map ends: with the address mapped if the tables are there
\* or three pages are free, else for want of a table; then the tables are there.
MapEnds(pi, m, pt, va, allocator, map) ==
    /\ map.res \in {"ok", "fail"}
    /\ Present(m, pt, va) \/ (allocator /\ FreeCount(pi) >= 3) => map.res = "ok"
    /\ map.res = "ok" => Present(map.mem, pt, va)

\* virtual_memory_map for process p trips over no assertion.
LEMMA MapSucceeds ==
    ASSUME NEW p \in Pid \ {0}, NEW lev, NEW path, NEW pi \in [PN -> PageInfo],
           NEW m \in [PN -> Page], Placed(lev, path, m, pi), pi[NULL].refcount # 0,
           NEW pt \in PN, Root(lev, pi, pt, p), NEW va \in VA, NEW pa \in PN,
           NEW perm \in SUBSET Flags, PTE_P \in perm, MayMap(p, lev, pi, va, pa, perm),
           NEW allocator
    PROVE  MapEnds(pi, m, pt, va, allocator,
                   virtual_memory_map(pi, m, pt, va, pa, perm, p, allocator))
<1>. DEFINE w0 == [pageinfo |-> pi, mem |-> m, pt |-> pt, res |-> "ok"]
            w1 == Descend(w0, va, 0, perm, p, allocator)
            w2 == Descend(w1, va, 1, perm, p, allocator)
            w3 == Descend(w2, va, 2, perm, p, allocator)
            map == virtual_memory_map(pi, m, pt, va, pa, perm, p, allocator)
            Needs(n, w) == allocator /\ FreeCount(w.pageinfo) >= n
            Found(w, level, n) == \/ PTE_P \in w.mem[w.pt][PAGEINDEX(va, level)].flags
                                  \/ Needs(n, w)
<1>1. va \in Nat /\ p \in Owner
    BY SizeAssumption DEF VA, Owner
<1>2. /\ w0 \in Walk /\ Reached(w0, lev, path, p, 0, va) /\ w0.res = "ok"
      /\ Placed(lev, path, w0.mem, w0.pageinfo) /\ w0.pageinfo[NULL].refcount # 0
      /\ w0.pageinfo = pi /\ w0.mem = m /\ w0.pt = pt
    BY DEF Walk, Reached, Root
<1>. HIDE DEF w0
\* One level.
<1>3. ASSUME NEW walk \in Walk, walk.res = "ok", NEW l, NEW q, NEW level \in 0 .. 2,
             Placed(l, q, walk.mem, walk.pageinfo), walk.pageinfo[NULL].refcount # 0,
             Reached(walk, l, q, p, level, va),
             NEW w, w = Descend(walk, va, level, perm, p, allocator)
      PROVE  /\ w \in Walk /\ w.res \in {"ok", "null"}
             /\ PTE_P \in walk.mem[walk.pt][PAGEINDEX(va, level)].flags \/ Needs(1, walk)
                  => w.res = "ok"
             /\ w.pageinfo[NULL].refcount # 0
             /\ \E l2, q2 : /\ Placed(l2, q2, w.mem, w.pageinfo)
                            /\ Reached(w, l2, q2, p, level + 1, va)
             /\ FreeCount(walk.pageinfo) \in Nat /\ FreeCount(w.pageinfo) \in Nat
             /\ FreeCount(w.pageinfo) >= FreeCount(walk.pageinfo) - 1
    <2>1. w \in Walk
        BY <1>1, <1>3, DescendType
    <2>2. Descended(p, l, q, walk, w, level, va)
        BY <1>1, <1>3, DescendPlaced
    <2>3. PICK l2 \in [PN -> Level], q2 \in [PN -> Path] :
            /\ Built(p, l, q, walk.pageinfo, walk.mem, l2, q2, w.pageinfo, w.mem)
            /\ Reached(w, l2, q2, p, level + 1, va)
        BY <2>2 DEF Descended
    <2>4. Placed(l2, q2, w.mem, w.pageinfo) /\ w.pageinfo[NULL].refcount # 0
        BY <1>3, <2>3, KernelPages DEF Built
    <2>5. /\ FreeCount(walk.pageinfo) \in Nat /\ FreeCount(w.pageinfo) \in Nat
          /\ FreeCount(w.pageinfo) >= FreeCount(walk.pageinfo) - 1
        BY <1>3, DescendCost
    <2>6. /\ w.res \in {"ok", "null"}
          /\ \/ PTE_P \in walk.mem[walk.pt][PAGEINDEX(va, level)].flags
             \/ allocator /\ FreeAddr(walk.pageinfo) # NULL
             => w.res = "ok"
        <3>1. DescendEnds(walk, va, level, allocator, w)
            BY <1>1, <1>3, DescendSucceeds
        <3>. QED  BY <3>1 DEF DescendEnds
    <2>7. Needs(1, walk) => allocator /\ FreeAddr(walk.pageinfo) # NULL
        <3>1. walk.pageinfo \in [PN -> PageInfo]
            BY DEF Walk
        <3>. QED  BY <1>3, <2>5, <3>1, FreeAddrFound
    <2>. HIDE DEF Needs
    <2>. QED  BY <2>1, <2>3, <2>4, <2>5, <2>6, <2>7
<1>4. 0 \in 0 .. 2 /\ 1 \in 0 .. 2 /\ 2 \in 0 .. 2 /\ 0 + 1 = 1 /\ 1 + 1 = 2
    OBVIOUS
<1>5. w1 \in Walk /\ w1.res \in {"ok", "null"}
      /\ (PTE_P \in w0.mem[w0.pt][PAGEINDEX(va, 0)].flags \/ Needs(1, w0) => w1.res = "ok")
      /\ w1.pageinfo[NULL].refcount # 0
      /\ (\E l2, q2 : Placed(l2, q2, w1.mem, w1.pageinfo) /\ Reached(w1, l2, q2, p, 1, va))
      /\ FreeCount(w0.pageinfo) \in Nat /\ FreeCount(w1.pageinfo) \in Nat
      /\ FreeCount(w1.pageinfo) >= FreeCount(w0.pageinfo) - 1
    <2>. HIDE DEF Needs
    <2>. QED  BY <1>2, <1>3, <1>4
<1>6. PTE_P \in Entry0(m, pt, va).flags =>
        w1.mem = m /\ (w1.res = "ok" => w1.pt = Entry0(m, pt, va).pn)
    BY <1>2 DEF Descend, Entry0, Walk
<1>. HIDE DEF w1
<1>7. w1.res # "ok" => w2 = w1
    BY DEF Descend
<1>8. ASSUME w1.res = "ok"
      PROVE  /\ w3.res \in {"ok", "null"}
             /\ Present(m, pt, va) \/ (allocator /\ FreeCount(pi) >= 3) => w3.res = "ok"
    <2>1. w2 \in Walk /\ w2.res \in {"ok", "null"}
          /\ (PTE_P \in w1.mem[w1.pt][PAGEINDEX(va, 1)].flags \/ Needs(1, w1) => w2.res = "ok")
          /\ w2.pageinfo[NULL].refcount # 0
          /\ (\E l2, q2 : Placed(l2, q2, w2.mem, w2.pageinfo) /\ Reached(w2, l2, q2, p, 2, va))
          /\ FreeCount(w2.pageinfo) \in Nat
          /\ FreeCount(w2.pageinfo) >= FreeCount(w1.pageinfo) - 1
        <3>. HIDE DEF Needs
        <3>1. PICK l, q : Placed(l, q, w1.mem, w1.pageinfo) /\ Reached(w1, l, q, p, 1, va)
            BY <1>5
        <3>. QED  BY <1>3, <1>4, <1>5, <1>8, <3>1
    <2>2. PTE_P \in Entry0(m, pt, va).flags /\ PTE_P \in Entry1(m, pt, va).flags =>
            w2.mem = m /\ (w2.res = "ok" => w2.pt = Entry1(m, pt, va).pn)
        BY <1>5, <1>6, <1>8 DEF Descend, Entry1, Walk
    <2>. HIDE DEF w2
    <2>3. w2.res # "ok" => w3 = w2
        BY DEF Descend
    <2>4. w2.res = "ok" =>
            /\ w3.res \in {"ok", "null"}
            /\ PTE_P \in w2.mem[w2.pt][PAGEINDEX(va, 2)].flags \/ Needs(1, w2) => w3.res = "ok"
        <3>. HIDE DEF Needs
        <3>1. PICK l, q : Placed(l, q, w2.mem, w2.pageinfo) /\ Reached(w2, l, q, p, 2, va)
            BY <2>1
        <3>. QED  BY <1>3, <1>4, <2>1, <3>1
    <2>. HIDE DEF w3
    <2>5. w3.res \in {"ok", "null"}
        BY <2>1, <2>3, <2>4
    <2>6. allocator /\ FreeCount(pi) >= 3 => w3.res = "ok"
        BY <1>2, <1>5, <2>1, <2>4
    <2>7. Present(m, pt, va) => w3.res = "ok"
        <3>. SUFFICES ASSUME Present(m, pt, va) PROVE w3.res = "ok"
            OBVIOUS
        <3>1. /\ PTE_P \in Entry0(m, pt, va).flags /\ PTE_P \in Entry1(m, pt, va).flags
              /\ PTE_P \in Entry2(m, pt, va).flags
            BY DEF Present
        <3>2. w2.res = "ok" /\ w2.mem = m /\ w2.pt = Entry1(m, pt, va).pn
            BY <1>6, <1>8, <2>1, <2>2, <3>1 DEF Entry1
        <3>. QED  BY <2>4, <3>1, <3>2 DEF Entry2
    <2>. QED  BY <2>5, <2>6, <2>7
<1>9. /\ w3.res \in {"ok", "null"}
      /\ Present(m, pt, va) \/ (allocator /\ FreeCount(pi) >= 3) => w3.res = "ok"
    <2>1. CASE w1.res # "ok"
        <3>1. w3 = w1
            BY <1>7, <2>1 DEF Descend
        <3>. QED  BY <1>2, <1>5, <2>1, <3>1 DEF Present, Entry0
    <2>. QED  BY <1>8, <2>1
<1>. HIDE DEF w3
<1>10. map.res = IF w3.res = "null" THEN "fail" ELSE w3.res
    <2>1. lookup_l4pagetable(pi, m, pt, va, perm, p, allocator) = w3
        BY DEF lookup_l4pagetable, w0, w1, w2, w3
    <2>. QED  BY <2>1 DEF virtual_memory_map, SetEntry
<1>11. map.res = "ok" => Present(map.mem, pt, va)
    <2>1. MapBuilds(p, lev, path, pi, m, pt, va, pa, perm, map)
        BY MapPlaced
    <2>. HIDE DEF map
    <2>2. map.res = "ok" => PTE_P \in virtual_memory_lookup(map.mem, pt, va).perm
        BY <2>1 DEF MapBuilds
    <2>. QED  BY <2>2, LookupReads DEF Present
<1>. HIDE DEF map
<1>12. MapEnds(pi, m, pt, va, allocator, map)
    BY <1>9, <1>10, <1>11 DEF MapEnds
<1>. QED  BY <1>12 DEF map

-----------------------------------------------------------------------------
(* The allocator takes the lowest page *)

\* Above PROC_START nothing is given away.
HighSame(pi, pi2) == \A t \in PN : t >= PROC_START => pi2[t] = pi[t]

\* Giving away a page costs at most that page, also below PROC_START.
LEMMA LowAssignCost ==
    ASSUME NEW pi \in [PN -> PageInfo], NEW n \in PN, NEW owner
    PROVE  /\ LowCount(pi) \in Nat /\ LowCount(Assign(pi, n, owner)) \in Nat
           /\ LowCount(Assign(pi, n, owner)) >= LowCount(pi) - 1
           /\ n >= PROC_START => LowCount(Assign(pi, n, owner)) >= LowCount(pi)
           /\ LowCount(pi) =< FreeCount(pi)
<1>. DEFINE F == LowPages(pi)
            G == LowPages(Assign(pi, n, owner))
            A == FreePages(pi)
<1>1. IsFiniteSet(PN)
    BY FS_Interval, SizeAssumption DEF PN
<1>2. F \subseteq A /\ A \subseteq PN /\ G \subseteq PN
    BY DEF LowPages, FreePages
<1>3. IsFiniteSet(F) /\ IsFiniteSet(G) /\ IsFiniteSet(A)
    BY <1>1, <1>2, FS_Subset
<1>4. F \ {n} \subseteq G
    BY DEF LowPages, FreePages, IsFree, Assign
<1>5. n >= PROC_START => F \subseteq G
    <2>1. \A x \in PN : x \in Int
        BY SizeAssumption DEF PN
    <2>2. n >= PROC_START => n \notin F
        BY <2>1, LayoutTypes DEF LowPages
    <2>. QED  BY <1>4, <2>2
<1>. HIDE DEF F, G, A
<1>6. Cardinality(F) \in Nat /\ Cardinality(G) \in Nat /\ Cardinality(A) \in Nat
    BY <1>3, FS_CardinalityType
<1>7. Cardinality(F \ {n}) >= Cardinality(F) - 1
    <2>1. Cardinality(F \ {n}) = IF n \in F THEN Cardinality(F) - 1 ELSE Cardinality(F)
        BY <1>3, FS_RemoveElement, Zenon
    <2>. QED  BY <1>6, <2>1
<1>8. Cardinality(F \ {n}) =< Cardinality(G) /\ Cardinality(F \ {n}) \in Nat
    <2>1. IsFiniteSet(F \ {n})
        BY <1>3, FS_RemoveElement, FS_Subset
    <2>. QED  BY <1>3, <1>4, <2>1, FS_Subset, FS_CardinalityType
<1>9. n >= PROC_START => Cardinality(F) =< Cardinality(G)
    BY <1>3, <1>5, FS_Subset
<1>10. Cardinality(F) =< Cardinality(A)
    BY <1>2, <1>3, FS_Subset
<1>. QED  BY <1>6, <1>7, <1>8, <1>9, <1>10 DEF LowCount, FreeCount, F, G, A

\* While a page below PROC_START is free, get_free_addr finds one there.
LEMMA LowAddrFound ==
    ASSUME NEW pi \in [PN -> PageInfo], LowCount(pi) > 0
    PROVE  FreeAddr(pi) < PROC_START
<1>1. LowPages(pi) # {}
    BY FS_EmptySet DEF LowCount
<1>2. PICK low \in FreePages(pi) : low < PROC_START
    BY <1>1 DEF LowPages
<1>3. FreePages(pi) \in SUBSET Nat /\ FreePages(pi) # {}
    BY <1>2, SizeAssumption DEF FreePages, PN
<1>4. \E pn \in FreePages(pi) : \A other \in FreePages(pi) : pn =< other
    BY <1>3, LowestPage
<1>5. FreeAddr(pi) \in FreePages(pi) /\ \A other \in FreePages(pi) : FreeAddr(pi) =< other
    BY <1>3, <1>4 DEF FreeAddr
<1>6. FreeAddr(pi) \in Int /\ low \in Int /\ PROC_START \in Int /\ FreeAddr(pi) =< low
    BY <1>3, <1>5, LayoutTypes
<1>. QED  BY <1>2, <1>6

\* What one level of lookup_l4pagetable takes, it takes below PROC_START.
LEMMA LowDescendCost ==
    ASSUME NEW walk \in Walk, NEW va, NEW level, NEW perm, NEW owner, NEW allocator,
           NEW w, w = Descend(walk, va, level, perm, owner, allocator)
    PROVE  /\ LowCount(walk.pageinfo) \in Nat /\ LowCount(w.pageinfo) \in Nat
           /\ LowCount(w.pageinfo) >= LowCount(walk.pageinfo) - 1
           /\ LowCount(walk.pageinfo) > 0 => HighSame(walk.pageinfo, w.pageinfo)
<1>. DEFINE i   == PAGEINDEX(va, level)
            new == pagetable_alloc(walk.pageinfo, walk.mem, owner)
<1>1. walk.pageinfo \in [PN -> PageInfo] /\ walk.mem \in [PN -> Page]
    BY DEF Walk
<1>2. \/ w.pageinfo = walk.pageinfo
      \/ new.pn # NULL /\ w.pageinfo = new.pageinfo
    BY DEF Descend, Link, Walk
<1>3. /\ new.pn \in PN /\ new.pn = FreeAddr(walk.pageinfo)
      /\ new.pn # NULL => new.pageinfo = Assign(walk.pageinfo, new.pn, owner)
    <2>1. FreshTable(walk.pageinfo, walk.mem, owner, new)
        BY <1>1, PagetableAllocFresh
    <2>. HIDE DEF new
    <2>. QED  BY <2>1 DEF FreshTable
<1>. HIDE DEF new
<1>4. /\ LowCount(walk.pageinfo) \in Nat
      /\ LowCount(Assign(walk.pageinfo, new.pn, owner)) \in Nat
      /\ LowCount(Assign(walk.pageinfo, new.pn, owner)) >= LowCount(walk.pageinfo) - 1
    BY <1>1, <1>3, LowAssignCost
<1>5. LowCount(walk.pageinfo) > 0 => HighSame(walk.pageinfo, w.pageinfo)
    <2>. SUFFICES ASSUME LowCount(walk.pageinfo) > 0, NEW t \in PN, t >= PROC_START
                  PROVE  w.pageinfo[t] = walk.pageinfo[t]
        BY DEF HighSame
    <2>1. new.pn < PROC_START
        BY <1>1, <1>3, LowAddrFound
    <2>2. t # new.pn
        <3>1. t \in Int /\ PROC_START \in Int
            BY LayoutTypes, SizeAssumption DEF PN
        <3>. QED  BY <2>1, <3>1
    <2>. QED  BY <1>1, <1>2, <1>3, <2>2 DEF Assign
<1>. QED  BY <1>2, <1>3, <1>4, <1>5

\* What virtual_memory_map takes below PROC_START.
LowMapCosts(pi, map) ==
    /\ LowCount(pi) \in Nat /\ LowCount(map.pageinfo) \in Nat
    /\ LowCount(map.pageinfo) >= LowCount(pi) - 3
    /\ LowCount(pi) >= 3 => HighSame(pi, map.pageinfo)

\* With three pages free below PROC_START the tables come from there.
LEMMA LowMapCost ==
    ASSUME NEW pi \in [PN -> PageInfo], NEW m \in [PN -> Page], NEW pt \in PN,
           NEW va \in Nat, NEW pa, NEW perm, NEW owner \in Owner, NEW allocator
    PROVE  LowMapCosts(pi, virtual_memory_map(pi, m, pt, va, pa, perm, owner, allocator))
<1>. DEFINE w0 == [pageinfo |-> pi, mem |-> m, pt |-> pt, res |-> "ok"]
            w1 == Descend(w0, va, 0, perm, owner, allocator)
            w2 == Descend(w1, va, 1, perm, owner, allocator)
            w3 == Descend(w2, va, 2, perm, owner, allocator)
            map == virtual_memory_map(pi, m, pt, va, pa, perm, owner, allocator)
<1>1. w0 \in Walk /\ w0.pageinfo = pi
    BY DEF Walk
<1>2. map.pageinfo = w3.pageinfo
    BY DEF virtual_memory_map, lookup_l4pagetable, SetEntry
<1>. HIDE DEF w0, map
<1>3. /\ w1 \in Walk /\ LowCount(w0.pageinfo) \in Nat /\ LowCount(w1.pageinfo) \in Nat
      /\ LowCount(w1.pageinfo) >= LowCount(w0.pageinfo) - 1
      /\ LowCount(w0.pageinfo) > 0 => HighSame(w0.pageinfo, w1.pageinfo)
    <2>1. w1 \in Walk
        BY <1>1, DescendType
    <2>. HIDE DEF w1
    <2>2. w1 = Descend(w0, va, 0, perm, owner, allocator)
        BY DEF w1
    <2>. QED  BY <1>1, <2>1, <2>2, LowDescendCost
<1>. HIDE DEF w1
<1>4. /\ w2 \in Walk /\ LowCount(w2.pageinfo) \in Nat
      /\ LowCount(w2.pageinfo) >= LowCount(w1.pageinfo) - 1
      /\ LowCount(w1.pageinfo) > 0 => HighSame(w1.pageinfo, w2.pageinfo)
    <2>1. w2 \in Walk
        BY <1>3, DescendType
    <2>. HIDE DEF w2
    <2>2. w2 = Descend(w1, va, 1, perm, owner, allocator)
        BY DEF w2
    <2>. QED  BY <1>3, <2>1, <2>2, LowDescendCost
<1>. HIDE DEF w2
<1>5. /\ LowCount(w3.pageinfo) \in Nat
      /\ LowCount(w3.pageinfo) >= LowCount(w2.pageinfo) - 1
      /\ LowCount(w2.pageinfo) > 0 => HighSame(w2.pageinfo, w3.pageinfo)
    <2>. HIDE DEF w3
    <2>1. w3 = Descend(w2, va, 2, perm, owner, allocator)
        BY DEF w3
    <2>. QED  BY <1>4, <2>1, LowDescendCost
<1>. HIDE DEF w3
<1>6. LowCount(pi) >= 3 => HighSame(pi, map.pageinfo)
    <2>. SUFFICES ASSUME LowCount(pi) >= 3 PROVE HighSame(pi, map.pageinfo)
        OBVIOUS
    <2>1. LowCount(w0.pageinfo) > 0 /\ LowCount(w1.pageinfo) > 0 /\ LowCount(w2.pageinfo) > 0
        BY <1>1, <1>3, <1>4
    <2>2. /\ HighSame(w0.pageinfo, w1.pageinfo) /\ HighSame(w1.pageinfo, w2.pageinfo)
          /\ HighSame(w2.pageinfo, w3.pageinfo)
        BY <1>3, <1>4, <1>5, <2>1
    <2>. QED  BY <1>1, <1>2, <2>2 DEF HighSame
<1>7. LowMapCosts(pi, map)
    BY <1>1, <1>2, <1>3, <1>4, <1>5, <1>6 DEF LowMapCosts
<1>. QED  BY <1>7 DEF map

-----------------------------------------------------------------------------
(* The assertions of set_pagetable and check_virtual_memory *)

\* The indexes of a page in the second half of kernel_pagetable.
LEMMA HighIndexes ==
    ASSUME NEW va \in Nat, va >= NPAGETABLEENTRIES, va < 2 * NPAGETABLEENTRIES
    PROVE  /\ PAGEINDEX(va, 0) = 0 /\ PAGEINDEX(va, 1) = 0 /\ PAGEINDEX(va, 2) = 1
           /\ PAGEINDEX(va, 3) = va - NPAGETABLEENTRIES
<1>. DEFINE n == NPAGETABLEENTRIES
<1>1. n \in Nat /\ n >= 2
    BY SizeAssumption, LayoutAssumption
<1>. HIDE DEF n
<1>2. \A x \in Nat : x >= n /\ x < 2 * n => x \div n = 1 /\ x % n = x - n
    BY <1>1
<1>3. 1 \div n = 0 /\ 1 % n = 1 /\ 0 \div n = 0 /\ 0 % n = 0
    BY <1>1
<1>4. va \div n = 1 /\ va % n = va - n
    BY <1>2 DEF n
<1>. QED  BY <1>3, <1>4 DEF PAGEINDEX, Upper, n

\* The indexes of an address in the first half.
LEMMA SmallIndexes ==
    ASSUME NEW va \in Nat, va < NPAGETABLEENTRIES
    PROVE  /\ PAGEINDEX(va, 0) = 0 /\ PAGEINDEX(va, 1) = 0 /\ PAGEINDEX(va, 2) = 0
           /\ PAGEINDEX(va, 3) = va
<1>1. NPAGETABLEENTRIES \in Nat \ {0} /\ 0 < NPAGETABLEENTRIES
    BY SizeAssumption
<1>2. /\ va \div NPAGETABLEENTRIES = 0 /\ va % NPAGETABLEENTRIES = va
      /\ 0 \div NPAGETABLEENTRIES = 0 /\ 0 % NPAGETABLEENTRIES = 0
    BY <1>1, SmallDigit
<1>. QED  BY <1>2 DEF PAGEINDEX, Upper

\* The tables for the first address are the tables for all of the first half.
LEMMA PresentInFirst ==
    ASSUME NEW m, NEW pt, NEW va \in Nat, va < NPAGETABLEENTRIES
    PROVE  Present(m, pt, va) <=> Present(m, pt, 0)
<1>1. 0 \in Nat /\ 0 < NPAGETABLEENTRIES
    BY SizeAssumption
<1>2. /\ PAGEINDEX(va, 0) = PAGEINDEX(0, 0) /\ PAGEINDEX(va, 1) = PAGEINDEX(0, 1)
      /\ PAGEINDEX(va, 2) = PAGEINDEX(0, 2)
    BY <1>1, SmallIndexes
<1>. QED  BY <1>2 DEF Present, Entry0, Entry1, Entry2

\* kernel_pagetable maps all of physical memory to itself.
LEMMA KernelIdentity ==
    ASSUME NEW m, NEW pi, KernelIntact(m, pi), NEW pn \in PN
    PROVE  virtual_memory_lookup(m, KPT, pn) = [pn |-> pn, perm |-> KernelPerm(pn)]
<1>. DEFINE e0 == Entry0(m, KPT, pn)
            e1 == Entry1(m, KPT, pn)
            e2 == Entry2(m, KPT, pn)
            e3 == Entry3(m, KPT, pn)
            n  == NPAGETABLEENTRIES
<1>1. n \in Nat /\ n >= 2 /\ pn \in Nat /\ pn < 2 * n /\ KPT \in Nat
    BY SizeAssumption, LayoutAssumption DEF PN
<1>2. KPT + 0 = KPT /\ KPT + 0 + 1 = KPT + 1 /\ KPT + 1 + 1 = KPT + 2 /\ KPT + 3 + 0 = KPT + 3
      /\ KPT + 3 + 1 = KPT + 4
    BY <1>1
<1>3. 0 \in Index /\ 1 \in Index
    BY <1>1 DEF Index, n
<1>4. /\ KernelTable(0)[0] = TableEntry(KPT + 1)
      /\ KernelTable(1)[0] = TableEntry(KPT + 2)
      /\ KernelTable(2)[0] = TableEntry(KPT + 3)
      /\ KernelTable(2)[1] = TableEntry(KPT + 4)
    BY <1>2, <1>3 DEF KernelTable
<1>5. /\ m[KPT] = KernelTable(0) /\ m[KPT + 1] = KernelTable(1)
      /\ m[KPT + 2] = KernelTable(2) /\ m[KPT + 3] = KernelTable(3)
      /\ m[KPT + 4] = KernelTable(4)
    BY <1>2 DEF KernelIntact
<1>6. \A x : TableEntry(x).pn = x /\ TableEntry(x).flags = Flags
    BY DEF TableEntry, Flags
<1>7. /\ e0.flags = Flags /\ e1.flags = Flags /\ e2.flags = Flags
      /\ e3 = [pn |-> pn, flags |-> KernelPerm(pn)]
    <2>1. CASE pn < n
        <3>1. /\ PAGEINDEX(pn, 0) = 0 /\ PAGEINDEX(pn, 1) = 0 /\ PAGEINDEX(pn, 2) = 0
              /\ PAGEINDEX(pn, 3) = pn /\ pn \in Index
            <4>1. pn \in Index
                BY <1>1, <2>1 DEF Index, n
            <4>. QED  BY <1>1, <2>1, <4>1, SmallIndexes
        <3>2. e0 = TableEntry(KPT + 1)
            BY <1>4, <1>5, <3>1 DEF Entry0
        <3>3. e1 = TableEntry(KPT + 2)
            BY <1>4, <1>5, <1>6, <3>1, <3>2 DEF Entry1
        <3>4. e2 = TableEntry(KPT + 3)
            BY <1>4, <1>5, <1>6, <3>1, <3>3 DEF Entry2
        <3>5. e3 = KernelTable(3)[pn]
            BY <1>5, <1>6, <3>1, <3>4 DEF Entry3
        <3>6. KernelTable(3)[pn] = [pn |-> pn, flags |-> KernelPerm(pn)]
            BY <3>1 DEF KernelTable, KernelLeaf
        <3>. QED  BY <1>6, <3>2, <3>3, <3>4, <3>5, <3>6
    <2>2. CASE pn >= n
        <3>1. /\ PAGEINDEX(pn, 0) = 0 /\ PAGEINDEX(pn, 1) = 0 /\ PAGEINDEX(pn, 2) = 1
              /\ PAGEINDEX(pn, 3) = pn - n
            BY <1>1, <2>2, HighIndexes
        <3>2. pn - n \in Index /\ n + (pn - n) = pn
            BY <1>1, <2>2 DEF Index
        <3>3. e0 = TableEntry(KPT + 1)
            BY <1>4, <1>5, <3>1 DEF Entry0
        <3>4. e1 = TableEntry(KPT + 2)
            BY <1>4, <1>5, <1>6, <3>1, <3>3 DEF Entry1
        <3>5. e2 = TableEntry(KPT + 4)
            BY <1>4, <1>5, <1>6, <3>1, <3>4 DEF Entry2
        <3>6. e3 = KernelTable(4)[pn - n]
            BY <1>5, <1>6, <3>1, <3>5 DEF Entry3
        <3>7. KernelTable(4)[pn - n] = [pn |-> pn, flags |-> KernelPerm(pn)]
            <4>1. KernelTable(4)[pn - n] = KernelLeaf(n + (pn - n))
                BY <3>2 DEF KernelTable
            <4>. QED  BY <3>2, <4>1 DEF KernelLeaf
        <3>. QED  BY <1>6, <3>3, <3>4, <3>5, <3>6, <3>7
    <2>. QED  BY <1>1, <2>1, <2>2
<1>8. PTE_P \in KernelPerm(pn) /\ KernelPerm(pn) \subseteq Flags
    BY DEF KernelPerm, RWU, Flags
<1>9. e0.flags \cap e1.flags \cap e2.flags \cap e3.flags = KernelPerm(pn) /\ e3.pn = pn
    BY <1>7, <1>8
<1>. QED  BY <1>8, <1>9, LookupReads

\* set_pagetable accepts a page table that has the kernel's part, and its own.
LEMMA SetPagetableAccepts ==
    ASSUME NEW m, NEW pi, KernelIntact(m, pi), NEW pt \in PN, LowOK(m, pt) \/ pt = KPT
    PROVE  SetPagetableOK(m, pt)
<1>1. KTEXT \in 0 .. PROC_START - 1 /\ KPT \in 0 .. PROC_START - 1 /\ KPT \in PN /\ KTEXT \in PN
    BY LayoutAssumption, LayoutTypes, KernelPages
<1>2. \A pn \in PN : virtual_memory_lookup(m, KPT, pn).pn = pn
    BY KernelIdentity
<1>3. LowOK(m, pt) => virtual_memory_lookup(m, pt, KTEXT).pn = KTEXT
                      /\ virtual_memory_lookup(m, pt, KPT).pn = KPT
    BY <1>1 DEF LowOK, LowAt
<1>. QED  BY <1>1, <1>2, <1>3 DEF SetPagetableOK, MapsIdentically

\* The pages of kernel_pagetables[] below the first.
LEMMA KernelTree ==
    ASSUME NEW m, NEW pi, KernelIntact(m, pi), NEW t \in TablesBelow(m, KPT)
    PROVE  t \in KERNEL
<1>. DEFINE l2 == NextTables(m, {KPT})
            l3 == NextTables(m, l2)
            l4 == NextTables(m, l3)
<1>1. KPT \in Nat /\ KPT .. KPT + 4 \subseteq KERNEL
    BY LayoutAssumption
<1>2. /\ m[KPT] = KernelTable(0) /\ m[KPT + 1] = KernelTable(1) /\ m[KPT + 2] = KernelTable(2)
    <2>1. KPT + 0 = KPT
        BY <1>1
    <2>. QED  BY <2>1 DEF KernelIntact
<1>3. \A x : TableEntry(x).pn = x
    BY DEF TableEntry
<1>4. \A u \in l2 : u = KPT + 1
    <2>1. \A i \in Index : KernelTable(0)[i] # ZeroWord => KernelTable(0)[i].pn = KPT + 1
        BY <1>1, <1>3 DEF KernelTable
    <2>. QED  BY <1>2, <2>1 DEF NextTables
<1>. HIDE DEF l2
<1>5. \A u \in l3 : u = KPT + 2
    <2>1. \A i \in Index : KernelTable(1)[i] # ZeroWord => KernelTable(1)[i].pn = KPT + 2
        BY <1>1, <1>3 DEF KernelTable
    <2>. QED  BY <1>2, <1>4, <2>1 DEF NextTables
<1>. HIDE DEF l3
<1>6. \A u \in l4 : u \in KPT + 3 .. KPT + 4
    <2>1. ASSUME NEW i \in Index, KernelTable(2)[i] # ZeroWord
          PROVE  KernelTable(2)[i].pn \in KPT + 3 .. KPT + 4
        <3>1. KernelTable(2)[i] = IF i < 2 THEN TableEntry(KPT + 3 + i) ELSE ZeroWord
            BY DEF KernelTable
        <3>2. i \in 0 .. 1
            BY <2>1, <3>1, SizeAssumption DEF Index
        <3>3. KernelTable(2)[i].pn = KPT + 3 + i
            BY <1>3, <3>1, <3>2
        <3>. QED  BY <1>1, <3>2, <3>3
    <2>. QED  BY <1>2, <1>5, <2>1 DEF NextTables
<1>. HIDE DEF l4
<1>7. t \in l2 \/ t \in l3 \/ t \in l4
    BY DEF TablesBelow, l2, l3, l4
<1>. QED  BY <1>1, <1>4, <1>5, <1>6, <1>7

\* When user code runs, all that check_virtual_memory asserts holds.
LEMMA ChecksPass ==
    ASSUME OwnershipInv, IsolationInv, LowInv, ActiveInv, kpc = "user"
    PROVE  check_virtual_memory
<1>1. /\ pageinfo \in [PN -> PageInfo] /\ mem \in [PN -> Page] /\ processes \in [Pid -> Processes]
      /\ KernelIntact(mem, pageinfo) /\ ProcessZeroUnused /\ PageinfoConsistent
    BY Parts
<1>2. PICK lev \in [PN -> Level], path \in [PN -> Path] :
        Placed(lev, path, mem, pageinfo) /\ RootsOK(lev, pageinfo, processes)
    BY Parts DEF PlacesInv
<1>. DEFINE active == {p \in Pid : processes[p].state # "P_FREE"}
            onKernelTable == {p \in active : processes[p].pagetable = KPT}
<1>3. KPT \in KERNEL /\ KERNEL \subseteq 0 .. PROC_START - 1
    <2>1. KPT + 0 = KPT
        BY LayoutAssumption
    <2>. QED  BY <2>1, KernelPages, LayoutAssumption
<1>4. ASSUME NEW p \in active
      PROVE  /\ p \in HasTable /\ processes[p].pagetable \in PN /\ p \in Pid \ {0}
             /\ Root(lev, pageinfo, processes[p].pagetable, p)
             /\ LowOK(mem, processes[p].pagetable)
    <2>1. p \in HasTable /\ p \in Pid /\ processes[p].state # "P_FREE"
        BY DEF ActiveInv
    <2>2. processes[p].pagetable \in PN /\ processes[p].pagetable # NULL
        BY <1>1, <2>1 DEF Processes, HasTable
    <2>3. Root(lev, pageinfo, processes[p].pagetable, p) /\ LowOK(mem, processes[p].pagetable)
        BY <1>2, <2>1, <2>2 DEF RootsOK, LowInv
    <2>4. p # 0
        BY <1>1, <2>1 DEF ProcessZeroUnused
    <2>. QED  BY <2>1, <2>2, <2>3, <2>4
<1>5. onKernelTable = {}
    <2>. SUFFICES ASSUME NEW p \in active, processes[p].pagetable = KPT PROVE FALSE
        OBVIOUS
    <2>1. pageinfo[KPT].owner = p /\ pageinfo[KPT].owner = PO_KERNEL
        <3>1. Root(lev, pageinfo, processes[p].pagetable, p)
            BY <1>4
        <3>2. pageinfo[processes[p].pagetable].owner = p
            BY <3>1 DEF Root, Owns
        <3>3. pageinfo[KPT].owner = PO_KERNEL
            BY <1>1, <1>3 DEF KernelIntact
        <3>. QED  BY <3>2, <3>3
    <2>2. p \in Nat
        BY SizeAssumption DEF Pid
    <2>. QED  BY <2>1, <2>2 DEF PO_KERNEL
<1>6. ASSUME NEW pt, LowOK(mem, pt)
      PROVE  CheckMappings(pt)
    <2>1. ASSUME NEW va \in KERNEL
          PROVE  /\ virtual_memory_lookup(mem, pt, va).pn = va
                 /\ PTE_W \in virtual_memory_lookup(mem, pt, va).perm
        <3>1. virtual_memory_lookup(mem, pt, va) = [pn |-> va, perm |-> KernelPerm(va)]
            BY <1>3, <1>6 DEF LowOK, LowAt
        <3>. QED  BY <3>1 DEF KernelPerm, RWU
    <2>. QED  BY <2>1 DEF CheckMappings
<1>7. CheckMappings(KPT)
    <2>1. \A va \in 0 .. PROC_START - 1 :
            virtual_memory_lookup(mem, KPT, va) = [pn |-> va, perm |-> KernelPerm(va)]
        BY <1>1, LookupKernel, LayoutTypes
    <2>2. LowOK(mem, KPT)
        BY <2>1 DEF LowOK, LowAt
    <2>. QED  BY <1>6, <2>2
<1>8. CheckOwnership(KPT, PO_KERNEL, 1 + Cardinality(onKernelTable))
    <2>1. Cardinality(onKernelTable) = 0
        BY <1>5, FS_EmptySet
    <2>2. 1 + Cardinality(onKernelTable) = 1
        BY <2>1
    <2>3. \A t \in KERNEL : pageinfo[t] = [owner |-> PO_KERNEL, refcount |-> 1]
        BY <1>1 DEF KernelIntact
    <2>4. \A t \in TablesBelow(mem, KPT) : t \in KERNEL
        BY <1>1, KernelTree
    <2>. HIDE DEF onKernelTable
    <2>. QED  BY <1>3, <2>2, <2>3, <2>4 DEF CheckOwnership
<1>9. ASSUME NEW p \in active
      PROVE  CheckMappings(processes[p].pagetable) /\ CheckOwnership(processes[p].pagetable, p, 1)
    <2>1. CheckMappings(processes[p].pagetable)
        BY <1>4, <1>6
    <2>2. lev[processes[p].pagetable] = 0 /\ processes[p].pagetable \in PN
          /\ pageinfo[processes[p].pagetable] = [owner |-> p, refcount |-> 1]
        BY <1>4 DEF Root, Owns
    <2>3. \A t \in TablesBelow(mem, processes[p].pagetable) :
            pageinfo[t] = pageinfo[processes[p].pagetable]
        BY <1>1, <1>2, <2>2, TreePlaced
    <2>. QED  BY <2>1, <2>2, <2>3 DEF CheckOwnership
<1>10. ASSUME NEW pn \in PN, pageinfo[pn].refcount > 0, pageinfo[pn].owner >= 0
       PROVE  pageinfo[pn].owner \in active
    <2>1. pageinfo[pn].owner \in Owner /\ pageinfo[pn].owner # PO_FREE
        BY <1>1, <1>10 DEF PageinfoConsistent, PageInfo
    <2>2. pageinfo[pn].owner \in Pid \ {0}
        BY <1>10, <2>1 DEF Owner, PO_KERNEL, PO_RESERVED, PO_FREE
    <2>3. processes[pageinfo[pn].owner].state # "P_FREE"
        BY <2>2 DEF ActiveInv
    <2>. QED  BY <2>2, <2>3
<1>11. processes[0].state = "P_FREE"
    BY <1>1 DEF ProcessZeroUnused
<1>. HIDE DEF active
<1>. QED  BY <1>7, <1>8, <1>9, <1>10, <1>11 DEF check_virtual_memory, active

-----------------------------------------------------------------------------
(* Leaving the kernel alive *)

\* Every active process has a page table with the kernel's part.
ActiveSpaces(procs, m) ==
    \A p \in Pid : procs[p].state # "P_FREE" =>
        procs[p].pagetable \in PN \ {NULL} /\ LowOK(m, procs[p].pagetable)

\* Every page of a process is a page of an active process.
OwnersActive(procs, pi) ==
    \A pn \in PN : pi[pn].owner \in Pid \ {0} => procs[pi[pn].owner].state # "P_FREE"

\* The tables for low memory are there once its first page is mapped.
LEMMA LowPresent ==
    ASSUME NEW m, NEW pt, LowAt(m, pt, 0)
    PROVE  Present(m, pt, 0)
<1>1. virtual_memory_lookup(m, pt, 0) = [pn |-> 0, perm |-> KernelPerm(0)]
    BY DEF LowAt
<1>2. KernelPerm(0) # {}
    BY DEF KernelPerm, RWU
<1>3. PTE_P \in virtual_memory_lookup(m, pt, 0).perm
    BY <1>1, <1>2, LookupReads
<1>. QED  BY <1>1, <1>2, <1>3, LookupReads DEF Present

\* run() runs a process that has the kernel's part in its page table.
LEMMA RunLives ==
    ASSUME NEW procs, NEW m, NEW pi, KernelIntact(m, pi), ActiveSpaces(procs, m),
           NEW p \in Pid, procs[p].state = "P_RUNNABLE", run(procs, m, p)
    PROVE  kpc' = "user"
<1>1. procs[p].pagetable \in PN /\ LowOK(m, procs[p].pagetable)
    BY DEF ActiveSpaces
<1>2. SetPagetableOK(m, procs[p].pagetable)
    BY <1>1, SetPagetableAccepts
<1>. QED  BY <1>2 DEF run

\* schedule() runs one or idles.
LEMMA ScheduleLives ==
    ASSUME NEW procs, NEW m, NEW pi, KernelIntact(m, pi), ActiveSpaces(procs, m), schedule(procs, m)
    PROVE  kpc' \in {"user", "idle"}
<1>1. CASE kpc' = "idle"
    BY <1>1
<1>2. CASE \E p \in Runnable(procs) : run(procs, m, p)
    <2>1. PICK p \in Pid : procs[p].state = "P_RUNNABLE" /\ run(procs, m, p)
        BY <1>2 DEF Runnable
    <2>. QED  BY <2>1, RunLives
<1>. QED  BY <1>1, <1>2 DEF schedule

\* So does the end of exception().
LEMMA ReturnLives ==
    ASSUME current \in Pid, NEW procs, NEW m, NEW pi, KernelIntact(m, pi),
           ActiveSpaces(procs, m), Return(procs, m, pi)
    PROVE  kpc' \in {"user", "idle"} /\ processes' = procs /\ mem' = m /\ pageinfo' = pi
<1>1. ReturnFromException(procs, m) /\ processes' = procs /\ mem' = m /\ pageinfo' = pi
    BY DEF Return
<1>2. \/ procs[current].state = "P_RUNNABLE" /\ run(procs, m, current)
      \/ schedule(procs, m)
    BY <1>1 DEF ReturnFromException
<1>3. CASE procs[current].state = "P_RUNNABLE" /\ run(procs, m, current)
    BY <1>1, <1>3, RunLives
<1>4. CASE schedule(procs, m)
    BY <1>1, <1>4, ScheduleLives
<1>. QED  BY <1>2, <1>3, <1>4

\* Out of the loops the invariant is about the active processes only.
LEMMA LeaveLives ==
    ASSUME kpc' \in {"user", "idle", "off", "dispatch"}, ActiveSpaces(processes', mem'),
           OwnersActive(processes', pageinfo')
    PROVE  LiveInv'
<1>1. LowInv'
    BY DEF LowInv, ActiveSpaces, HasTable
<1>2. ActiveInv'
    BY DEF ActiveInv, OwnersActive, ActiveSpaces, HasTable, Booting
<1>3. LoadInv' /\ ForkInv' /\ NoPanic'
    BY DEF LoadInv, ForkInv, NoPanic, Booting
<1>. QED  BY <1>1, <1>2, <1>3 DEF LiveInv

\* What LiveInv says in the handlers.
LEMMA ActiveNow ==
    ASSUME OwnershipInv, LiveInv, kpc \notin Booting \cup {"fork_copy"}
    PROVE  ActiveSpaces(processes, mem) /\ OwnersActive(processes, pageinfo)
<1>1. processes \in [Pid -> Processes]
    BY DEF OwnershipInv, TypeOK
<1>2. \A p \in Pid : processes[p].pagetable \in PN
    BY <1>1 DEF Processes
<1>3. ActiveSpaces(processes, mem)
    BY <1>2 DEF LiveInv, LowInv, ActiveInv, ActiveSpaces, HasTable
<1>4. OwnersActive(processes, pageinfo)
    BY DEF LiveInv, ActiveInv, OwnersActive, Booting
<1>. QED  BY <1>3, <1>4

\* The kernel's part of an address space in the next state.
SameLow(m, m2, pt) ==
    \A va \in 0 .. PROC_START - 1 :
        virtual_memory_lookup(m2, pt, va) = virtual_memory_lookup(m, pt, va)

\* A handler that ends keeping the kernel's part of every address space, with
\* the pages it has given away belonging to an active process.
LEMMA HandlerLives ==
    ASSUME OwnershipInv, IsolationInv, LiveInv, kpc \in {"dispatch", "fork_memory"},
           NEW procs, NEW m, NEW pi, KernelIntact(m, pi), Return(procs, m, pi),
           \A p \in Pid : /\ procs[p].pagetable = processes[p].pagetable
                          /\ procs[p].state # "P_FREE" <=> processes[p].state # "P_FREE",
           \A p \in HasTable : SameLow(mem, m, processes[p].pagetable),
           NEW q \in Pid, processes[q].state # "P_FREE", Grown(pageinfo, pi, {q})
    PROVE  LiveInv'
<1>1. ActiveSpaces(processes, mem) /\ OwnersActive(processes, pageinfo) /\ current \in Pid
    BY ActiveNow DEF Booting, OwnershipInv, TypeOK
<1>2. ActiveSpaces(procs, m)
    <2>. SUFFICES ASSUME NEW p \in Pid, procs[p].state # "P_FREE"
                  PROVE  procs[p].pagetable \in PN \ {NULL} /\ LowOK(m, procs[p].pagetable)
        BY DEF ActiveSpaces
    <2>1. /\ procs[p].pagetable = processes[p].pagetable
          /\ processes[p].pagetable \in PN \ {NULL} /\ LowOK(mem, processes[p].pagetable)
          /\ p \in HasTable
        BY <1>1 DEF ActiveSpaces, HasTable
    <2>2. SameLow(mem, m, processes[p].pagetable)
        BY <2>1
    <2>. QED  BY <2>1, <2>2 DEF SameLow, LowOK, LowAt
<1>3. OwnersActive(procs, pi)
    BY <1>1 DEF OwnersActive, Grown
<1>4. kpc' \in {"user", "idle"} /\ processes' = procs /\ mem' = m /\ pageinfo' = pi
    BY <1>1, <1>2, ReturnLives
<1>5. ActiveSpaces(processes', mem') /\ OwnersActive(processes', pageinfo')
    BY <1>2, <1>3, <1>4, Zenon
<1>. QED  BY <1>4, <1>5, LeaveLives

-----------------------------------------------------------------------------
(* User mode and the handlers that allocate nothing *)

\* Nothing changes what page tables say.
LEMMA SameLowReflexive ==
    ASSUME NEW m, NEW pt
    PROVE  SameLow(m, m, pt)
BY DEF SameLow

\* What a step that writes to no page table leaves of every address space.
LEMMA TablesKeepLow ==
    ASSUME NEW m \in [PN -> Page], NEW pi, NEW lev, NEW path, Placed(lev, path, m, pi),
           NEW m2, \A u \in PN : lev[u] \in 0 .. 3 => m2[u] = m[u], NEW pt \in PN, lev[pt] = 0
    PROVE  SameLow(m, m2, pt)
<1>1. SeesSame(lev, m, m2)
    BY SameTables
<1>2. 0 .. PROC_START - 1 \subseteq VA
    BY LayoutTypes, SizeAssumption DEF VA
<1>. QED  BY <1>1, <1>2 DEF SeesSame, SameLow

\* A store changes no page table.
LEMMA UserStoreLives ==
    ASSUME OwnershipInv, IsolationInv, LiveInv, NEW va \in TouchVAs, NEW i \in TouchIndexes,
           NEW w \in UserWords, UserStore(va, i, w)
    PROVE  LiveInv'
<1>. DEFINE n == virtual_memory_lookup(mem, cr3, va).pn
<1>1. /\ pageinfo \in [PN -> PageInfo] /\ mem \in [PN -> Page] /\ processes \in [Pid -> Processes]
      /\ KernelIntact(mem, pageinfo) /\ CurrentOK /\ kpc = "user"
      /\ PTE_U \in virtual_memory_lookup(mem, cr3, va).perm
    BY Parts DEF UserStore, Executing, UserPerm
<1>2. PICK lev \in [PN -> Level], path \in [PN -> Path] :
        Placed(lev, path, mem, pageinfo) /\ RootsOK(lev, pageinfo, processes)
    BY Parts DEF PlacesInv
<1>3. cr3 \in PN /\ lev[cr3] = 0 /\ va \in VA
    BY <1>1, <1>2, CurrentRoot, UserAssumption DEF CurrentOK, Root
<1>4. n \in PN /\ (n = CONSOLE \/ lev[n] = UserLevel)
    BY <1>1, <1>2, <1>3, LookupPlaced
<1>5. \A u \in PN : u # n => mem'[u] = mem[u]
    BY <1>1 DEF UserStore
<1>6. UNCHANGED <<pageinfo, processes, kpc>>
    BY DEF UserStore
<1>. HIDE DEF n
<1>7. lev[n] \notin 0 .. 3
    <2>1. CASE n = CONSOLE
        <3>1. pageinfo[n].owner = -1
            BY <1>1, <2>1, LayoutAssumption DEF KernelIntact, PO_RESERVED
        <3>2. -1 \notin Pid
            BY SizeAssumption DEF Pid
        <3>. QED  BY <1>2, <1>4, <3>1, <3>2 DEF Placed, PlacesOwned, NoLevel
    <2>2. CASE lev[n] = UserLevel
        BY <2>2 DEF UserLevel
    <2>. QED  BY <1>4, <2>1, <2>2
<1>8. \A u \in PN : lev[u] \in 0 .. 3 => mem'[u] = mem[u]
    BY <1>5, <1>7
<1>9. ActiveSpaces(processes, mem) /\ OwnersActive(processes, pageinfo)
    BY <1>1, ActiveNow DEF Booting
<1>10. ASSUME NEW p \in Pid, processes[p].state # "P_FREE"
       PROVE  processes[p].pagetable \in PN \ {NULL} /\ LowOK(mem', processes[p].pagetable)
    <2>1. processes[p].pagetable \in PN \ {NULL} /\ LowOK(mem, processes[p].pagetable)
        BY <1>9, <1>10 DEF ActiveSpaces
    <2>2. lev[processes[p].pagetable] = 0
        BY <1>2, <1>10, <2>1 DEF RootsOK, Root
    <2>3. SameLow(mem, mem', processes[p].pagetable)
        BY <1>1, <1>2, <1>8, <2>1, <2>2, TablesKeepLow
    <2>. QED  BY <2>1, <2>3 DEF SameLow, LowOK, LowAt
<1>11. ActiveSpaces(processes', mem')
    BY <1>6, <1>10 DEF ActiveSpaces
<1>12. OwnersActive(processes', pageinfo')
    BY <1>6, <1>9
<1>13. kpc' = "user"
    BY <1>1, <1>6
<1>. QED  BY <1>11, <1>12, <1>13, LeaveLives

\* An exception passes the checks of check_virtual_memory.
LEMMA ExceptionLives ==
    ASSUME OwnershipInv, IsolationInv, LiveInv, kpc = "user", NEW int, NEW rdi, NEW rax,
           exception(int, rdi, rax)
    PROVE  LiveInv'
<1>1. /\ processes \in [Pid -> Processes] /\ current \in Pid /\ KernelIntact(mem, pageinfo)
    BY Parts
<1>2. check_virtual_memory
    BY ChecksPass DEF LiveInv
<1>3. SetPagetableOK(mem, KPT)
    BY <1>1, LayoutTypes, SetPagetableAccepts
<1>4. /\ kpc' = "dispatch" /\ UNCHANGED <<pageinfo, mem>>
      /\ processes' = [processes EXCEPT ![current].rax = rax]
    BY <1>2, <1>3 DEF exception
<1>5. \A p \in Pid : /\ processes'[p].state = processes[p].state
                     /\ processes'[p].pagetable = processes[p].pagetable
    BY <1>1, <1>4 DEF Processes
<1>6. ActiveSpaces(processes, mem) /\ OwnersActive(processes, pageinfo)
    BY ActiveNow DEF Booting
<1>7. ActiveSpaces(processes', mem')
    BY <1>4, <1>5, <1>6 DEF ActiveSpaces
<1>8. OwnersActive(processes', pageinfo')
    BY <1>4, <1>5, <1>6 DEF OwnersActive
<1>. QED  BY <1>4, <1>7, <1>8, LeaveLives

\* Whatever user programs do.
LEMMA UserLives == OwnershipInv /\ IsolationInv /\ LiveInv /\ (User \/ Timer) => LiveInv'
<1>. SUFFICES ASSUME OwnershipInv, IsolationInv, LiveInv, User \/ Timer PROVE LiveInv'
    OBVIOUS
<1>1. CASE \E va \in TouchVAs, i \in TouchIndexes, w \in UserWords : UserStore(va, i, w)
    BY <1>1, UserStoreLives
<1>2. CASE \E int \in Syscalls, rax \in UserRax : Syscall(int, rax)
    BY <1>2, ExceptionLives DEF Syscall, Executing
<1>3. CASE \E addr \in AllocVAs, rax \in UserRax : SyscallPageAlloc(addr, rax)
    BY <1>3, ExceptionLives DEF SyscallPageAlloc, Executing
<1>4. CASE \E va \in TouchVAs, rax \in UserRax : PageFault(va, rax)
    BY <1>4, ExceptionLives DEF PageFault
<1>5. CASE Timer
    BY <1>5, ExceptionLives DEF Timer, TimerInterrupt
<1>. QED  BY <1>1, <1>2, <1>3, <1>4, <1>5 DEF User

\* A handler that ends having changed registers and states of active processes.
LEMMA QuietLives ==
    ASSUME OwnershipInv, IsolationInv, LiveInv, kpc \in {"dispatch", "fork_memory"},
           NEW procs, Return(procs, mem, pageinfo),
           \A p \in Pid : /\ procs[p].pagetable = processes[p].pagetable
                          /\ procs[p].state # "P_FREE" <=> processes[p].state # "P_FREE"
    PROVE  LiveInv'
<1>1. pageinfo \in [PN -> PageInfo] /\ KernelIntact(mem, pageinfo)
    BY Parts
<1>2. current \in Pid /\ processes[current].state # "P_FREE"
    BY Parts DEF CurrentOK, HasTable
<1>3. Grown(pageinfo, pageinfo, {current})
    BY <1>1, GrownReflexive
<1>4. \A p \in HasTable : SameLow(mem, mem, processes[p].pagetable)
    BY SameLowReflexive
<1>. QED  BY <1>1, <1>2, <1>3, <1>4, HandlerLives

\* The handlers that allocate nothing.
LEMMA SimpleHandlerLives ==
    OwnershipInv /\ IsolationInv /\ LiveInv /\ Survivable /\
        (HandlePanic \/ HandleGetpid \/ HandleYieldOrTimer \/ HandlePageFault
         \/ HandlePageAllocOOM \/ ForkNoSlot \/ ForkEnd) => LiveInv'
<1>. SUFFICES ASSUME OwnershipInv, IsolationInv, LiveInv, Survivable,
                     HandlePanic \/ HandleGetpid \/ HandleYieldOrTimer \/ HandlePageFault
                     \/ HandlePageAllocOOM \/ ForkNoSlot \/ ForkEnd
              PROVE  LiveInv'
    OBVIOUS
<1>1. kpc \in {"dispatch", "fork_memory"}
    BY DEF HandlePanic, HandleGetpid, HandleYieldOrTimer, HandlePageFault,
           HandlePageAllocOOM, ForkNoSlot, ForkEnd
<1>2. /\ processes \in [Pid -> Processes] /\ current \in Pid /\ job.pid \in Pid
      /\ KernelIntact(mem, pageinfo) /\ processes[current].state # "P_FREE"
    BY <1>1, Parts DEF TypeOK, CurrentOK, HasTable
<1>3. ASSUME NEW p \in Pid, NEW rax, Return(SetRax(processes, p, rax), mem, pageinfo)
      PROVE  LiveInv'
    <2>1. \A q \in Pid : /\ SetRax(processes, p, rax)[q].pagetable = processes[q].pagetable
                         /\ SetRax(processes, p, rax)[q].state = processes[q].state
        BY <1>2, SetRaxKeeps
    <2>. QED  BY <1>1, <1>3, <2>1, QuietLives
<1>4. CASE HandlePanic
    BY <1>4 DEF HandlePanic, Survivable
<1>5. CASE HandleYieldOrTimer
    <2>1. schedule(processes, mem) /\ UNCHANGED <<pageinfo, mem, processes>>
        BY <1>5 DEF HandleYieldOrTimer
    <2>2. ActiveSpaces(processes, mem) /\ OwnersActive(processes, pageinfo)
        BY <1>1, ActiveNow DEF Booting
    <2>3. kpc' \in {"user", "idle"}
        BY <1>2, <2>1, <2>2, ScheduleLives
    <2>4. ActiveSpaces(processes', mem') /\ OwnersActive(processes', pageinfo')
        BY <2>1, <2>2
    <2>. QED  BY <2>3, <2>4, LeaveLives
<1>6. CASE HandleGetpid
    BY <1>2, <1>3, <1>6 DEF HandleGetpid
<1>7. CASE HandlePageAllocOOM
    BY <1>2, <1>3, <1>7 DEF HandlePageAllocOOM
<1>8. CASE ForkNoSlot
    BY <1>2, <1>3, <1>8 DEF ForkNoSlot
<1>9. CASE HandlePageFault
    <2>. DEFINE broken == [processes EXCEPT ![current].state = "P_BROKEN"]
    <2>1. \A q \in Pid : /\ broken[q].pagetable = processes[q].pagetable
                         /\ broken[q].state # "P_FREE" <=> processes[q].state # "P_FREE"
        BY <1>2 DEF Processes
    <2>2. Return(broken, mem, pageinfo)
        BY <1>9 DEF HandlePageFault
    <2>. HIDE DEF broken
    <2>. QED  BY <1>1, <2>1, <2>2, QuietLives
<1>10. CASE ForkEnd
    <2>. DEFINE parent == SetRax(processes, current, job.pid)
                both == SetRax(parent, job.pid, 0)
    <2>1. parent \in [Pid -> Processes]
        <3>1. job.pid \in Int /\ processes[current] \in Processes
            BY <1>2, SizeAssumption DEF Pid
        <3>. QED  BY <1>2, <3>1 DEF SetRax, Processes
    <2>2. \A q \in Pid : /\ parent[q].pagetable = processes[q].pagetable
                         /\ parent[q].state = processes[q].state
        BY <1>2, SetRaxKeeps
    <2>3. Return(both, mem, pageinfo)
        BY <1>10 DEF ForkEnd
    <2>. HIDE DEF parent
    <2>4. \A q \in Pid : /\ both[q].pagetable = processes[q].pagetable
                         /\ both[q].state = processes[q].state
        BY <1>2, <2>1, <2>2, SetRaxKeeps
    <2>. HIDE DEF both
    <2>. QED  BY <1>1, <2>3, <2>4, QuietLives
<1>. QED  BY <1>4, <1>5, <1>6, <1>7, <1>8, <1>9, <1>10

-----------------------------------------------------------------------------
(* sys_page_alloc and fork() *)

\* How giving process p a free page and mapping it ends.
LEMMA GivenMapEnds ==
    ASSUME NEW p \in Pid \ {0}, NEW lev, NEW path, NEW pi \in [PN -> PageInfo],
           NEW m \in [PN -> Page], Placed(lev, path, m, pi), pi[NULL].refcount # 0,
           NEW pt \in PN, Root(lev, pi, pt, p), NEW va \in VA, va >= PROC_START,
           NEW n \in PN, pi[n].refcount = 0, NEW perm \in SUBSET Flags, PTE_P \in perm,
           NEW m1 \in [PN -> Page], \A t \in PN : t # n => m1[t] = m[t], NEW allocator,
           NEW map, map = virtual_memory_map(Assign(pi, n, p), m1, pt, va, n, perm, p, allocator)
    PROVE  /\ MapEnds(Assign(pi, n, p), m1, pt, va, allocator, map)
           /\ Grown(pi, map.pageinfo, {p})
<1>. DEFINE lev1 == [lev EXCEPT ![n] = UserLevel]
            pi1 == Assign(pi, n, p)
<1>1. Built(p, lev, path, pi, m, lev1, path, pi1, m1)
    <2>1. UserLevel \in {0, UserLevel} /\ m1[n] \in Page /\ UserLevel # 0
        BY DEF UserLevel
    <2>2. Built(p, lev, path, pi, m, lev1, path, pi1, [m EXCEPT ![n] = m1[n]])
        BY <2>1, GivePlaced
    <2>3. m1 = [m EXCEPT ![n] = m1[n]]
        OBVIOUS
    <2>. QED  BY <2>2, <2>3, Zenon
<1>2. lev1[n] = UserLevel /\ Owns(pi1, p, n) /\ pi1[n].refcount # 0
    BY DEF Placed, Owns, Assign
<1>3. p \in Owner /\ va \in Nat
    BY SizeAssumption DEF Owner, VA
<1>4. Grown(pi, pi1, {p})
    BY <1>3, AssignGrows
<1>. HIDE DEF lev1, pi1
<1>5. pi1 \in [PN -> PageInfo] /\ Placed(lev1, path, m1, pi1)
    BY <1>1 DEF Built
<1>6. Root(lev1, pi1, pt, p)
    BY <1>1 DEF Built, Root, Owns
<1>7. pi1[NULL].refcount # 0
    BY <1>1, KernelPages DEF Built
<1>8. MayMap(p, lev1, pi1, va, n, perm)
    <2>1. ~(va < PROC_START)
        BY <1>3, LayoutTypes
    <2>. QED  BY <1>2, <2>1 DEF MayMap
<1>9. map = virtual_memory_map(pi1, m1, pt, va, n, perm, p, allocator)
    BY DEF pi1
<1>10. MapEnds(pi1, m1, pt, va, allocator, map)
    BY <1>5, <1>6, <1>7, <1>8, <1>9, MapSucceeds
<1>11. Grown(pi1, map.pageinfo, {p})
    <2>1. Grown(pi1, virtual_memory_map(pi1, m1, pt, va, n, perm, p, allocator).pageinfo, {p})
        BY <1>3, <1>5, MapType
    <2>. QED  BY <1>9, <2>1, Zenon
<1>12. Grown(pi, map.pageinfo, {p})
    BY <1>4, <1>11, GrownTransitive
<1>. QED  BY <1>10, <1>12 DEF pi1

\* Page pn has the same contents in memory m2 as in m.
SamePage(m, m2, pn) == m2[pn] = m[pn]

\* Mapping a page that was given to process p leaves its contents.
LEMMA GivenContents ==
    ASSUME NEW p \in Pid \ {0}, NEW lev, NEW path, NEW pi \in [PN -> PageInfo],
           NEW m \in [PN -> Page], Placed(lev, path, m, pi),
           NEW pt \in PN, Root(lev, pi, pt, p), NEW va \in VA, va >= PROC_START,
           NEW n \in PN, pi[n].refcount = 0, NEW perm \in SUBSET Flags, PTE_P \in perm,
           NEW m1 \in [PN -> Page], \A t \in PN : t # n => m1[t] = m[t], NEW allocator,
           NEW map, map = virtual_memory_map(Assign(pi, n, p), m1, pt, va, n, perm, p, allocator)
    PROVE  SamePage(m1, map.mem, n)
<1>. DEFINE lev1 == [lev EXCEPT ![n] = UserLevel]
            pi1 == Assign(pi, n, p)
<1>1. Built(p, lev, path, pi, m, lev1, path, pi1, m1)
    <2>1. UserLevel \in {0, UserLevel} /\ m1[n] \in Page /\ UserLevel # 0
        BY DEF UserLevel
    <2>2. Built(p, lev, path, pi, m, lev1, path, pi1, [m EXCEPT ![n] = m1[n]])
        BY <2>1, GivePlaced
    <2>3. m1 = [m EXCEPT ![n] = m1[n]]
        OBVIOUS
    <2>. QED  BY <2>2, <2>3, Zenon
<1>2. lev1[n] = UserLevel /\ Owns(pi1, p, n) /\ pi1[n].refcount # 0
    BY DEF Placed, Owns, Assign
<1>. HIDE DEF lev1, pi1
<1>3. pi1 \in [PN -> PageInfo] /\ Placed(lev1, path, m1, pi1)
    BY <1>1 DEF Built
<1>4. Root(lev1, pi1, pt, p)
    BY <1>1 DEF Built, Root, Owns
<1>5. MayMap(p, lev1, pi1, va, n, perm)
    <2>1. va \in Int /\ PROC_START \in Int
        BY LayoutTypes, SizeAssumption DEF VA
    <2>. QED  BY <1>2, <2>1 DEF MayMap
<1>6. map = virtual_memory_map(pi1, m1, pt, va, n, perm, p, allocator)
    BY DEF pi1
<1>7. MapBuilds(p, lev1, path, pi1, m1, pt, va, n, perm, map)
    BY <1>3, <1>4, <1>5, <1>6, MapPlaced
<1>. QED  BY <1>2, <1>7 DEF MapBuilds, Built, UserLevel, SamePage

\* Mapping a fresh page above PROC_START_ADDR keeps the kernel's part of every
\* address space.
LEMMA FreshKeepsLow ==
    ASSUME NEW p, NEW lev, NEW path, NEW pi, NEW m, NEW map, NEW pt, NEW va \in VA,
           va >= PROC_START, NEW n, NEW perm,
           MappedFresh(p, lev, path, pi, m, map, pt, va, n, perm), NEW r \in PN, lev[r] = 0
    PROVE  SameLow(m, map.mem, r)
<1>1. MapSees(p, lev, pi, m, va, map)
    BY DEF MappedFresh
<1>2. \A v \in 0 .. PROC_START - 1 : v \in VA /\ v # va
    BY LayoutTypes, SizeAssumption DEF VA
<1>. QED  BY <1>1, <1>2 DEF MapSees, SameLow

\* sys_page_alloc trips over no assertion, even when it fails.
LEMMA HandlePageAllocLives == OwnershipInv /\ IsolationInv /\ LiveInv /\ HandlePageAlloc => LiveInv'
<1>. SUFFICES ASSUME OwnershipInv, IsolationInv, LiveInv, HandlePageAlloc PROVE LiveInv'
    OBVIOUS
<1>. DEFINE n == FreeAddr(pageinfo)
            pt == processes[current].pagetable
            map == virtual_memory_map(Assign(pageinfo, n, current), mem, pt, trap.rdi,
                                      n, RWU, current, TRUE)
            rax == IF map.res = "ok" THEN 0 ELSE FAILED
            procs == SetRax(processes, current, rax)
<1>1. /\ pageinfo \in [PN -> PageInfo] /\ mem \in [PN -> Page] /\ TypeOK
      /\ processes \in [Pid -> Processes] /\ KernelIntact(mem, pageinfo) /\ CurrentOK
      /\ kpc = "dispatch" /\ trap.int = "INT_SYS_PAGE_ALLOC" /\ n # NULL
    BY Parts DEF HandlePageAlloc
<1>2. PICK lev \in [PN -> Level], path \in [PN -> Path] :
        Placed(lev, path, mem, pageinfo) /\ RootsOK(lev, pageinfo, processes)
    BY Parts DEF PlacesInv
<1>3. /\ current \in Pid \ {0} /\ processes[current].state # "P_FREE" /\ pt \in PN
      /\ Root(lev, pageinfo, pt, current)
    BY <1>1, <1>2, CurrentRoot
<1>4. n \in PN /\ pageinfo[n].refcount = 0 /\ pageinfo[NULL].refcount # 0
    BY <1>1, FreeAddrType, LayoutAssumption DEF IsFree, KernelIntact
<1>5. trap.rdi \in VA /\ trap.rdi >= PROC_START /\ RWU \in SUBSET Flags /\ PTE_P \in RWU
    BY <1>1 DEF RWU, Flags, CurrentOK, TypeOK
<1>6. get_free_addr(pageinfo, current).pn = n
      /\ get_free_addr(pageinfo, current).pageinfo = Assign(pageinfo, n, current)
    BY <1>1 DEF get_free_addr, Give
<1>7. map.res # "assert" => Return(procs, map.mem, map.pageinfo)
    BY <1>6 DEF HandlePageAlloc
<1>. HIDE DEF n, pt
<1>8. MappedFresh(current, lev, path, pageinfo, mem, map, pt, trap.rdi, n, RWU)
    BY <1>1, <1>2, <1>3, <1>4, <1>5, GivenAndMapped
<1>9. map = virtual_memory_map(Assign(pageinfo, n, current), mem, pt, trap.rdi,
                               n, RWU, current, TRUE)
    OBVIOUS
<1>. HIDE DEF map, rax
<1>10. /\ MapEnds(Assign(pageinfo, n, current), mem, pt, trap.rdi, TRUE, map)
       /\ Grown(pageinfo, map.pageinfo, {current})
    BY <1>1, <1>2, <1>3, <1>4, <1>5, <1>9, GivenMapEnds
<1>11. \A q \in Pid : /\ procs[q].pagetable = processes[q].pagetable
                      /\ procs[q].state = processes[q].state
    BY <1>1, <1>3, SetRaxKeeps
<1>. HIDE DEF procs
<1>12. KernelIntact(map.mem, map.pageinfo)
    <2>1. PICK l \in [PN -> Level], q \in [PN -> Path] :
            Built(current, lev, path, pageinfo, mem, l, q, map.pageinfo, map.mem)
        BY <1>8 DEF MappedFresh
    <2>. QED  BY <1>1, <1>3, <2>1, BuiltIntact
<1>13. \A p \in HasTable : SameLow(mem, map.mem, processes[p].pagetable)
    <2>1. \A p \in HasTable : processes[p].pagetable \in PN /\ lev[processes[p].pagetable] = 0
        BY <1>1, <1>2 DEF HasTable, RootsOK, Root, Processes
    <2>. QED  BY <1>5, <1>8, <2>1, FreshKeepsLow
<1>14. Return(procs, map.mem, map.pageinfo)
    BY <1>7, <1>10 DEF MapEnds
<1>. QED  BY <1>1, <1>3, <1>10, <1>11, <1>12, <1>13, <1>14, HandlerLives

\* fork() finds a page for the child's root, and three more are left.
LEMMA ForkBeginLives ==
    OwnershipInv /\ IsolationInv /\ LiveInv /\ Survivable /\ ForkBegin => LiveInv'
<1>. SUFFICES ASSUME OwnershipInv, IsolationInv, LiveInv, Survivable, ForkBegin PROVE LiveInv'
    OBVIOUS
<1>1. /\ pageinfo \in [PN -> PageInfo] /\ mem \in [PN -> Page] /\ current \in Pid
      /\ processes \in [Pid -> Processes] /\ KernelIntact(mem, pageinfo) /\ CurrentOK
      /\ kpc = "dispatch" /\ trap.int = "INT_SYS_FORK"
    BY Parts DEF ForkBegin
<1>2. PICK lev \in [PN -> Level], path \in [PN -> Path] :
        Placed(lev, path, mem, pageinfo) /\ RootsOK(lev, pageinfo, processes)
    BY Parts DEF PlacesInv
<1>3. PICK i \in FreeSlots :
        LET procs == [processes EXCEPT ![i] = Child]
            root  == pagetable_alloc(pageinfo, mem, i)
        IN  /\ pagetable_owner' = i
            /\ IF root.pn = NULL
               THEN Return(SetRax(procs, current, FAILED), mem, pageinfo)
               ELSE /\ processes' = procs
                    /\ pageinfo' = root.pageinfo
                    /\ mem' = root.mem
                    /\ kpc' = "fork_copy"
                    /\ job' = [NoJob EXCEPT !.pid = i, !.pt = root.pn]
                    /\ UNCHANGED <<current, cr3, trap>>
    BY Zenon DEF ForkBegin
<1>. DEFINE procs == [processes EXCEPT ![i] = Child]
            root  == pagetable_alloc(pageinfo, mem, i)
<1>4. i \in Pid \ {0} /\ i # current /\ processes[i].state = "P_FREE"
    BY <1>1, SizeAssumption DEF FreeSlots, Pid, CurrentOK, HasTable
<1>5. FreshTable(pageinfo, mem, i, root)
    BY <1>1, PagetableAllocFresh
<1>6. Child \in Processes /\ Child.pagetable = NULL /\ Child.state = "P_RUNNABLE"
    <2>1. processes[current] \in Processes
        BY <1>1
    <2>. QED  BY <2>1, LayoutTypes DEF Child, Processes, NULL
<1>7. /\ \A q \in Pid : q # i => procs[q] = processes[q]
      /\ procs[i].pagetable = NULL /\ procs[i].state # "P_FREE"
    BY <1>1, <1>4, <1>6
<1>. HIDE DEF procs, root
<1>8. FreeCount(pageinfo) >= 4 /\ FreeCount(pageinfo) \in Nat
    <2>1. FreeCount(pageinfo) \in Nat
        BY <1>1, AssignCost, KernelPages
    <2>. QED  BY <1>1, <1>3, <2>1 DEF Survivable
<1>9. root.pn # NULL
    <2>1. pageinfo[NULL].refcount # 0
        BY <1>1, LayoutAssumption DEF KernelIntact
    <2>2. FreeAddr(pageinfo) # NULL
        BY <1>1, <1>8, <2>1, FreeAddrFound
    <2>. QED  BY <1>5, <2>2 DEF FreshTable
<1>10. /\ processes' = procs /\ kpc' = "fork_copy" /\ pageinfo' = root.pageinfo /\ mem' = root.mem
       /\ job' = [NoJob EXCEPT !.pid = i, !.pt = root.pn]
    BY <1>3, <1>9 DEF procs, root
<1>11. job'.pid = i /\ job'.pt = root.pn /\ job'.va = 0
    BY <1>10 DEF NoJob
<1>12. /\ root.pn \in PN /\ pageinfo[root.pn].refcount = 0
       /\ pageinfo' = Assign(pageinfo, root.pn, i)
       /\ mem' = [mem EXCEPT ![root.pn] = ZeroPage]
    BY <1>5, <1>9, <1>10 DEF FreshTable
<1>13. \A u \in PN : lev[u] \in 0 .. 3 => mem'[u] = mem[u]
    <2>1. lev[root.pn] = NoLevel
        BY <1>2, <1>12 DEF Placed, PlacesOwned
    <2>. QED  BY <1>1, <1>12, <2>1 DEF NoLevel
<1>14. ActiveSpaces(processes, mem) /\ OwnersActive(processes, pageinfo)
    BY <1>1, ActiveNow DEF Booting
<1>15. ASSUME NEW p \in Pid, processes[p].state # "P_FREE"
       PROVE  processes[p].pagetable \in PN \ {NULL} /\ LowOK(mem', processes[p].pagetable)
    <2>1. processes[p].pagetable \in PN \ {NULL} /\ LowOK(mem, processes[p].pagetable)
        BY <1>14, <1>15 DEF ActiveSpaces
    <2>2. lev[processes[p].pagetable] = 0
        BY <1>2, <1>15, <2>1 DEF RootsOK, Root
    <2>3. SameLow(mem, mem', processes[p].pagetable)
        BY <1>1, <1>2, <1>13, <2>1, <2>2, TablesKeepLow
    <2>. QED  BY <2>1, <2>3 DEF SameLow, LowOK, LowAt
<1>16. LowInv'
    <2>1. \A p \in HasTable' : p \in Pid /\ p # i /\ processes'[p] = processes[p]
                               /\ processes[p].state # "P_FREE"
        BY <1>7, <1>10 DEF HasTable
    <2>2. 0 .. job'.va - 1 = {}
        BY <1>11
    <2>. QED  BY <1>10, <1>15, <2>1, <2>2 DEF LowInv
<1>17. ActiveInv'
    <2>1. \A p \in Pid : processes'[p].state # "P_FREE" => p \in HasTable' \/ p = i
        BY <1>7, <1>10, <1>14 DEF HasTable, ActiveSpaces
    <2>2. i \notin HasTable' /\ processes'[i].state # "P_FREE"
        BY <1>7, <1>10 DEF HasTable
    <2>3. \A pn \in PN : pageinfo'[pn].owner \in Pid \ {0} => processes'[pageinfo'[pn].owner].state # "P_FREE"
        <3>1. \A pn \in PN : pageinfo'[pn].owner = i \/ pageinfo'[pn] = pageinfo[pn]
            BY <1>1, <1>12 DEF Assign
        <3>. QED  BY <1>7, <1>10, <1>14, <2>2, <3>1 DEF OwnersActive
    <2>. QED  BY <1>10, <1>11, <2>1, <2>2, <2>3 DEF ActiveInv, Booting
<1>18. LoadInv' /\ NoPanic'
    BY <1>10 DEF LoadInv, NoPanic, Booting
<1>19. ForkInv'
    <2>1. FreeCount(pageinfo') \in Nat /\ FreeCount(pageinfo') >= FreeCount(pageinfo) - 1
        BY <1>1, <1>12, AssignCost
    <2>. QED  BY <1>8, <2>1 DEF ForkInv
<1>. QED  BY <1>16, <1>17, <1>18, <1>19 DEF LiveInv

\* The copying loop of fork() trips over no assertion, whether or not there is
\* memory for the child.
LEMMA ForkCopyPageLives == OwnershipInv /\ IsolationInv /\ LiveInv /\ ForkCopyPage => LiveInv'
<1>. SUFFICES ASSUME OwnershipInv, IsolationInv, LiveInv, ForkCopyPage PROVE LiveInv'
    OBVIOUS
<1>. DEFINE mapping == virtual_memory_lookup(mem, processes[current].pagetable, job.va)
            n      == FreeAddr(pageinfo)
            copied == [mem EXCEPT ![n] = mem[mapping.pn]]
            map    == virtual_memory_map(Assign(pageinfo, n, job.pid), copied, job.pt,
                                         job.va, n, mapping.perm, job.pid, TRUE)
            failed == SetRax(processes, current, FAILED)
<1>1. /\ pageinfo \in [PN -> PageInfo] /\ mem \in [PN -> Page] /\ current \in Pid
      /\ processes \in [Pid -> Processes] /\ KernelIntact(mem, pageinfo) /\ JobOK /\ CurrentOK
      /\ kpc = "fork_memory" /\ TypeOK /\ job.va < MEMSIZE_VIRTUAL
    BY Parts DEF ForkCopyPage
<1>2. PICK lev \in [PN -> Level], path \in [PN -> Path] :
        /\ Placed(lev, path, mem, pageinfo) /\ RootsOK(lev, pageinfo, processes)
        /\ JobRoot(lev, pageinfo, kpc, job)
    BY Parts DEF PlacesInv
<1>3. /\ job.pid \in Pid \ {0} /\ job.pt \in PN
      /\ pagetable_owner = job.pid /\ Root(lev, pageinfo, job.pt, job.pid)
      /\ processes[job.pid].pagetable = job.pt
    BY <1>1, <1>2, JobFacts DEF JobRoot, JobOK, Building
<1>4. job.va \in VA /\ job.va \in Nat /\ job.va >= PROC_START
    BY <1>1, SizeAssumption DEF TypeOK, VA, JobOK
<1>5. processes[current].pagetable \in PN
    BY <1>1 DEF Processes
<1>6. mapping.perm \in SUBSET Flags /\ (PTE_W \in mapping.perm => mapping.pn \in PN)
    BY <1>1, <1>4, <1>5, LookupType
<1>7. PTE_W \in mapping.perm => PTE_P \in mapping.perm
    BY LookupReads
<1>8. n \in PN /\ (n # NULL => pageinfo[n].refcount = 0) /\ pageinfo[NULL].refcount # 0
    BY <1>1, FreeAddrType, LayoutAssumption DEF IsFree, KernelIntact
<1>9. /\ get_free_addr(pageinfo, job.pid).pn = n
      /\ n # NULL => get_free_addr(pageinfo, job.pid).pageinfo = Assign(pageinfo, n, job.pid)
    BY DEF get_free_addr, Give
<1>10. \/ UNCHANGED <<pageinfo, mem, processes, kpc>> /\ job' = [job EXCEPT !.va = job.va + 1]
       \/ Return(failed, mem, pageinfo)
       \/ /\ PTE_W \in mapping.perm /\ n # NULL
          /\ pageinfo' = map.pageinfo /\ mem' = map.mem
          /\ \/ Return(failed, map.mem, map.pageinfo)
             \/ UNCHANGED <<processes, kpc>> /\ job' = [job EXCEPT !.va = job.va + 1]
             \/ map.res \notin {"ok", "fail"}
    BY <1>3, <1>9 DEF ForkCopyPage, NextVA, Return
<1>11. processes[job.pid].state # "P_FREE"
    <2>1. pageinfo[job.pt].owner = job.pid
        BY <1>3 DEF Root, Owns
    <2>2. pageinfo[job.pt].owner \in Pid \ {0}
        BY <1>3, <2>1
    <2>3. ActiveInv
        BY DEF LiveInv
    <2>. QED  BY <1>1, <1>3, <2>1, <2>2, <2>3 DEF ActiveInv
<1>. HIDE DEF mapping, n
<1>12. ASSUME PTE_W \in mapping.perm, n # NULL
       PROVE  /\ MappedFresh(job.pid, lev, path, pageinfo, mem, map, job.pt, job.va, n, mapping.perm)
              /\ map.res \in {"ok", "fail"} /\ Grown(pageinfo, map.pageinfo, {job.pid})
    <2>1. copied \in [PN -> Page] /\ \A t \in PN : t # n => copied[t] = mem[t]
        BY <1>1, <1>6, <1>8, <1>12
    <2>. HIDE DEF copied
    <2>2. MappedFresh(job.pid, lev, path, pageinfo, mem, map, job.pt, job.va, n, mapping.perm)
        BY <1>1, <1>2, <1>3, <1>4, <1>6, <1>7, <1>8, <1>12, <2>1, GivenAndMapped
    <2>3. map = virtual_memory_map(Assign(pageinfo, n, job.pid), copied, job.pt,
                                   job.va, n, mapping.perm, job.pid, TRUE)
        OBVIOUS
    <2>. HIDE DEF map
    <2>4. /\ Placed(lev, path, mem, pageinfo) /\ mapping.perm \in SUBSET Flags
          /\ PTE_P \in mapping.perm /\ n \in PN /\ pageinfo[n].refcount = 0
        BY <1>2, <1>6, <1>7, <1>8, <1>12
    <2>5. /\ MapEnds(Assign(pageinfo, n, job.pid), copied, job.pt, job.va, TRUE, map)
          /\ Grown(pageinfo, map.pageinfo, {job.pid})
        BY <1>1, <1>3, <1>4, <1>8, <2>1, <2>3, <2>4, GivenMapEnds, ZenonT(60)
    <2>. QED  BY <2>2, <2>5 DEF MapEnds
<1>. HIDE DEF map
<1>13. \A q \in Pid : /\ failed[q].pagetable = processes[q].pagetable
                      /\ failed[q].state = processes[q].state
    BY <1>1, SetRaxKeeps
<1>. HIDE DEF failed
<1>14. \A p \in HasTable : processes[p].pagetable \in PN /\ lev[processes[p].pagetable] = 0
    BY <1>1, <1>2 DEF HasTable, RootsOK, Root, Processes
<1>15. ASSUME PTE_W \in mapping.perm, n # NULL
       PROVE  /\ KernelIntact(map.mem, map.pageinfo)
              /\ \A r \in PN : lev[r] = 0 => SameLow(mem, map.mem, r)
    <2>1. PICK l \in [PN -> Level], q \in [PN -> Path] :
            Built(job.pid, lev, path, pageinfo, mem, l, q, map.pageinfo, map.mem)
        BY <1>12, <1>15 DEF MappedFresh
    <2>2. KernelIntact(map.mem, map.pageinfo)
        BY <1>1, <1>3, <2>1, BuiltIntact
    <2>. QED  BY <1>4, <1>12, <1>15, <2>2, FreshKeepsLow
<1>16. CASE Return(failed, mem, pageinfo)
    BY <1>1, <1>13, <1>16, QuietLives
<1>17. CASE PTE_W \in mapping.perm /\ n # NULL /\ Return(failed, map.mem, map.pageinfo)
    <2>1. /\ KernelIntact(map.mem, map.pageinfo) /\ Grown(pageinfo, map.pageinfo, {job.pid})
          /\ \A p \in HasTable : SameLow(mem, map.mem, processes[p].pagetable)
        BY <1>12, <1>14, <1>15, <1>17
    <2>. QED  BY <1>1, <1>3, <1>11, <1>13, <1>17, <2>1, HandlerLives
<1>18. CASE /\ UNCHANGED <<processes, kpc>> /\ job' = [job EXCEPT !.va = job.va + 1]
            /\ \/ UNCHANGED <<pageinfo, mem>>
               \/ PTE_W \in mapping.perm /\ n # NULL /\ pageinfo' = map.pageinfo /\ mem' = map.mem
    <2>1. job'.pid = job.pid /\ job'.pt = job.pt
        BY <1>1, <1>18 DEF TypeOK
    <2>2. \A r \in PN : lev[r] = 0 => SameLow(mem, mem', r)
        BY <1>15, <1>18, SameLowReflexive
    <2>3. Grown(pageinfo, pageinfo', {job.pid})
        BY <1>1, <1>12, <1>18, GrownReflexive
    <2>4. lev[job.pt] = 0
        BY <1>3 DEF Root
    <2>5. LowInv'
        BY <1>1, <1>3, <1>14, <1>18, <2>1, <2>2, <2>4
           DEF LiveInv, LowInv, HasTable, LowOK, LowAt, SameLow
    <2>6. OwnersActive(processes, pageinfo) /\ ActiveSpaces(processes, mem)
        BY <1>1, ActiveNow DEF Booting
    <2>7. ActiveInv'
        BY <1>1, <1>11, <1>18, <2>1, <2>3, <2>6
           DEF ActiveInv, HasTable, Booting, OwnersActive, ActiveSpaces, Grown
    <2>8. LoadInv' /\ ForkInv' /\ NoPanic'
        BY <1>1, <1>18 DEF LoadInv, ForkInv, NoPanic, Booting
    <2>. QED  BY <2>5, <2>7, <2>8 DEF LiveInv
<1>. QED  BY <1>10, <1>12, <1>16, <1>17, <1>18

-----------------------------------------------------------------------------
(* copy_pagetable *)

\* The processes that are still to be set up need no negative number of pages
\* below PROC_START.
LEMMA LowRestNatural ==
    ASSUME OwnershipInv, kpc \in Booting
    PROVE  /\ LowForTheRest(command, job.pid) \in Nat /\ LowCount(pageinfo) \in Nat
           /\ LowCount(pageinfo) =< FreeCount(pageinfo) /\ FreeCount(pageinfo) \in Nat
           /\ job.pid \in 1 .. LastSetup(command) /\ LastSetup(command) \in 1 .. NPROC - 1
<1>1. job.pid \in 1 .. LastSetup(command) /\ LastSetup(command) \in 1 .. NPROC - 1
      /\ FreeCount(pageinfo) \in Nat
    BY RestNatural DEF Booting
<1>2. LastSetup(command) - job.pid \in Nat
    BY <1>1, SizeAssumption
<1>3. LowForTheRest(command, job.pid) \in Nat
    BY <1>2 DEF LowForTheRest
<1>4. LowCount(pageinfo) \in Nat /\ LowCount(pageinfo) =< FreeCount(pageinfo)
    BY LowAssignCost, KernelPages DEF OwnershipInv, TypeOK
<1>. QED  BY <1>1, <1>3, <1>4

\* copy_pagetable reads the kernel's part from a table that has it, and has
\* memory for the tables it needs.
LEMMA CopyMappingLives ==
    OwnershipInv /\ IsolationInv /\ LiveInv /\ CopyMapping => LiveInv'
<1>. SUFFICES ASSUME OwnershipInv, IsolationInv, LiveInv, CopyMapping PROVE LiveInv'
    OBVIOUS
<1>. DEFINE va == job.va
            perm == KernelPerm(va)
            map == virtual_memory_map(pageinfo, mem, job.pt, va, va, perm, job.pid, TRUE)
<1>1. /\ pageinfo \in [PN -> PageInfo] /\ mem \in [PN -> Page]
      /\ processes \in [Pid -> Processes]
      /\ KernelIntact(mem, pageinfo) /\ JobOK /\ CurrentOK /\ TypeOK
      /\ kpc \in {"setup_copy", "fork_copy"} /\ va < PROC_START
    BY Parts DEF CopyMapping
<1>2. PICK lev \in [PN -> Level], path \in [PN -> Path] :
        /\ Placed(lev, path, mem, pageinfo) /\ RootsOK(lev, pageinfo, processes)
        /\ JobRoot(lev, pageinfo, kpc, job)
    BY Parts DEF PlacesInv
<1>3. /\ job.pid \in Pid \ {0} /\ job.pt \in PN
      /\ pagetable_owner = job.pid /\ Root(lev, pageinfo, job.pt, job.pid)
    BY <1>1, <1>2, JobFacts DEF JobRoot, Building
<1>4. va \in VA /\ va \in Nat /\ va \in PN /\ va \in 0 .. PROC_START - 1
    BY <1>1, LayoutTypes, LayoutAssumption, SizeAssumption, SMTT(60) DEF TypeOK, VA, PN
<1>5. LowInv /\ ActiveInv /\ LoadInv /\ ForkInv
    BY DEF LiveInv
<1>6. virtual_memory_lookup(mem, CopySource, va) = [pn |-> va, perm |-> perm]
    <2>1. CASE kpc = "setup_copy"
        BY <1>1, <1>4, <2>1, LookupKernel DEF CopySource
    <2>2. CASE kpc = "fork_copy"
        <3>1. CopySource = processes[current].pagetable /\ current \in HasTable
            BY <1>1, <2>2 DEF CopySource, CurrentOK
        <3>2. LowOK(mem, CopySource)
            BY <1>5, <3>1 DEF LowInv
        <3>. QED  BY <1>4, <3>2 DEF LowOK, LowAt
    <2>. QED  BY <1>1, <2>1, <2>2
<1>7. /\ perm \in SUBSET Flags /\ PTE_P \in perm /\ perm # {}
      /\ PTE_U \in perm => va = CONSOLE
    BY <1>1 DEF KernelPerm, RWU, Flags, PTE_P, PTE_W, PTE_U
<1>8. /\ UNCHANGED <<processes, command>>
      /\ pageinfo' = map.pageinfo /\ mem' = map.mem
      /\ map.res = "ok" => kpc' = kpc /\ job' = [job EXCEPT !.va = va + 1]
    <2>. DEFINE mapping == virtual_memory_lookup(mem, CopySource, va)
                m == virtual_memory_map(pageinfo, mem, job.pt, va, mapping.pn, mapping.perm,
                                        pagetable_owner, TRUE)
    <2>1. mapping.pn = va /\ mapping.perm = perm
        BY <1>6
    <2>. HIDE DEF mapping
    <2>2. m = map
        BY <1>3, <2>1
    <2>3. mapping.perm # {}
        BY <1>7, <2>1
    <2>. HIDE DEF m, map
    <2>4. /\ UNCHANGED <<processes, command>>
          /\ pageinfo' = m.pageinfo /\ mem' = m.mem
          /\ m.res = "ok" => kpc' = kpc /\ job' = [job EXCEPT !.va = va + 1]
        BY <2>3 DEF CopyMapping, NextVA, mapping, m
    <2>. QED  BY <2>2, <2>4
<1>. HIDE DEF va, perm
<1>9. MayMap(job.pid, lev, pageinfo, va, va, perm)
    BY <1>1, <1>7 DEF MayMap
<1>10. MapBuilds(job.pid, lev, path, pageinfo, mem, job.pt, va, va, perm, map)
    BY <1>1, <1>2, <1>3, <1>4, <1>7, <1>9, MapPlaced
<1>11. MapEnds(pageinfo, mem, job.pt, va, TRUE, map)
    <2>1. pageinfo[NULL].refcount # 0
        BY <1>1, LayoutAssumption DEF KernelIntact
    <2>. QED  BY <1>1, <1>2, <1>3, <1>4, <1>7, <1>9, <2>1, MapSucceeds
<1>12. job.pid \in Owner
    BY <1>3 DEF Owner
<1>13. /\ MapCosts(pageinfo, mem, job.pt, va, TRUE, map) /\ LowMapCosts(pageinfo, map)
       /\ Grown(pageinfo, map.pageinfo, {job.pid})
    BY <1>1, <1>3, <1>4, <1>7, <1>12, MapCost, LowMapCost, MapType
<1>. HIDE DEF map
<1>14. va # 0 => Present(mem, job.pt, va)
    <2>. SUFFICES ASSUME va # 0 PROVE Present(mem, job.pt, va)
        OBVIOUS
    <2>1. 0 \in 0 .. va - 1
        BY <1>4, LayoutTypes
    <2>2. LowAt(mem, job.pt, 0)
        BY <1>1, <1>5, <2>1 DEF LowInv, va
    <2>. QED  BY <1>1, <1>4, <2>2, LowPresent, PresentTogether
<1>15. kpc = "setup_copy" =>
        LowCount(pageinfo) - LowForTheRest(command, job.pid) >= IF va = 0 THEN 3 ELSE 0
    BY <1>5 DEF LoadInv, va
<1>16. kpc = "setup_copy" =>
         /\ LowForTheRest(command, job.pid) \in Nat /\ LowCount(pageinfo) \in Nat
         /\ LowCount(pageinfo) =< FreeCount(pageinfo) /\ FreeCount(pageinfo) \in Nat
    BY LowRestNatural DEF Booting
<1>17. map.res = "ok"
    <2>1. CASE va # 0
        BY <1>11, <1>14, <2>1 DEF MapEnds
    <2>2. CASE va = 0 /\ kpc = "setup_copy"
        <3>1. FreeCount(pageinfo) >= 3
            BY <1>15, <1>16, <2>2
        <3>. QED  BY <1>11, <3>1 DEF MapEnds
    <2>3. CASE va = 0 /\ kpc = "fork_copy"
        BY <1>5, <1>11, <2>3 DEF MapEnds, ForkInv, va
    <2>. QED  BY <1>1, <2>1, <2>2, <2>3
<1>18. /\ kpc' = kpc /\ job'.pid = job.pid /\ job'.pt = job.pt /\ job'.va = va + 1
       /\ mem' = map.mem /\ pageinfo' = map.pageinfo /\ processes' = processes
       /\ command' = command
    BY <1>1, <1>8, <1>17 DEF TypeOK
<1>19. /\ MapSees(job.pid, lev, pageinfo, mem, va, map)
       /\ virtual_memory_lookup(mem', job.pt, va) = [pn |-> va, perm |-> perm]
    BY <1>10, <1>17, <1>18 DEF MapBuilds
<1>20. 0 .. PROC_START - 1 \subseteq VA
    BY LayoutTypes, SizeAssumption DEF VA
<1>21. LowInv'
    <2>1. ASSUME NEW p \in HasTable PROVE LowOK(mem', processes[p].pagetable)
        <3>. DEFINE r == processes[p].pagetable
        <3>1. p \in Pid /\ r \in PN /\ Root(lev, pageinfo, r, p)
            BY <1>1, <1>2 DEF HasTable, RootsOK, Processes
        <3>2. p # job.pid
            <4>1. CASE kpc = "setup_copy"
                <5>1. job.pid >= job.pid /\ processes[p].state # "P_FREE"
                    BY <1>3, SizeAssumption DEF Pid, HasTable
                <5>. QED  BY <1>1, <1>3, <4>1, <5>1 DEF JobOK
            <4>2. CASE kpc = "fork_copy"
                BY <1>5, <4>2 DEF ActiveInv
            <4>. QED  BY <1>1, <4>1, <4>2
        <3>3. lev[r] = 0 /\ ~Owns(pageinfo, job.pid, r)
            BY <3>1, <3>2 DEF Root, Owns
        <3>4. LowOK(mem, r)
            BY <1>5 DEF LowInv
        <3>. HIDE DEF r
        <3>5. \A v \in 0 .. PROC_START - 1 :
                virtual_memory_lookup(mem', r, v) = virtual_memory_lookup(mem, r, v)
            BY <1>18, <1>19, <1>20, <3>1, <3>3 DEF MapSees
        <3>6. LowOK(mem', r)
            BY <3>4, <3>5 DEF LowOK, LowAt
        <3>. QED  BY <3>6 DEF r
    <2>2. ASSUME NEW v \in 0 .. job'.va - 1 PROVE LowAt(mem', job.pt, v)
        <3>1. v \in 0 .. PROC_START - 1 /\ (v = va \/ v \in 0 .. va - 1)
            BY <1>4, <1>18, LayoutTypes
        <3>2. CASE v = va
            BY <1>19, <3>2 DEF LowAt, perm
        <3>3. CASE v # va /\ v \in 0 .. va - 1
            <4>1. LowAt(mem, job.pt, v)
                BY <1>1, <1>5, <3>3 DEF LowInv, va
            <4>2. lev[job.pt] = 0
                BY <1>3 DEF Root
            <4>3. virtual_memory_lookup(mem', job.pt, v) = virtual_memory_lookup(mem, job.pt, v)
                BY <1>3, <1>18, <1>19, <1>20, <3>1, <3>3, <4>2 DEF MapSees
            <4>. QED  BY <4>1, <4>3 DEF LowAt
        <3>. QED  BY <3>1, <3>2, <3>3
    <2>3. HasTable' = HasTable
        BY <1>18 DEF HasTable
    <2>. QED  BY <1>1, <1>18, <2>1, <2>2, <2>3 DEF LowInv
<1>22. ActiveInv'
    <2>1. HasTable' = HasTable
        BY <1>18 DEF HasTable
    <2>2. \A pn \in PN : pageinfo'[pn].owner = job.pid \/ pageinfo'[pn] = pageinfo[pn]
        BY <1>13, <1>18 DEF Grown
    <2>. QED  BY <1>1, <1>5, <1>18, <2>1, <2>2 DEF ActiveInv, Booting
<1>23. LoadInv'
    <2>1. CASE kpc = "fork_copy"
        BY <1>18, <2>1 DEF LoadInv, Booting
    <2>2. CASE kpc = "setup_copy"
        <3>1. HighSame(pageinfo, pageinfo')
            <4>1. CASE va = 0
                BY <1>13, <1>15, <1>16, <1>18, <2>2, <4>1 DEF LowMapCosts
            <4>2. CASE va # 0
                <5>1. pageinfo' = pageinfo
                    BY <1>13, <1>14, <1>18, <4>2 DEF MapCosts
                <5>. QED  BY <5>1 DEF HighSame
            <4>. QED  BY <4>1, <4>2
        <3>2. LowCount(pageinfo') - LowForTheRest(command, job.pid) >= 0
            <4>1. CASE va = 0
                BY <1>13, <1>15, <1>16, <1>18, <2>2, <4>1 DEF LowMapCosts
            <4>2. CASE va # 0
                <5>1. pageinfo' = pageinfo
                    BY <1>13, <1>14, <1>18, <4>2 DEF MapCosts
                <5>. QED  BY <1>15, <2>2, <4>2, <5>1
            <4>. QED  BY <4>1, <4>2
        <3>3. job'.va # 0
            BY <1>4, <1>18
        <3>4. \A pn \in PN : pn >= PROC_START /\ pageinfo'[pn].refcount # 0 =>
                \E q \in 1 .. job.pid : \E k \in DOMAIN SegmentsOf(command, q) :
                    /\ pn = SegmentsOf(command, q)[k]
                    /\ q # job.pid
            BY <1>5, <2>2, <3>1 DEF LoadInv, HighSame, Booting
        <3>. QED  BY <1>18, <2>2, <3>2, <3>3, <3>4 DEF LoadInv, Booting
    <2>. QED  BY <1>1, <2>1, <2>2
<1>24. ForkInv' /\ NoPanic'
    <2>1. job'.va # 0
        BY <1>4, <1>18
    <2>. QED  BY <1>1, <1>18, <2>1 DEF ForkInv, NoPanic
<1>. QED  BY <1>21, <1>22, <1>23, <1>24 DEF LiveInv

\* copy_pagetable returns a table that has all of the kernel's part.
LEMMA CopyReturnLives == OwnershipInv /\ IsolationInv /\ LiveInv /\ CopyReturn => LiveInv'
<1>. SUFFICES ASSUME OwnershipInv, IsolationInv, LiveInv, CopyReturn PROVE LiveInv'
    OBVIOUS
<1>1. /\ processes \in [Pid -> Processes] /\ KernelIntact(mem, pageinfo) /\ JobOK
      /\ kpc \in {"setup_copy", "fork_copy"} /\ job.va = PROC_START
    BY Parts DEF CopyReturn
<1>2. PICK lev \in [PN -> Level], path \in [PN -> Path] : JobRoot(lev, pageinfo, kpc, job)
    BY Parts DEF PlacesInv
<1>3. job.pid \in Pid \ {0} /\ Root(lev, pageinfo, job.pt, job.pid)
    BY <1>1, <1>2, JobFacts DEF JobRoot, Building
<1>4. /\ processes' = [processes EXCEPT ![job.pid].pagetable = job.pt]
      /\ kpc = "setup_copy" => kpc' = "load"
      /\ kpc = "fork_copy" => kpc' = "fork_memory"
      /\ UNCHANGED <<pageinfo, mem, job, command>>
    BY <1>1 DEF CopyReturn
<1>5. \A p \in Pid : /\ processes'[p].state = processes[p].state
                     /\ p # job.pid => processes'[p] = processes[p]
                     /\ p = job.pid => processes'[p].pagetable = job.pt
    BY <1>1, <1>3, <1>4 DEF Processes
<1>6. LowInv /\ ActiveInv /\ LoadInv
    BY DEF LiveInv
<1>7. LowOK(mem, job.pt)
    BY <1>1, <1>6 DEF LowInv, LowOK
<1>8. job.pt # NULL
    <2>1. -1 \notin Pid
        BY SizeAssumption DEF Pid
    <2>. QED  BY <1>1, <1>3, <2>1, LayoutAssumption DEF KernelIntact, Root, Owns, PO_RESERVED
<1>9. LowInv'
    <2>1. \A p \in HasTable' : LowOK(mem, processes'[p].pagetable)
        <3>1. ASSUME NEW p \in HasTable' PROVE LowOK(mem, processes'[p].pagetable)
            <4>1. p \in Pid /\ (p # job.pid => p \in HasTable)
                BY <1>5 DEF HasTable
            <4>. QED  BY <1>5, <1>6, <1>7, <4>1 DEF LowInv
        <3>. QED  BY <3>1
    <2>. QED  BY <1>1, <1>4, <1>7, <2>1 DEF LowInv
<1>10. ActiveInv'
    <2>1. \A p \in Pid : processes'[p].state # "P_FREE" => p \in HasTable'
        BY <1>1, <1>5, <1>6, <1>8 DEF ActiveInv, HasTable
    <2>2. \A pn \in PN : pageinfo[pn].owner \in Pid \ {0} =>
            \/ processes'[pageinfo[pn].owner].state # "P_FREE"
            \/ kpc' = "load" /\ pageinfo[pn].owner = job.pid
        BY <1>1, <1>4, <1>5, <1>6 DEF ActiveInv
    <2>3. kpc' = "load" => \A q \in 1 .. job.pid - 1 : processes'[q].state = "P_RUNNABLE"
        <3>1. \A q \in 1 .. job.pid - 1 : q \in Pid
            BY <1>3, SizeAssumption DEF Pid
        <3>. QED  BY <1>1, <1>4, <1>5, <1>6, <3>1 DEF ActiveInv, Booting
    <2>. QED  BY <1>1, <1>4, <2>1, <2>2, <2>3 DEF ActiveInv, Booting
<1>11. LoadInv'
    <2>1. CASE kpc = "fork_copy"
        BY <1>4, <2>1 DEF LoadInv, Booting
    <2>2. CASE kpc = "setup_copy"
        <3>1. PROC_START # 0
            BY KernelPages
        <3>2. \A pn \in PN : pn >= PROC_START /\ pageinfo[pn].refcount # 0 =>
                \E q \in 1 .. job.pid : \E k \in DOMAIN SegmentsOf(command, q) :
                    /\ pn = SegmentsOf(command, q)[k]
                    /\ q # job.pid
            BY <1>6, <2>2 DEF LoadInv, Booting
        <3>3. LowCount(pageinfo) - LowForTheRest(command, job.pid) >= 0
            BY <1>1, <1>6, <2>2, <3>1 DEF LoadInv
        <3>. QED  BY <1>4, <2>2, <3>2, <3>3 DEF LoadInv, Booting
    <2>. QED  BY <1>1, <2>1, <2>2
<1>12. ForkInv' /\ NoPanic'
    BY <1>1, <1>4 DEF ForkInv, NoPanic
<1>. QED  BY <1>9, <1>10, <1>11, <1>12 DEF LiveInv

-----------------------------------------------------------------------------
(* process_setup *)

\* The root table of a process that is set up comes from below PROC_START.
LEMMA ProcessSetupLives == OwnershipInv /\ IsolationInv /\ LiveInv /\ ProcessSetup => LiveInv'
<1>. SUFFICES ASSUME OwnershipInv, IsolationInv, LiveInv, ProcessSetup PROVE LiveInv'
    OBVIOUS
<1>. DEFINE root == pagetable_alloc(pageinfo, mem, job.pid)
<1>1. /\ pageinfo \in [PN -> PageInfo] /\ mem \in [PN -> Page] /\ processes \in [Pid -> Processes]
      /\ KernelIntact(mem, pageinfo) /\ kpc = "setup" /\ TypeOK
    BY Parts DEF ProcessSetup
<1>2. PICK lev \in [PN -> Level], path \in [PN -> Path] :
        Placed(lev, path, mem, pageinfo) /\ RootsOK(lev, pageinfo, processes)
    BY Parts DEF PlacesInv
<1>3. /\ LowForTheRest(command, job.pid) \in Nat /\ LowCount(pageinfo) \in Nat
      /\ LowCount(pageinfo) =< FreeCount(pageinfo) /\ FreeCount(pageinfo) \in Nat
    BY <1>1, LowRestNatural DEF Booting
<1>4. LowInv /\ ActiveInv /\ LoadInv
    BY DEF LiveInv
<1>5. LowCount(pageinfo) - LowForTheRest(command, job.pid) >= 4
    BY <1>1, <1>4 DEF LoadInv
<1>6. LowCount(pageinfo) > 0 /\ FreeCount(pageinfo) > 0
    BY <1>3, <1>5
<1>7. FreeAddr(pageinfo) # NULL /\ FreeAddr(pageinfo) < PROC_START
    <2>1. pageinfo[NULL].refcount # 0
        BY <1>1, LayoutAssumption DEF KernelIntact
    <2>. QED  BY <1>1, <1>6, <2>1, FreeAddrFound, LowAddrFound
<1>8. FreshTable(pageinfo, mem, job.pid, root)
    BY <1>1, PagetableAllocFresh
<1>. HIDE DEF root
<1>9. /\ root.pn \in PN /\ root.pn # NULL /\ root.pn < PROC_START /\ pageinfo[root.pn].refcount = 0
      /\ root.pageinfo = Assign(pageinfo, root.pn, job.pid)
      /\ root.mem = [mem EXCEPT ![root.pn] = ZeroPage]
    BY <1>7, <1>8 DEF FreshTable
<1>10. /\ pageinfo' = Assign(pageinfo, root.pn, job.pid) /\ mem' = [mem EXCEPT ![root.pn] = ZeroPage]
       /\ kpc' = "setup_copy" /\ job' = [job EXCEPT !.pt = root.pn, !.va = 0]
       /\ UNCHANGED <<processes, command>>
    BY <1>9 DEF ProcessSetup, root
<1>11. job'.pid = job.pid /\ job'.va = 0
    BY <1>1, <1>10 DEF TypeOK
<1>12. \A u \in PN : lev[u] \in 0 .. 3 => mem'[u] = mem[u]
    <2>1. lev[root.pn] = NoLevel
        BY <1>2, <1>9 DEF Placed, PlacesOwned
    <2>. QED  BY <1>1, <1>9, <1>10, <2>1 DEF NoLevel
<1>13. LowInv'
    <2>1. ASSUME NEW p \in HasTable PROVE LowOK(mem', processes[p].pagetable)
        <3>1. processes[p].pagetable \in PN /\ lev[processes[p].pagetable] = 0
            BY <1>1, <1>2 DEF HasTable, RootsOK, Root, Processes
        <3>2. SameLow(mem, mem', processes[p].pagetable)
            BY <1>1, <1>2, <1>12, <3>1, TablesKeepLow
        <3>. QED  BY <1>4, <3>2 DEF LowInv, SameLow, LowOK, LowAt
    <2>2. HasTable' = HasTable /\ 0 .. job'.va - 1 = {}
        BY <1>10, <1>11 DEF HasTable
    <2>. QED  BY <1>10, <2>1, <2>2 DEF LowInv
<1>14. ActiveInv'
    <2>1. \A pn \in PN : pageinfo'[pn].owner = job.pid \/ pageinfo'[pn] = pageinfo[pn]
        BY <1>1, <1>10 DEF Assign
    <2>2. HasTable' = HasTable
        BY <1>10 DEF HasTable
    <2>. QED  BY <1>1, <1>4, <1>10, <1>11, <2>1, <2>2 DEF ActiveInv, Booting
<1>15. LoadInv'
    <2>1. \A pn \in PN : pn >= PROC_START => pageinfo'[pn] = pageinfo[pn]
        <3>1. ASSUME NEW pn \in PN, pn >= PROC_START PROVE pn # root.pn
            BY <1>9, <3>1, SizeAssumption, LayoutTypes DEF PN
        <3>. QED  BY <1>1, <1>10, <3>1 DEF Assign
    <2>2. \A pn \in PN : pn >= PROC_START /\ pageinfo'[pn].refcount # 0 =>
            \E q \in 1 .. job.pid : \E k \in DOMAIN SegmentsOf(command, q) :
                pn = SegmentsOf(command, q)[k] /\ q # job.pid
        BY <1>1, <1>4, <2>1 DEF LoadInv, Booting
    <2>3. LowCount(pageinfo') \in Nat /\ LowCount(pageinfo') >= LowCount(pageinfo) - 1
        BY <1>1, <1>9, <1>10, LowAssignCost
    <2>4. LowCount(pageinfo') - LowForTheRest(command, job.pid) >= 3
        BY <1>3, <1>5, <2>3
    <2>. QED  BY <1>10, <1>11, <2>2, <2>4 DEF LoadInv, Booting
<1>16. ForkInv' /\ NoPanic'
    BY <1>10 DEF ForkInv, NoPanic
<1>. QED  BY <1>13, <1>14, <1>15, <1>16 DEF LiveInv

\* Programs that are loaded in one boot have no page in common.
LEMMA ProgramsApart ==
    ASSUME NEW cmd, NEW p \in 1 .. LastSetup(cmd), NEW q \in 1 .. LastSetup(cmd),
           NEW j \in DOMAIN SegmentsOf(cmd, p), NEW k \in DOMAIN SegmentsOf(cmd, q),
           SegmentsOf(cmd, p)[j] = SegmentsOf(cmd, q)[k]
    PROVE  p = q /\ j = k
<1>1. NALLOC \in Nat /\ NALLOC >= 1
    BY ProgramAssumption, SizeAssumption
<1>2. CASE cmd \in {"fork", "forkexit"}
    <2>1. p = 1 /\ q = 1
        BY <1>2 DEF LastSetup
    <2>2. ProgramNumber(cmd, 1) \in Program
        BY <1>1, <1>2 DEF ProgramNumber, Program
    <2>. QED  BY <2>1, <2>2, LinkAssumption DEF SegmentsOf
<1>3. CASE cmd \notin {"fork", "forkexit"}
    <2>1. p \in 1 .. NALLOC /\ q \in 1 .. NALLOC
        BY <1>3 DEF LastSetup
    <2>2. ProgramNumber(cmd, p) = p - 1 /\ ProgramNumber(cmd, q) = q - 1
        BY <1>3 DEF ProgramNumber
    <2>3. p - 1 \in Program /\ q - 1 \in Program /\ p - 1 < NALLOC /\ q - 1 < NALLOC
        BY <1>1, <2>1 DEF Program
    <2>4. p - 1 = q - 1 /\ j = k
        BY <2>2, <2>3, LinkAssumption DEF SegmentsOf
    <2>. QED  BY <1>1, <2>1, <2>4
<1>. QED  BY <1>2, <1>3

\* program_load finds the page of a segment free and the table for it there.
LEMMA ProgramLoadSegmentLives ==
    OwnershipInv /\ IsolationInv /\ BootMemory /\ LiveInv /\ ProgramLoadSegment => LiveInv'
<1>. SUFFICES ASSUME OwnershipInv, IsolationInv, BootMemory, LiveInv, ProgramLoadSegment
              PROVE  LiveInv'
    OBVIOUS
<1>. DEFINE addr == Segments[Loading][job.seg]
            map == virtual_memory_map(Assign(pageinfo, addr, job.pid), mem, job.pt, addr,
                                      addr, RWU, pagetable_owner, FALSE)
            filled == virtual_memory_lookup(map.mem, job.pt, addr).pn
<1>1. /\ pageinfo \in [PN -> PageInfo] /\ mem \in [PN -> Page]
      /\ processes \in [Pid -> Processes] /\ KernelIntact(mem, pageinfo) /\ JobOK
      /\ kpc = "load" /\ TypeOK /\ job.seg =< Len(Segments[Loading])
    BY Parts DEF ProgramLoadSegment
<1>2. PICK lev \in [PN -> Level], path \in [PN -> Path] :
        /\ Placed(lev, path, mem, pageinfo) /\ RootsOK(lev, pageinfo, processes)
        /\ JobRoot(lev, pageinfo, kpc, job)
    BY Parts DEF PlacesInv
<1>3. /\ job.pid \in Pid \ {0} /\ job.pt \in PN /\ job.pid \in Owner
      /\ pagetable_owner = job.pid /\ Root(lev, pageinfo, job.pt, job.pid)
    BY <1>1, <1>2, JobFacts DEF JobRoot, Building, Owner
<1>4. LowInv /\ ActiveInv /\ LoadInv
    BY DEF LiveInv
<1>5. Loading \in Program /\ Image[Loading] \in Page /\ Segments[Loading] = SegmentsOf(command, job.pid)
    BY <1>1, LoadingType, ProgramAssumption DEF SegmentsOf, Loading
<1>6. job.seg \in DOMAIN Segments[Loading] /\ job.seg \in Nat
    <2>1. Segments[Loading] \in Seq(UserVA) /\ job.seg \in 1 .. Len(Segments[Loading])
        BY <1>1, LoadingType DEF TypeOK, BootMemory
    <2>. QED  BY <2>1
<1>7. addr \in VA /\ addr \in Nat /\ addr >= PROC_START
    <2>1. addr \in UserVA
        BY <1>1, <1>6, LoadingType
    <2>. QED  BY <1>1, <2>1, LoadingType, LayoutTypes DEF UserVA
<1>8. addr \in PN /\ addr < NPAGETABLEENTRIES
    BY <1>5, <1>6, <1>7, LinkAssumption, SizeAssumption DEF PN
<1>9. RWU \in SUBSET Flags /\ PTE_P \in RWU
    BY DEF RWU, Flags
<1>10. pageinfo[addr].refcount = 0
    <2>. SUFFICES ASSUME pageinfo[addr].refcount # 0 PROVE FALSE
        OBVIOUS
    <2>1. PICK q \in 1 .. job.pid : \E k \in DOMAIN SegmentsOf(command, q) :
            addr = SegmentsOf(command, q)[k] /\ (q = job.pid => k < job.seg)
        BY <1>1, <1>4, <1>7, <1>8 DEF LoadInv, Booting
    <2>2. PICK k \in DOMAIN SegmentsOf(command, q) :
            addr = SegmentsOf(command, q)[k] /\ (q = job.pid => k < job.seg)
        BY <2>1
    <2>3. job.pid \in 1 .. LastSetup(command) /\ q \in 1 .. LastSetup(command)
        BY <1>1, LowRestNatural, SizeAssumption DEF Booting
    <2>4. q = job.pid /\ k = job.seg
        BY <1>5, <1>6, <2>2, <2>3, ProgramsApart
    <2>. QED  BY <1>6, <2>2, <2>4
<1>11. CanAssign(pageinfo, addr) /\ pageinfo[NULL].refcount # 0
    BY <1>1, <1>8, <1>10, LayoutAssumption DEF CanAssign, KernelIntact
<1>12. /\ pageinfo' = map.pageinfo /\ UNCHANGED <<processes, command>>
       /\ map.res = "ok" /\ SetPagetableOK(map.mem, job.pt) =>
            /\ mem' = [map.mem EXCEPT ![filled] = Image[Loading]]
            /\ job' = [job EXCEPT !.seg = job.seg + 1] /\ kpc' = kpc
    BY <1>11 DEF ProgramLoadSegment
<1>. HIDE DEF addr
<1>13. MappedFresh(job.pid, lev, path, pageinfo, mem, map, job.pt, addr, addr, RWU)
    BY <1>1, <1>2, <1>3, <1>7, <1>8, <1>9, <1>10, GivenAndMapped
<1>14. map = virtual_memory_map(Assign(pageinfo, addr, job.pid), mem, job.pt, addr,
                                addr, RWU, job.pid, FALSE)
    BY <1>3
<1>15. map.pageinfo = Assign(pageinfo, addr, job.pid)
    <2>1. Assign(pageinfo, addr, job.pid) \in [PN -> PageInfo]
        BY <1>1, <1>3, <1>8, <1>10, AssignGrows DEF Grown
    <2>2. MapCosts(Assign(pageinfo, addr, job.pid), mem, job.pt, addr, FALSE, map)
        BY <1>1, <1>3, <1>7, <2>1, MapCost
    <2>. QED  BY <2>2 DEF MapCosts
<1>. HIDE DEF map
<1>16. MapEnds(Assign(pageinfo, addr, job.pid), mem, job.pt, addr, FALSE, map)
    <2>1. Placed(lev, path, mem, pageinfo) /\ pageinfo[NULL].refcount # 0
        BY <1>2, <1>11
    <2>. QED  BY <1>1, <1>3, <1>7, <1>8, <1>9, <1>10, <1>14, <2>1, GivenMapEnds, Zenon
<1>17. map.res = "ok"
    <2>1. LowAt(mem, job.pt, 0)
        <3>1. 0 \in 0 .. PROC_START - 1
            BY KernelPages, LayoutTypes
        <3>. QED  BY <1>1, <1>4, <3>1 DEF LowInv, LowOK
    <2>2. Present(mem, job.pt, addr)
        BY <1>7, <1>8, <2>1, LowPresent, PresentInFirst
    <2>. QED  BY <1>16, <2>2 DEF MapEnds
<1>18. PICK l \in [PN -> Level], q \in [PN -> Path] :
        /\ Built(job.pid, lev, path, pageinfo, mem, l, q, map.pageinfo, map.mem)
        /\ l[addr] = UserLevel
    BY <1>13 DEF MappedFresh
<1>19. filled = addr
    BY <1>13, <1>17 DEF MappedFresh
<1>20. KernelIntact(map.mem, map.pageinfo)
    BY <1>1, <1>3, <1>18, BuiltIntact
<1>21. ASSUME NEW r \in PN, lev[r] = 0 PROVE SameLow(mem, map.mem, r)
    BY <1>7, <1>13, <1>21, FreshKeepsLow
<1>22. lev[job.pt] = 0
    BY <1>3 DEF Root
<1>23. SetPagetableOK(map.mem, job.pt)
    <2>1. SameLow(mem, map.mem, job.pt) /\ LowOK(mem, job.pt)
        BY <1>1, <1>3, <1>4, <1>21, <1>22 DEF LowInv
    <2>2. LowOK(map.mem, job.pt)
        BY <2>1 DEF SameLow, LowOK, LowAt
    <2>. QED  BY <1>3, <1>20, <2>2, SetPagetableAccepts
<1>. HIDE DEF filled
<1>24. /\ mem' = [map.mem EXCEPT ![addr] = Image[Loading]]
       /\ job'.seg = job.seg + 1 /\ job'.pid = job.pid /\ job'.pt = job.pt /\ kpc' = "load"
       /\ pageinfo' = Assign(pageinfo, addr, job.pid) /\ UNCHANGED <<processes, command>>
    BY <1>1, <1>12, <1>15, <1>17, <1>19, <1>23 DEF TypeOK
<1>25. ASSUME NEW r \in PN, lev[r] = 0, pageinfo[r].refcount # 0, LowOK(mem, r)
       PROVE  LowOK(mem', r)
    <2>1. map.mem \in [PN -> Page] /\ Placed(l, q, map.mem, map.pageinfo) /\ l[r] = 0
        BY <1>18, <1>25 DEF Built
    <2>2. \A u \in PN : l[u] \in 0 .. 3 => mem'[u] = map.mem[u]
        BY <1>18, <1>24, <2>1 DEF UserLevel
    <2>3. SameLow(map.mem, mem', r)
        BY <2>1, <2>2, TablesKeepLow
    <2>4. SameLow(mem, map.mem, r)
        BY <1>21, <1>25
    <2>. QED  BY <1>25, <2>3, <2>4 DEF SameLow, LowOK, LowAt
<1>26. LowInv'
    <2>1. ASSUME NEW p \in HasTable PROVE LowOK(mem', processes[p].pagetable)
        <3>1. /\ processes[p].pagetable \in PN /\ lev[processes[p].pagetable] = 0
              /\ pageinfo[processes[p].pagetable].refcount # 0
            <4>1. processes[p].pagetable \in PN /\ Root(lev, pageinfo, processes[p].pagetable, p)
                BY <1>1, <1>2 DEF HasTable, RootsOK, Processes
            <4>. QED  BY <4>1 DEF Root, Owns
        <3>. QED  BY <1>4, <1>25, <3>1 DEF LowInv
    <2>2. LowOK(mem', job.pt)
        <3>1. pageinfo[job.pt].refcount # 0
            BY <1>3 DEF Root, Owns
        <3>. QED  BY <1>1, <1>3, <1>4, <1>22, <1>25, <3>1 DEF LowInv
    <2>3. HasTable' = HasTable
        BY <1>24 DEF HasTable
    <2>. QED  BY <1>24, <2>1, <2>2, <2>3 DEF LowInv
<1>27. ActiveInv'
    <2>1. \A pn \in PN : pageinfo'[pn].owner = job.pid \/ pageinfo'[pn] = pageinfo[pn]
        BY <1>1, <1>24 DEF Assign
    <2>2. HasTable' = HasTable
        BY <1>24 DEF HasTable
    <2>. QED  BY <1>1, <1>4, <1>24, <2>1, <2>2 DEF ActiveInv, Booting
<1>28. LoadInv'
    <2>1. ASSUME NEW pn \in PN, pn >= PROC_START, pageinfo'[pn].refcount # 0
          PROVE  \E r \in 1 .. job.pid : \E k \in DOMAIN SegmentsOf(command, r) :
                    /\ pn = SegmentsOf(command, r)[k]
                    /\ r = job.pid => k < job.seg + 1
        <3>1. CASE pn = addr
            <4>1. job.pid \in 1 .. job.pid
                BY <1>3, SizeAssumption DEF Pid
            <4>2. job.seg < job.seg + 1
                BY <1>6
            <4>3. pn = SegmentsOf(command, job.pid)[job.seg]
                BY <1>5, <3>1 DEF addr
            <4>. QED  BY <1>5, <1>6, <4>1, <4>2, <4>3
        <3>2. CASE pn # addr
            <4>1. pageinfo[pn].refcount # 0
                BY <1>1, <1>24, <2>1, <3>2 DEF Assign
            <4>2. PICK r \in 1 .. job.pid : \E k \in DOMAIN SegmentsOf(command, r) :
                    pn = SegmentsOf(command, r)[k] /\ (r = job.pid => k < job.seg)
                BY <1>1, <1>4, <2>1, <4>1 DEF LoadInv, Booting
            <4>3. PICK k \in DOMAIN SegmentsOf(command, r) :
                    pn = SegmentsOf(command, r)[k] /\ (r = job.pid => k < job.seg)
                BY <4>2
            <4>4. r = job.pid => k < job.seg + 1
                <5>1. r = job.pid => k \in Nat
                    BY <1>1, <1>5, <4>3, LoadingType
                <5>. QED  BY <1>6, <4>3, <5>1
            <4>. QED  BY <4>3, <4>4
        <3>. QED  BY <3>1, <3>2
    <2>2. LowCount(pageinfo') \in Nat /\ LowCount(pageinfo') >= LowCount(pageinfo)
        BY <1>1, <1>7, <1>8, <1>24, LowAssignCost
    <2>3. /\ LowForTheRest(command, job.pid) \in Nat /\ LowCount(pageinfo) \in Nat
          /\ LowCount(pageinfo) - LowForTheRest(command, job.pid) >= 0
        BY <1>1, <1>4, LowRestNatural DEF LoadInv, Booting
    <2>4. LowCount(pageinfo') - LowForTheRest(command, job.pid) >= 0
        BY <2>2, <2>3
    <2>. QED  BY <1>24, <2>1, <2>4 DEF LoadInv, Booting
<1>29. ForkInv' /\ NoPanic'
    BY <1>24 DEF ForkInv, NoPanic
<1>. QED  BY <1>26, <1>27, <1>28, <1>29 DEF LiveInv

\* process_setup ends with a process that can run; kernel() sets up the next
\* one or runs process 1.
LEMMA SetupStackLives ==
    OwnershipInv /\ IsolationInv /\ BootMemory /\ LiveInv /\ SetupStack => LiveInv'
<1>. SUFFICES ASSUME OwnershipInv, IsolationInv, BootMemory, LiveInv, SetupStack PROVE LiveInv'
    OBVIOUS
<1>. DEFINE n == FreeAddr(pageinfo)
            va == MEMSIZE_VIRTUAL - 1
            map == virtual_memory_map(Assign(pageinfo, n, job.pid), mem, job.pt, va,
                                      n, RWU, job.pid, TRUE)
            ready == [state |-> "P_RUNNABLE", pagetable |-> processes[job.pid].pagetable,
                      rip |-> Segments[Loading][1], rax |-> 0]
            procs == [processes EXCEPT ![job.pid] = ready]
<1>1. /\ pageinfo \in [PN -> PageInfo] /\ mem \in [PN -> Page]
      /\ processes \in [Pid -> Processes] /\ KernelIntact(mem, pageinfo) /\ JobOK
      /\ kpc = "load" /\ TypeOK
    BY Parts DEF SetupStack
<1>2. PICK lev \in [PN -> Level], path \in [PN -> Path] :
        /\ Placed(lev, path, mem, pageinfo) /\ RootsOK(lev, pageinfo, processes)
        /\ JobRoot(lev, pageinfo, kpc, job)
    BY Parts DEF PlacesInv
<1>3. /\ job.pid \in Pid \ {0} /\ job.pt \in PN /\ job.pid \in Owner
      /\ pagetable_owner = job.pid /\ Root(lev, pageinfo, job.pt, job.pid)
      /\ processes[job.pid].pagetable = job.pt
    BY <1>1, <1>2, JobFacts DEF JobRoot, JobOK, Building, Owner
<1>4. /\ n # NULL /\ n \in PN /\ pageinfo[n].refcount = 0 /\ pageinfo[NULL].refcount # 0
    BY <1>1, StackPageFound, FreeAddrType, LayoutAssumption
       DEF IsFree, AtStack, SetupStack, KernelIntact
<1>5. va \in VA /\ va \in Nat /\ va >= PROC_START /\ RWU \in SUBSET Flags /\ PTE_P \in RWU
    BY LayoutTypes, LayoutAssumption, SizeAssumption DEF RWU, Flags, VA
<1>6. get_free_addr(pageinfo, job.pid).pn = n
      /\ get_free_addr(pageinfo, job.pid).pageinfo = Assign(pageinfo, n, job.pid)
    BY <1>4 DEF get_free_addr, Give
<1>7. /\ pageinfo' = map.pageinfo /\ mem' = map.mem /\ UNCHANGED command
      /\ map.res # "assert" =>
            /\ processes' = procs
            /\ IF job.pid < LastSetup(command)
               THEN kpc' = "setup" /\ job' = [NoJob EXCEPT !.pid = job.pid + 1]
               ELSE run(procs, map.mem, 1)
    BY <1>3, <1>6 DEF SetupStack
<1>8. LowInv /\ ActiveInv /\ LoadInv
    BY DEF LiveInv
<1>9. /\ LowForTheRest(command, job.pid) \in Nat /\ LowCount(pageinfo) \in Nat
      /\ job.pid \in 1 .. LastSetup(command) /\ LastSetup(command) \in 1 .. NPROC - 1
      /\ LowCount(pageinfo) - LowForTheRest(command, job.pid) >= 0
    BY <1>1, <1>8, LowRestNatural DEF LoadInv, Booting
<1>10. LowCount(pageinfo) > 0 => n < PROC_START
    BY <1>1, LowAddrFound
<1>. HIDE DEF n, va
<1>11. MappedFresh(job.pid, lev, path, pageinfo, mem, map, job.pt, va, n, RWU)
    BY <1>1, <1>2, <1>3, <1>4, <1>5, GivenAndMapped
<1>12. map = virtual_memory_map(Assign(pageinfo, n, job.pid), mem, job.pt, va,
                                n, RWU, job.pid, TRUE)
    OBVIOUS
<1>13. LowMapCosts(Assign(pageinfo, n, job.pid), map)
    <2>1. Assign(pageinfo, n, job.pid) \in [PN -> PageInfo]
        BY <1>1, <1>3, <1>4, AssignGrows DEF Grown
    <2>. QED  BY <1>1, <1>3, <1>5, <2>1, LowMapCost
<1>. HIDE DEF map
<1>14. /\ MapEnds(Assign(pageinfo, n, job.pid), mem, job.pt, va, TRUE, map)
       /\ Grown(pageinfo, map.pageinfo, {job.pid})
    <2>1. Placed(lev, path, mem, pageinfo)
        BY <1>2
    <2>. QED  BY <1>1, <1>3, <1>4, <1>5, <1>12, <2>1, GivenMapEnds, Zenon
<1>15. /\ processes' = procs /\ pageinfo' = map.pageinfo /\ mem' = map.mem
       /\ command' = command
       /\ IF job.pid < LastSetup(command)
          THEN kpc' = "setup" /\ job' = [NoJob EXCEPT !.pid = job.pid + 1]
          ELSE run(procs, map.mem, 1)
    BY <1>7, <1>14 DEF MapEnds
<1>16. KernelIntact(map.mem, map.pageinfo)
    <2>1. PICK l \in [PN -> Level], q \in [PN -> Path] :
            Built(job.pid, lev, path, pageinfo, mem, l, q, map.pageinfo, map.mem)
        BY <1>11 DEF MappedFresh
    <2>. QED  BY <1>1, <1>3, <2>1, BuiltIntact
<1>17. \A p \in Pid : p # job.pid => procs[p] = processes[p]
    BY <1>1, <1>3
<1>18. procs[job.pid].state = "P_RUNNABLE" /\ procs[job.pid].pagetable = job.pt
    BY <1>1, <1>3
<1>. HIDE DEF procs
<1>19. job.pt # NULL
    <2>1. -1 \notin Pid
        BY SizeAssumption DEF Pid
    <2>. QED  BY <1>1, <1>3, <2>1, LayoutAssumption DEF KernelIntact, Root, Owns, PO_RESERVED
<1>20. ActiveSpaces(procs, map.mem)
    <2>. SUFFICES ASSUME NEW p \in Pid, procs[p].state # "P_FREE"
                  PROVE  procs[p].pagetable \in PN \ {NULL} /\ LowOK(map.mem, procs[p].pagetable)
        BY DEF ActiveSpaces
    <2>. DEFINE r == procs[p].pagetable
    <2>1. r \in PN \ {NULL} /\ lev[r] = 0 /\ LowOK(mem, r)
        <3>1. CASE p = job.pid
            BY <1>1, <1>3, <1>8, <1>18, <1>19, <3>1 DEF Root, LowInv
        <3>2. CASE p # job.pid
            <4>1. p \in HasTable /\ r = processes[p].pagetable
                BY <1>1, <1>8, <1>17, <3>2 DEF ActiveInv
            <4>2. r \in PN \ {NULL}
                BY <1>1, <4>1 DEF HasTable, Processes
            <4>3. lev[r] = 0
                BY <1>2, <4>1 DEF RootsOK, HasTable, Root
            <4>. QED  BY <1>8, <4>1, <4>2, <4>3 DEF LowInv
        <3>. QED  BY <3>1, <3>2
    <2>. HIDE DEF r
    <2>2. SameLow(mem, map.mem, r)
        BY <1>5, <1>11, <2>1, FreshKeepsLow
    <2>3. LowOK(map.mem, r)
        BY <2>1, <2>2 DEF SameLow, LowOK, LowAt
    <2>. QED  BY <2>1, <2>3 DEF r
<1>21. OwnersActive(procs, map.pageinfo)
    BY <1>1, <1>8, <1>14, <1>17, <1>18 DEF OwnersActive, ActiveInv, Grown
<1>22. \A q \in 1 .. job.pid : q \in Pid /\ procs[q].state = "P_RUNNABLE"
    <2>1. ASSUME NEW q \in 1 .. job.pid PROVE q \in Pid /\ procs[q].state = "P_RUNNABLE"
        <3>1. q \in Pid /\ (q = job.pid \/ q \in 1 .. job.pid - 1)
            BY <1>3, SizeAssumption DEF Pid
        <3>2. q \in 1 .. job.pid - 1 => processes[q].state = "P_RUNNABLE"
            BY <1>1, <1>8 DEF ActiveInv, Booting
        <3>. QED  BY <1>17, <1>18, <3>1, <3>2
    <2>. QED  BY <2>1
<1>23. CASE ~(job.pid < LastSetup(command))
    <2>1. 1 \in 1 .. job.pid /\ 1 \in Pid
        BY <1>9, SizeAssumption, LayoutTypes
    <2>2. kpc' = "user"
        BY <1>15, <1>16, <1>20, <1>22, <1>23, <2>1, RunLives
    <2>3. ActiveSpaces(processes', mem') /\ OwnersActive(processes', pageinfo')
        BY <1>15, <1>20, <1>21, Zenon
    <2>. QED  BY <2>2, <2>3, LeaveLives
<1>24. CASE job.pid < LastSetup(command)
    <2>1. kpc' = "setup" /\ job'.pid = job.pid + 1
        BY <1>15, <1>24 DEF NoJob
    <2>2. LowInv'
        BY <1>15, <1>20, <2>1 DEF LowInv, HasTable, ActiveSpaces
    <2>3. ActiveInv'
        <3>1. \A p \in Pid : processes'[p].state # "P_FREE" => p \in HasTable'
            BY <1>15, <1>20 DEF HasTable, ActiveSpaces
        <3>2. job'.pid - 1 = job.pid
            BY <1>9, <2>1, SizeAssumption
        <3>. QED  BY <1>15, <1>21, <1>22, <2>1, <3>1, <3>2 DEF ActiveInv, OwnersActive
    <2>4. LowForTheRest(command, job'.pid) + 8 = LowForTheRest(command, job.pid)
        BY <1>9, <2>1, SizeAssumption DEF LowForTheRest
    <2>5. LowForTheRest(command, job'.pid) \in Nat
        <3>1. LastSetup(command) - (job.pid + 1) \in Nat
            BY <1>9, <1>24, SizeAssumption
        <3>. QED  BY <2>1, <3>1 DEF LowForTheRest
    <2>6. LowCount(pageinfo) >= LowForTheRest(command, job'.pid) + 8
        BY <1>9, <2>4, <2>5
    <2>7. /\ LowCount(Assign(pageinfo, n, job.pid)) \in Nat
          /\ LowCount(Assign(pageinfo, n, job.pid)) >= LowCount(pageinfo) - 1
        BY <1>1, <1>4, LowAssignCost
    <2>8. LowCount(Assign(pageinfo, n, job.pid)) >= 3
        BY <1>9, <2>5, <2>6, <2>7
    <2>9. LowCount(pageinfo') - LowForTheRest(command, job'.pid) >= 4
        BY <1>9, <1>13, <1>15, <2>5, <2>6, <2>7 DEF LowMapCosts
    <2>10. \A pn \in PN : pn >= PROC_START => pageinfo'[pn] = pageinfo[pn]
        <3>1. n < PROC_START
            BY <1>9, <1>10, <2>5, <2>6
        <3>2. ASSUME NEW pn \in PN, pn >= PROC_START PROVE pn # n
            BY <1>4, <3>1, <3>2, SizeAssumption, LayoutTypes DEF PN
        <3>3. HighSame(Assign(pageinfo, n, job.pid), pageinfo')
            BY <1>13, <1>15, <2>8 DEF LowMapCosts
        <3>. QED  BY <1>1, <3>2, <3>3 DEF Assign, HighSame
    <2>11. ASSUME NEW pn \in PN, pn >= PROC_START, pageinfo'[pn].refcount # 0
           PROVE  \E r \in 1 .. job'.pid : \E k \in DOMAIN SegmentsOf(command, r) :
                    pn = SegmentsOf(command, r)[k] /\ r # job'.pid
        <3>1. PICK r \in 1 .. job.pid : \E k \in DOMAIN SegmentsOf(command, r) :
                pn = SegmentsOf(command, r)[k]
            BY <1>1, <1>8, <2>10, <2>11 DEF LoadInv, Booting
        <3>2. r \in 1 .. job'.pid /\ r # job'.pid
            BY <1>9, <2>1, SizeAssumption
        <3>. QED  BY <3>1, <3>2
    <2>12. LoadInv'
        BY <1>15, <2>1, <2>9, <2>11 DEF LoadInv, Booting
    <2>13. ForkInv' /\ NoPanic'
        BY <2>1 DEF ForkInv, NoPanic
    <2>. QED  BY <2>2, <2>3, <2>12, <2>13 DEF LiveInv
<1>. QED  BY <1>23, <1>24

-----------------------------------------------------------------------------
(* The kernel does not panic *)

\* The free pages below PROC_START after pageinfo_init are enough.
LEMMA LowBootCount ==
    ASSUME NEW cmd
    PROVE  LowCount(pageinfo_init) - LowForTheRest(cmd, 1) >= 4
<1>1. NALLOC \in Nat /\ NALLOC >= 1
    BY ProgramAssumption, SizeAssumption
<1>2. LowPages(pageinfo_init) = (0 .. PROC_START - 1) \ (KERNEL \cup RESERVED)
    <2>1. PO_RESERVED # PO_FREE /\ PO_KERNEL # PO_FREE
        BY DEF PO_RESERVED, PO_KERNEL, PO_FREE
    <2>2. \A pn \in PN : InitOwner(pn) = PO_FREE <=> pn \notin KERNEL \cup RESERVED
        BY <2>1 DEF InitOwner
    <2>3. FreePages(pageinfo_init) = PN \ (KERNEL \cup RESERVED)
        BY <2>2 DEF FreePages, IsFree, pageinfo_init
    <2>4. {pn \in PN : pn < PROC_START} = 0 .. PROC_START - 1
        BY LayoutTypes, LayoutAssumption, SizeAssumption DEF PN
    <2>5. LowPages(pageinfo_init) = {pn \in PN : pn < PROC_START} \ (KERNEL \cup RESERVED)
        BY <2>3 DEF LowPages
    <2>. QED  BY <2>4, <2>5
<1>3. LowCount(pageinfo_init) >= 8 * (NALLOC - 1) + 4 /\ LowCount(pageinfo_init) \in Nat
    <2>1. LowCount(pageinfo_init) \in Nat
        BY LowAssignCost, BootState, KernelPages
    <2>. QED  BY <1>2, <2>1, LinkAssumption DEF LowCount
<1>4. LastSetup(cmd) \in {1, NALLOC}
    BY DEF LastSetup
<1>5. CASE LastSetup(cmd) = 1
    BY <1>1, <1>3, <1>5 DEF LowForTheRest
<1>6. CASE LastSetup(cmd) = NALLOC
    BY <1>1, <1>3, <1>6 DEF LowForTheRest
<1>. QED  BY <1>4, <1>5, <1>6

\* What kernel() enters the first process_setup with.
AtBoot == pageinfo = pageinfo_init /\ processes = BootProcesses /\ kpc = "setup" /\ job.pid = 1

\* There the invariant holds.
LEMMA BootLives == AtBoot => LiveInv
<1>. SUFFICES ASSUME AtBoot PROVE LiveInv
    OBVIOUS
<1>1. \A p \in Pid : processes[p].state = "P_FREE"
    BY DEF AtBoot, BootProcesses, FreeProcess
<1>2. \A pn \in PN : pageinfo[pn].owner \notin Pid \ {0} /\
                     (pn >= PROC_START => pageinfo[pn].refcount = 0)
    <2>1. {PO_RESERVED, PO_KERNEL, PO_FREE} \cap (Pid \ {0}) = {}
        BY SizeAssumption DEF PO_RESERVED, PO_KERNEL, PO_FREE, Pid
    <2>2. \A pn \in PN : pn >= PROC_START => pn \notin KERNEL \cup RESERVED
        BY LayoutTypes, LayoutAssumption
    <2>. QED  BY <2>1, <2>2 DEF AtBoot, pageinfo_init, InitOwner
<1>3. LowInv
    BY <1>1 DEF AtBoot, LowInv, HasTable
<1>4. ActiveInv
    <2>1. 1 .. 1 - 1 = {}
        OBVIOUS
    <2>. QED  BY <1>1, <1>2, <2>1 DEF AtBoot, ActiveInv
<1>5. LoadInv
    BY <1>2, LowBootCount DEF AtBoot, LoadInv
<1>6. ForkInv /\ NoPanic
    BY DEF AtBoot, ForkInv, NoPanic
<1>. QED  BY <1>3, <1>4, <1>5, <1>6 DEF LiveInv

\* A key typed, or none.
LEMMA KeyboardLives ==
    OwnershipInv /\ LiveInv /\ (Keyboard \/ UNCHANGED vars) => LiveInv'
<1>. SUFFICES ASSUME OwnershipInv, LiveInv, Keyboard \/ UNCHANGED vars PROVE LiveInv'
    OBVIOUS
<1>1. CASE Poweroff
    <2>1. kpc \notin Booting \cup {"fork_copy"} /\ kpc' = "off"
          /\ UNCHANGED <<processes, mem, pageinfo>>
        BY <1>1 DEF Poweroff, Booting
    <2>2. ActiveSpaces(processes, mem) /\ OwnersActive(processes, pageinfo)
        BY <2>1, ActiveNow
    <2>3. ActiveSpaces(processes', mem') /\ OwnersActive(processes', pageinfo')
        BY <2>1, <2>2, Zenon
    <2>. QED  BY <2>1, <2>3, LeaveLives
<1>2. CASE \E cmd \in Commands : SoftReboot(cmd)
    <2>1. AtBoot'
        BY <1>2 DEF AtBoot, SoftReboot, NoJob
    <2>. QED  BY <2>1, BootLives, PTL
<1>3. CASE UNCHANGED vars
    <2>1. UNCHANGED <<pageinfo, mem, processes, kpc, job, trap, command>>
        BY <1>3 DEF vars
    <2>2. LowInv' /\ ActiveInv'
        BY <2>1 DEF LiveInv, LowInv, ActiveInv, HasTable, LowOK
    <2>3. LoadInv' /\ ForkInv' /\ NoPanic'
        BY <2>1 DEF LiveInv, LoadInv, ForkInv, NoPanic, SegmentsOf
    <2>. QED  BY <2>2, <2>3 DEF LiveInv
<1>. QED  BY <1>1, <1>2, <1>3 DEF Keyboard

\* Every step of the machine preserves the invariant, if a handler entered
\* now is one the kernel can survive.
THEOREM NextLives ==
    ASSUME OwnershipInv, IsolationInv, BootMemory, LiveInv, Survivable, [Next]_vars
    PROVE  LiveInv'
<1>1. CASE Setup
    BY <1>1, ProcessSetupLives, CopyMappingLives, CopyReturnLives, ProgramLoadSegmentLives,
       SetupStackLives DEF Setup
<1>2. CASE User \/ Timer
    BY <1>2, UserLives
<1>3. CASE Handle
    BY <1>3, SimpleHandlerLives, HandlePageAllocLives, ForkBeginLives, ForkCopyPageLives
    DEF Handle
<1>4. CASE Keyboard \/ UNCHANGED vars
    BY <1>4, KeyboardLives
<1>. QED  BY <1>1, <1>2, <1>3, <1>4 DEF Next, Spin

\* In a machine whose programs never ask for a panic, and never call fork()
\* with a free slot but fewer than four free pages, the invariant holds.
THEOREM LiveInvariant == Spec /\ []Survivable => [](OwnershipInv /\ IsolationInv /\ LiveInv)
<1>1. Init => LiveInv
    BY BootLives DEF Init, AtBoot, NoJob
<1>2. OwnershipInv /\ IsolationInv /\ BootMemory /\ LiveInv /\ Survivable /\ [Next]_vars => LiveInv'
    BY NextLives
<1>. QED  BY <1>1, <1>2, IsolationInvariant, PTL DEF Spec

\* There the kernel never panics: no assertion of set_pagetable, run(), the
\* page table walk or virtual_memory_map fails, process_setup and program_load
\* never run out of memory, sys_page_alloc survives running out of it, and
\* no exception comes from the kernel; for every layout and number of pages.
THEOREM KernelNeverPanics == Spec /\ []Survivable => []NoPanic
<1>1. LiveInv => NoPanic
    BY DEF LiveInv
<1>. QED  BY <1>1, LiveInvariant, PTL

\* And check_virtual_memory, which the kernel calls at every exception, finds
\* what it asserts of page tables, reference counts and owners.
THEOREM ChecksNeverFail == Spec /\ []Survivable => []ChecksHold
<1>1. OwnershipInv /\ IsolationInv /\ LiveInv => ChecksHold
    BY ChecksPass DEF LiveInv, ChecksHold
<1>. QED  BY <1>1, LiveInvariant, PTL

-----------------------------------------------------------------------------
(* The invariant behind RefcountsExact *)

\* Address va of page table pt is mapped for users, or not at all.
HighOK(m, pt) ==
    \A va \in VA : va >= PROC_START => virtual_memory_lookup(m, pt, va).perm \in {{}, RWU}

\* A forest of page tables in which every page of a process has a place and is
\* referenced once, and whose trees map addresses above PROC_START for users.
Forest(lev, path, m, pi) ==
    /\ Placed(lev, path, m, pi)
    /\ Counted({}, lev, pi, m)
    /\ \A r \in PN : lev[r] = 0 => HighOK(m, r)

\* Page table pt is the one of process q, or the one being built for it.
UsesRoot(procs, pc, j, q, pt) ==
    \/ procs[q].state # "P_FREE" /\ procs[q].pagetable = pt
    \/ pc \in Building /\ j.pid = q /\ j.pt = pt

\* The roots of the forest are these page tables.
RootsUsed(lev, pi, procs, pc, j) ==
    \A q \in Pid, pt \in PN \ {NULL} : UsesRoot(procs, pc, j, q, pt) <=> Root(lev, pi, pt, q)

ForestInv ==
    kpc \notin {"panic", "off"} =>
        \E lev \in [PN -> Level], path \in [PN -> Path] :
            Forest(lev, path, mem, pageinfo) /\ RootsUsed(lev, pageinfo, processes, kpc, job)

\* What copy_pagetable, program_load, fork() and sys_page_alloc map next is
\* not mapped yet; and fork() has made its child runnable.
UnmappedInv ==
    /\ kpc \in {"setup_copy", "fork_copy", "fork_memory"} =>
         \A va \in VA : va >= job.va => virtual_memory_lookup(mem, job.pt, va) = NoMapping
    /\ kpc = "load" =>
         \A va \in VA : va >= PROC_START => \/ virtual_memory_lookup(mem, job.pt, va) = NoMapping
                                            \/ \E k \in 1 .. job.seg - 1 : va = Segments[Loading][k]
    /\ kpc = "dispatch" /\ trap.int = "INT_SYS_PAGE_ALLOC" =>
         virtual_memory_lookup(mem, processes[current].pagetable, trap.rdi) = NoMapping
    /\ kpc \in {"fork_copy", "fork_memory"} => processes[job.pid].state # "P_FREE"
    /\ kpc = "fork_copy" => processes[job.pid].pagetable = NULL

CountInv == ForestInv /\ UnmappedInv

\* A free page, if there is one, can be mapped for process p at va.
Mappable(p, m, pt, va, perm) ==
    LET n == FreeAddr(pageinfo)
    IN  n # NULL => virtual_memory_map(Assign(pageinfo, n, p), m, pt, va, n, perm, p, TRUE).res # "fail"

\* What the theorem asks of memory: whenever process_setup, sys_page_alloc or
\* fork() finds a page, there is also memory for the tables to map it.  Where
\* there is not, the code keeps the page for the process without a mapping.
MemoryForTables ==
    /\ AtStack => Mappable(job.pid, mem, job.pt, MEMSIZE_VIRTUAL - 1, RWU)
    /\ kpc = "dispatch" /\ trap.int = "INT_SYS_PAGE_ALLOC" =>
         Mappable(current, mem, processes[current].pagetable, trap.rdi, RWU)
    /\ kpc = "fork_memory" /\ job.va < MEMSIZE_VIRTUAL =>
         LET mapping == virtual_memory_lookup(mem, processes[current].pagetable, job.va)
             copied == [mem EXCEPT ![FreeAddr(pageinfo)] = mem[mapping.pn]]
         IN  PTE_W \in mapping.perm => Mappable(job.pid, copied, job.pt, job.va, mapping.perm)

\* What the kernel does for process p to a forest: it builds for p, without
\* another root, and leaves a forest.
ForestGrows(p, lev, path, pi, m, lev2, path2, pi2, m2) ==
    /\ Built(p, lev, path, pi, m, lev2, path2, pi2, m2)
    /\ Forest(lev2, path2, m2, pi2)
    /\ \A t \in PN : pi[t].refcount = 0 /\ lev2[t] # NoLevel => lev2[t] \in 1 .. 4

\* The roots stay.
LEMMA RootsStay ==
    ASSUME NEW p, NEW lev, NEW path, NEW pi, NEW m, NEW lev2, NEW path2, NEW pi2, NEW m2,
           Placed(lev, path, m, pi), ForestGrows(p, lev, path, pi, m, lev2, path2, pi2, m2),
           NEW pt \in PN, NEW q
    PROVE  Root(lev2, pi2, pt, q) <=> Root(lev, pi, pt, q)
<1>1. CASE pi[pt].refcount # 0
    BY <1>1 DEF ForestGrows, Built, Root, Owns
<1>2. CASE pi[pt].refcount = 0
    <2>1. lev[pt] # 0
        BY <1>2 DEF Placed, PlacesOwned, NoLevel
    <2>2. lev2[pt] # 0
        BY <1>2 DEF ForestGrows, NoLevel
    <2>. QED  BY <2>1, <2>2 DEF Root
<1>. QED  BY <1>1, <1>2

\* A step that grows the forest and changes no root of a process.
LEMMA ForestStep ==
    ASSUME NEW p, NEW lev, NEW path, NEW lev2 \in [PN -> Level], NEW path2 \in [PN -> Path],
           Forest(lev, path, mem, pageinfo), RootsUsed(lev, pageinfo, processes, kpc, job),
           ForestGrows(p, lev, path, pageinfo, mem, lev2, path2, pageinfo', mem'),
           \A q \in Pid, pt \in PN \ {NULL} :
              UsesRoot(processes', kpc', job', q, pt) <=> UsesRoot(processes, kpc, job, q, pt)
    PROVE  ForestInv'
<1>1. Placed(lev, path, mem, pageinfo)
    BY DEF Forest
<1>2. ASSUME NEW q \in Pid, NEW pt \in PN \ {NULL}
      PROVE  UsesRoot(processes', kpc', job', q, pt) <=> Root(lev2, pageinfo', pt, q)
    <2>1. Root(lev2, pageinfo', pt, q) <=> Root(lev, pageinfo, pt, q)
        BY <1>1, RootsStay
    <2>. QED  BY <2>1 DEF RootsUsed
<1>3. RootsUsed(lev2, pageinfo', processes', kpc', job')
    BY <1>2 DEF RootsUsed
<1>4. Forest(lev2, path2, mem', pageinfo')
    BY DEF ForestGrows
<1>. QED  BY <1>3, <1>4 DEF ForestInv

\* A step that leaves the forest alone.
LEMMA ForestQuiet ==
    ASSUME ForestInv, kpc \notin {"panic", "off"}, UNCHANGED <<mem, pageinfo>>,
           \A q \in Pid, pt \in PN \ {NULL} :
              UsesRoot(processes', kpc', job', q, pt) <=> UsesRoot(processes, kpc, job, q, pt)
    PROVE  ForestInv'
<1>1. PICK lev \in [PN -> Level], path \in [PN -> Path] :
        Forest(lev, path, mem, pageinfo) /\ RootsUsed(lev, pageinfo, processes, kpc, job)
    BY DEF ForestInv
<1>2. Forest(lev, path, mem', pageinfo') /\ RootsUsed(lev, pageinfo', processes', kpc', job')
    BY <1>1 DEF RootsUsed
<1>. QED  BY <1>2 DEF ForestInv

\* After a panic nothing is claimed.
LEMMA StoppedForest ==
    ASSUME kpc' \in {"panic", "off"}
    PROVE  CountInv'
BY DEF CountInv, ForestInv, UnmappedInv

\* A process has one root.
LEMMA OneRoot ==
    ASSUME OwnershipInv, IsolationInv, UnmappedInv, NEW lev,
           RootsUsed(lev, pageinfo, processes, kpc, job),
           NEW q \in Pid, NEW r1 \in PN \ {NULL}, NEW r2 \in PN \ {NULL},
           Root(lev, pageinfo, r1, q), Root(lev, pageinfo, r2, q)
    PROVE  r1 = r2
<1>1. UsesRoot(processes, kpc, job, q, r1) /\ UsesRoot(processes, kpc, job, q, r2)
    BY DEF RootsUsed
<1>2. kpc \in Building /\ job.pid = q /\ processes[q].state # "P_FREE" =>
        processes[q].pagetable \in {NULL, job.pt}
    <2>1. kpc \in {"setup_copy", "load"} => processes[job.pid].state = "P_FREE"
        <3>1. job.pid \in Pid /\ (job.pid \in Int => job.pid >= job.pid)
            BY Parts DEF TypeOK
        <3>2. job.pid \in Int
            BY <3>1, SizeAssumption DEF Pid
        <3>. QED  BY <3>1, <3>2, Parts DEF JobOK
    <2>. QED  BY <2>1, Parts DEF Building, UnmappedInv, JobOK
<1>. QED  BY <1>1, <1>2 DEF UsesRoot

\* No root is page 0.
LEMMA RootNotNull ==
    ASSUME NEW m, NEW pi, KernelIntact(m, pi), NEW lev, NEW p \in Pid, NEW pt, Root(lev, pi, pt, p)
    PROVE  pt # NULL
<1>1. pi[NULL].owner = PO_RESERVED
    <2>1. NULL \in RESERVED
        BY LayoutAssumption
    <2>2. pi[NULL] = [owner |-> PO_RESERVED, refcount |-> 1]
        BY <2>1 DEF KernelIntact
    <2>. QED  BY <2>2
<1>2. PO_RESERVED \notin Pid
    BY SizeAssumption DEF Pid, PO_RESERVED
<1>. QED  BY <1>1, <1>2 DEF Root, Owns

\* Stores to what is no page table change no reference.
LEMMA StoreForest ==
    ASSUME NEW lev, NEW path, NEW pi, NEW m \in [PN -> Page], Forest(lev, path, m, pi),
           NEW n \in PN, lev[n] \notin 0 .. 3, NEW m2, \A u \in PN : u # n => m2[u] = m[u]
    PROVE  Forest(lev, path, m2, pi)
<1>1. Placed(lev, path, m, pi) /\ Counted({}, lev, pi, m)
    BY DEF Forest
<1>2. Placed(lev, path, m2, pi)
    BY <1>1, StorePlaced
<1>3. \A u \in PN : lev[u] \in 0 .. 3 => m2[u] = m[u]
    OBVIOUS
<1>4. Counted({}, lev, pi, m2)
    <2>1. \A k : \A t \in PN, i \in Index : Refers(lev, m2, t, i, k) <=> Refers(lev, m, t, i, k)
        BY <1>3 DEF Refers
    <2>2. \A t \in PN, i \in Index : lev[t] = 3 => m2[t][i] = m[t][i]
        BY <1>3
    <2>. QED  BY <1>1, <2>1, <2>2 DEF Counted
<1>5. SeesSame(lev, m, m2)
    BY <1>1, <1>3, SameTables
<1>6. \A r \in PN : lev[r] = 0 => HighOK(m2, r)
    BY <1>5 DEF Forest, HighOK, SeesSame
<1>. QED  BY <1>2, <1>4, <1>6 DEF Forest

\* A page table that is empty maps nothing.
LEMMA LookupEmpty ==
    ASSUME NEW m, NEW pt, m[pt] = ZeroPage, NEW va \in VA
    PROVE  virtual_memory_lookup(m, pt, va) = NoMapping
<1>1. m[pt][PAGEINDEX(va, 0)] = ZeroWord
    BY PageIndexType, SizeAssumption DEF ZeroPage, VA
<1>. QED  BY <1>1 DEF virtual_memory_lookup, ZeroWord, NoMapping

\* The console is in use.
LEMMA ConsoleUsed ==
    ASSUME NEW m, NEW pi, KernelIntact(m, pi)
    PROVE  pi[CONSOLE].refcount # 0
<1>1. CONSOLE \in RESERVED
    BY LayoutAssumption
<1>2. pi[CONSOLE] = [owner |-> PO_RESERVED, refcount |-> 1]
    BY <1>1 DEF KernelIntact
<1>. QED  BY <1>2

\* Mapping a fresh page for users at an address that is not mapped.
LEMMA ForestMapFresh ==
    ASSUME NEW p \in Pid \ {0}, NEW lev, NEW path, NEW pi, NEW m, KernelIntact(m, pi),
           Forest(lev, path, m, pi), NEW pt \in PN,
           \A r \in PN : Root(lev, pi, r, p) => r = pt,
           NEW va \in VA, va >= PROC_START, NEW n \in PN, NEW map,
           MappedFresh(p, lev, path, pi, m, map, pt, va, n, RWU), map.res = "ok",
           virtual_memory_lookup(m, pt, va) = NoMapping
    PROVE  \E lev2 \in [PN -> Level], path2 \in [PN -> Path] :
             /\ ForestGrows(p, lev, path, pi, m, lev2, path2, map.pageinfo, map.mem)
             /\ lev2[n] = UserLevel
<1>1. pi[CONSOLE].refcount # 0 /\ Counted({}, lev, pi, m) /\ Placed(lev, path, m, pi) /\ PTE_U \in RWU
    BY ConsoleUsed DEF Forest, RWU
<1>2. PICK lev2 \in [PN -> Level], path2 \in [PN -> Path] :
        /\ Built(p, lev, path, pi, m, lev2, path2, map.pageinfo, map.mem)
        /\ lev2[n] = UserLevel
        /\ \A t \in PN : pi[t].refcount = 0 /\ lev2[t] # NoLevel => lev2[t] \in 1 .. 4
        /\ Counted({}, lev2, map.pageinfo, map.mem)
    BY <1>1 DEF MappedFresh
<1>3. MapSees(p, lev, pi, m, va, map) /\ virtual_memory_lookup(map.mem, pt, va) = [pn |-> n, perm |-> RWU]
    BY DEF MappedFresh
<1>4. ASSUME NEW r \in PN, lev2[r] = 0 PROVE HighOK(map.mem, r)
    <2>1. pi[r].refcount # 0
        BY <1>2, <1>4 DEF NoLevel
    <2>2. lev[r] = 0
        BY <1>2, <1>4, <2>1 DEF Built
    <2>3. ASSUME NEW v \in VA, v >= PROC_START
          PROVE  virtual_memory_lookup(map.mem, r, v).perm \in {{}, RWU}
        <3>1. CASE r = pt /\ v = va
            BY <1>3, <3>1
        <3>2. CASE ~(r = pt /\ v = va)
            <4>1. ~Owns(pi, p, r) \/ v # va
                BY <2>2, <3>2 DEF Root
            <4>2. virtual_memory_lookup(map.mem, r, v) = virtual_memory_lookup(m, r, v)
                BY <1>3, <2>2, <4>1 DEF MapSees
            <4>. QED  BY <2>2, <2>3, <4>2 DEF Forest, HighOK
        <3>. QED  BY <3>1, <3>2
    <2>. QED  BY <2>3 DEF HighOK
<1>5. Placed(lev2, path2, map.mem, map.pageinfo)
    BY <1>2 DEF Built
<1>6. ForestGrows(p, lev, path, pi, m, lev2, path2, map.pageinfo, map.mem)
    BY <1>2, <1>4, <1>5 DEF ForestGrows, Forest
<1>. QED  BY <1>2, <1>6

\* Mapping the kernel's part of an address space.
LEMMA ForestMapLow ==
    ASSUME NEW p \in Pid \ {0}, NEW lev, NEW path, NEW pi, NEW m, KernelIntact(m, pi),
           Forest(lev, path, m, pi), NEW pt \in PN, NEW va \in VA, va < PROC_START,
           NEW pa \in PN, NEW perm, PTE_U \in perm => pa = CONSOLE, NEW map,
           MapBuilds(p, lev, path, pi, m, pt, va, pa, perm, map), map.res = "ok",
           virtual_memory_lookup(m, pt, va) = NoMapping
    PROVE  \E lev2 \in [PN -> Level], path2 \in [PN -> Path] :
             ForestGrows(p, lev, path, pi, m, lev2, path2, map.pageinfo, map.mem)
<1>1. pi[CONSOLE].refcount # 0 /\ Counted({}, lev, pi, m) /\ Placed(lev, path, m, pi)
    BY ConsoleUsed DEF Forest
<1>2. PICK lev2 \in [PN -> Level], path2 \in [PN -> Path] :
        /\ Built(p, lev, path, pi, m, lev2, path2, map.pageinfo, map.mem)
        /\ MapCounts(lev, pi, m, pt, va, pa, perm, map, lev2)
    BY DEF MapBuilds
<1>3. MapSees(p, lev, pi, m, va, map)
    BY DEF MapBuilds
<1>4. lev[CONSOLE] = NoLevel
    <2>1. CONSOLE \in RESERVED /\ CONSOLE \in PN
        BY LayoutAssumption, KernelPages
    <2>2. pi[CONSOLE] = [owner |-> PO_RESERVED, refcount |-> 1]
        BY <2>1 DEF KernelIntact
    <2>3. PO_RESERVED \notin Pid
        BY SizeAssumption DEF Pid, PO_RESERVED
    <2>. QED  BY <1>1, <2>1, <2>2, <2>3 DEF Placed, PlacesOwned
<1>5. Counted({}, lev2, map.pageinfo, map.mem)
    <2>1. {} \in SUBSET PN /\ (PTE_U \in perm => lev[pa] = NoLevel /\ pi[pa].refcount # 0)
        BY <1>1, <1>4
    <2>2. Counted(IF PTE_U \in perm THEN {} \ {pa} ELSE {}, lev2, map.pageinfo, map.mem)
        BY <1>1, <1>2, <2>1 DEF MapCounts
    <2>3. (IF PTE_U \in perm THEN {} \ {pa} ELSE {}) = {}
        OBVIOUS
    <2>. QED  BY <2>2, <2>3, Zenon
<1>6. \A t \in PN : pi[t].refcount = 0 /\ lev2[t] # NoLevel => lev2[t] \in 1 .. 4
    BY <1>2 DEF MapCounts
<1>7. ASSUME NEW r \in PN, lev2[r] = 0 PROVE HighOK(map.mem, r)
    <2>1. pi[r].refcount # 0
        BY <1>6, <1>7 DEF NoLevel
    <2>2. lev[r] = 0
        BY <1>2, <1>7, <2>1 DEF Built
    <2>3. ASSUME NEW v \in VA, v >= PROC_START
          PROVE  virtual_memory_lookup(map.mem, r, v) = virtual_memory_lookup(m, r, v)
        <3>1. v # va
            BY <2>3, LayoutTypes, SizeAssumption DEF VA
        <3>. QED  BY <1>3, <2>2, <3>1 DEF MapSees
    <2>. QED  BY <2>2, <2>3 DEF Forest, HighOK
<1>8. Placed(lev2, path2, map.mem, map.pageinfo)
    BY <1>2 DEF Built
<1>9. ForestGrows(p, lev, path, pi, m, lev2, path2, map.pageinfo, map.mem)
    BY <1>2, <1>5, <1>6, <1>7, <1>8 DEF ForestGrows, Forest
<1>. QED  BY <1>9

\* A forest with an empty tree more.
NewTree(p, n, lev, path, pi, lev2, pi2, m2) ==
    /\ Forest(lev2, path, m2, pi2)
    /\ \A q : \A pt \in PN : Root(lev2, pi2, pt, q) <=> Root(lev, pi, pt, q) \/ (pt = n /\ q = p)
    /\ \A va \in VA : virtual_memory_lookup(m2, n, va) = NoMapping

\* pagetable_alloc plants a tree.
LEMMA ForestPlant ==
    ASSUME NEW p \in Pid \ {0}, NEW lev, NEW path, NEW pi \in [PN -> PageInfo],
           NEW m \in [PN -> Page], KernelIntact(m, pi), Forest(lev, path, m, pi),
           NEW n \in PN, pi[n].refcount = 0
    PROVE  NewTree(p, n, lev, path, pi, [lev EXCEPT ![n] = 0], Assign(pi, n, p),
                   [m EXCEPT ![n] = ZeroPage])
<1>. DEFINE lev2 == [lev EXCEPT ![n] = 0]
            pi2 == Assign(pi, n, p)
            m2 == [m EXCEPT ![n] = ZeroPage]
<1>1. /\ pi[CONSOLE].refcount # 0 /\ Counted({}, lev, pi, m) /\ Placed(lev, path, m, pi)
      /\ 0 \in {0, UserLevel} /\ ZeroPage \in Page /\ {} \in SUBSET PN /\ 0 = 0
    BY ConsoleUsed, ZeroPageType DEF Forest
<1>2. Built(p, lev, path, pi, m, lev2, path, pi2, m2)
    BY <1>1, GivePlaced
<1>3. Counted({}, lev2, pi2, m2)
    <2>1. Counted(IF 0 = 0 THEN {} ELSE {} \cup {n}, lev2, pi2, m2)
        BY <1>1, GiveCounted
    <2>. HIDE DEF lev2, pi2, m2
    <2>. QED  BY <2>1
<1>4. /\ lev2[n] = 0 /\ \A u \in PN : u # n => lev2[u] = lev[u]
      /\ pi2[n] = [owner |-> p, refcount |-> 1] /\ \A u \in PN : u # n => pi2[u] = pi[u]
      /\ m2[n] = ZeroPage /\ \A u \in PN : u # n => m2[u] = m[u]
      /\ lev[n] = NoLevel
    BY <1>1 DEF Placed, PlacesOwned, Assign
<1>. HIDE DEF lev2, pi2, m2
<1>5. \A va \in VA : virtual_memory_lookup(m2, n, va) = NoMapping
    BY <1>4, LookupEmpty
<1>6. \A q : \A pt \in PN : Root(lev2, pi2, pt, q) <=> Root(lev, pi, pt, q) \/ (pt = n /\ q = p)
    <2>. SUFFICES ASSUME NEW pt \in PN, NEW q
                  PROVE  Root(lev2, pi2, pt, q) <=> Root(lev, pi, pt, q) \/ (pt = n /\ q = p)
        OBVIOUS
    <2>1. CASE pt = n
        BY <1>4, <2>1 DEF Root, Owns, NoLevel
    <2>2. CASE pt # n
        BY <1>4, <2>2 DEF Root, Owns
    <2>. QED  BY <2>1, <2>2
<1>7. SeesSame(lev, m, m2)
    <2>1. \A u \in PN : lev[u] \in 0 .. 3 => m2[u] = m[u]
        BY <1>4 DEF NoLevel
    <2>. QED  BY <1>1, <2>1, SameTables
<1>8. ASSUME NEW r \in PN, lev2[r] = 0 PROVE HighOK(m2, r)
    <2>1. CASE r = n
        BY <1>5, <2>1 DEF HighOK, NoMapping
    <2>2. CASE r # n
        BY <1>4, <1>7, <1>8, <2>2 DEF HighOK, SeesSame, Forest
    <2>. QED  BY <2>1, <2>2
<1>9. Forest(lev2, path, m2, pi2)
    BY <1>2, <1>3, <1>8 DEF Forest, Built
<1>. QED  BY <1>5, <1>6, <1>9 DEF NewTree, lev2, pi2, m2

-----------------------------------------------------------------------------
(* References are counted at every step *)

\* At boot there is nothing to count.
LEMMA BootCounts == AtBoot /\ IsolationInv => CountInv
<1>. SUFFICES ASSUME AtBoot, IsolationInv PROVE CountInv
    OBVIOUS
<1>1. pageinfo = pageinfo_init /\ processes = BootProcesses /\ kpc = "setup"
    BY DEF AtBoot
<1>2. \A p \in Pid : processes[p].state = "P_FREE"
    BY <1>1 DEF BootProcesses, FreeProcess
<1>3. \A t \in PN : pageinfo[t].owner \notin Pid \ {0}
    <2>1. {PO_RESERVED, PO_KERNEL, PO_FREE} \cap (Pid \ {0}) = {}
        BY SizeAssumption DEF PO_RESERVED, PO_KERNEL, PO_FREE, Pid
    <2>. QED  BY <1>1, <2>1 DEF pageinfo_init, InitOwner
<1>4. PICK lev \in [PN -> Level], path \in [PN -> Path] : Placed(lev, path, mem, pageinfo)
    BY DEF IsolationInv, PlacesInv
<1>5. \A t \in PN : lev[t] = NoLevel
    BY <1>3, <1>4 DEF Placed, PlacesOwned
<1>6. Counted({}, lev, pageinfo, mem)
    BY <1>3, <1>5 DEF Counted, Refers, NoLevel
<1>7. Forest(lev, path, mem, pageinfo)
    BY <1>4, <1>5, <1>6 DEF Forest, NoLevel
<1>8. RootsUsed(lev, pageinfo, processes, kpc, job)
    BY <1>1, <1>2, <1>5 DEF RootsUsed, UsesRoot, Root, Building, NoLevel
<1>9. ForestInv
    BY <1>7, <1>8 DEF ForestInv
<1>10. UnmappedInv
    BY <1>1 DEF UnmappedInv
<1>. QED  BY <1>9, <1>10 DEF CountInv

\* process_setup plants the tree of the new process.
LEMMA ProcessSetupCounts == OwnershipInv /\ IsolationInv /\ CountInv /\ ProcessSetup => CountInv'
<1>. SUFFICES ASSUME OwnershipInv, IsolationInv, CountInv, ProcessSetup PROVE CountInv'
    OBVIOUS
<1>. DEFINE root == pagetable_alloc(pageinfo, mem, job.pid)
<1>1. /\ pageinfo \in [PN -> PageInfo] /\ mem \in [PN -> Page]
      /\ KernelIntact(mem, pageinfo) /\ JobOK /\ kpc = "setup" /\ TypeOK
    BY Parts DEF ProcessSetup
<1>2. job.pid \in Pid \ {0} /\ processes[job.pid].state = "P_FREE"
    <2>1. job.pid \in Pid \ {0}
        BY <1>1, LayoutTypes, SizeAssumption, Parts DEF JobOwner, TypeOK
    <2>2. job.pid >= job.pid
        BY <2>1, SizeAssumption DEF Pid
    <2>. QED  BY <1>1, <2>1, <2>2 DEF JobOK
<1>3. FreshTable(pageinfo, mem, job.pid, root)
    BY <1>1, PagetableAllocFresh
<1>. HIDE DEF root
<1>4. /\ pageinfo' = root.pageinfo /\ mem' = root.mem /\ processes' = processes
      /\ IF root.pn = NULL THEN kpc' = "panic"
         ELSE kpc' = "setup_copy" /\ job' = [job EXCEPT !.pt = root.pn, !.va = 0]
    BY DEF ProcessSetup, Panic, root
<1>5. CASE root.pn = NULL
    BY <1>4, <1>5, StoppedForest
<1>6. CASE root.pn # NULL
    <2>1. kpc' = "setup_copy" /\ job'.pt = root.pn /\ job'.pid = job.pid /\ job'.va = 0
        BY <1>1, <1>4, <1>6 DEF TypeOK
    <2>2. PICK n \in PN : n = root.pn /\ pageinfo[n].refcount = 0 /\ n # NULL
        BY <1>3, <1>6 DEF FreshTable
    <2>3. pageinfo' = Assign(pageinfo, n, job.pid) /\ mem' = [mem EXCEPT ![n] = ZeroPage]
        BY <1>3, <1>4, <1>6, <2>2 DEF FreshTable
    <2>4. PICK lev \in [PN -> Level], path \in [PN -> Path] :
            Forest(lev, path, mem, pageinfo) /\ RootsUsed(lev, pageinfo, processes, kpc, job)
        BY <1>1 DEF CountInv, ForestInv
    <2>5. PICK l \in [PN -> Level] : l = [lev EXCEPT ![n] = 0]
        <3>1. 0 \in Level
            BY DEF Level
        <3>2. [lev EXCEPT ![n] = 0] \in [PN -> Level]
            BY <3>1
        <3>. QED  BY <3>2
    <2>6. NewTree(job.pid, n, lev, path, pageinfo, [lev EXCEPT ![n] = 0],
                  Assign(pageinfo, n, job.pid), [mem EXCEPT ![n] = ZeroPage])
        BY <1>1, <1>2, <2>2, <2>4, ForestPlant
    <2>7. NewTree(job.pid, n, lev, path, pageinfo, l, pageinfo', mem')
        BY <2>3, <2>5, <2>6, Zenon
    <2>8. RootsUsed(l, pageinfo', processes', kpc', job')
        <3>1. ASSUME NEW q \in Pid, NEW pt \in PN \ {NULL}
              PROVE  UsesRoot(processes', kpc', job', q, pt)
                        <=> UsesRoot(processes, kpc, job, q, pt) \/ (pt = n /\ q = job.pid)
            BY <1>1, <1>4, <2>1, <2>2 DEF UsesRoot, Building
        <3>. QED  BY <2>4, <2>7, <3>1 DEF RootsUsed, NewTree
    <2>9. ForestInv'
        BY <2>7, <2>8 DEF ForestInv, NewTree
    <2>10. UnmappedInv'
        BY <2>1, <2>2, <2>7 DEF UnmappedInv, NewTree
    <2>. QED  BY <2>9, <2>10 DEF CountInv
<1>. QED  BY <1>5, <1>6

\* copy_pagetable maps addresses it has not mapped before.
LEMMA CopyMappingCounts == OwnershipInv /\ IsolationInv /\ CountInv /\ CopyMapping => CountInv'
<1>. SUFFICES ASSUME OwnershipInv, IsolationInv, CountInv, CopyMapping PROVE CountInv'
    OBVIOUS
<1>. DEFINE mapping == virtual_memory_lookup(mem, CopySource, job.va)
            map == virtual_memory_map(pageinfo, mem, job.pt, job.va, mapping.pn,
                                      mapping.perm, pagetable_owner, TRUE)
<1>1. /\ pageinfo \in [PN -> PageInfo] /\ mem \in [PN -> Page]
      /\ processes \in [Pid -> Processes]
      /\ KernelIntact(mem, pageinfo) /\ JobOK /\ CurrentOK /\ TypeOK
      /\ kpc \in {"setup_copy", "fork_copy"} /\ job.va < PROC_START
    BY Parts DEF CopyMapping
<1>2. PICK lev \in [PN -> Level], path \in [PN -> Path] :
        Forest(lev, path, mem, pageinfo) /\ RootsUsed(lev, pageinfo, processes, kpc, job)
    BY <1>1 DEF CountInv, ForestInv
<1>3. job.pid \in Pid \ {0} /\ job.pt \in PN /\ pagetable_owner = job.pid
    BY <1>1, JobFacts DEF Building
<1>4. job.pt # NULL
    <2>1. \E l, q : Root(l, pageinfo, job.pt, job.pid)
        BY <1>1, Parts DEF PlacesInv, JobRoot, Building
    <2>. QED  BY <1>1, <1>3, <2>1, RootNotNull
<1>5. Root(lev, pageinfo, job.pt, job.pid) /\ Placed(lev, path, mem, pageinfo)
    BY <1>1, <1>2, <1>3, <1>4 DEF RootsUsed, UsesRoot, Building, Forest
<1>6. job.va \in VA /\ job.va \in Nat
    BY <1>1, LayoutTypes, SizeAssumption DEF TypeOK, VA
<1>7. CopySource \in PN
    BY <1>1, LayoutTypes DEF CopySource, TypeOK, Processes
<1>8. mapping.perm \in SUBSET Flags /\ (mapping.perm # {} => mapping.pn \in PN)
    BY <1>1, <1>6, <1>7, LookupType
<1>9. mapping.perm # {} => PTE_P \in mapping.perm
    BY LookupReads
<1>10. PTE_U \in mapping.perm => mapping.pn = CONSOLE
    <2>1. CASE kpc = "setup_copy"
        <3>1. mapping = [pn |-> job.va, perm |-> KernelPerm(job.va)]
            BY <1>1, <1>6, <2>1, LookupKernel DEF CopySource
        <3>. QED  BY <1>1, <3>1 DEF KernelPerm, PTE_P, PTE_W, PTE_U
    <2>2. CASE kpc = "fork_copy"
        <3>1. /\ CopySource = processes[current].pagetable /\ processes[current].state # "P_FREE"
              /\ current \in Pid /\ CopySource # NULL
            BY <1>1, <2>2 DEF CopySource, CurrentOK, HasTable
        <3>2. lev[CopySource] = 0
            BY <1>2, <1>7, <3>1 DEF RootsUsed, UsesRoot, Root
        <3>. QED  BY <1>1, <1>5, <1>6, <1>7, <3>2, LookupPlaced
    <2>. QED  BY <1>1, <2>1, <2>2
<1>. HIDE DEF mapping
<1>11. virtual_memory_lookup(mem, job.pt, job.va) = NoMapping
    BY <1>1, <1>6 DEF CountInv, UnmappedInv
<1>12. mapping.perm # {} =>
         MapBuilds(job.pid, lev, path, pageinfo, mem, job.pt, job.va, mapping.pn, mapping.perm, map)
    <2>1. MayMap(job.pid, lev, pageinfo, job.va, mapping.pn, mapping.perm)
        BY <1>1, <1>10 DEF MayMap
    <2>. QED  BY <1>1, <1>3, <1>5, <1>6, <1>8, <1>9, <2>1, MapPlaced
<1>. HIDE DEF map
<1>13. /\ UNCHANGED <<processes, current, trap>>
       /\ \/ UNCHANGED <<pageinfo, mem>> /\ kpc' = kpc /\ job' = [job EXCEPT !.va = job.va + 1]
          \/ /\ mapping.perm # {} /\ pageinfo' = map.pageinfo /\ mem' = map.mem
             /\ map.res = "ok" /\ kpc' = kpc /\ job' = [job EXCEPT !.va = job.va + 1]
          \/ kpc' = "panic"
    BY DEF CopyMapping, Panic, NextVA, mapping, map
<1>14. CASE kpc' = "panic"
    BY <1>14, StoppedForest
<1>15. ASSUME kpc' = kpc, job' = [job EXCEPT !.va = job.va + 1],
              \A v \in VA : v > job.va => virtual_memory_lookup(mem', job.pt, v) = NoMapping,
              ForestInv'
       PROVE  CountInv'
    <2>1. job'.pt = job.pt /\ job'.pid = job.pid /\ job'.va = job.va + 1
        BY <1>1, <1>15 DEF TypeOK
    <2>2. \A v \in VA : v >= job.va + 1 => v > job.va
        BY <1>6, SizeAssumption DEF VA
    <2>3. UnmappedInv'
        BY <1>1, <1>13, <1>15, <2>1, <2>2 DEF UnmappedInv, CountInv
    <2>. QED  BY <1>15, <2>3 DEF CountInv
<1>16. \A v \in VA : v > job.va => v >= job.va /\ v # job.va
    BY <1>6, SizeAssumption DEF VA
<1>17. ASSUME job' = [job EXCEPT !.va = job.va + 1], kpc' = kpc,
              NEW q \in Pid, NEW pt \in PN \ {NULL}
       PROVE  UsesRoot(processes', kpc', job', q, pt) <=> UsesRoot(processes, kpc, job, q, pt)
    <2>1. job'.pt = job.pt /\ job'.pid = job.pid
        BY <1>1, <1>17 DEF TypeOK
    <2>. QED  BY <1>13, <1>17, <2>1 DEF UsesRoot
<1>18. CASE UNCHANGED <<pageinfo, mem>> /\ kpc' = kpc /\ job' = [job EXCEPT !.va = job.va + 1]
    <2>1. ForestInv'
        BY <1>1, <1>17, <1>18, ForestQuiet DEF CountInv
    <2>2. \A v \in VA : v > job.va => virtual_memory_lookup(mem', job.pt, v) = NoMapping
        BY <1>1, <1>16, <1>18 DEF CountInv, UnmappedInv
    <2>. QED  BY <1>15, <1>18, <2>1, <2>2
<1>19. CASE /\ mapping.perm # {} /\ pageinfo' = map.pageinfo /\ mem' = map.mem
            /\ map.res = "ok" /\ kpc' = kpc /\ job' = [job EXCEPT !.va = job.va + 1]
    <2>1. PICK l \in [PN -> Level], q \in [PN -> Path] :
            ForestGrows(job.pid, lev, path, pageinfo, mem, l, q, pageinfo', mem')
        <3>1. mapping.pn \in PN
            BY <1>8, <1>19
        <3>2. MapBuilds(job.pid, lev, path, pageinfo, mem, job.pt, job.va, mapping.pn, mapping.perm, map)
            BY <1>12, <1>19
        <3>3. \E l \in [PN -> Level], q \in [PN -> Path] :
                ForestGrows(job.pid, lev, path, pageinfo, mem, l, q, map.pageinfo, map.mem)
            BY <1>1, <1>2, <1>3, <1>6, <1>10, <1>11, <1>19, <3>1, <3>2, ForestMapLow
        <3>. QED  BY <1>19, <3>3
    <2>2. ForestInv'
        BY <1>2, <1>17, <1>19, <2>1, ForestStep
    <2>3. ASSUME NEW v \in VA, v > job.va PROVE virtual_memory_lookup(mem', job.pt, v) = NoMapping
        <3>1. virtual_memory_lookup(mem', job.pt, v) = virtual_memory_lookup(mem, job.pt, v)
            BY <1>3, <1>5, <1>12, <1>16, <1>19, <2>3 DEF MapBuilds, MapSees, Root
        <3>. QED  BY <1>1, <1>16, <2>3, <3>1 DEF CountInv, UnmappedInv
    <2>. QED  BY <1>15, <1>19, <2>2, <2>3
<1>. QED  BY <1>13, <1>14, <1>18, <1>19

\* copy_pagetable's tree becomes the page table of the new process.
LEMMA CopyReturnCounts ==
    OwnershipInv /\ IsolationInv /\ BootMemory /\ CountInv /\ CopyReturn => CountInv'
<1>. SUFFICES ASSUME OwnershipInv, IsolationInv, BootMemory, CountInv, CopyReturn PROVE CountInv'
    OBVIOUS
<1>1. /\ processes \in [Pid -> Processes] /\ KernelIntact(mem, pageinfo) /\ JobOK
      /\ kpc \in {"setup_copy", "fork_copy"} /\ job.va = PROC_START /\ TypeOK
    BY Parts DEF CopyReturn
<1>2. job.pid \in Pid \ {0} /\ job.pt \in PN
    BY <1>1, JobFacts DEF Building
<1>3. /\ processes' = [processes EXCEPT ![job.pid].pagetable = job.pt]
      /\ \/ kpc = "setup_copy" /\ kpc' = "load"
         \/ kpc = "fork_copy" /\ kpc' = "fork_memory"
      /\ UNCHANGED <<pageinfo, mem, current, job, trap>>
    BY <1>1 DEF CopyReturn
<1>4. \A p \in Pid : /\ processes'[p].state = processes[p].state
                     /\ p # job.pid => processes'[p] = processes[p]
                     /\ p = job.pid => processes'[p].pagetable = job.pt
    BY <1>1, <1>2, <1>3 DEF Processes
<1>5. kpc = "setup_copy" => processes[job.pid].state = "P_FREE"
    <2>1. job.pid >= job.pid
        BY <1>2, SizeAssumption DEF Pid
    <2>. QED  BY <1>1, <1>2, <2>1 DEF JobOK
<1>6. kpc = "fork_copy" => processes[job.pid].state # "P_FREE" /\ processes[job.pid].pagetable = NULL
    BY DEF CountInv, UnmappedInv
<1>7. ASSUME NEW q \in Pid, NEW pt \in PN \ {NULL}
      PROVE  UsesRoot(processes', kpc', job', q, pt) <=> UsesRoot(processes, kpc, job, q, pt)
    BY <1>1, <1>3, <1>4, <1>5, <1>6 DEF UsesRoot, Building
<1>8. ForestInv'
    BY <1>1, <1>3, <1>7, ForestQuiet DEF CountInv
<1>9. UnmappedInv'
    BY <1>1, <1>2, <1>3, <1>4, <1>6 DEF CountInv, UnmappedInv
<1>. QED  BY <1>8, <1>9 DEF CountInv

\* program_load_segment maps the segments of a program, which are all different.
LEMMA ProgramLoadSegmentCounts ==
    OwnershipInv /\ IsolationInv /\ BootMemory /\ CountInv /\ ProgramLoadSegment => CountInv'
<1>. SUFFICES ASSUME OwnershipInv, IsolationInv, BootMemory, CountInv, ProgramLoadSegment
              PROVE  CountInv'
    OBVIOUS
<1>. DEFINE addr == Segments[Loading][job.seg]
            map == virtual_memory_map(Assign(pageinfo, addr, job.pid), mem, job.pt, addr,
                                      addr, RWU, pagetable_owner, FALSE)
            filled == virtual_memory_lookup(map.mem, job.pt, addr).pn
<1>1. /\ pageinfo \in [PN -> PageInfo] /\ mem \in [PN -> Page]
      /\ KernelIntact(mem, pageinfo) /\ JobOK
      /\ kpc = "load" /\ TypeOK /\ job.seg =< Len(Segments[Loading])
    BY Parts DEF ProgramLoadSegment
<1>2. PICK lev \in [PN -> Level], path \in [PN -> Path] :
        Forest(lev, path, mem, pageinfo) /\ RootsUsed(lev, pageinfo, processes, kpc, job)
    BY <1>1 DEF CountInv, ForestInv
<1>3. job.pid \in Pid \ {0} /\ job.pt \in PN /\ pagetable_owner = job.pid
    BY <1>1, JobFacts DEF Building
<1>4. job.pt # NULL
    <2>1. \E l, q : Root(l, pageinfo, job.pt, job.pid)
        BY <1>1, Parts DEF PlacesInv, JobRoot, Building
    <2>. QED  BY <1>1, <1>3, <2>1, RootNotNull
<1>5. Root(lev, pageinfo, job.pt, job.pid) /\ Placed(lev, path, mem, pageinfo)
    BY <1>1, <1>2, <1>3, <1>4 DEF RootsUsed, UsesRoot, Building, Forest
<1>6. CASE kpc' = "panic"
    BY <1>6, StoppedForest
<1>7. CASE kpc' # "panic"
    <2>0. CanAssign(pageinfo, addr)
        BY <1>7 DEF ProgramLoadSegment, Panic
    <2>1. addr \in PN /\ pageinfo[addr].refcount = 0
        BY <2>0 DEF CanAssign
    <2>2. Loading \in Program /\ Image[Loading] \in Page /\ job.seg \in 1 .. Len(Segments[Loading])
        BY <1>1, LoadingType, ProgramAssumption DEF TypeOK, BootMemory
    <2>3. addr \in VA /\ addr >= PROC_START
        <3>1. addr \in UserVA
            BY <1>1, <2>2, LoadingType
        <3>. QED  BY <1>1, <3>1, LoadingType, LayoutTypes DEF UserVA
    <2>4. RWU \in SUBSET Flags /\ PTE_P \in RWU
        BY DEF RWU, Flags
    <2>5. virtual_memory_lookup(mem, job.pt, addr) = NoMapping
        <3>1. ASSUME NEW k \in 1 .. job.seg - 1 PROVE addr # Segments[Loading][k]
            <4>1. DOMAIN Segments[Loading] = 1 .. Len(Segments[Loading])
                BY <2>2, ProgramAssumption
            <4>2. k \in DOMAIN Segments[Loading] /\ job.seg \in DOMAIN Segments[Loading] /\ k # job.seg
                BY <2>2, <4>1, ProgramAssumption
            <4>. QED  BY <2>2, <4>2, LinkAssumption
        <3>. QED  BY <1>1, <2>3, <3>1 DEF CountInv, UnmappedInv
    <2>6. /\ UNCHANGED <<processes, trap, current, command>>
          /\ pageinfo' = map.pageinfo
          /\ mem' = [map.mem EXCEPT ![filled] = Image[Loading]] /\ map.res = "ok"
          /\ job' = [job EXCEPT !.seg = job.seg + 1]
          /\ kpc' = kpc
        BY <1>7, <2>0 DEF ProgramLoadSegment, Panic
    <2>. HIDE DEF addr
    <2>7. MappedFresh(job.pid, lev, path, pageinfo, mem, map, job.pt, addr, addr, RWU)
        BY <1>1, <1>3, <1>5, <2>1, <2>3, <2>4, GivenAndMapped
    <2>. HIDE DEF map
    <2>8. filled = addr
        BY <2>6, <2>7 DEF MappedFresh
    <2>. HIDE DEF filled
    <2>9. \A r \in PN : Root(lev, pageinfo, r, job.pid) => r = job.pt
        BY <1>1, <1>2, <1>3, <1>4, <1>5, OneRoot, RootNotNull DEF CountInv
    <2>10. PICK l \in [PN -> Level], q \in [PN -> Path] :
            /\ ForestGrows(job.pid, lev, path, pageinfo, mem, l, q, map.pageinfo, map.mem)
            /\ l[addr] = UserLevel
        BY <1>1, <1>2, <1>3, <2>1, <2>3, <2>5, <2>6, <2>7, <2>9, ForestMapFresh
    <2>11. /\ map.mem \in [PN -> Page] /\ map.pageinfo \in [PN -> PageInfo]
           /\ Forest(l, q, map.mem, map.pageinfo)
        BY <2>10 DEF ForestGrows, Built
    <2>12. mem' \in [PN -> Page] /\ \A u \in PN : u # addr => mem'[u] = map.mem[u]
        BY <2>2, <2>6, <2>8, <2>11
    <2>13. l[addr] \notin 0 .. 3
        BY <2>10 DEF UserLevel
    <2>14. Forest(l, q, mem', pageinfo')
        BY <2>1, <2>6, <2>11, <2>12, <2>13, StoreForest
    <2>15. ForestGrows(job.pid, lev, path, pageinfo, mem, l, q, pageinfo', mem')
        BY <2>1, <2>6, <2>10, <2>11, <2>12, <2>14 DEF ForestGrows, Built, Forest
    <2>16. job'.pt = job.pt /\ job'.pid = job.pid /\ job'.seg = job.seg + 1
        BY <1>1, <2>6 DEF TypeOK
    <2>17. ASSUME NEW p \in Pid, NEW pt \in PN \ {NULL}
           PROVE  UsesRoot(processes', kpc', job', p, pt) <=> UsesRoot(processes, kpc, job, p, pt)
        BY <2>6, <2>16 DEF UsesRoot
    <2>18. ForestInv'
        BY <1>2, <2>15, <2>17, ForestStep
    <2>19. ASSUME NEW v \in VA, v >= PROC_START
           PROVE  \/ virtual_memory_lookup(mem', job.pt, v) = NoMapping
                  \/ \E k \in 1 .. job.seg : v = Segments[Loading][k]
        <3>1. CASE v = addr
            BY <1>1, <2>2, <3>1 DEF addr, TypeOK
        <3>2. CASE v # addr
            <4>1. SeesSame(l, map.mem, mem')
                <5>1. \A u \in PN : l[u] \in 0 .. 3 => mem'[u] = map.mem[u]
                    BY <2>12, <2>13
                <5>. QED  BY <2>11, <5>1, SameTables DEF Forest
            <4>2. l[job.pt] = 0
                BY <1>3, <1>5, <2>10 DEF ForestGrows, Built, Root, Owns
            <4>3. virtual_memory_lookup(mem', job.pt, v) = virtual_memory_lookup(map.mem, job.pt, v)
                BY <1>3, <4>1, <4>2 DEF SeesSame
            <4>4. virtual_memory_lookup(map.mem, job.pt, v) = virtual_memory_lookup(mem, job.pt, v)
                BY <1>3, <1>5, <2>7, <3>2 DEF MappedFresh, MapSees, Root
            <4>5. \A k \in 1 .. job.seg - 1 : k \in 1 .. job.seg
                BY <2>2
            <4>. QED  BY <1>1, <2>19, <4>3, <4>4, <4>5 DEF CountInv, UnmappedInv
        <3>. QED  BY <3>1, <3>2
    <2>20. Loading' = Loading /\ job'.seg - 1 = job.seg
        BY <1>1, <2>6, <2>16 DEF Loading, TypeOK
    <2>21. UnmappedInv'
        BY <1>1, <2>6, <2>16, <2>19, <2>20 DEF UnmappedInv
    <2>. QED  BY <2>18, <2>21 DEF CountInv
<1>. QED  BY <1>6, <1>7

\* process_setup maps the stack where no segment is.
LEMMA SetupStackCounts ==
    OwnershipInv /\ IsolationInv /\ BootMemory /\ CountInv /\ MemoryForTables /\ SetupStack => CountInv'
<1>. SUFFICES ASSUME OwnershipInv, IsolationInv, BootMemory, CountInv, MemoryForTables, SetupStack
              PROVE  CountInv'
    OBVIOUS
<1>. DEFINE n == FreeAddr(pageinfo)
            va == MEMSIZE_VIRTUAL - 1
            map == virtual_memory_map(Assign(pageinfo, n, job.pid), mem, job.pt, va,
                                      n, RWU, job.pid, TRUE)
            ready == [state |-> "P_RUNNABLE", pagetable |-> processes[job.pid].pagetable,
                      rip |-> Segments[Loading][1], rax |-> 0]
            procs == [processes EXCEPT ![job.pid] = ready]
<1>1. /\ pageinfo \in [PN -> PageInfo] /\ mem \in [PN -> Page]
      /\ processes \in [Pid -> Processes] /\ KernelIntact(mem, pageinfo) /\ JobOK
      /\ kpc = "load" /\ TypeOK /\ AtStack
    BY Parts DEF SetupStack, AtStack
<1>2. PICK lev \in [PN -> Level], path \in [PN -> Path] :
        Forest(lev, path, mem, pageinfo) /\ RootsUsed(lev, pageinfo, processes, kpc, job)
    BY <1>1 DEF CountInv, ForestInv
<1>3. job.pid \in Pid \ {0} /\ job.pt \in PN /\ pagetable_owner = job.pid
    BY <1>1, JobFacts DEF Building
<1>4. job.pt # NULL
    <2>1. \E l, q : Root(l, pageinfo, job.pt, job.pid)
        BY <1>1, Parts DEF PlacesInv, JobRoot, Building
    <2>. QED  BY <1>1, <1>3, <2>1, RootNotNull
<1>5. Root(lev, pageinfo, job.pt, job.pid) /\ Placed(lev, path, mem, pageinfo)
    BY <1>1, <1>2, <1>3, <1>4 DEF RootsUsed, UsesRoot, Building, Forest
<1>6. n # NULL /\ n \in PN /\ pageinfo[n].refcount = 0
    BY <1>1, StackPageFound, FreeAddrType DEF IsFree
<1>7. va \in VA /\ va >= PROC_START /\ RWU \in SUBSET Flags /\ PTE_P \in RWU
    BY LayoutTypes, LayoutAssumption, SizeAssumption DEF RWU, Flags, VA
<1>8. get_free_addr(pageinfo, job.pid).pn = n
      /\ get_free_addr(pageinfo, job.pid).pageinfo = Assign(pageinfo, n, job.pid)
    BY <1>6 DEF get_free_addr, Give
<1>9. map.res # "fail"
    BY <1>1, <1>6 DEF MemoryForTables, Mappable
<1>10. virtual_memory_lookup(mem, job.pt, va) = NoMapping
    <2>1. ASSUME NEW k \in 1 .. job.seg - 1 PROVE va # Segments[Loading][k]
        <3>1. Loading \in Program /\ job.seg \in 1 .. Len(Segments[Loading]) + 1
            BY <1>1, LoadingType DEF BootMemory
        <3>2. DOMAIN Segments[Loading] = 1 .. Len(Segments[Loading])
            BY <3>1, ProgramAssumption
        <3>3. k \in DOMAIN Segments[Loading]
            BY <3>1, <3>2, ProgramAssumption
        <3>. QED  BY <3>1, <3>3, LinkAssumption
    <2>. QED  BY <1>1, <1>7, <2>1 DEF CountInv, UnmappedInv
<1>11. /\ pageinfo' = map.pageinfo /\ mem' = map.mem
       /\ \/ kpc' = "panic"
          \/ /\ map.res # "assert" /\ processes' = procs
             /\ \/ kpc' = "setup"
                \/ run(procs, map.mem, 1)
    BY <1>3, <1>8 DEF SetupStack, Panic, va
<1>. HIDE DEF n, va
<1>12. MappedFresh(job.pid, lev, path, pageinfo, mem, map, job.pt, va, n, RWU)
    BY <1>1, <1>3, <1>5, <1>6, <1>7, GivenAndMapped
<1>13. map = virtual_memory_map(Assign(pageinfo, n, job.pid), mem, job.pt, va,
                                n, RWU, job.pid, TRUE)
    OBVIOUS
<1>. HIDE DEF map
<1>14. map.res \in {"ok", "fail"}
    <2>1. pageinfo[NULL].refcount # 0
        BY <1>1, LayoutAssumption DEF KernelIntact
    <2>2. MapEnds(Assign(pageinfo, n, job.pid), mem, job.pt, va, TRUE, map)
        BY <1>1, <1>3, <1>5, <1>6, <1>7, <1>13, <2>1, GivenMapEnds
    <2>. QED  BY <2>2 DEF MapEnds
<1>15. CASE kpc' = "panic"
    BY <1>15, StoppedForest
<1>16. CASE kpc' # "panic"
    <2>1. map.res = "ok" /\ processes' = procs /\ kpc' \in {"setup", "user"}
        BY <1>9, <1>11, <1>14, <1>16 DEF run, Panic
    <2>2. \A r \in PN : Root(lev, pageinfo, r, job.pid) => r = job.pt
        BY <1>1, <1>2, <1>3, <1>4, <1>5, OneRoot, RootNotNull DEF CountInv
    <2>3. PICK l \in [PN -> Level], q \in [PN -> Path] :
            ForestGrows(job.pid, lev, path, pageinfo, mem, l, q, pageinfo', mem')
        <3>1. \E l \in [PN -> Level], q \in [PN -> Path] :
                ForestGrows(job.pid, lev, path, pageinfo, mem, l, q, map.pageinfo, map.mem)
            BY <1>1, <1>2, <1>3, <1>6, <1>7, <1>10, <1>12, <2>1, <2>2, ForestMapFresh
        <3>. QED  BY <1>11, <3>1
    <2>4. \A p \in Pid : /\ p # job.pid => procs[p] = processes[p]
                         /\ p = job.pid => procs[p].state = "P_RUNNABLE" /\ procs[p].pagetable = job.pt
        BY <1>1, <1>3 DEF JobOK
    <2>. HIDE DEF procs
    <2>5. processes[job.pid].state = "P_FREE"
        <3>1. job.pid >= job.pid
            BY <1>3, SizeAssumption DEF Pid
        <3>. QED  BY <1>1, <1>3, <3>1 DEF JobOK
    <2>6. ASSUME NEW p \in Pid, NEW pt \in PN \ {NULL}
          PROVE  UsesRoot(processes', kpc', job', p, pt) <=> UsesRoot(processes, kpc, job, p, pt)
        BY <1>1, <2>1, <2>4, <2>5 DEF UsesRoot, Building
    <2>7. ForestInv'
        BY <1>2, <2>3, <2>6, ForestStep
    <2>8. UnmappedInv'
        BY <2>1 DEF UnmappedInv
    <2>. QED  BY <2>7, <2>8 DEF CountInv
<1>. QED  BY <1>15, <1>16

\* A store of a user changes no reference.
LEMMA UserStoreCounts ==
    ASSUME OwnershipInv, IsolationInv, CountInv, NEW va \in TouchVAs, NEW i \in TouchIndexes,
           NEW w \in UserWords, UserStore(va, i, w)
    PROVE  CountInv'
<1>. DEFINE n == virtual_memory_lookup(mem, cr3, va).pn
<1>1. /\ pageinfo \in [PN -> PageInfo] /\ mem \in [PN -> Page]
      /\ KernelIntact(mem, pageinfo) /\ CurrentOK /\ kpc = "user"
      /\ PTE_U \in virtual_memory_lookup(mem, cr3, va).perm
    BY Parts DEF UserStore, Executing, UserPerm
<1>2. PICK lev \in [PN -> Level], path \in [PN -> Path] :
        Forest(lev, path, mem, pageinfo) /\ RootsUsed(lev, pageinfo, processes, kpc, job)
    BY <1>1 DEF CountInv, ForestInv
<1>3. cr3 \in PN /\ lev[cr3] = 0 /\ Placed(lev, path, mem, pageinfo)
    <2>1. /\ cr3 = processes[current].pagetable /\ cr3 \in PN \ {NULL} /\ current \in Pid
          /\ processes[current].state # "P_FREE"
        BY <1>1, Parts DEF CurrentOK, HasTable, TypeOK
    <2>. QED  BY <1>2, <2>1 DEF RootsUsed, UsesRoot, Root, Forest
<1>4. va \in VA
    BY UserAssumption
<1>5. n \in PN /\ (n = CONSOLE \/ lev[n] = UserLevel)
    BY <1>1, <1>3, <1>4, LookupPlaced
<1>6. \A u \in PN : u # n => mem'[u] = mem[u]
    BY <1>1 DEF UserStore
<1>7. UNCHANGED <<pageinfo, processes, current, kpc, job, trap>>
    BY DEF UserStore
<1>. HIDE DEF n
<1>8. lev[n] \notin 0 .. 3
    <2>1. CASE n = CONSOLE
        <3>1. lev[n] = NoLevel
            BY <1>1, <1>3, <2>1, LevelsApart, LayoutAssumption DEF Placed
        <3>. QED  BY <3>1 DEF NoLevel
    <2>2. CASE lev[n] = UserLevel
        BY <2>2 DEF UserLevel
    <2>. QED  BY <1>5, <2>1, <2>2
<1>9. Forest(lev, path, mem', pageinfo')
    BY <1>1, <1>2, <1>5, <1>6, <1>7, <1>8, StoreForest
<1>10. ForestInv'
    BY <1>2, <1>7, <1>9 DEF ForestInv, RootsUsed
<1>11. UnmappedInv'
    BY <1>1, <1>7 DEF UnmappedInv
<1>. QED  BY <1>10, <1>11 DEF CountInv

\* An address without permissions is not mapped.
LEMMA NothingMapped ==
    ASSUME NEW m, NEW pt, NEW va, virtual_memory_lookup(m, pt, va).perm = {}
    PROVE  virtual_memory_lookup(m, pt, va) = NoMapping
<1>. DEFINE e3 == Entry3(m, pt, va)
            perm == Entry0(m, pt, va).flags \cap Entry1(m, pt, va).flags
                    \cap Entry2(m, pt, va).flags \cap e3.flags
<1>1. virtual_memory_lookup(m, pt, va) =
        IF PTE_P \in perm THEN [pn |-> e3.pn, perm |-> perm] ELSE [pn |-> -1, perm |-> {}]
    BY LookupReads
<1>. HIDE DEF perm, e3
<1>. QED  BY <1>1 DEF NoMapping

\* Neither does entering the kernel.
LEMMA ExceptionCounts ==
    ASSUME OwnershipInv, IsolationInv, CountInv, kpc = "user", NEW int, NEW rdi, NEW rax,
           int = "INT_SYS_PAGE_ALLOC" => UserPerm(rdi) = {}, exception(int, rdi, rax)
    PROVE  CountInv'
<1>1. /\ processes \in [Pid -> Processes] /\ current \in Pid /\ CurrentOK
    BY Parts
<1>2. /\ UNCHANGED <<pageinfo, mem, current, job>>
      /\ processes' = [processes EXCEPT ![current].rax = rax]
      /\ \/ kpc' = "dispatch" /\ trap' = [int |-> int, rdi |-> rdi]
         \/ kpc' = "panic"
    BY DEF exception
<1>3. \A p \in Pid : /\ processes'[p].state = processes[p].state
                     /\ processes'[p].pagetable = processes[p].pagetable
    BY <1>1, <1>2 DEF Processes
<1>4. CASE kpc' = "panic"
    BY <1>4, StoppedForest
<1>5. CASE kpc' = "dispatch" /\ trap' = [int |-> int, rdi |-> rdi]
    <2>1. ASSUME NEW q \in Pid, NEW pt \in PN \ {NULL}
          PROVE  UsesRoot(processes', kpc', job', q, pt) <=> UsesRoot(processes, kpc, job, q, pt)
        BY <1>3, <1>5 DEF UsesRoot, Building
    <2>2. ForestInv'
        <3>1. ForestInv /\ kpc \notin {"panic", "off"} /\ UNCHANGED <<mem, pageinfo>>
            BY <1>2 DEF CountInv
        <3>. QED  BY <2>1, <3>1, ForestQuiet
    <2>3. ASSUME int = "INT_SYS_PAGE_ALLOC"
          PROVE  virtual_memory_lookup(mem, processes[current].pagetable, rdi) = NoMapping
        <3>1. virtual_memory_lookup(mem, processes[current].pagetable, rdi).perm = {}
            BY <1>1, <2>3 DEF CurrentOK, UserPerm
        <3>. QED  BY <3>1, NothingMapped
    <2>4. UnmappedInv'
        BY <1>1, <1>2, <1>3, <1>5, <2>3 DEF UnmappedInv
    <2>. QED  BY <2>2, <2>4 DEF CountInv
<1>. QED  BY <1>2, <1>4, <1>5

\* Whatever user programs do, if they ask sys_page_alloc only for pages that
\* they do not have.
LEMMA UserCounts ==
    ASSUME RemapVAs = {}, OwnershipInv, IsolationInv, CountInv, User \/ Timer
    PROVE  CountInv'
<1>1. CASE \E va \in TouchVAs, i \in TouchIndexes, w \in UserWords : UserStore(va, i, w)
    BY <1>1, UserStoreCounts
<1>2. CASE \E int \in Syscalls, rax \in UserRax : Syscall(int, rax)
    BY <1>2, ExceptionCounts DEF Syscall, Executing
<1>3. CASE \E addr \in AllocVAs, rax \in UserRax : SyscallPageAlloc(addr, rax)
    BY <1>3, ExceptionCounts DEF SyscallPageAlloc, Executing
<1>4. CASE \E va \in TouchVAs, rax \in UserRax : PageFault(va, rax)
    BY <1>4, ExceptionCounts DEF PageFault
<1>5. CASE Timer
    BY <1>5, ExceptionCounts DEF Timer, TimerInterrupt
<1>. QED  BY <1>1, <1>2, <1>3, <1>4, <1>5 DEF User

-----------------------------------------------------------------------------
(* References are counted by the handlers *)

\* A handler that ends leaves the same page tables in use.
LEMMA LeavingRoots ==
    ASSUME IsolationInv, UnmappedInv, job.pid \in Pid, kpc \in {"dispatch", "fork_memory"},
           kpc' \in {"user", "panic", "idle"},
           \A p \in Pid : /\ processes'[p].pagetable = processes[p].pagetable
                          /\ processes'[p].state # "P_FREE" <=> processes[p].state # "P_FREE"
    PROVE  \A q \in Pid, pt \in PN \ {NULL} :
              UsesRoot(processes', kpc', job', q, pt) <=> UsesRoot(processes, kpc, job, q, pt)
<1>1. kpc = "fork_memory" =>
        processes[job.pid].state # "P_FREE" /\ processes[job.pid].pagetable = job.pt
    BY DEF IsolationInv, JobOK, UnmappedInv
<1>2. kpc' \notin Building /\ (kpc \in Building => kpc = "fork_memory")
    BY DEF Building
<1>. QED  BY <1>1, <1>2 DEF UsesRoot

\* One that changed no memory.
LEMMA QuietCounts ==
    ASSUME OwnershipInv, IsolationInv, CountInv, kpc \in {"dispatch", "fork_memory"},
           kpc' \in {"user", "panic", "idle"}, UNCHANGED <<mem, pageinfo>>,
           \A p \in Pid : /\ processes'[p].pagetable = processes[p].pagetable
                          /\ processes'[p].state # "P_FREE" <=> processes[p].state # "P_FREE"
    PROVE  CountInv'
<1>1. job.pid \in Pid /\ ForestInv /\ UnmappedInv /\ kpc \notin {"panic", "off"}
    BY Parts DEF TypeOK, CountInv
<1>2. \A q \in Pid, pt \in PN \ {NULL} :
         UsesRoot(processes', kpc', job', q, pt) <=> UsesRoot(processes, kpc, job, q, pt)
    BY <1>1, LeavingRoots
<1>3. ForestInv'
    BY <1>1, <1>2, ForestQuiet
<1>4. UnmappedInv'
    BY DEF UnmappedInv
<1>. QED  BY <1>3, <1>4 DEF CountInv

\* The handlers that allocate nothing.
LEMMA SimpleHandlerCounts ==
    OwnershipInv /\ IsolationInv /\ CountInv /\
        (HandlePanic \/ HandleGetpid \/ HandleYieldOrTimer \/ HandlePageFault
         \/ HandlePageAllocOOM \/ ForkNoSlot \/ ForkEnd) => CountInv'
<1>. SUFFICES ASSUME OwnershipInv, IsolationInv, CountInv,
                     HandlePanic \/ HandleGetpid \/ HandleYieldOrTimer \/ HandlePageFault
                     \/ HandlePageAllocOOM \/ ForkNoSlot \/ ForkEnd
              PROVE  CountInv'
    OBVIOUS
<1>1. kpc \in {"dispatch", "fork_memory"}
    BY DEF HandlePanic, HandleGetpid, HandleYieldOrTimer, HandlePageFault,
           HandlePageAllocOOM, ForkNoSlot, ForkEnd
<1>2. processes \in [Pid -> Processes] /\ current \in Pid /\ job.pid \in Pid
    BY <1>1, Parts DEF TypeOK
<1>3. ASSUME NEW procs, Return(procs, mem, pageinfo),
             \A q \in Pid : /\ procs[q].pagetable = processes[q].pagetable
                            /\ procs[q].state # "P_FREE" <=> processes[q].state # "P_FREE"
      PROVE  CountInv'
    <2>1. kpc' \in {"user", "panic", "idle"}
        BY <1>3, ReturnLocation
    <2>2. processes' = procs /\ UNCHANGED <<mem, pageinfo>>
        BY <1>3 DEF Return
    <2>. QED  BY <1>1, <1>3, <2>1, <2>2, QuietCounts
<1>4. ASSUME NEW p \in Pid, NEW rax, Return(SetRax(processes, p, rax), mem, pageinfo)
      PROVE  CountInv'
    <2>1. \A q \in Pid : /\ SetRax(processes, p, rax)[q].pagetable = processes[q].pagetable
                         /\ SetRax(processes, p, rax)[q].state = processes[q].state
        BY <1>2, SetRaxKeeps
    <2>. QED  BY <1>3, <1>4, <2>1
<1>5. CASE HandlePanic
    BY <1>5, StoppedForest DEF HandlePanic, Panic
<1>6. CASE HandleYieldOrTimer
    <2>1. UNCHANGED <<mem, pageinfo>> /\ UNCHANGED processes /\ kpc' \in {"user", "panic", "idle"}
        BY <1>6 DEF HandleYieldOrTimer, schedule, run, Panic
    <2>. QED  BY <1>1, <2>1, QuietCounts
<1>7. CASE HandleGetpid
    BY <1>2, <1>4, <1>7 DEF HandleGetpid
<1>8. CASE HandlePageAllocOOM
    BY <1>2, <1>4, <1>8 DEF HandlePageAllocOOM
<1>9. CASE ForkNoSlot
    BY <1>2, <1>4, <1>9 DEF ForkNoSlot
<1>10. CASE HandlePageFault
    <2>. DEFINE broken == [processes EXCEPT ![current].state = "P_BROKEN"]
    <2>1. \A q \in Pid : /\ broken[q].pagetable = processes[q].pagetable
                         /\ broken[q].state # "P_FREE" <=> processes[q].state # "P_FREE"
        <3>1. processes[current].state # "P_FREE"
            BY <1>10, Parts DEF CurrentOK, HasTable, HandlePageFault
        <3>. QED  BY <1>2, <3>1 DEF Processes
    <2>2. Return(broken, mem, pageinfo)
        BY <1>10 DEF HandlePageFault
    <2>. HIDE DEF broken
    <2>. QED  BY <1>3, <2>1, <2>2
<1>11. CASE ForkEnd
    <2>. DEFINE parent == SetRax(processes, current, job.pid)
                both == SetRax(parent, job.pid, 0)
    <2>1. parent \in [Pid -> Processes]
        <3>1. job.pid \in Int /\ processes[current] \in Processes
            BY <1>2, SizeAssumption DEF Pid
        <3>. QED  BY <1>2, <3>1 DEF SetRax, Processes
    <2>2. \A q \in Pid : /\ parent[q].pagetable = processes[q].pagetable
                         /\ parent[q].state = processes[q].state
        BY <1>2, SetRaxKeeps
    <2>3. Return(both, mem, pageinfo)
        BY <1>11 DEF ForkEnd
    <2>. HIDE DEF parent
    <2>4. \A q \in Pid : /\ both[q].pagetable = processes[q].pagetable
                         /\ both[q].state = processes[q].state
        BY <1>2, <2>1, <2>2, SetRaxKeeps
    <2>. HIDE DEF both
    <2>. QED  BY <1>3, <2>3, <2>4
<1>. QED  BY <1>5, <1>6, <1>7, <1>8, <1>9, <1>10, <1>11

\* sys_page_alloc maps a page that the process does not have.
LEMMA HandlePageAllocCounts ==
    OwnershipInv /\ IsolationInv /\ CountInv /\ MemoryForTables /\ HandlePageAlloc => CountInv'
<1>. SUFFICES ASSUME OwnershipInv, IsolationInv, CountInv, MemoryForTables, HandlePageAlloc
              PROVE  CountInv'
    OBVIOUS
<1>. DEFINE n == FreeAddr(pageinfo)
            pt == processes[current].pagetable
            map == virtual_memory_map(Assign(pageinfo, n, current), mem, pt, trap.rdi,
                                      n, RWU, current, TRUE)
            rax == IF map.res = "ok" THEN 0 ELSE FAILED
            procs == SetRax(processes, current, rax)
<1>1. /\ pageinfo \in [PN -> PageInfo] /\ mem \in [PN -> Page] /\ TypeOK
      /\ processes \in [Pid -> Processes] /\ KernelIntact(mem, pageinfo) /\ CurrentOK
      /\ kpc = "dispatch" /\ trap.int = "INT_SYS_PAGE_ALLOC" /\ n # NULL
    BY Parts DEF HandlePageAlloc
<1>2. PICK lev \in [PN -> Level], path \in [PN -> Path] :
        Forest(lev, path, mem, pageinfo) /\ RootsUsed(lev, pageinfo, processes, kpc, job)
    BY <1>1 DEF CountInv, ForestInv
<1>3. /\ current \in Pid \ {0} /\ pt \in PN \ {NULL} /\ job.pid \in Pid
      /\ Root(lev, pageinfo, pt, current)
    <2>1. /\ current \in Pid \ {0} /\ pt \in PN \ {NULL} /\ job.pid \in Pid
          /\ processes[current].state # "P_FREE"
        BY <1>1, Parts DEF CurrentOK, HasTable, TypeOK, ProcessZeroUnused, Processes
    <2>. QED  BY <1>2, <2>1 DEF RootsUsed, UsesRoot
<1>4. n \in PN /\ pageinfo[n].refcount = 0 /\ pageinfo[NULL].refcount # 0
    BY <1>1, FreeAddrType, LayoutAssumption DEF IsFree, KernelIntact
<1>5. trap.rdi \in VA /\ trap.rdi >= PROC_START /\ RWU \in SUBSET Flags /\ PTE_P \in RWU
    BY <1>1 DEF RWU, Flags, CurrentOK, TypeOK
<1>6. get_free_addr(pageinfo, current).pn = n
      /\ get_free_addr(pageinfo, current).pageinfo = Assign(pageinfo, n, current)
    BY <1>1 DEF get_free_addr, Give
<1>7. map.res # "assert" => Return(procs, map.mem, map.pageinfo)
    BY <1>6 DEF HandlePageAlloc
<1>8. map.res # "fail"
    BY <1>1 DEF MemoryForTables, Mappable
<1>9. virtual_memory_lookup(mem, pt, trap.rdi) = NoMapping
    BY <1>1 DEF CountInv, UnmappedInv
<1>. HIDE DEF n, pt
<1>10. Placed(lev, path, mem, pageinfo)
    BY <1>2 DEF Forest
<1>11. MappedFresh(current, lev, path, pageinfo, mem, map, pt, trap.rdi, n, RWU)
    BY <1>1, <1>3, <1>4, <1>5, <1>10, GivenAndMapped
<1>12. map = virtual_memory_map(Assign(pageinfo, n, current), mem, pt, trap.rdi,
                                n, RWU, current, TRUE)
    OBVIOUS
<1>. HIDE DEF map, rax
<1>13. map.res = "ok"
    <2>1. MapEnds(Assign(pageinfo, n, current), mem, pt, trap.rdi, TRUE, map)
        BY <1>1, <1>3, <1>4, <1>5, <1>10, <1>12, GivenMapEnds
    <2>. QED  BY <1>8, <2>1 DEF MapEnds
<1>14. \A q \in Pid : /\ procs[q].pagetable = processes[q].pagetable
                      /\ procs[q].state = processes[q].state
    BY <1>1, <1>3, SetRaxKeeps
<1>. HIDE DEF procs
<1>15. /\ processes' = procs /\ mem' = map.mem /\ pageinfo' = map.pageinfo
       /\ kpc' \in {"user", "panic", "idle"}
    <2>1. Return(procs, map.mem, map.pageinfo)
        BY <1>7, <1>13
    <2>2. kpc' \in {"user", "panic", "idle"}
        BY <2>1, ReturnLocation
    <2>. QED  BY <2>1, <2>2 DEF Return
<1>16. \A r \in PN : Root(lev, pageinfo, r, current) => r = pt
    BY <1>1, <1>2, <1>3, OneRoot, RootNotNull DEF CountInv
<1>17. PICK l \in [PN -> Level], q \in [PN -> Path] :
         ForestGrows(current, lev, path, pageinfo, mem, l, q, pageinfo', mem')
    <2>1. \E l \in [PN -> Level], q \in [PN -> Path] :
            ForestGrows(current, lev, path, pageinfo, mem, l, q, map.pageinfo, map.mem)
        BY <1>1, <1>2, <1>3, <1>4, <1>5, <1>9, <1>11, <1>13, <1>16, ForestMapFresh
    <2>. QED  BY <1>15, <2>1
<1>18. \A p \in Pid, t \in PN \ {NULL} :
         UsesRoot(processes', kpc', job', p, t) <=> UsesRoot(processes, kpc, job, p, t)
    BY <1>1, <1>3, <1>14, <1>15, LeavingRoots DEF CountInv
<1>19. ForestInv'
    BY <1>2, <1>17, <1>18, ForestStep
<1>20. UnmappedInv'
    BY <1>15 DEF UnmappedInv
<1>. QED  BY <1>19, <1>20 DEF CountInv

\* fork() plants the tree of the child.
LEMMA ForkBeginCounts == OwnershipInv /\ IsolationInv /\ CountInv /\ ForkBegin => CountInv'
<1>. SUFFICES ASSUME OwnershipInv, IsolationInv, CountInv, ForkBegin PROVE CountInv'
    OBVIOUS
<1>1. /\ pageinfo \in [PN -> PageInfo] /\ mem \in [PN -> Page] /\ current \in Pid
      /\ processes \in [Pid -> Processes] /\ KernelIntact(mem, pageinfo) /\ CurrentOK
      /\ kpc = "dispatch"
    BY Parts DEF ForkBegin
<1>2. PICK i \in FreeSlots :
        LET procs == [processes EXCEPT ![i] = Child]
            root  == pagetable_alloc(pageinfo, mem, i)
        IN  /\ pagetable_owner' = i
            /\ IF root.pn = NULL
               THEN Return(SetRax(procs, current, FAILED), mem, pageinfo)
               ELSE /\ processes' = procs
                    /\ pageinfo' = root.pageinfo
                    /\ mem' = root.mem
                    /\ kpc' = "fork_copy"
                    /\ job' = [NoJob EXCEPT !.pid = i, !.pt = root.pn]
                    /\ UNCHANGED <<current, cr3, trap>>
    BY Zenon DEF ForkBegin
<1>. DEFINE procs == [processes EXCEPT ![i] = Child]
            root  == pagetable_alloc(pageinfo, mem, i)
<1>3. i \in Pid \ {0} /\ i # current /\ processes[i].state = "P_FREE"
    BY <1>1, SizeAssumption DEF FreeSlots, Pid, CurrentOK, HasTable
<1>4. FreshTable(pageinfo, mem, i, root)
    BY <1>1, PagetableAllocFresh
<1>5. Child \in Processes /\ Child.pagetable = NULL /\ Child.state = "P_RUNNABLE"
    <2>1. processes[current] \in Processes
        BY <1>1
    <2>. QED  BY <2>1, LayoutTypes DEF Child, Processes, NULL
<1>6. /\ \A q \in Pid : q # i => procs[q] = processes[q]
      /\ procs[i].pagetable = NULL /\ procs[i].state # "P_FREE" /\ procs \in [Pid -> Processes]
    BY <1>1, <1>3, <1>5
<1>. HIDE DEF procs, root
<1>7. IF root.pn = NULL
      THEN Return(SetRax(procs, current, FAILED), mem, pageinfo)
      ELSE /\ processes' = procs /\ pageinfo' = root.pageinfo /\ mem' = root.mem
           /\ kpc' = "fork_copy" /\ job' = [NoJob EXCEPT !.pid = i, !.pt = root.pn]
    BY <1>2 DEF procs, root
<1>8. PICK lev \in [PN -> Level], path \in [PN -> Path] :
        Forest(lev, path, mem, pageinfo) /\ RootsUsed(lev, pageinfo, processes, kpc, job)
    BY <1>1 DEF CountInv, ForestInv
<1>9. CASE root.pn = NULL
    <2>. DEFINE failed == SetRax(procs, current, FAILED)
    <2>1. \A q \in Pid : /\ failed[q].pagetable = procs[q].pagetable
                         /\ failed[q].state = procs[q].state
        BY <1>1, <1>6, SetRaxKeeps
    <2>. HIDE DEF failed
    <2>2. Return(failed, mem, pageinfo)
        BY <1>7, <1>9 DEF failed
    <2>3. processes' = failed /\ UNCHANGED <<mem, pageinfo>> /\ kpc' \in {"user", "panic", "idle"}
        <3>1. kpc' \in {"user", "panic", "idle"}
            BY <2>2, ReturnLocation
        <3>. QED  BY <2>2, <3>1 DEF Return
    <2>4. ASSUME NEW q \in Pid, NEW pt \in PN \ {NULL}
          PROVE  UsesRoot(processes', kpc', job', q, pt) <=> UsesRoot(processes, kpc, job, q, pt)
        <3>1. kpc' \notin Building /\ kpc \notin Building
            BY <1>1, <2>3 DEF Building
        <3>2. CASE q = i
            BY <1>3, <1>6, <2>1, <2>3, <3>1, <3>2 DEF UsesRoot
        <3>3. CASE q # i
            BY <1>6, <2>1, <2>3, <3>1, <3>3 DEF UsesRoot
        <3>. QED  BY <3>2, <3>3
    <2>5. ForestInv'
        <3>1. ForestInv /\ kpc \notin {"panic", "off"} /\ UNCHANGED <<mem, pageinfo>>
            BY <1>1, <2>3 DEF CountInv
        <3>. QED  BY <2>4, <3>1, ForestQuiet
    <2>6. UnmappedInv'
        BY <2>3 DEF UnmappedInv
    <2>. QED  BY <2>5, <2>6 DEF CountInv
<1>10. CASE root.pn # NULL
    <2>1. kpc' = "fork_copy" /\ job'.pt = root.pn /\ job'.pid = i /\ job'.va = 0
        BY <1>7, <1>10 DEF NoJob
    <2>2. PICK n \in PN : n = root.pn /\ pageinfo[n].refcount = 0 /\ n # NULL
        BY <1>4, <1>10 DEF FreshTable
    <2>3. pageinfo' = Assign(pageinfo, n, i) /\ mem' = [mem EXCEPT ![n] = ZeroPage]
        BY <1>4, <1>7, <1>10, <2>2 DEF FreshTable
    <2>4. PICK l \in [PN -> Level] : l = [lev EXCEPT ![n] = 0]
        <3>1. 0 \in Level
            BY DEF Level
        <3>2. [lev EXCEPT ![n] = 0] \in [PN -> Level]
            BY <3>1
        <3>. QED  BY <3>2
    <2>5. NewTree(i, n, lev, path, pageinfo, [lev EXCEPT ![n] = 0],
                  Assign(pageinfo, n, i), [mem EXCEPT ![n] = ZeroPage])
        BY <1>1, <1>3, <1>8, <2>2, ForestPlant
    <2>6. NewTree(i, n, lev, path, pageinfo, l, pageinfo', mem')
        BY <2>3, <2>4, <2>5, Zenon
    <2>7. RootsUsed(l, pageinfo', processes', kpc', job')
        <3>1. ASSUME NEW q \in Pid, NEW pt \in PN \ {NULL}
              PROVE  UsesRoot(processes', kpc', job', q, pt)
                        <=> UsesRoot(processes, kpc, job, q, pt) \/ (pt = n /\ q = i)
            BY <1>1, <1>3, <1>6, <1>7, <1>10, <2>1, <2>2 DEF UsesRoot, Building
        <3>. QED  BY <1>8, <2>6, <3>1 DEF RootsUsed, NewTree
    <2>8. ForestInv'
        BY <2>6, <2>7 DEF ForestInv, NewTree
    <2>9. UnmappedInv'
        BY <1>6, <1>7, <1>10, <2>1, <2>2, <2>6 DEF UnmappedInv, NewTree
    <2>. QED  BY <2>8, <2>9 DEF CountInv
<1>. QED  BY <1>9, <1>10

\* fork() copies each page of the parent to an address the child does not have.
LEMMA ForkCopyPageCounts ==
    OwnershipInv /\ IsolationInv /\ CountInv /\ MemoryForTables /\ ForkCopyPage => CountInv'
<1>. SUFFICES ASSUME OwnershipInv, IsolationInv, CountInv, MemoryForTables, ForkCopyPage
              PROVE  CountInv'
    OBVIOUS
<1>. DEFINE mapping == virtual_memory_lookup(mem, processes[current].pagetable, job.va)
            n      == FreeAddr(pageinfo)
            copied == [mem EXCEPT ![n] = mem[mapping.pn]]
            map    == virtual_memory_map(Assign(pageinfo, n, job.pid), copied, job.pt,
                                         job.va, n, mapping.perm, job.pid, TRUE)
            failed == SetRax(processes, current, FAILED)
<1>1. /\ pageinfo \in [PN -> PageInfo] /\ mem \in [PN -> Page] /\ current \in Pid
      /\ processes \in [Pid -> Processes] /\ KernelIntact(mem, pageinfo) /\ JobOK /\ CurrentOK
      /\ kpc = "fork_memory" /\ TypeOK /\ job.va < MEMSIZE_VIRTUAL
    BY Parts DEF ForkCopyPage
<1>2. PICK lev \in [PN -> Level], path \in [PN -> Path] :
        Forest(lev, path, mem, pageinfo) /\ RootsUsed(lev, pageinfo, processes, kpc, job)
    BY <1>1 DEF CountInv, ForestInv
<1>3. /\ job.pid \in Pid \ {0} /\ job.pt \in PN /\ pagetable_owner = job.pid
      /\ processes[job.pid].pagetable = job.pt
    BY <1>1, JobFacts DEF JobOK, Building
<1>4. job.pt # NULL
    <2>1. \E l, q : Root(l, pageinfo, job.pt, job.pid)
        BY <1>1, Parts DEF PlacesInv, JobRoot, Building
    <2>. QED  BY <1>1, <1>3, <2>1, RootNotNull
<1>5. Root(lev, pageinfo, job.pt, job.pid) /\ Placed(lev, path, mem, pageinfo)
    BY <1>1, <1>2, <1>3, <1>4 DEF RootsUsed, UsesRoot, Building, Forest
<1>6. job.va \in VA /\ job.va \in Nat /\ job.va >= PROC_START
    BY <1>1, SizeAssumption DEF TypeOK, VA, JobOK
<1>7. /\ processes[current].pagetable \in PN \ {NULL} /\ processes[current].state # "P_FREE"
      /\ lev[processes[current].pagetable] = 0
    <2>1. processes[current].pagetable \in PN \ {NULL} /\ processes[current].state # "P_FREE"
        BY <1>1 DEF CurrentOK, HasTable, Processes
    <2>. QED  BY <1>1, <1>2, <2>1 DEF RootsUsed, UsesRoot, Root
<1>8. PTE_W \in mapping.perm => mapping.perm = RWU /\ mapping.pn \in PN
    <2>1. mapping.perm \in {{}, RWU}
        BY <1>2, <1>6, <1>7 DEF Forest, HighOK
    <2>2. PTE_W \in mapping.perm => mapping.pn \in PN
        BY <1>1, <1>6, <1>7, LookupType
    <2>. QED  BY <2>1, <2>2
<1>9. n \in PN /\ (n # NULL => pageinfo[n].refcount = 0) /\ pageinfo[NULL].refcount # 0
    BY <1>1, FreeAddrType, LayoutAssumption DEF IsFree, KernelIntact
<1>10. /\ get_free_addr(pageinfo, job.pid).pn = n
       /\ n # NULL => get_free_addr(pageinfo, job.pid).pageinfo = Assign(pageinfo, n, job.pid)
    BY DEF get_free_addr, Give
<1>11. PTE_W \in mapping.perm /\ n # NULL => map.res # "fail"
    BY <1>1 DEF MemoryForTables, Mappable
<1>12. \/ UNCHANGED <<pageinfo, mem, processes, kpc>> /\ job' = [job EXCEPT !.va = job.va + 1]
       \/ Return(failed, mem, pageinfo)
       \/ /\ PTE_W \in mapping.perm /\ n # NULL
          /\ pageinfo' = map.pageinfo /\ mem' = map.mem
          /\ \/ UNCHANGED <<processes, kpc>> /\ job' = [job EXCEPT !.va = job.va + 1]
             \/ map.res \in {"fail", "assert"} \/ map.res \notin {"ok", "fail"}
    BY <1>3, <1>10 DEF ForkCopyPage, NextVA, Return
<1>. HIDE DEF mapping, n
<1>13. ASSUME PTE_W \in mapping.perm, n # NULL
       PROVE  /\ MappedFresh(job.pid, lev, path, pageinfo, mem, map, job.pt, job.va, n, RWU)
              /\ map.res = "ok"
    <2>1. copied \in [PN -> Page] /\ \A t \in PN : t # n => copied[t] = mem[t]
        BY <1>1, <1>8, <1>9, <1>13
    <2>. HIDE DEF copied
    <2>2. /\ mapping.perm = RWU /\ RWU \in SUBSET Flags /\ PTE_P \in RWU /\ n \in PN
          /\ pageinfo[n].refcount = 0
        BY <1>8, <1>9, <1>13 DEF RWU, Flags
    <2>3. map = virtual_memory_map(Assign(pageinfo, n, job.pid), copied, job.pt,
                                   job.va, n, RWU, job.pid, TRUE)
        BY <2>2
    <2>. HIDE DEF map
    <2>4. MappedFresh(job.pid, lev, path, pageinfo, mem,
                      virtual_memory_map(Assign(pageinfo, n, job.pid), copied, job.pt,
                                         job.va, n, RWU, job.pid, TRUE),
                      job.pt, job.va, n, RWU)
        BY <1>1, <1>3, <1>5, <1>6, <1>9, <1>13, <2>1, <2>2, GivenAndMapped
    <2>5. MappedFresh(job.pid, lev, path, pageinfo, mem, map, job.pt, job.va, n, RWU)
        BY <2>3, <2>4, Zenon
    <2>6. MapEnds(Assign(pageinfo, n, job.pid), copied, job.pt, job.va, TRUE, map)
        BY <1>1, <1>3, <1>5, <1>6, <1>9, <2>1, <2>2, <2>3, GivenMapEnds, ZenonT(60)
    <2>. QED  BY <1>11, <1>13, <2>5, <2>6 DEF MapEnds
<1>. HIDE DEF map
<1>14. CASE Return(failed, mem, pageinfo)
    <2>1. \A q \in Pid : /\ failed[q].pagetable = processes[q].pagetable
                         /\ failed[q].state = processes[q].state
        BY <1>1, SetRaxKeeps
    <2>. HIDE DEF failed
    <2>2. kpc' \in {"user", "panic", "idle"}
        BY <1>14, ReturnLocation
    <2>3. processes' = failed /\ UNCHANGED <<mem, pageinfo>>
        BY <1>14 DEF Return
    <2>. QED  BY <1>1, <2>1, <2>2, <2>3, QuietCounts
<1>15. CASE /\ UNCHANGED <<processes, kpc>> /\ job' = [job EXCEPT !.va = job.va + 1]
            /\ \/ UNCHANGED <<pageinfo, mem>>
               \/ PTE_W \in mapping.perm /\ n # NULL /\ pageinfo' = map.pageinfo /\ mem' = map.mem
    <2>1. job'.pid = job.pid /\ job'.pt = job.pt /\ job'.va = job.va + 1
        BY <1>1, <1>15 DEF TypeOK
    <2>2. \A q \in Pid, pt \in PN \ {NULL} :
            UsesRoot(processes', kpc', job', q, pt) <=> UsesRoot(processes, kpc, job, q, pt)
        BY <1>15, <2>1 DEF UsesRoot
    <2>3. \A v \in VA : v >= job.va + 1 => v >= job.va /\ v # job.va
        BY <1>6, SizeAssumption DEF VA
    <2>4. \A v \in VA : v >= job.va => virtual_memory_lookup(mem, job.pt, v) = NoMapping
        BY <1>1 DEF CountInv, UnmappedInv
    <2>5. ForestInv /\ kpc \notin {"panic", "off"} /\ processes[job.pid].state # "P_FREE"
        BY <1>1 DEF CountInv, UnmappedInv
    <2>6. CASE UNCHANGED <<pageinfo, mem>>
        <3>1. UNCHANGED <<mem, pageinfo>>
            BY <2>6
        <3>2. ForestInv'
            BY <2>2, <2>5, <3>1, ForestQuiet
        <3>3. UnmappedInv'
            BY <1>1, <1>15, <2>1, <2>3, <2>4, <2>5, <2>6 DEF UnmappedInv
        <3>. QED  BY <3>2, <3>3 DEF CountInv
    <2>7. CASE PTE_W \in mapping.perm /\ n # NULL /\ pageinfo' = map.pageinfo /\ mem' = map.mem
        <3>1. MappedFresh(job.pid, lev, path, pageinfo, mem, map, job.pt, job.va, n, RWU) /\ map.res = "ok"
            BY <1>13, <2>7
        <3>2. \A r \in PN : Root(lev, pageinfo, r, job.pid) => r = job.pt
            BY <1>1, <1>2, <1>3, <1>4, <1>5, OneRoot, RootNotNull DEF CountInv
        <3>3. PICK l \in [PN -> Level], q \in [PN -> Path] :
                ForestGrows(job.pid, lev, path, pageinfo, mem, l, q, pageinfo', mem')
            <4>1. virtual_memory_lookup(mem, job.pt, job.va) = NoMapping
                BY <1>6, <2>4
            <4>2. \E l \in [PN -> Level], q \in [PN -> Path] :
                    ForestGrows(job.pid, lev, path, pageinfo, mem, l, q, map.pageinfo, map.mem)
                BY <1>1, <1>2, <1>3, <1>6, <1>9, <3>1, <3>2, <4>1, ForestMapFresh
            <4>. QED  BY <2>7, <4>2
        <3>4. ForestInv'
            BY <1>2, <2>2, <3>3, ForestStep
        <3>5. \A v \in VA : v # job.va =>
                virtual_memory_lookup(mem', job.pt, v) = virtual_memory_lookup(mem, job.pt, v)
            <4>1. MapSees(job.pid, lev, pageinfo, mem, job.va, map) /\ lev[job.pt] = 0
                BY <1>5, <3>1 DEF MappedFresh, Root
            <4>. QED  BY <1>3, <2>7, <4>1 DEF MapSees
        <3>6. UnmappedInv'
            BY <1>1, <1>15, <2>1, <2>3, <2>4, <2>5, <3>5 DEF UnmappedInv
        <3>. QED  BY <3>4, <3>6 DEF CountInv
    <2>. QED  BY <1>15, <2>6, <2>7
<1>. QED  BY <1>12, <1>13, <1>14, <1>15

\* The keyboard: a reboot starts counting again.
LEMMA KeyboardCounts ==
    ASSUME Keyboard, IsolationInv'
    PROVE  CountInv'
<1>1. CASE Poweroff
    BY <1>1, StoppedForest DEF Poweroff
<1>2. CASE \E cmd \in Commands : SoftReboot(cmd)
    <2>1. AtBoot'
        BY <1>2 DEF SoftReboot, AtBoot, NoJob
    <2>. QED  BY <2>1, BootCounts, PTL
<1>. QED  BY <1>1, <1>2 DEF Keyboard

\* Every step keeps the counts.
LEMMA NextCounts ==
    ASSUME RemapVAs = {}, OwnershipInv, IsolationInv, BootMemory, CountInv, MemoryForTables,
           IsolationInv', [Next]_vars
    PROVE  CountInv'
<1>1. CASE Setup
    BY <1>1, ProcessSetupCounts, CopyMappingCounts, CopyReturnCounts, ProgramLoadSegmentCounts,
       SetupStackCounts DEF Setup
<1>2. CASE User \/ Timer
    BY <1>2, UserCounts
<1>3. CASE Handle
    BY <1>3, SimpleHandlerCounts, HandlePageAllocCounts, ForkBeginCounts, ForkCopyPageCounts DEF Handle
<1>4. CASE Keyboard
    BY <1>4, KeyboardCounts
<1>5. CASE UNCHANGED vars
    <2>1. UNCHANGED <<mem, pageinfo, processes, current, kpc, job, trap, command>>
        BY <1>5 DEF vars
    <2>2. ForestInv'
        BY <2>1 DEF CountInv, ForestInv
    <2>3. UnmappedInv'
        BY <2>1 DEF CountInv, UnmappedInv, Loading
    <2>. QED  BY <2>2, <2>3 DEF CountInv
<1>. QED  BY <1>1, <1>2, <1>3, <1>4, <1>5 DEF Next, Spin

-----------------------------------------------------------------------------
(* What the forest says of reference counts *)

\* What refers to a page with a place is a table of the same process, one
\* level up.
LEMMA Referrer ==
    ASSUME NEW m \in [PN -> Page], NEW pi, NEW lev, NEW path, Placed(lev, path, m, pi),
           lev[CONSOLE] = NoLevel, NEW n \in PN, lev[n] # NoLevel,
           NEW t \in PN, NEW i \in Index, Refers(lev, m, t, i, n)
    PROVE  /\ lev[t] \in 0 .. 3 /\ lev[n] = lev[t] + 1 /\ pi[t] = pi[n]
           /\ m[t][i] # ZeroWord /\ m[t][i].pn = n
<1>1. lev[t] \in 0 .. 3 /\ PTE_U \in m[t][i].flags /\ m[t][i].pn = n
    BY DEF Refers
<1>2. m[t][i] # ZeroWord
    BY <1>1 DEF ZeroWord
<1>3. EntryOK(lev, path, pi, t, i, m[t][i])
    BY DEF Placed
<1>4. CASE lev[t] = 3
    <2>1. LeafOK(lev, path, pi, t, i, m[t][i])
        BY <1>3, <1>4 DEF EntryOK
    <2>2. n # CONSOLE
        BY DEF NoLevel
    <2>. QED  BY <1>1, <1>2, <1>4, <2>1, <2>2 DEF LeafOK, UserLevel
<1>5. CASE lev[t] \in 0 .. 2
    <2>1. LinkOK(lev, path, pi, t, i, m[t][i])
        BY <1>3, <1>5 DEF EntryOK
    <2>. QED  BY <1>1, <1>2, <2>1 DEF LinkOK
<1>. QED  BY <1>1, <1>4, <1>5

\* Every page table of process p is in a tree of p.
LEMMA InTree ==
    ASSUME NEW m \in [PN -> Page], NEW pi, NEW lev, NEW path, Placed(lev, path, m, pi),
           Counted({}, lev, pi, m), lev[CONSOLE] = NoLevel, NEW p,
           NEW t \in PN, lev[t] \in 0 .. 3, Owns(pi, p, t)
    PROVE  \E r \in PN : Root(lev, pi, r, p) /\ t \in {r} \cup TablesBelow(m, r)
<1>1. ASSUME NEW u \in PN, lev[u] \in 1 .. 3, Owns(pi, p, u)
      PROVE  \E v \in PN : /\ lev[v] = lev[u] - 1 /\ Owns(pi, p, v)
                           /\ \A T : v \in T => u \in NextTables(m, T)
    <2>1. PICK v \in PN, i \in Index : Refers(lev, m, v, i, u)
        BY <1>1 DEF Counted
    <2>2. /\ lev[v] \in 0 .. 3 /\ lev[u] = lev[v] + 1 /\ pi[v] = pi[u]
          /\ m[v][i] # ZeroWord /\ m[v][i].pn = u
        BY <1>1, <2>1, Referrer DEF NoLevel
    <2>3. \A T : v \in T => u \in NextTables(m, T)
        BY <2>2 DEF NextTables
    <2>4. lev[v] = lev[u] - 1 /\ Owns(pi, p, v)
        BY <1>1, <2>2 DEF Owns
    <2>. QED  BY <2>3, <2>4
<1>2. ASSUME NEW u \in PN, lev[u] = 1, Owns(pi, p, u)
      PROVE  \E r \in PN : Root(lev, pi, r, p) /\ u \in NextTables(m, {r})
    BY <1>1, <1>2 DEF Root
<1>3. ASSUME NEW u \in PN, lev[u] = 2, Owns(pi, p, u)
      PROVE  \E r \in PN : Root(lev, pi, r, p) /\ u \in NextTables(m, NextTables(m, {r}))
    <2>1. PICK v \in PN : lev[v] = 1 /\ Owns(pi, p, v) /\ \A T : v \in T => u \in NextTables(m, T)
        BY <1>1, <1>3
    <2>. QED  BY <1>2, <2>1
<1>4. ASSUME NEW u \in PN, lev[u] = 3, Owns(pi, p, u)
      PROVE  \E r \in PN : /\ Root(lev, pi, r, p)
                           /\ u \in NextTables(m, NextTables(m, NextTables(m, {r})))
    <2>1. PICK v \in PN : lev[v] = 2 /\ Owns(pi, p, v) /\ \A T : v \in T => u \in NextTables(m, T)
        BY <1>1, <1>4
    <2>. QED  BY <1>3, <2>1
<1>5. CASE lev[t] = 0
    BY <1>5 DEF Root
<1>6. CASE lev[t] = 1
    BY <1>2, <1>6 DEF TablesBelow
<1>7. CASE lev[t] = 2
    BY <1>3, <1>7 DEF TablesBelow
<1>8. CASE lev[t] = 3
    BY <1>4, <1>8 DEF TablesBelow
<1>. QED  BY <1>5, <1>6, <1>7, <1>8

\* When a process is about to run, the forest makes the counts exact.
LEMMA CountsExact == OwnershipInv /\ IsolationInv /\ CountInv => RefcountsExact
<1>. SUFFICES ASSUME OwnershipInv, IsolationInv, CountInv, kpc = "user",
                     NEW n \in PN, pageinfo[n].owner > 0
              PROVE  References(pageinfo[n].owner, n) = pageinfo[n].refcount
    BY DEF RefcountsExact
<1>1. /\ pageinfo \in [PN -> PageInfo] /\ mem \in [PN -> Page] /\ KernelIntact(mem, pageinfo)
      /\ PageinfoConsistent
    BY Parts DEF OwnershipInv
<1>2. PICK lev \in [PN -> Level], path \in [PN -> Path] :
        Forest(lev, path, mem, pageinfo) /\ RootsUsed(lev, pageinfo, processes, kpc, job)
    BY DEF CountInv, ForestInv
<1>3. Placed(lev, path, mem, pageinfo) /\ Counted({}, lev, pageinfo, mem)
    BY <1>2 DEF Forest
<1>4. lev[CONSOLE] = NoLevel
    BY <1>1, <1>3, LevelsApart, LayoutAssumption DEF Placed
<1>5. PICK p \in Pid \ {0} : p = pageinfo[n].owner
    <2>1. pageinfo[n].owner \in Owner
        BY <1>1 DEF PageInfo
    <2>. QED  BY <2>1, SizeAssumption DEF Owner, Pid, PO_FREE, PO_KERNEL, PO_RESERVED
<1>6. lev[n] \in 0 .. 4 /\ Owns(pageinfo, p, n) /\ pageinfo[n].refcount = 1
    <2>1. pageinfo[n].refcount # 0
        BY <1>1, <1>5 DEF PageinfoConsistent, PO_FREE
    <2>2. lev[n] # NoLevel
        BY <1>3, <1>5, <2>1 DEF Counted
    <2>3. lev[n] \in 0 .. 4
        BY <2>2 DEF Level, NoLevel
    <2>4. pageinfo[n].refcount = 1
        BY <1>3, <2>2 DEF Placed, PlacesOwned
    <2>5. pageinfo[n] \in PageInfo
        BY <1>1
    <2>. QED  BY <1>5, <2>3, <2>4, <2>5 DEF Owns, PageInfo
<1>7. ASSUME NEW t \in PN, lev[t] \in 0 .. 3, Owns(pageinfo, p, t)
      PROVE  t \in TablesOf(p) /\ Root(lev, pageinfo, processes[p].pagetable, p)
    <2>1. PICK r \in PN : Root(lev, pageinfo, r, p) /\ t \in {r} \cup TablesBelow(mem, r)
        BY <1>1, <1>3, <1>4, <1>7, InTree
    <2>2. r # NULL
        BY <1>1, <2>1, RootNotNull
    <2>3. UsesRoot(processes, kpc, job, p, r)
        BY <1>2, <2>1, <2>2 DEF RootsUsed
    <2>4. r = processes[p].pagetable
        BY <2>3 DEF UsesRoot, Building
    <2>. QED  BY <2>1, <2>4 DEF TablesOf
<1>. DEFINE root == processes[p].pagetable
            entries == {e \in TablesOf(p) \X Index :
                           PTE_U \in mem[e[1]][e[2]].flags /\ mem[e[1]][e[2]].pn = n}
<1>8. References(p, n) = Cardinality(entries) + (IF root = n THEN 1 ELSE 0)
    BY DEF References
<1>9. ASSUME Root(lev, pageinfo, root, p), root \in PN, NEW e \in entries
      PROVE  e[1] \in PN /\ e[2] \in Index /\ e = <<e[1], e[2]>> /\ Refers(lev, mem, e[1], e[2], n)
    <2>1. e[1] \in TablesOf(p) /\ e[2] \in Index /\ e = <<e[1], e[2]>>
        BY <1>9
    <2>2. e[1] \in PN /\ lev[e[1]] \in 0 .. 3
        <3>1. lev[root] = 0
            BY <1>9 DEF Root
        <3>2. CASE e[1] = root
            BY <1>9, <3>1, <3>2
        <3>3. CASE e[1] \in TablesBelow(mem, root)
            <4>1. e[1] \in PN /\ lev[e[1]] \in 1 .. 3
                BY <1>1, <1>3, <1>9, <3>1, <3>3, TreePlaced
            <4>. QED  BY <4>1
        <3>. QED  BY <2>1, <3>2, <3>3 DEF TablesOf
    <2>. QED  BY <1>9, <2>1, <2>2 DEF Refers
<1>10. processes[p].pagetable \in PN
    BY Parts DEF Processes
<1>11. CASE lev[n] = 0
    <2>1. n \in TablesOf(p) /\ Root(lev, pageinfo, root, p)
        BY <1>6, <1>7, <1>11
    <2>2. root = n
        <3>1. Root(lev, pageinfo, n, p) /\ n # NULL
            BY <1>1, <1>6, <1>11, RootNotNull DEF Root
        <3>2. UsesRoot(processes, kpc, job, p, n)
            BY <1>2, <3>1 DEF RootsUsed
        <3>. QED  BY <3>2 DEF UsesRoot, Building
    <2>3. entries = {}
        <3>1. ASSUME NEW e \in entries PROVE FALSE
            <4>1. e[1] \in PN /\ e[2] \in Index /\ Refers(lev, mem, e[1], e[2], n)
                BY <1>9, <1>10, <2>1
            <4>2. lev[n] = lev[e[1]] + 1 /\ lev[e[1]] \in 0 .. 3
                BY <1>1, <1>3, <1>4, <1>11, <4>1, Referrer DEF NoLevel
            <4>. QED  BY <1>11, <4>2
        <3>. QED  BY <3>1
    <2>. HIDE DEF entries
    <2>. QED  BY <1>5, <1>6, <1>8, <2>2, <2>3, FS_EmptySet
<1>12. CASE lev[n] \in 1 .. 4
    <2>1. PICK t \in PN, i \in Index : Refers(lev, mem, t, i, n)
        BY <1>3, <1>12 DEF Counted
    <2>2. lev[t] \in 0 .. 3 /\ pageinfo[t] = pageinfo[n]
        BY <1>1, <1>3, <1>4, <1>12, <2>1, Referrer DEF NoLevel
    <2>3. t \in TablesOf(p) /\ Root(lev, pageinfo, root, p)
        BY <1>6, <1>7, <2>2 DEF Owns
    <2>4. entries = {<<t, i>>}
        <3>1. <<t, i>> \in entries
            BY <2>1, <2>3 DEF Refers
        <3>2. ASSUME NEW e \in entries PROVE e = <<t, i>>
            <4>1. e[1] \in PN /\ e[2] \in Index /\ e = <<e[1], e[2]>> /\ Refers(lev, mem, e[1], e[2], n)
                BY <1>9, <1>10, <2>3
            <4>2. e[1] = t /\ e[2] = i
                BY <1>3, <1>12, <2>1, <4>1 DEF Counted
            <4>. QED  BY <4>1, <4>2
        <3>. HIDE DEF entries
        <3>. QED  BY <3>1, <3>2
    <2>5. root # n
        BY <1>12, <2>3 DEF Root
    <2>. HIDE DEF entries
    <2>6. Cardinality(entries) = 1
        BY <2>4, FS_Singleton, Zenon
    <2>. QED  BY <1>5, <1>6, <1>8, <2>5, <2>6
<1>. QED  BY <1>6, <1>11, <1>12

\* If user programs ask sys_page_alloc only for pages that they do not have,
\* and a page that is found can always be mapped, then pageinfo[pn].refcount
\* is "the number of times physical page `pn` is currently referenced"
\* whenever a process runs, for every layout and number of pages: no page of a
\* process is shared, and none is lost.
THEOREM RefcountsAreExact ==
    ASSUME RemapVAs = {}
    PROVE  Spec /\ []MemoryForTables => []RefcountsExact
<1>1. Init /\ IsolationInv => CountInv
    BY BootCounts DEF Init, AtBoot, NoJob
<1>2. OwnershipInv /\ IsolationInv /\ BootMemory /\ CountInv /\ MemoryForTables /\ [Next]_vars
        /\ IsolationInv' => CountInv'
    BY NextCounts
<1>. QED  BY <1>1, <1>2, CountsExact, IsolationInvariant, PTL DEF Spec

-----------------------------------------------------------------------------
(* The invariant behind ImplementsAddressSpaces *)

\* A process that runs, or traps, is runnable, fork() made its child so, and
\* an exception is handled until the kernel leaves.
RunningInv ==
    /\ kpc \in {"user", "dispatch", "fork_copy", "fork_memory"} =>
         processes[current].state = "P_RUNNABLE"
    /\ kpc \in {"fork_copy", "fork_memory"} =>
         trap.int = "INT_SYS_FORK" /\ processes[job.pid].state = "P_RUNNABLE"
    /\ kpc \notin {"dispatch", "fork_copy", "fork_memory"} => trap = NoTrap

\* Page table pt2 has at va a page for users if pt has, with the same contents.
SameAt(m, pt, m2, pt2, va) ==
    LET old == virtual_memory_lookup(m, pt, va)
        new == virtual_memory_lookup(m2, pt2, va)
    IN  IF PTE_U \in old.perm THEN PTE_U \in new.perm /\ m2[new.pn] = m[old.pn]
                              ELSE PTE_U \notin new.perm

\* The loop of fork() has copied the memory of the parent up to job.va.
CopiedInv ==
    kpc = "fork_memory" =>
        \A va \in UserVA : va < job.va => SameAt(mem, processes[current].pagetable, mem, job.pt, va)

\* What the theorem asks of memory: fork() does not run out of it.
MemoryForFork ==
    /\ kpc = "dispatch" /\ trap.int = "INT_SYS_FORK" =>
         FreeSlots = {} \/ FreeCount(pageinfo) >= 4
    /\ /\ kpc = "fork_memory" /\ job.va < MEMSIZE_VIRTUAL
       /\ PTE_W \in virtual_memory_lookup(mem, processes[current].pagetable, job.va).perm
       => FreeAddr(pageinfo) # NULL

\* The kernel is well, or it has stopped.
SpacesInv ==
    \/ kpc \in {"panic", "off"} /\ trap = NoTrap
    \/ LiveInv /\ CountInv /\ RunningInv /\ CopiedInv

-----------------------------------------------------------------------------
(* What the kernel looks like to user programs *)

\* Where nothing is visible, nobody has memory.
LEMMA NobodyHasMemory ==
    ASSUME \A p \in Pid : processes[p].state = "P_FREE"
    PROVE  /\ [p \in Pid |-> IF Visible(p) THEN processes[p].state ELSE "P_FREE"]
                = [p \in Pid |-> "P_FREE"]
           /\ [p \in Pid |-> MemoryOf(p)] = [p \in Pid |-> [a \in UserVA |-> {}]]
           /\ [p \in Pid |-> IF Visible(p) THEN processes[p].rax ELSE 0] = [p \in Pid |-> 0]
<1>1. \A p \in Pid : ~Visible(p)
    BY DEF Visible
<1>2. \A p \in Pid : MemoryOf(p) = [a \in UserVA |-> {}]
    BY <1>1 DEF MemoryOf
<1>. QED  BY <1>1, <1>2

\* When the machine is switched on there are no processes.
LEMMA InitSpaces == Init => Spaces!Init
<1>. SUFFICES ASSUME Init PROVE Spaces!Init
    OBVIOUS
<1>1. \A p \in Pid : processes[p].state = "P_FREE"
    BY DEF Init, BootProcesses, FreeProcess
<1>2. Phase = "booting" /\ current \in Pid /\ trap = Spaces!NoCall
    BY SizeAssumption DEF Init, Phase, Pid, NoTrap, Spaces!NoCall
<1>. QED  BY <1>1, <1>2, NobodyHasMemory DEF Spaces!Init, Spaces!NoMemory

\* A step that nobody sees.
LEMMA NobodyNotices ==
    ASSUME Phase' = Phase, current' = current, trap' = trap,
           \A p \in Pid : Visible(p)' <=> Visible(p),
           \A p \in Pid : Visible(p) => /\ processes'[p].state = processes[p].state
                                        /\ processes'[p].rax = processes[p].rax
                                        /\ MemoryOf(p)' = MemoryOf(p)
    PROVE  UNCHANGED Spaces!avars
<1>1. \A p \in Pid : ~Visible(p) => MemoryOf(p)' = MemoryOf(p)
    BY DEF MemoryOf
<1>2. [p \in Pid |-> MemoryOf(p)]' = [p \in Pid |-> MemoryOf(p)]
    BY <1>1
<1>3. [p \in Pid |-> IF Visible(p) THEN processes[p].state ELSE "P_FREE"]'
        = [p \in Pid |-> IF Visible(p) THEN processes[p].state ELSE "P_FREE"]
    OBVIOUS
<1>4. [p \in Pid |-> IF Visible(p) THEN processes[p].rax ELSE 0]'
        = [p \in Pid |-> IF Visible(p) THEN processes[p].rax ELSE 0]
    OBVIOUS
<1>. QED  BY <1>2, <1>3, <1>4 DEF Spaces!avars

-----------------------------------------------------------------------------
(* The invariant is kept *)

\* Whoever runs after run(), schedule() or exception() is runnable.
LEMMA ReturnRunning ==
    ASSUME current \in Pid, NEW procs, NEW m, NEW pi, Return(procs, m, pi)
    PROVE  /\ kpc' \in {"user", "idle", "panic"} /\ trap' = NoTrap /\ processes' = procs
           /\ kpc' = "user" => processes'[current'].state = "P_RUNNABLE"
<1>1. kpc' \in {"user", "idle", "panic"} /\ trap' = NoTrap /\ processes' = procs
    BY ReturnLocation DEF Return
<1>2. run(procs, m, current) \/ schedule(procs, m)
    BY DEF Return, ReturnFromException
<1>3. ASSUME NEW p, run(procs, m, p), kpc' = "user" PROVE processes'[current'].state = "P_RUNNABLE"
    BY <1>1, <1>3 DEF run, Panic
<1>. QED  BY <1>1, <1>2, <1>3 DEF schedule

\* Unless the kernel panics, the process that runs or traps is runnable.
LEMMA NextRunning ==
    ASSUME OwnershipInv, IsolationInv, RunningInv, [Next]_vars, kpc' # "panic"
    PROVE  RunningInv'
<1>1. processes \in [Pid -> Processes] /\ current \in Pid /\ job.pid \in Pid /\ TypeOK /\ CurrentOK /\ JobOK
    BY Parts DEF TypeOK
<1>2. ASSUME NEW procs, NEW m, NEW pi, Return(procs, m, pi) PROVE RunningInv'
    <2>1. /\ kpc' \in {"user", "idle", "panic"} /\ trap' = NoTrap
          /\ kpc' = "user" => processes'[current'].state = "P_RUNNABLE"
        BY <1>1, <1>2, ReturnRunning
    <2>. QED  BY <2>1 DEF RunningInv
<1>3. CASE ProcessSetup
    BY <1>3 DEF ProcessSetup, RunningInv, Panic
<1>4. CASE CopyMapping
    <2>1. /\ kpc \in {"setup_copy", "fork_copy"} /\ kpc' = kpc /\ job'.pid = job.pid
          /\ UNCHANGED <<processes, current, trap>>
        BY <1>1, <1>4 DEF CopyMapping, Panic, TypeOK
    <2>. QED  BY <2>1 DEF RunningInv
<1>5. CASE CopyReturn
    <2>1. /\ UNCHANGED <<current, trap, job>>
          /\ \/ kpc = "setup_copy" /\ kpc' = "load"
             \/ kpc = "fork_copy" /\ kpc' = "fork_memory"
        BY <1>5 DEF CopyReturn
    <2>2. \A p \in Pid : processes'[p].state = processes[p].state
        BY <1>1, <1>5 DEF CopyReturn, Processes
    <2>. QED  BY <1>1, <2>1, <2>2 DEF RunningInv
<1>6. CASE ProgramLoadSegment
    BY <1>6 DEF ProgramLoadSegment, RunningInv, Panic
<1>7. CASE SetupStack
    BY <1>7 DEF SetupStack, RunningInv, Panic, run
<1>8. CASE \E va \in TouchVAs, i \in TouchIndexes, w \in UserWords : UserStore(va, i, w)
    BY <1>8 DEF UserStore, RunningInv
<1>9. ASSUME kpc = "user", NEW int, NEW rdi, NEW rax, exception(int, rdi, rax) PROVE RunningInv'
    <2>1. \A p \in Pid : processes'[p].state = processes[p].state
        BY <1>1, <1>9 DEF exception, Processes
    <2>2. kpc' = "dispatch" /\ current' = current
        BY <1>9 DEF exception
    <2>. QED  BY <1>1, <1>9, <2>1, <2>2 DEF RunningInv
<1>10. CASE User \/ Timer
    BY <1>8, <1>9, <1>10 DEF User, Timer, Syscall, SyscallPageAlloc, PageFault, TimerInterrupt, Executing
<1>11. CASE HandlePanic
    BY <1>11 DEF HandlePanic, Panic
<1>12. CASE HandleYieldOrTimer
    BY <1>12 DEF HandleYieldOrTimer, schedule, run, Panic, RunningInv
<1>13. CASE HandleGetpid \/ HandlePageFault \/ HandlePageAllocOOM \/ ForkNoSlot \/ ForkEnd
    BY <1>2, <1>13 DEF HandleGetpid, HandlePageFault, HandlePageAllocOOM, ForkNoSlot, ForkEnd
<1>14. CASE HandlePageAlloc
    BY <1>2, <1>14 DEF HandlePageAlloc, Panic
<1>15. CASE ForkBegin
    <2>1. PICK i \in FreeSlots :
            \/ Return(SetRax([processes EXCEPT ![i] = Child], current, FAILED), mem, pageinfo)
            \/ /\ processes' = [processes EXCEPT ![i] = Child] /\ job'.pid = i
               /\ kpc' = "fork_copy" /\ UNCHANGED <<current, trap>>
        BY <1>15 DEF ForkBegin, NoJob
    <2>2. trap.int = "INT_SYS_FORK" /\ kpc = "dispatch"
        BY <1>15 DEF ForkBegin
    <2>3. CASE /\ processes' = [processes EXCEPT ![i] = Child] /\ job'.pid = i
               /\ kpc' = "fork_copy" /\ UNCHANGED <<current, trap>>
        <3>1. i \in Pid /\ i # current
            BY <2>2, SizeAssumption DEF FreeSlots, Pid, RunningInv
        <3>2. processes'[i].state = "P_RUNNABLE" /\ processes'[current].state = "P_RUNNABLE"
            BY <1>1, <2>2, <2>3, <3>1 DEF Child, Processes, RunningInv
        <3>. QED  BY <2>2, <2>3, <3>2 DEF RunningInv
    <2>. QED  BY <1>2, <2>1, <2>3
<1>16. CASE ForkCopyPage
    <2>1. \/ \E procs, m, pi : Return(procs, m, pi)
          \/ UNCHANGED <<processes, kpc, current, trap>> /\ job'.pid = job.pid
        BY <1>1, <1>16 DEF ForkCopyPage, Panic, TypeOK
    <2>. QED  BY <1>2, <2>1 DEF RunningInv
<1>17. CASE Keyboard
    BY <1>17 DEF Keyboard, Poweroff, SoftReboot, RunningInv
<1>18. CASE UNCHANGED vars
    BY <1>18 DEF vars, RunningInv
<1>. QED  BY <1>3, <1>4, <1>5, <1>6, <1>7, <1>10, <1>11, <1>12, <1>13, <1>14, <1>15, <1>16, <1>17, <1>18
          DEF Next, Setup, Handle, Spin

\* Pages of users are not touched by what the kernel builds.
LEMMA UserPagesStay ==
    ASSUME NEW p, NEW lev, NEW path, NEW pi, NEW m \in [PN -> Page], Placed(lev, path, m, pi),
           NEW lev2, NEW path2, NEW pi2, NEW m2,
           Built(p, lev, path, pi, m, lev2, path2, pi2, m2),
           NEW pt \in PN, lev[pt] = 0, NEW va \in UserVA,
           NEW vam, vam = virtual_memory_lookup(m, pt, va), PTE_U \in vam.perm
    PROVE  SamePage(m, m2, vam.pn)
<1>1. va \in VA /\ ~(va < PROC_START)
    BY LayoutTypes, SizeAssumption DEF UserVA, VA
<1>2. vam.pn \in PN /\ lev[vam.pn] = UserLevel
    BY <1>1, LookupPlaced
<1>3. pi[vam.pn].refcount # 0 /\ lev[vam.pn] \notin 0 .. 3
    BY <1>2 DEF Placed, PlacesOwned, UserLevel, NoLevel
<1>. QED  BY <1>2, <1>3 DEF Built, SamePage

\* One iteration of fork()'s loop copies one page of the parent to the child.
LEMMA ForkCopyPageCopies ==
    OwnershipInv /\ IsolationInv /\ CountInv /\ CopiedInv /\ MemoryForTables /\ MemoryForFork
        /\ ForkCopyPage =>
      /\ UNCHANGED <<processes, kpc, current, trap>> /\ job'.pid = job.pid
      /\ CopiedInv'
<1>. SUFFICES ASSUME OwnershipInv, IsolationInv, CountInv, CopiedInv, MemoryForTables,
                     MemoryForFork, ForkCopyPage
              PROVE  /\ UNCHANGED <<processes, kpc, current, trap>> /\ job'.pid = job.pid
                     /\ CopiedInv'
    OBVIOUS
<1>. DEFINE cpt    == processes[current].pagetable
            mapping == virtual_memory_lookup(mem, cpt, job.va)
            n      == FreeAddr(pageinfo)
            copied == [mem EXCEPT ![n] = mem[mapping.pn]]
            map    == virtual_memory_map(Assign(pageinfo, n, job.pid), copied, job.pt,
                                         job.va, n, mapping.perm, job.pid, TRUE)
<1>1. /\ pageinfo \in [PN -> PageInfo] /\ mem \in [PN -> Page] /\ current \in Pid
      /\ processes \in [Pid -> Processes] /\ KernelIntact(mem, pageinfo) /\ JobOK /\ CurrentOK
      /\ kpc = "fork_memory" /\ TypeOK /\ job.va < MEMSIZE_VIRTUAL
    BY Parts DEF ForkCopyPage
<1>2. PICK lev \in [PN -> Level], path \in [PN -> Path] :
        Forest(lev, path, mem, pageinfo) /\ RootsUsed(lev, pageinfo, processes, kpc, job)
    BY <1>1 DEF CountInv, ForestInv
<1>3. /\ job.pid \in Pid \ {0} /\ job.pt \in PN /\ pagetable_owner = job.pid
      /\ processes[job.pid].pagetable = job.pt /\ job.pid # current
    BY <1>1, JobFacts DEF JobOK, Building
<1>4. job.pt # NULL
    <2>1. \E l, q : Root(l, pageinfo, job.pt, job.pid)
        BY <1>1, Parts DEF PlacesInv, JobRoot, Building
    <2>. QED  BY <1>1, <1>3, <2>1, RootNotNull
<1>5. Root(lev, pageinfo, job.pt, job.pid) /\ Placed(lev, path, mem, pageinfo)
    BY <1>1, <1>2, <1>3, <1>4 DEF RootsUsed, UsesRoot, Building, Forest
<1>6. job.va \in VA /\ job.va \in Nat /\ job.va >= PROC_START
    BY <1>1, SizeAssumption DEF TypeOK, VA, JobOK
<1>7. cpt \in PN \ {NULL} /\ Root(lev, pageinfo, cpt, current)
    <2>1. cpt \in PN \ {NULL} /\ processes[current].state # "P_FREE"
        BY <1>1 DEF CurrentOK, HasTable, Processes
    <2>. QED  BY <1>1, <1>2, <2>1 DEF RootsUsed, UsesRoot
<1>8. lev[cpt] = 0 /\ lev[job.pt] = 0 /\ ~Owns(pageinfo, job.pid, cpt)
    BY <1>3, <1>5, <1>7 DEF Root, Owns
<1>9. /\ mapping.perm \in {{}, RWU}
      /\ PTE_W \in mapping.perm => mapping.pn \in PN
    <2>1. mapping.perm \in {{}, RWU}
        BY <1>2, <1>6, <1>7, <1>8 DEF Forest, HighOK
    <2>2. PTE_W \in mapping.perm => mapping.pn \in PN
        BY <1>1, <1>6, <1>7, LookupType
    <2>. QED  BY <2>1, <2>2
<1>10. /\ n \in PN /\ (n # NULL => pageinfo[n].refcount = 0) /\ pageinfo[NULL].refcount # 0
       /\ PTE_W \in mapping.perm => n # NULL
    <2>1. PTE_W \in mapping.perm => n # NULL
        BY <1>1 DEF MemoryForFork
    <2>. QED  BY <1>1, <2>1, FreeAddrType, LayoutAssumption DEF IsFree, KernelIntact
<1>11. /\ get_free_addr(pageinfo, job.pid).pn = n
       /\ n # NULL => get_free_addr(pageinfo, job.pid).pageinfo = Assign(pageinfo, n, job.pid)
    BY DEF get_free_addr, Give
<1>12. PTE_W \in mapping.perm /\ n # NULL => map.res # "fail"
    BY <1>1 DEF MemoryForTables, Mappable
<1>13. \/ /\ PTE_W \notin mapping.perm /\ UNCHANGED <<mem, processes, kpc, current, trap>>
          /\ job' = [job EXCEPT !.va = job.va + 1]
       \/ /\ PTE_W \in mapping.perm /\ n # NULL /\ mem' = map.mem /\ pageinfo' = map.pageinfo
          /\ map.res = "ok" => /\ UNCHANGED <<processes, kpc, current, trap>>
                               /\ job' = [job EXCEPT !.va = job.va + 1]
    BY <1>3, <1>10, <1>11, <1>12 DEF ForkCopyPage, NextVA
<1>. HIDE DEF mapping, n, cpt
<1>14. ASSUME PTE_W \in mapping.perm
       PROVE  /\ MappedFresh(job.pid, lev, path, pageinfo, mem, map, job.pt, job.va, n, RWU)
              /\ map.res = "ok" /\ map.mem[n] = mem[mapping.pn]
    <2>1. /\ copied \in [PN -> Page] /\ \A t \in PN : t # n => copied[t] = mem[t]
          /\ copied[n] = mem[mapping.pn]
        BY <1>1, <1>9, <1>10, <1>14
    <2>. HIDE DEF copied
    <2>2. /\ mapping.perm = RWU /\ RWU \in SUBSET Flags /\ PTE_P \in RWU /\ n \in PN /\ n # NULL
          /\ pageinfo[n].refcount = 0
        BY <1>9, <1>10, <1>14 DEF RWU, Flags
    <2>3. map = virtual_memory_map(Assign(pageinfo, n, job.pid), copied, job.pt,
                                   job.va, n, RWU, job.pid, TRUE)
        BY <2>2
    <2>. HIDE DEF map
    <2>4. MappedFresh(job.pid, lev, path, pageinfo, mem,
                      virtual_memory_map(Assign(pageinfo, n, job.pid), copied, job.pt,
                                         job.va, n, RWU, job.pid, TRUE),
                      job.pt, job.va, n, RWU)
        BY <1>1, <1>3, <1>5, <1>6, <2>1, <2>2, GivenAndMapped
    <2>5. MappedFresh(job.pid, lev, path, pageinfo, mem, map, job.pt, job.va, n, RWU)
        BY <2>3, <2>4, Zenon
    <2>6. MapEnds(Assign(pageinfo, n, job.pid), copied, job.pt, job.va, TRUE, map)
        BY <1>1, <1>3, <1>5, <1>6, <1>10, <2>1, <2>2, <2>3, GivenMapEnds, ZenonT(60)
    <2>7. SamePage(copied, map.mem, n)
        BY <1>1, <1>3, <1>5, <1>6, <2>1, <2>2, <2>3, GivenContents, ZenonT(60)
    <2>8. map.mem[n] = mem[mapping.pn]
        BY <2>1, <2>7 DEF SamePage
    <2>. QED  BY <1>12, <1>14, <2>2, <2>5, <2>6, <2>8 DEF MapEnds
<1>. HIDE DEF map
<1>15. UNCHANGED <<processes, kpc, current, trap>> /\ job' = [job EXCEPT !.va = job.va + 1]
    BY <1>13, <1>14
<1>16. job'.pid = job.pid /\ job'.pt = job.pt /\ job'.va = job.va + 1
    BY <1>1, <1>15 DEF TypeOK
<1>17. ASSUME NEW va \in UserVA, va < job.va + 1
       PROVE  SameAt(mem', cpt, mem', job.pt, va)
    <2>1. va \in VA /\ (va = job.va \/ va < job.va) /\ (va < job.va => va # job.va)
        BY <1>6, <1>17, LayoutTypes, SizeAssumption DEF UserVA, VA
    <2>2. va < job.va => SameAt(mem, cpt, mem, job.pt, va)
        BY <1>1 DEF CopiedInv, cpt
    <2>3. va = job.va => virtual_memory_lookup(mem, job.pt, va) = NoMapping
        <3>1. \A v \in VA : v >= job.va => virtual_memory_lookup(mem, job.pt, v) = NoMapping
            BY <1>1 DEF CountInv, UnmappedInv
        <3>2. job.va >= job.va
            BY <1>6
        <3>. QED  BY <1>6, <3>1, <3>2
    <2>4. CASE PTE_W \notin mapping.perm
        <3>1. mem' = mem /\ mapping.perm = {}
            BY <1>9, <1>13, <2>4 DEF RWU
        <3>2. CASE va = job.va
            <4>1. SameAt(mem, cpt, mem, job.pt, va)
                BY <2>3, <3>1, <3>2 DEF SameAt, NoMapping, mapping
            <4>. QED  BY <3>1, <4>1
        <3>. QED  BY <2>1, <2>2, <3>1, <3>2
    <2>5. CASE PTE_W \in mapping.perm
        <3>1. /\ MappedFresh(job.pid, lev, path, pageinfo, mem, map, job.pt, job.va, n, RWU)
              /\ map.res = "ok" /\ mem'[n] = mem[mapping.pn] /\ mem' = map.mem
              /\ mapping.perm = RWU
            BY <1>9, <1>13, <1>14, <2>5
        <3>2. PICK l, q : Built(job.pid, lev, path, pageinfo, mem, l, q, map.pageinfo, mem')
            BY <3>1 DEF MappedFresh
        <3>3. virtual_memory_lookup(mem', cpt, va) = virtual_memory_lookup(mem, cpt, va)
            BY <1>7, <1>8, <2>1, <3>1 DEF MappedFresh, MapSees
        <3>4. \A vam : vam = virtual_memory_lookup(mem, cpt, va) /\ PTE_U \in vam.perm =>
                SamePage(mem, mem', vam.pn)
            BY <1>1, <1>5, <1>7, <1>8, <3>2, UserPagesStay, Zenon
        <3>5. CASE va = job.va
            <4>1. virtual_memory_lookup(mem', job.pt, va) = [pn |-> n, perm |-> RWU]
                BY <3>1, <3>5 DEF MappedFresh
            <4>2. virtual_memory_lookup(mem, cpt, va) = mapping /\ PTE_U \in RWU
                BY <3>5 DEF mapping, RWU
            <4>. QED  BY <3>1, <3>3, <3>4, <4>1, <4>2 DEF SameAt, SamePage
        <3>6. CASE va < job.va
            <4>1. virtual_memory_lookup(mem', job.pt, va) = virtual_memory_lookup(mem, job.pt, va)
                BY <1>3, <1>8, <2>1, <3>1, <3>6 DEF MappedFresh, MapSees
            <4>2. \A vam : vam = virtual_memory_lookup(mem, job.pt, va) /\ PTE_U \in vam.perm =>
                    SamePage(mem, mem', vam.pn)
                BY <1>1, <1>3, <1>5, <1>8, <3>2, UserPagesStay, Zenon
            <4>. QED  BY <2>2, <3>3, <3>4, <3>6, <4>1, <4>2 DEF SameAt, SamePage
        <3>. QED  BY <2>1, <3>5, <3>6
    <2>. QED  BY <2>4, <2>5
<1>18. CopiedInv'
    BY <1>15, <1>16, <1>17 DEF CopiedInv, cpt
<1>. QED  BY <1>15, <1>16, <1>18

\* What the loop of fork() has copied stays copied.
LEMMA NextCopied ==
    ASSUME OwnershipInv, IsolationInv, CountInv, CopiedInv, MemoryForTables, MemoryForFork, [Next]_vars
    PROVE  CopiedInv'
<1>1. CASE ForkCopyPage
    BY <1>1, ForkCopyPageCopies
<1>2. CASE CopyReturn
    <2>1. job'.va = PROC_START /\ PROC_START \in Int
        BY <1>2, LayoutTypes DEF CopyReturn
    <2>2. \A va \in UserVA : ~(va < job'.va)
        BY <2>1, SizeAssumption DEF UserVA
    <2>. QED  BY <2>2 DEF CopiedInv
<1>3. CASE UNCHANGED vars
    BY <1>3 DEF vars, CopiedInv, SameAt
<1>4. CASE kpc' # "fork_memory"
    BY <1>4 DEF CopiedInv
<1>5. CASE Setup /\ ~CopyReturn
    <2>1. CASE ProcessSetup
        BY <1>4, <2>1 DEF ProcessSetup, Panic
    <2>2. CASE CopyMapping
        <3>1. kpc' = kpc \/ kpc' = "panic"
            BY <2>2 DEF CopyMapping, Panic
        <3>. QED  BY <1>4, <2>2, <3>1 DEF CopyMapping
    <2>3. CASE ProgramLoadSegment
        BY <1>4, <2>3 DEF ProgramLoadSegment, Panic
    <2>4. CASE SetupStack
        BY <1>4, <2>4 DEF SetupStack, run, Panic
    <2>. QED  BY <1>5, <2>1, <2>2, <2>3, <2>4 DEF Setup
<1>6. CASE User \/ Timer
    <2>1. kpc' # "fork_memory"
        BY <1>6 DEF User, Timer, UserStore, Syscall, SyscallPageAlloc, TimerInterrupt,
                    PageFault, exception, Executing
    <2>. QED  BY <1>4, <2>1
<1>7. ASSUME NEW procs, NEW m, NEW pi, Return(procs, m, pi) PROVE CopiedInv'
    BY <1>4, <1>7, ReturnLocation
<1>8. CASE HandlePanic \/ HandleYieldOrTimer
    BY <1>4, <1>8 DEF HandlePanic, HandleYieldOrTimer, schedule, run, Panic
<1>9. CASE HandleGetpid \/ HandlePageFault \/ HandlePageAllocOOM \/ ForkNoSlot \/ ForkEnd
    BY <1>7, <1>9 DEF HandleGetpid, HandlePageFault, HandlePageAllocOOM, ForkNoSlot, ForkEnd
<1>10. CASE HandlePageAlloc
    BY <1>4, <1>7, <1>10 DEF HandlePageAlloc, Panic
<1>11. CASE ForkBegin
    BY <1>4, <1>7, <1>11 DEF ForkBegin
<1>12. CASE Handle
    BY <1>1, <1>8, <1>9, <1>10, <1>11, <1>12 DEF Handle
<1>13. CASE Keyboard
    BY <1>4, <1>13 DEF Keyboard, Poweroff, SoftReboot
<1>. QED  BY <1>2, <1>3, <1>5, <1>6, <1>12, <1>13 DEF Next, Spin

\* After kernel() has started again nothing is left of what was.
LEMMA RebootSpaces ==
    ASSUME IsolationInv', NEW cmd, SoftReboot(cmd)
    PROVE  (LiveInv /\ CountInv /\ RunningInv /\ CopiedInv)'
<1>1. AtBoot' /\ trap' = NoTrap /\ kpc' = "setup"
    BY DEF SoftReboot, AtBoot, NoJob
<1>2. LiveInv'
    BY <1>1, BootLives, PTL
<1>3. CountInv'
    BY <1>1, BootCounts, PTL
<1>4. RunningInv' /\ CopiedInv'
    BY <1>1 DEF RunningInv, CopiedInv
<1>. QED  BY <1>2, <1>3, <1>4

\* Where the steps of the kernel and of processes begin.
LEMMA StepsBegin ==
    /\ Setup => kpc \in {"setup", "setup_copy", "load", "fork_copy"}
    /\ User \/ Timer => kpc = "user"
    /\ Handle => \/ kpc = "fork_memory"
                 \/ kpc = "dispatch" /\ (HandlePanic \/ trap.int \notin {"INT_SYS_PANIC", "INT_SYS_EXIT"})
<1>1. ASSUME Setup PROVE kpc \in {"setup", "setup_copy", "load", "fork_copy"}
    <2>1. CASE ProcessSetup \/ CopyReturn
        BY <2>1 DEF ProcessSetup, CopyReturn
    <2>2. CASE CopyMapping
        BY <2>2 DEF CopyMapping
    <2>3. CASE ProgramLoadSegment
        BY <2>3 DEF ProgramLoadSegment
    <2>4. CASE SetupStack
        BY <2>4 DEF SetupStack
    <2>. QED  BY <1>1, <2>1, <2>2, <2>3, <2>4 DEF Setup
<1>2. ASSUME User \/ Timer PROVE kpc = "user"
    BY <1>2 DEF User, Timer, UserStore, Syscall, SyscallPageAlloc, TimerInterrupt, PageFault, Executing
<1>3. ASSUME Handle
      PROVE  \/ kpc = "fork_memory"
             \/ kpc = "dispatch" /\ (HandlePanic \/ trap.int \notin {"INT_SYS_PANIC", "INT_SYS_EXIT"})
    <2>1. CASE HandlePanic
        BY <2>1 DEF HandlePanic
    <2>2. CASE HandleGetpid \/ HandleYieldOrTimer \/ HandlePageFault
        BY <2>2 DEF HandleGetpid, HandleYieldOrTimer, HandlePageFault
    <2>3. CASE HandlePageAlloc \/ HandlePageAllocOOM
        BY <2>3 DEF HandlePageAlloc, HandlePageAllocOOM
    <2>4. CASE ForkNoSlot
        BY <2>4 DEF ForkNoSlot
    <2>5. CASE ForkBegin
        <3>1. kpc = "dispatch" /\ trap.int = "INT_SYS_FORK"
            BY <2>5 DEF ForkBegin
        <3>. QED  BY <3>1
    <2>6. CASE ForkCopyPage \/ ForkEnd
        BY <2>6 DEF ForkCopyPage, ForkEnd
    <2>. QED  BY <1>3, <2>1, <2>2, <2>3, <2>4, <2>5, <2>6 DEF Handle
<1>. QED  BY <1>1, <1>2, <1>3, Zenon

\* Only programs that ask for it make the kernel panic.
LEMMA LivesOn ==
    ASSUME OwnershipInv, IsolationInv, BootMemory, LiveInv, MemoryForFork, [Next]_vars, ~HandlePanic
    PROVE  LiveInv'
<1>1. CASE Survivable
    BY <1>1, NextLives
<1>2. CASE ~Survivable
    <2>1. kpc = "dispatch" /\ trap.int \in {"INT_SYS_PANIC", "INT_SYS_EXIT"}
        BY <1>2 DEF Survivable, MemoryForFork
    <2>2. Keyboard \/ UNCHANGED vars
        BY <2>1, StepsBegin DEF Next, Spin
    <2>. QED  BY <2>2, KeyboardLives
<1>. QED  BY <1>1, <1>2

\* Every step keeps the kernel well, or stops it.
LEMMA NextSpaces ==
    ASSUME RemapVAs = {}, OwnershipInv, IsolationInv, BootMemory, IsolationInv', SpacesInv,
           MemoryForTables, MemoryForFork, [Next]_vars
    PROVE  SpacesInv'
<1>1. CASE kpc \in {"panic", "off"} /\ trap = NoTrap
    <2>1. \/ UNCHANGED vars \/ Poweroff \/ \E cmd \in Commands : SoftReboot(cmd)
        BY <1>1, StepsBegin DEF Next, Keyboard, Spin
    <2>2. CASE UNCHANGED vars
        BY <1>1, <2>2 DEF vars, SpacesInv
    <2>3. CASE Poweroff
        BY <2>3 DEF Poweroff, SpacesInv
    <2>4. CASE \E cmd \in Commands : SoftReboot(cmd)
        BY <2>4, RebootSpaces DEF SpacesInv
    <2>. QED  BY <2>1, <2>2, <2>3, <2>4
<1>2. CASE LiveInv /\ CountInv /\ RunningInv /\ CopiedInv
    <2>1. CASE HandlePanic
        BY <2>1 DEF HandlePanic, Panic, SpacesInv
    <2>2. CASE ~HandlePanic
        <3>1. LiveInv'
            BY <1>2, <2>2, LivesOn
        <3>2. CountInv'
            BY <1>2, NextCounts
        <3>3. RunningInv'
            BY <1>2, <3>1, NextRunning DEF LiveInv, NoPanic
        <3>4. CopiedInv'
            BY <1>2, NextCopied
        <3>. QED  BY <3>1, <3>2, <3>3, <3>4 DEF SpacesInv
    <2>. QED  BY <2>1, <2>2
<1>. QED  BY <1>1, <1>2 DEF SpacesInv

-----------------------------------------------------------------------------
(* Steps that nobody sees *)

\* While a process is being built no process that programs see is written to.
LEMMA VisibleNotWriters ==
    ASSUME OwnershipInv, IsolationInv, kpc \in {"setup"} \cup Building, NEW p \in Pid, Visible(p)
    PROVE  p \notin Writers
<1>1. JobOK /\ job.pid \in Pid
    BY Parts DEF TypeOK
<1>2. CASE kpc \in {"fork_copy", "fork_memory"}
    BY <1>1, <1>2 DEF Visible, Unborn, Writers, Building
<1>3. CASE kpc \in {"setup", "setup_copy", "load"}
    <2>1. job.pid >= job.pid
        BY <1>1, SizeAssumption DEF Pid
    <2>2. processes[job.pid].state = "P_FREE"
        BY <1>1, <1>3, <2>1 DEF JobOK
    <2>. QED  BY <1>3, <2>2 DEF Visible, Writers, Building
<1>. QED  BY <1>2, <1>3 DEF Building

\* The loops of process_setup and fork() are unseen.
LEMMA LoopsUnseen ==
    ASSUME OwnershipInv, IsolationInv, IsolationInv', OthersKept,
           kpc \in {"setup"} \cup Building, Phase' = Phase, UNCHANGED <<current, trap>>,
           \A p \in Pid : Visible(p)' <=> Visible(p),
           \A p \in Pid : Visible(p) => processes'[p] = processes[p]
    PROVE  UNCHANGED Spaces!avars
<1>1. KernelIntact(mem, pageinfo)
    BY Parts
<1>2. ASSUME NEW p \in Pid, Visible(p) PROVE MemoryOf(p)' = MemoryOf(p)
    <2>1. p \in Pid \ Writers
        BY <1>2, VisibleNotWriters
    <2>2. \A t \in PN : Owns(pageinfo, p, t) => mem'[t] = mem[t]
        BY <1>1, <2>1, OwnPagesKept
    <2>3. Visible(p)' /\ processes'[p].pagetable = processes[p].pagetable
        BY <1>2
    <2>. QED  BY <1>2, <2>2, <2>3, MemoryKept
<1>3. \A p \in Pid : Visible(p) => /\ processes'[p].state = processes[p].state
                                   /\ processes'[p].rax = processes[p].rax
                                   /\ MemoryOf(p)' = MemoryOf(p)
    BY <1>2
<1>. QED  BY <1>3, NobodyNotices

\* What the steps of the loops have in common.
LEMMA LoopStep ==
    ASSUME OwnershipInv, IsolationInv, kpc' # "panic",
           ProcessSetup \/ CopyMapping \/ CopyReturn \/ ProgramLoadSegment
    PROVE  /\ kpc \in {"setup"} \cup Building /\ Phase' = Phase
           /\ UNCHANGED <<current, trap, reboots>>
           /\ \A p \in Pid : Visible(p)' <=> Visible(p)
           /\ \A p \in Pid : Visible(p) => processes'[p] = processes[p]
<1>1. processes \in [Pid -> Processes] /\ job.pid \in Pid /\ TypeOK /\ JobOK
    BY Parts DEF TypeOK
<1>2. CASE ProcessSetup
    <2>1. /\ kpc = "setup" /\ kpc' = "setup_copy" /\ UNCHANGED <<processes, current, trap, reboots>>
        BY <1>2 DEF ProcessSetup, Panic
    <2>2. Phase' = Phase /\ Unborn = {} /\ Unborn' = {}
        BY <2>1 DEF Phase, Unborn
    <2>. QED  BY <2>1, <2>2 DEF Visible
<1>3. CASE CopyMapping
    <2>1. /\ kpc \in {"setup_copy", "fork_copy"} /\ kpc' = kpc /\ job'.pid = job.pid
          /\ UNCHANGED <<processes, current, trap, reboots>>
        BY <1>1, <1>3 DEF CopyMapping, Panic, TypeOK
    <2>2. Phase' = Phase /\ Unborn' = Unborn
        BY <2>1 DEF Phase, Unborn
    <2>. QED  BY <2>1, <2>2 DEF Visible, Building
<1>4. CASE CopyReturn
    <2>1. /\ \/ kpc = "setup_copy" /\ kpc' = "load"
             \/ kpc = "fork_copy" /\ kpc' = "fork_memory"
          /\ processes' = [processes EXCEPT ![job.pid].pagetable = job.pt]
          /\ UNCHANGED <<current, trap, reboots, job>>
        BY <1>4 DEF CopyReturn
    <2>2. Phase' = Phase /\ Unborn' = Unborn
        BY <2>1 DEF Phase, Unborn
    <2>3. \A p \in Pid : /\ processes'[p].state = processes[p].state
                         /\ p # job.pid => processes'[p] = processes[p]
        BY <1>1, <2>1 DEF Processes
    <2>4. ~Visible(job.pid)
        <3>1. CASE kpc = "setup_copy"
            <4>1. job.pid >= job.pid
                BY <1>1, SizeAssumption DEF Pid
            <4>. QED  BY <1>1, <3>1, <4>1 DEF JobOK, Visible
        <3>2. CASE kpc = "fork_copy"
            BY <3>2 DEF Visible, Unborn
        <3>. QED  BY <2>1, <3>1, <3>2
    <2>5. \A p \in Pid : Visible(p)' <=> Visible(p)
        BY <2>2, <2>3 DEF Visible
    <2>. QED  BY <2>1, <2>2, <2>3, <2>4, <2>5 DEF Building
<1>5. CASE ProgramLoadSegment
    <2>1. kpc = "load" /\ kpc' = "load" /\ UNCHANGED <<processes, current, trap, reboots>>
        <3>1. kpc = "load"
            BY <1>5, Zenon DEF ProgramLoadSegment
        <3>2. UNCHANGED <<processes, pagetable_owner, trap, command, reboots>>
            BY <1>5, Zenon DEF ProgramLoadSegment
        <3>3. kpc' = "panic" \/ UNCHANGED <<kpc, current, cr3>>
            BY <1>5, Zenon DEF ProgramLoadSegment, Panic
        <3>. QED  BY <3>1, <3>2, <3>3
    <2>2. Phase' = Phase /\ Unborn = {} /\ Unborn' = {}
        BY <2>1 DEF Phase, Unborn
    <2>. QED  BY <2>1, <2>2 DEF Visible, Building
<1>. QED  BY <1>2, <1>3, <1>4, <1>5

\* So is the copying of memory.
LEMMA ForkCopyPageUnseen ==
    ASSUME OwnershipInv, IsolationInv, IsolationInv', OthersKept, CountInv, CopiedInv,
           MemoryForTables, MemoryForFork, ForkCopyPage
    PROVE  UNCHANGED Spaces!avars
<1>1. UNCHANGED <<processes, kpc, current, trap>> /\ job'.pid = job.pid
    BY ForkCopyPageCopies
<1>2. kpc = "fork_memory"
    BY DEF ForkCopyPage
<1>3. Phase' = Phase /\ Unborn' = Unborn
    BY <1>1 DEF Phase, Unborn
<1>4. /\ \A p \in Pid : Visible(p)' <=> Visible(p)
      /\ \A p \in Pid : Visible(p) => processes'[p] = processes[p]
    BY <1>1, <1>3 DEF Visible
<1>5. kpc \in {"setup"} \cup Building /\ UNCHANGED <<current, trap>>
    BY <1>1, <1>2 DEF Building
<1>. QED  BY <1>3, <1>4, <1>5, LoopsUnseen

\* And the beginning of fork(): the child is not born yet.
LEMMA ForkBeginUnseen ==
    ASSUME OwnershipInv, IsolationInv, IsolationInv', RunningInv, LiveInv', MemoryForFork, ForkBegin
    PROVE  UNCHANGED Spaces!avars
<1>1. /\ processes \in [Pid -> Processes] /\ current \in Pid /\ pageinfo \in [PN -> PageInfo]
      /\ mem \in [PN -> Page]
      /\ kpc = "dispatch" /\ trap.int = "INT_SYS_FORK" /\ KernelIntact(mem, pageinfo)
    BY Parts DEF TypeOK, ForkBegin
<1>2. PICK i \in FreeSlots :
        LET procs == [processes EXCEPT ![i] = Child]
            root  == pagetable_alloc(pageinfo, mem, i)
        IN  /\ \A j \in FreeSlots : i =< j
            /\ pagetable_owner' = i
            /\ IF root.pn = NULL
               THEN Return(SetRax(procs, current, FAILED), mem, pageinfo)
               ELSE /\ processes' = procs
                    /\ pageinfo' = root.pageinfo
                    /\ mem' = root.mem
                    /\ kpc' = "fork_copy"
                    /\ job' = [NoJob EXCEPT !.pid = i, !.pt = root.pn]
                    /\ UNCHANGED <<current, cr3, trap>>
    BY Zenon DEF ForkBegin
<1>. DEFINE root == pagetable_alloc(pageinfo, mem, i)
<1>3. i \in Pid \ {0} /\ processes[i].state = "P_FREE" /\ i # current
    BY <1>1, SizeAssumption DEF FreeSlots, Pid, RunningInv
<1>4. /\ root.pn = FreeAddr(pageinfo) /\ root.pn \in PN
      /\ root.pn # NULL => /\ pageinfo[root.pn].refcount = 0
                           /\ root.mem = [mem EXCEPT ![root.pn] = ZeroPage]
    <2>1. FreshTable(pageinfo, mem, i, root)
        BY <1>1, <1>3, PagetableAllocFresh
    <2>. HIDE DEF root
    <2>. QED  BY <2>1 DEF FreshTable
<1>5. root.pn # NULL
    <2>1. FreeCount(pageinfo) >= 4
        BY <1>1 DEF MemoryForFork
    <2>2. FreeCount(pageinfo) \in Nat
        BY <1>1, <1>4, AssignCost
    <2>3. NULL \in RESERVED
        BY LayoutAssumption
    <2>4. pageinfo[NULL].refcount # 0
        BY <1>1, <2>3 DEF KernelIntact
    <2>. HIDE DEF root
    <2>. QED  BY <1>1, <1>4, <2>1, <2>2, <2>4, FreeAddrFound
<1>6. /\ processes' = [processes EXCEPT ![i] = Child] /\ mem' = root.mem
      /\ kpc' = "fork_copy" /\ job'.pid = i /\ UNCHANGED <<current, trap>>
    BY <1>2, <1>5 DEF NoJob
<1>. HIDE DEF root
<1>7. Phase' = Phase /\ Unborn = {} /\ Unborn' = {i}
    BY <1>1, <1>6 DEF Phase, Unborn
<1>8. \A p \in Pid : p # i => processes'[p] = processes[p]
    BY <1>1, <1>6
<1>9. \A p \in Pid : Visible(p)' <=> Visible(p)
    BY <1>3, <1>7, <1>8 DEF Visible
<1>10. ASSUME NEW p \in Pid, Visible(p)
       PROVE  /\ processes'[p].state = processes[p].state
              /\ processes'[p].rax = processes[p].rax
              /\ MemoryOf(p)' = MemoryOf(p)
    <2>1. p # i /\ processes'[p] = processes[p] /\ Visible(p)'
        BY <1>3, <1>8, <1>9, <1>10 DEF Visible
    <2>2. \A t \in PN : Owns(pageinfo, p, t) => mem'[t] = mem[t]
        <3>1. mem' = [mem EXCEPT ![root.pn] = ZeroPage] /\ pageinfo[root.pn].refcount = 0
            BY <1>4, <1>5, <1>6
        <3>. QED  BY <1>1, <3>1 DEF Owns
    <2>3. processes'[p].pagetable = processes[p].pagetable
        BY <2>1
    <2>. QED  BY <1>10, <2>1, <2>2, <2>3, MemoryKept
<1>. QED  BY <1>6, <1>7, <1>9, <1>10, NobodyNotices

-----------------------------------------------------------------------------
(* Steps of the running process, and the kernel's answers *)

\* The processes, their memory and their %rax as user programs see them.
StateView == [p \in Pid |-> IF Visible(p) THEN processes[p].state ELSE "P_FREE"]
ImageView == [p \in Pid |-> MemoryOf(p)]
RetView == [p \in Pid |-> IF Visible(p) THEN processes[p].rax ELSE 0]

\* What a step leaves of a visible process other than the current one.
LEMMA OthersSame ==
    ASSUME OwnershipInv, IsolationInv, IsolationInv', OthersKept, [Next]_vars, reboots' = reboots,
           NEW p \in Pid \ {current}, Visible(p)
    PROVE  Visible(p)' /\ processes'[p] = processes[p] /\ MemoryOf(p)' = MemoryOf(p)
<1>1. ProcessKept(p)
    BY DescriptorsKept
<1>2. \A t \in PN : Owns(pageinfo, p, t) => mem'[t] = mem[t]
    BY OwnPagesKept, OthersNotWriters DEF IsolationInv
<1>3. Visible(p)' /\ processes'[p] = processes[p]
    BY <1>1 DEF Visible, ProcessKept
<1>. QED  BY <1>2, <1>3, MemoryKept

\* A step in which only the current process can change, as programs see it.
LEMMA CurrentSteps ==
    ASSUME OwnershipInv, IsolationInv, IsolationInv', OthersKept, [Next]_vars, reboots' = reboots,
           kpc \in {"user", "dispatch"}, kpc' \notin {"fork_copy", "fork_memory"},
           NEW c \in Pid, c = current, processes'[c].state # "P_FREE",
           \A p \in Pid \ {c} : processes[p].state = "P_FREE" => processes'[p].state = "P_FREE"
    PROVE  /\ Visible(c) /\ Visible(c)'
           /\ StateView' = [StateView EXCEPT ![c] = processes'[c].state]
           /\ RetView' = [RetView EXCEPT ![c] = processes'[c].rax]
           /\ \A p \in Pid \ {c} : ImageView'[p] = ImageView[p]
<1>1. Visible(c) /\ Visible(c)'
    BY Parts DEF Visible, Unborn, CurrentOK, HasTable
<1>2. ASSUME NEW p \in Pid \ {c}
      PROVE  /\ Visible(p)' <=> Visible(p)
             /\ Visible(p) => processes'[p] = processes[p]
             /\ MemoryOf(p)' = MemoryOf(p)
    <2>1. CASE Visible(p)
        BY <2>1, OthersSame
    <2>2. CASE ~Visible(p)
        <3>1. ~Visible(p)'
            BY <2>2 DEF Visible, Unborn
        <3>. QED  BY <2>2, <3>1 DEF MemoryOf
    <2>. QED  BY <2>1, <2>2
<1>3. \A p \in Pid : StateView'[p] = IF p = c THEN processes'[c].state ELSE StateView[p]
    BY <1>1, <1>2 DEF StateView
<1>4. \A p \in Pid : RetView'[p] = IF p = c THEN processes'[c].rax ELSE RetView[p]
    BY <1>1, <1>2 DEF RetView
<1>5. \A p \in Pid \ {c} : ImageView'[p] = ImageView[p]
    BY <1>2 DEF ImageView
<1>6. StateView' = [StateView EXCEPT ![c] = processes'[c].state]
    BY <1>3 DEF StateView
<1>7. RetView' = [RetView EXCEPT ![c] = processes'[c].rax]
    BY <1>4 DEF RetView
<1>. QED  BY <1>1, <1>5, <1>6, <1>7

\* A process whose page table and memory stay sees the same.
LEMMA SameMemory ==
    ASSUME mem' = mem, NEW p \in Pid, Visible(p), Visible(p)',
           processes'[p].pagetable = processes[p].pagetable
    PROVE  MemoryOf(p)' = MemoryOf(p)
BY DEF MemoryOf

\* exception() returns to a process that is still runnable.
LEMMA ReturnTo ==
    ASSUME NEW procs, NEW m, NEW pi, Return(procs, m, pi), procs[current].state = "P_RUNNABLE",
           kpc' # "panic"
    PROVE  /\ kpc' = "user" /\ current' = current /\ trap' = NoTrap
           /\ processes' = procs /\ mem' = m /\ pageinfo' = pi
BY DEF Return, ReturnFromException, run, Panic

\* The kernel answers with a value in %rax and changes nothing else.
LEMMA PlainAnswer ==
    ASSUME OwnershipInv, IsolationInv, IsolationInv', OthersKept, RunningInv, [Next]_vars,
           reboots' = reboots, kpc = "dispatch", kpc' # "panic", NEW rax,
           Return(SetRax(processes, current, rax), mem, pageinfo)
    PROVE  /\ Phase = "running" /\ Phase' = "running" /\ trap' = NoTrap /\ current' = current
           /\ StateView' = StateView /\ ImageView' = ImageView
           /\ RetView' = [RetView EXCEPT ![current] = rax]
<1>1. processes \in [Pid -> Processes] /\ processes[current].state = "P_RUNNABLE"
    BY Parts DEF RunningInv
<1>2. PICK c \in Pid : c = current
    BY Parts
<1>3. \A p \in Pid : /\ SetRax(processes, current, rax)[p].state = processes[p].state
                     /\ SetRax(processes, current, rax)[p].pagetable = processes[p].pagetable
                     /\ p = c => SetRax(processes, current, rax)[p].rax = rax
    BY <1>1, <1>2 DEF SetRax, Processes
<1>4. /\ kpc' = "user" /\ current' = current /\ trap' = NoTrap /\ mem' = mem
      /\ processes' = SetRax(processes, current, rax)
    BY <1>1, <1>2, <1>3, ReturnTo
<1>5. \A p \in Pid : /\ processes'[p].state = processes[p].state
                     /\ processes'[p].pagetable = processes[p].pagetable
                     /\ p = c => processes'[p].rax = rax
    BY <1>3, <1>4
<1>6. /\ Visible(c) /\ Visible(c)'
      /\ StateView' = [StateView EXCEPT ![c] = processes'[c].state]
      /\ RetView' = [RetView EXCEPT ![c] = processes'[c].rax]
      /\ \A p \in Pid \ {c} : ImageView'[p] = ImageView[p]
    <2>1. /\ kpc \in {"user", "dispatch"} /\ kpc' \notin {"fork_copy", "fork_memory"}
          /\ processes'[c].state # "P_FREE"
        BY <1>1, <1>2, <1>4, <1>5
    <2>. QED  BY <1>2, <1>5, <2>1, CurrentSteps
<1>7. StateView' = StateView
    <2>1. StateView[c] = processes'[c].state
        BY <1>5, <1>6 DEF StateView
    <2>. QED  BY <1>6, <2>1 DEF StateView
<1>8. ImageView' = ImageView
    <2>1. MemoryOf(c)' = MemoryOf(c)
        BY <1>4, <1>5, <1>6, SameMemory
    <2>2. ImageView'[c] = ImageView[c]
        BY <2>1 DEF ImageView
    <2>. QED  BY <1>6, <2>2 DEF ImageView
<1>9. Phase = "running" /\ Phase' = "running"
    BY <1>4 DEF Phase
<1>. QED  BY <1>2, <1>4, <1>5, <1>6, <1>7, <1>8, <1>9

\* sys_getpid, and the calls that fail.
LEMMA PlainAnswersSimulate ==
    ASSUME OwnershipInv, IsolationInv, IsolationInv', OthersKept, RunningInv, [Next]_vars,
           reboots' = reboots, kpc' # "panic",
           HandleGetpid \/ HandlePageAllocOOM \/ ForkNoSlot
    PROVE  Spaces!Getpid \/ Spaces!Fail
<1>1. CASE HandleGetpid
    <2>1. /\ Phase = "running" /\ Phase' = "running" /\ trap' = NoTrap /\ current' = current
          /\ StateView' = StateView /\ ImageView' = ImageView
          /\ RetView' = [RetView EXCEPT ![current] = current]
        BY <1>1, PlainAnswer DEF HandleGetpid
    <2>2. trap.int = "INT_SYS_GETPID"
        BY <1>1 DEF HandleGetpid
    <2>3. Spaces!Getpid
        BY <2>1, <2>2 DEF Spaces!Getpid, Spaces!Answer, Spaces!Returns, Spaces!NoCall, NoTrap,
                          StateView, ImageView, RetView
    <2>. QED  BY <2>3
<1>2. CASE HandlePageAllocOOM \/ ForkNoSlot
    <2>1. /\ Phase = "running" /\ Phase' = "running" /\ trap' = NoTrap /\ current' = current
          /\ StateView' = StateView /\ ImageView' = ImageView
          /\ RetView' = [RetView EXCEPT ![current] = FAILED]
        BY <1>2, PlainAnswer DEF HandlePageAllocOOM, ForkNoSlot
    <2>2. trap.int \in {"INT_SYS_PAGE_ALLOC", "INT_SYS_FORK"}
        BY <1>2 DEF HandlePageAllocOOM, ForkNoSlot
    <2>3. Spaces!Fail
        BY <2>1, <2>2 DEF Spaces!Fail, Spaces!Answer, Spaces!Returns, Spaces!NoCall, NoTrap,
                          StateView, ImageView, RetView, FAILED
    <2>. QED  BY <2>3
<1>. QED  BY <1>1, <1>2

\* A step that leaves memory, page tables, states and registers alone.
LEMMA QuietViews ==
    ASSUME mem' = mem, kpc \notin {"fork_copy", "fork_memory"}, kpc' \notin {"fork_copy", "fork_memory"},
           processes' = processes
    PROVE  StateView' = StateView /\ ImageView' = ImageView /\ RetView' = RetView
<1>1. \A p \in Pid : Visible(p)' <=> Visible(p)
    BY DEF Visible, Unborn
<1>2. \A p \in Pid : MemoryOf(p)' = MemoryOf(p)
    BY <1>1 DEF MemoryOf
<1>. QED  BY <1>1, <1>2 DEF StateView, ImageView, RetView

\* sys_yield and the timer: some runnable process runs next.
LEMMA YieldSimulates ==
    ASSUME OwnershipInv, IsolationInv, RunningInv, HandleYieldOrTimer, kpc' # "panic"
    PROVE  Spaces!Yield
<1>1. /\ kpc = "dispatch" /\ trap.int \in {"INT_SYS_YIELD", "INT_TIMER"} /\ trap' = NoTrap
      /\ mem' = mem /\ processes' = processes /\ schedule(processes, mem)
    BY DEF HandleYieldOrTimer
<1>2. current \in Runnable(processes)
    BY <1>1, Parts DEF Runnable, RunningInv
<1>3. kpc' = "user" /\ current' \in Runnable(processes)
    BY <1>1, <1>2 DEF schedule, run, Panic, Runnable
<1>4. StateView' = StateView /\ ImageView' = ImageView /\ RetView' = RetView
    BY <1>1, <1>3, QuietViews
<1>5. StateView[current'] = "P_RUNNABLE"
    BY <1>1, <1>3 DEF StateView, Runnable, Visible, Unborn
<1>6. Phase = "running" /\ Phase' = "running"
    BY <1>1, <1>3 DEF Phase
<1>. QED  BY <1>1, <1>4, <1>5, <1>6 DEF Spaces!Yield, Spaces!Answer, Spaces!NoCall, NoTrap,
                                        StateView, ImageView, RetView

\* A page fault breaks the process.
LEMMA BreakSimulates ==
    ASSUME OwnershipInv, IsolationInv, IsolationInv', OthersKept, [Next]_vars, reboots' = reboots,
           RunningInv, HandlePageFault, kpc' # "panic"
    PROVE  Spaces!Break
<1>. DEFINE broken == [processes EXCEPT ![current].state = "P_BROKEN"]
<1>1. /\ kpc = "dispatch" /\ trap.int = "INT_PAGEFAULT" /\ trap' = NoTrap
      /\ mem' = mem /\ processes' = broken /\ ReturnFromException(broken, mem)
    BY DEF HandlePageFault, Return
<1>2. processes \in [Pid -> Processes] /\ current \in Pid
    BY Parts
<1>3. PICK c \in Pid : c = current
    BY <1>2
<1>4. /\ broken[c].state = "P_BROKEN"
      /\ \A p \in Pid : /\ broken[p].pagetable = processes[p].pagetable
                        /\ broken[p].rax = processes[p].rax
                        /\ p # c => broken[p].state = processes[p].state
    BY <1>2, <1>3 DEF Processes
<1>. HIDE DEF broken
<1>5. schedule(broken, mem)
    BY <1>1, <1>3, <1>4 DEF ReturnFromException
<1>6. \/ kpc' = "idle" /\ current' = current /\ Runnable(broken) = {}
      \/ kpc' = "user" /\ current' \in Runnable(broken)
    BY <1>5 DEF schedule, run, Panic, Runnable
<1>7. /\ Visible(c) /\ Visible(c)'
      /\ StateView' = [StateView EXCEPT ![c] = processes'[c].state]
      /\ RetView' = [RetView EXCEPT ![c] = processes'[c].rax]
      /\ \A p \in Pid \ {c} : ImageView'[p] = ImageView[p]
    <2>1. /\ kpc \in {"user", "dispatch"} /\ kpc' \notin {"fork_copy", "fork_memory"}
          /\ processes'[c].state # "P_FREE"
          /\ \A p \in Pid \ {c} : processes[p].state = "P_FREE" => processes'[p].state = "P_FREE"
        BY <1>1, <1>4, <1>6
    <2>. QED  BY <1>3, <2>1, CurrentSteps
<1>8. StateView' = [StateView EXCEPT ![c] = "P_BROKEN"]
    BY <1>1, <1>4, <1>7
<1>9. RetView' = RetView
    <2>1. RetView[c] = processes'[c].rax
        BY <1>1, <1>4, <1>7 DEF RetView
    <2>. QED  BY <1>7, <2>1 DEF RetView
<1>10. ImageView' = ImageView
    <2>1. MemoryOf(c)' = MemoryOf(c)
        BY <1>1, <1>4, <1>7, SameMemory
    <2>2. ImageView'[c] = ImageView[c]
        BY <2>1 DEF ImageView
    <2>. QED  BY <1>7, <2>2 DEF ImageView
<1>11. \A p \in Pid : StateView'[p] = broken[p].state
    BY <1>1, <1>6 DEF StateView, Visible, Unborn
<1>12. \/ StateView'[current'] = "P_RUNNABLE"
       \/ (\A p \in Pid : StateView'[p] # "P_RUNNABLE") /\ current' = current
    BY <1>6, <1>11 DEF Runnable
<1>13. Phase = "running" /\ Phase' = "running"
    BY <1>1, <1>6 DEF Phase
<1>. QED  BY <1>1, <1>3, <1>8, <1>9, <1>10, <1>12, <1>13
          DEF Spaces!Break, Spaces!Answer, Spaces!NoCall, NoTrap, StateView, ImageView, RetView

\* A system call, a fault or an interrupt.
LEMMA ExceptionSimulates ==
    ASSUME OwnershipInv, IsolationInv, IsolationInv', OthersKept, [Next]_vars, reboots' = reboots,
           RunningInv, kpc = "user", kpc' # "panic", NEW int, int # "none", NEW rdi, NEW rax,
           exception(int, rdi, rax)
    PROVE  Spaces!Trap
<1>1. /\ kpc' = "dispatch" /\ trap' = [int |-> int, rdi |-> rdi] /\ mem' = mem
      /\ current' = current /\ processes' = [processes EXCEPT ![current].rax = rax]
    BY DEF exception
<1>2. /\ processes \in [Pid -> Processes] /\ processes[current].state = "P_RUNNABLE"
      /\ trap = NoTrap
    BY Parts DEF RunningInv
<1>3. PICK c \in Pid : c = current
    BY Parts
<1>4. \A p \in Pid : /\ processes'[p].state = processes[p].state
                     /\ processes'[p].pagetable = processes[p].pagetable
    BY <1>1, <1>2 DEF Processes
<1>5. /\ Visible(c) /\ Visible(c)'
      /\ StateView' = [StateView EXCEPT ![c] = processes'[c].state]
      /\ RetView' = [RetView EXCEPT ![c] = processes'[c].rax]
      /\ \A p \in Pid \ {c} : ImageView'[p] = ImageView[p]
    <2>1. /\ kpc \in {"user", "dispatch"} /\ kpc' \notin {"fork_copy", "fork_memory"}
          /\ processes'[c].state # "P_FREE"
        BY <1>1, <1>2, <1>3, <1>4
    <2>. QED  BY <1>3, <1>4, <2>1, CurrentSteps
<1>6. StateView' = StateView
    <2>1. StateView[c] = processes'[c].state
        BY <1>4, <1>5 DEF StateView
    <2>. QED  BY <1>5, <2>1 DEF StateView
<1>7. ImageView' = ImageView
    <2>1. MemoryOf(c)' = MemoryOf(c)
        BY <1>1, <1>4, <1>5, SameMemory
    <2>2. ImageView'[c] = ImageView[c]
        BY <2>1 DEF ImageView
    <2>. QED  BY <1>5, <2>2 DEF ImageView
<1>8. \A p \in Pid \ {c} : RetView'[p] = RetView[p]
    BY <1>5 DEF RetView
<1>9. trap = Spaces!NoCall /\ trap' # Spaces!NoCall
    BY <1>1, <1>2 DEF NoTrap, Spaces!NoCall
<1>10. Phase = "running" /\ Phase' = "running"
    BY <1>1 DEF Phase
<1>. QED  BY <1>1, <1>3, <1>6, <1>7, <1>8, <1>9, <1>10
          DEF Spaces!Trap, Spaces!OnlyAt, StateView, ImageView, RetView

\* A store changes memory that the process has, and maps nothing.
LEMMA StoreSimulates ==
    ASSUME OwnershipInv, IsolationInv, IsolationInv', OthersKept, [Next]_vars, RunningInv,
           NEW va \in TouchVAs, NEW i \in TouchIndexes, NEW w \in UserWords, UserStore(va, i, w)
    PROVE  Spaces!Store
<1>. DEFINE n == virtual_memory_lookup(mem, cr3, va).pn
<1>1. /\ pageinfo \in [PN -> PageInfo] /\ mem \in [PN -> Page] /\ processes \in [Pid -> Processes]
      /\ KernelIntact(mem, pageinfo) /\ CurrentOK /\ kpc = "user"
      /\ PTE_U \in virtual_memory_lookup(mem, cr3, va).perm
    BY Parts DEF UserStore, Executing, UserPerm
<1>2. PICK lev \in [PN -> Level], path \in [PN -> Path] :
        Placed(lev, path, mem, pageinfo) /\ RootsOK(lev, pageinfo, processes)
    BY Parts DEF PlacesInv
<1>3. cr3 \in PN /\ Root(lev, pageinfo, cr3, current)
    BY <1>1, <1>2, CurrentRoot DEF CurrentOK
<1>4. va \in VA /\ lev[cr3] = 0
    BY <1>3, UserAssumption DEF Root
<1>5. n \in PN /\ (n = CONSOLE \/ lev[n] = UserLevel)
    BY <1>1, <1>2, <1>3, <1>4, LookupPlaced
<1>6. \A u \in PN : u # n => mem'[u] = mem[u]
    BY <1>1 DEF UserStore
<1>7. UNCHANGED <<processes, current, kpc, trap, reboots>>
    BY DEF UserStore
<1>. HIDE DEF n
<1>8. lev[n] \notin 0 .. 3
    <2>1. CASE n = CONSOLE
        <3>1. lev[n] = NoLevel
            BY <1>1, <1>2, <2>1, LevelsApart, LayoutAssumption DEF Placed
        <3>. QED  BY <3>1 DEF NoLevel
    <2>2. CASE lev[n] = UserLevel
        BY <2>2 DEF UserLevel
    <2>. QED  BY <1>5, <2>1, <2>2
<1>9. SeesSame(lev, mem, mem')
    BY <1>1, <1>2, <1>6, <1>8, SameTables
<1>10. PICK c \in Pid : c = current
    BY Parts
<1>11. /\ Visible(c) /\ Visible(c)'
       /\ StateView' = [StateView EXCEPT ![c] = processes'[c].state]
       /\ RetView' = [RetView EXCEPT ![c] = processes'[c].rax]
       /\ \A p \in Pid \ {c} : ImageView'[p] = ImageView[p]
    <2>1. /\ kpc \in {"user", "dispatch"} /\ kpc' \notin {"fork_copy", "fork_memory"}
          /\ processes'[c].state # "P_FREE"
          /\ \A p \in Pid \ {c} : processes[p].state = "P_FREE" => processes'[p].state = "P_FREE"
        BY <1>1, <1>7, <1>10 DEF CurrentOK, HasTable
    <2>. QED  BY <1>7, <1>10, <2>1, CurrentSteps
<1>12. StateView' = StateView /\ RetView' = RetView
    <2>1. StateView[c] = processes'[c].state /\ RetView[c] = processes'[c].rax
        BY <1>7, <1>11 DEF StateView, RetView
    <2>2. StateView' = StateView
        BY <1>11, <2>1 DEF StateView
    <2>3. RetView' = RetView
        BY <1>11, <2>1 DEF RetView
    <2>. QED  BY <2>2, <2>3
<1>13. \A a \in UserVA : (ImageView'[c][a] = {}) = (ImageView[c][a] = {})
    <2>. SUFFICES ASSUME NEW a \in UserVA PROVE (ImageView'[c][a] = {}) = (ImageView[c][a] = {})
        OBVIOUS
    <2>1. a \in VA
        BY LayoutTypes, SizeAssumption DEF UserVA, VA
    <2>2. processes[c].pagetable = cr3 /\ processes'[c].pagetable = cr3
        BY <1>1, <1>7, <1>10 DEF CurrentOK
    <2>3. virtual_memory_lookup(mem', cr3, a) = virtual_memory_lookup(mem, cr3, a)
        BY <1>3, <1>4, <1>9, <2>1 DEF SeesSame
    <2>4. /\ (MemoryOf(c)[a] = {}) <=> PTE_U \notin virtual_memory_lookup(mem, cr3, a).perm
          /\ (MemoryOf(c)'[a] = {}) <=> PTE_U \notin virtual_memory_lookup(mem', cr3, a).perm
        BY <1>11, <2>2 DEF MemoryOf
    <2>5. ImageView'[c] = MemoryOf(c)' /\ ImageView[c] = MemoryOf(c)
        BY DEF ImageView
    <2>. QED  BY <2>3, <2>4, <2>5
<1>14. Phase = "running" /\ Phase' = "running" /\ trap = Spaces!NoCall
    BY <1>1, <1>7 DEF Phase, RunningInv, NoTrap, Spaces!NoCall
<1>. QED  BY <1>7, <1>10, <1>11, <1>12, <1>13, <1>14
          DEF Spaces!Store, Spaces!OnlyAt, StateView, ImageView, RetView

\* Whatever the running process does.
LEMMA UserSimulates ==
    ASSUME OwnershipInv, IsolationInv, IsolationInv', OthersKept, [Next]_vars, RunningInv,
           kpc' # "panic", User \/ Timer
    PROVE  Spaces!Store \/ Spaces!Trap
<1>1. CASE \E va \in TouchVAs, i \in TouchIndexes, w \in UserWords : UserStore(va, i, w)
    BY <1>1, StoreSimulates
<1>2. ASSUME kpc = "user", NEW int, int # "none", NEW rdi, NEW rax, exception(int, rdi, rax)
      PROVE  Spaces!Trap
    <2>1. reboots' = reboots
        BY <1>2 DEF exception
    <2>. QED  BY <1>2, <2>1, ExceptionSimulates
<1>3. CASE \E int \in Syscalls, rax \in UserRax : Syscall(int, rax)
    <2>1. "none" \notin Syscalls
        BY UserAssumption
    <2>. QED  BY <1>2, <1>3, <2>1 DEF Syscall, Executing
<1>4. CASE \E addr \in AllocVAs, rax \in UserRax : SyscallPageAlloc(addr, rax)
    BY <1>2, <1>4 DEF SyscallPageAlloc, Executing
<1>5. CASE \E va \in TouchVAs, rax \in UserRax : PageFault(va, rax)
    BY <1>2, <1>5 DEF PageFault
<1>6. CASE Timer
    BY <1>2, <1>6 DEF Timer, TimerInterrupt
<1>. QED  BY <1>1, <1>3, <1>4, <1>5, <1>6 DEF User

\* The machine stops.
LEMMA HaltSimulates ==
    ASSUME HandlePanic \/ Poweroff
    PROVE  Spaces!Halt
<1>1. /\ kpc \in {"dispatch", "idle", "panic"} /\ kpc' \in {"panic", "off"} /\ trap' = NoTrap
      /\ UNCHANGED <<mem, processes, current>>
    BY DEF HandlePanic, Poweroff, Panic
<1>2. StateView' = StateView /\ ImageView' = ImageView /\ RetView' = RetView
    BY <1>1, QuietViews
<1>3. Phase' = "down"
    BY <1>1 DEF Phase
<1>. QED  BY <1>1, <1>2, <1>3 DEF Spaces!Halt, Spaces!NoCall, NoTrap, StateView, ImageView, RetView

\* The machine starts again.
LEMMA RestartSimulates ==
    ASSUME NEW cmd, SoftReboot(cmd)
    PROVE  Spaces!Restart
<1>1. kpc' = "setup" /\ trap' = NoTrap /\ current' = current /\ processes' = BootProcesses
    BY DEF SoftReboot
<1>2. \A p \in Pid : ~Visible(p)'
    BY <1>1 DEF Visible, BootProcesses, FreeProcess
<1>3. \A p \in Pid : MemoryOf(p)' = [a \in UserVA |-> {}]
    BY <1>2 DEF MemoryOf
<1>4. /\ StateView' = [p \in Pid |-> "P_FREE"] /\ RetView' = [p \in Pid |-> 0]
      /\ ImageView' = [p \in Pid |-> [a \in UserVA |-> {}]]
    BY <1>2, <1>3 DEF StateView, RetView, ImageView
<1>5. Phase' = "booting"
    BY <1>1 DEF Phase
<1>. QED  BY <1>1, <1>4, <1>5 DEF Spaces!Restart, Spaces!NoMemory, Spaces!NoCall, NoTrap,
                                   StateView, ImageView, RetView

\* What a process with page table pt has at address a.
HeldAt(m, pt, a) ==
    LET vam == virtual_memory_lookup(m, pt, a)
    IN  IF PTE_U \in vam.perm THEN {m[vam.pn]} ELSE {}

\* sys_page_alloc gives the process a page where it had none.
LEMMA PageAllocSimulates ==
    ASSUME OwnershipInv, IsolationInv, IsolationInv', OthersKept, [Next]_vars, reboots' = reboots,
           RunningInv, CountInv, MemoryForTables, kpc' # "panic", HandlePageAlloc
    PROVE  Spaces!PageAlloc
<1>. DEFINE n == FreeAddr(pageinfo)
            pt == processes[current].pagetable
            map == virtual_memory_map(Assign(pageinfo, n, current), mem, pt, trap.rdi,
                                      n, RWU, current, TRUE)
            procs == SetRax(processes, current, 0)
<1>1. /\ pageinfo \in [PN -> PageInfo] /\ mem \in [PN -> Page] /\ TypeOK
      /\ processes \in [Pid -> Processes] /\ KernelIntact(mem, pageinfo) /\ CurrentOK
      /\ kpc = "dispatch" /\ trap.int = "INT_SYS_PAGE_ALLOC" /\ n # NULL
      /\ processes[current].state = "P_RUNNABLE"
    BY Parts DEF HandlePageAlloc, RunningInv
<1>2. PICK lev \in [PN -> Level], path \in [PN -> Path] :
        Forest(lev, path, mem, pageinfo) /\ RootsUsed(lev, pageinfo, processes, kpc, job)
    BY <1>1 DEF CountInv, ForestInv
<1>3. /\ current \in Pid \ {0} /\ pt \in PN \ {NULL}
      /\ Root(lev, pageinfo, pt, current) /\ Placed(lev, path, mem, pageinfo)
    <2>1. current \in Pid \ {0} /\ pt \in PN \ {NULL}
        BY <1>1, Parts DEF CurrentOK, HasTable, TypeOK, ProcessZeroUnused, Processes
    <2>. QED  BY <1>1, <1>2, <2>1 DEF RootsUsed, UsesRoot, Forest
<1>4. n \in PN /\ pageinfo[n].refcount = 0 /\ pageinfo[NULL].refcount # 0
    BY <1>1, FreeAddrType, LayoutAssumption DEF IsFree, KernelIntact
<1>5. /\ trap.rdi \in VA /\ trap.rdi >= PROC_START /\ RWU \in SUBSET Flags /\ PTE_P \in RWU
      /\ trap.rdi \in UserVA /\ PTE_U \in RWU
    <2>1. trap.rdi \in VA /\ trap.rdi >= PROC_START
        BY <1>1 DEF CurrentOK, TypeOK
    <2>2. trap.rdi \in UserVA
        BY <2>1, LayoutTypes, SizeAssumption DEF UserVA, VA
    <2>. QED  BY <2>1, <2>2 DEF RWU, Flags
<1>6. get_free_addr(pageinfo, current).pn = n
      /\ get_free_addr(pageinfo, current).pageinfo = Assign(pageinfo, n, current)
    BY <1>1 DEF get_free_addr, Give
<1>7. map.res = "ok" => Return(procs, map.mem, map.pageinfo)
    BY <1>6 DEF HandlePageAlloc
<1>8. map.res # "fail"
    BY <1>1 DEF MemoryForTables, Mappable
<1>9. virtual_memory_lookup(mem, pt, trap.rdi) = NoMapping
    BY <1>1 DEF CountInv, UnmappedInv
<1>. HIDE DEF n, pt
<1>10. MappedFresh(current, lev, path, pageinfo, mem, map, pt, trap.rdi, n, RWU)
    BY <1>1, <1>3, <1>4, <1>5, GivenAndMapped
<1>11. map = virtual_memory_map(Assign(pageinfo, n, current), mem, pt, trap.rdi,
                                n, RWU, current, TRUE)
    OBVIOUS
<1>. HIDE DEF map
<1>12. map.res = "ok"
    <2>1. MapEnds(Assign(pageinfo, n, current), mem, pt, trap.rdi, TRUE, map)
        BY <1>1, <1>3, <1>4, <1>5, <1>11, GivenMapEnds
    <2>. QED  BY <1>8, <2>1 DEF MapEnds
<1>13. PICK c \in Pid : c = current
    BY <1>3
<1>14. \A p \in Pid : /\ procs[p].pagetable = processes[p].pagetable
                      /\ procs[p].state = processes[p].state
                      /\ p = c => procs[p].rax = 0
    BY <1>1, <1>13 DEF SetRax, Processes
<1>. HIDE DEF procs
<1>15. /\ kpc' = "user" /\ current' = current /\ trap' = NoTrap
       /\ processes' = procs /\ mem' = map.mem /\ pageinfo' = map.pageinfo
    BY <1>1, <1>3, <1>7, <1>12, <1>14, ReturnTo
<1>16. /\ Visible(c) /\ Visible(c)'
       /\ StateView' = [StateView EXCEPT ![c] = processes'[c].state]
       /\ RetView' = [RetView EXCEPT ![c] = processes'[c].rax]
       /\ \A p \in Pid \ {c} : ImageView'[p] = ImageView[p]
    <2>1. /\ kpc \in {"user", "dispatch"} /\ kpc' \notin {"fork_copy", "fork_memory"}
          /\ processes'[c].state # "P_FREE"
          /\ \A p \in Pid \ {c} : processes[p].state = "P_FREE" => processes'[p].state = "P_FREE"
        BY <1>1, <1>13, <1>14, <1>15
    <2>. QED  BY <1>13, <2>1, CurrentSteps
<1>17. StateView' = StateView
    <2>1. StateView[c] = processes'[c].state
        BY <1>14, <1>15, <1>16 DEF StateView
    <2>. QED  BY <1>16, <2>1 DEF StateView
<1>18. RetView' = [RetView EXCEPT ![c] = 0]
    BY <1>14, <1>15, <1>16
<1>19. processes[c].pagetable = pt /\ processes'[c].pagetable = pt
    BY <1>13, <1>14, <1>15 DEF pt
<1>20. \A a \in UserVA : MemoryOf(c)[a] = HeldAt(mem, pt, a) /\ MemoryOf(c)'[a] = HeldAt(mem', pt, a)
    BY <1>16, <1>19 DEF MemoryOf, HeldAt
<1>21. MemoryOf(c)[trap.rdi] = {} /\ MemoryOf(c)'[trap.rdi] # {}
    <2>1. virtual_memory_lookup(mem', pt, trap.rdi) = [pn |-> n, perm |-> RWU]
        BY <1>10, <1>12, <1>15 DEF MappedFresh
    <2>2. HeldAt(mem, pt, trap.rdi) = {} /\ HeldAt(mem', pt, trap.rdi) # {}
        BY <1>5, <1>9, <2>1 DEF NoMapping, HeldAt
    <2>. QED  BY <1>5, <1>20, <2>2
<1>22. ASSUME NEW a \in UserVA \ {trap.rdi} PROVE MemoryOf(c)'[a] = MemoryOf(c)[a]
    <2>1. lev[pt] = 0 /\ a \in VA
        BY <1>3, LayoutTypes, SizeAssumption DEF Root, UserVA, VA
    <2>2. virtual_memory_lookup(mem', pt, a) = virtual_memory_lookup(mem, pt, a)
        BY <1>3, <1>10, <1>15, <2>1 DEF MappedFresh, MapSees
    <2>3. PICK l, q : Built(current, lev, path, pageinfo, mem, l, q, map.pageinfo, mem')
        BY <1>10, <1>15 DEF MappedFresh
    <2>4. \A vam : vam = virtual_memory_lookup(mem, pt, a) /\ PTE_U \in vam.perm =>
            SamePage(mem, mem', vam.pn)
        BY <1>1, <1>3, <2>1, <2>3, UserPagesStay, Zenon
    <2>5. HeldAt(mem', pt, a) = HeldAt(mem, pt, a)
        BY <2>2, <2>4 DEF SamePage, HeldAt
    <2>. QED  BY <1>20, <2>5
<1>23. /\ ImageView[c][trap.rdi] = {} /\ ImageView'[c][trap.rdi] # {}
       /\ \A b \in UserVA \ {trap.rdi} : ImageView'[c][b] = ImageView[c][b]
    BY <1>21, <1>22 DEF ImageView
<1>24. Phase = "running" /\ Phase' = "running"
    BY <1>1, <1>15 DEF Phase
<1>. QED  BY <1>1, <1>13, <1>15, <1>16, <1>17, <1>18, <1>23, <1>24
          DEF Spaces!PageAlloc, Spaces!Answer, Spaces!Returns, Spaces!OnlyAt, Spaces!NoCall, NoTrap,
              StateView, ImageView, RetView

\* fork() returns: the child is a copy of its parent.
LEMMA ForkSimulates ==
    ASSUME OwnershipInv, IsolationInv, RunningInv, CopiedInv, kpc' # "panic", ForkEnd
    PROVE  \E k \in Pid : Spaces!Fork(k)
<1>. DEFINE parent == SetRax(processes, current, job.pid)
            both == SetRax(parent, job.pid, 0)
<1>1. /\ processes \in [Pid -> Processes] /\ JobOK /\ kpc = "fork_memory"
      /\ job.va = MEMSIZE_VIRTUAL /\ trap.int = "INT_SYS_FORK"
      /\ processes[current].state = "P_RUNNABLE" /\ processes[job.pid].state = "P_RUNNABLE"
    BY Parts DEF ForkEnd, RunningInv
<1>2. PICK c \in Pid : c = current
    BY Parts
<1>3. PICK k \in Pid : k = job.pid
    BY Parts DEF TypeOK
<1>4. k # c /\ processes[k].pagetable = job.pt /\ k \in Int
    BY <1>1, <1>2, <1>3, SizeAssumption DEF JobOK, Pid
<1>5. \A p \in Pid : /\ both[p].pagetable = processes[p].pagetable
                     /\ both[p].state = processes[p].state
                     /\ p \notin {c, k} => both[p] = processes[p]
                     /\ p = c => both[p].rax = k
                     /\ p = k => both[p].rax = 0
    <2>1. parent \in [Pid -> Processes]
        BY <1>1, <1>2, <1>3, <1>4 DEF SetRax, Processes
    <2>2. \A p \in Pid : /\ parent[p].pagetable = processes[p].pagetable
                         /\ parent[p].state = processes[p].state
                         /\ p # c => parent[p] = processes[p]
                         /\ p = c => parent[p].rax = k
        BY <1>1, <1>2, <1>3 DEF SetRax, Processes
    <2>. HIDE DEF parent
    <2>3. \A p \in Pid : /\ both[p].pagetable = parent[p].pagetable
                         /\ both[p].state = parent[p].state
                         /\ p # k => both[p] = parent[p]
                         /\ p = k => both[p].rax = 0
        BY <2>1, <1>3 DEF SetRax, Processes
    <2>. HIDE DEF both
    <2>. QED  BY <1>4, <2>2, <2>3
<1>6. Return(both, mem, pageinfo)
    BY DEF ForkEnd
<1>. HIDE DEF both
<1>7. kpc' = "user" /\ current' = current /\ trap' = NoTrap /\ processes' = both /\ mem' = mem
    BY <1>1, <1>2, <1>5, <1>6, ReturnTo
<1>8. Unborn = {k} /\ Unborn' = {}
    BY <1>1, <1>3, <1>7 DEF Unborn
<1>9. /\ ~Visible(k) /\ Visible(k)' /\ Visible(c) /\ Visible(c)'
      /\ \A p \in Pid \ {k} : Visible(p)' <=> Visible(p)
    BY <1>1, <1>2, <1>3, <1>4, <1>5, <1>7, <1>8 DEF Visible
<1>10. StateView[k] = "P_FREE"
    BY <1>9 DEF StateView
<1>11. StateView' = [StateView EXCEPT ![k] = "P_RUNNABLE"]
    <2>1. \A p \in Pid : StateView'[p] = IF p = k THEN "P_RUNNABLE" ELSE StateView[p]
        BY <1>1, <1>3, <1>5, <1>7, <1>9 DEF StateView
    <2>. QED  BY <2>1 DEF StateView
<1>12. RetView' = [RetView EXCEPT ![c] = k, ![k] = 0]
    <2>1. \A p \in Pid : RetView'[p] = IF p = k THEN 0 ELSE IF p = c THEN k ELSE RetView[p]
        BY <1>4, <1>5, <1>7, <1>9 DEF RetView
    <2>. QED  BY <1>4, <2>1 DEF RetView
<1>13. \A p \in Pid \ {k} : MemoryOf(p)' = MemoryOf(p)
    <2>. SUFFICES ASSUME NEW p \in Pid \ {k} PROVE MemoryOf(p)' = MemoryOf(p)
        OBVIOUS
    <2>1. processes'[p].pagetable = processes[p].pagetable /\ (Visible(p)' <=> Visible(p))
        BY <1>5, <1>7, <1>9
    <2>. QED  BY <1>7, <2>1 DEF MemoryOf
<1>14. MemoryOf(k)' = MemoryOf(c)
    <2>1. ASSUME NEW a \in UserVA PROVE HeldAt(mem, job.pt, a) = HeldAt(mem, processes[c].pagetable, a)
        <3>1. a < job.va
            BY <1>1, LayoutTypes, SizeAssumption DEF UserVA
        <3>2. SameAt(mem, processes[c].pagetable, mem, job.pt, a)
            BY <1>1, <1>2, <3>1 DEF CopiedInv
        <3>. QED  BY <3>2 DEF SameAt, HeldAt
    <2>2. processes'[k].pagetable = job.pt
        BY <1>4, <1>5, <1>7
    <2>3. MemoryOf(c) = [a \in UserVA |-> HeldAt(mem, processes[c].pagetable, a)]
        BY <1>9 DEF MemoryOf, HeldAt
    <2>4. MemoryOf(k)' = [a \in UserVA |-> HeldAt(mem, job.pt, a)]
        BY <1>7, <1>9, <2>2 DEF MemoryOf, HeldAt
    <2>. QED  BY <2>1, <2>3, <2>4
<1>15. ImageView' = [ImageView EXCEPT ![k] = ImageView[c]]
    <2>1. \A p \in Pid : ImageView'[p] = IF p = k THEN ImageView[c] ELSE ImageView[p]
        BY <1>13, <1>14 DEF ImageView
    <2>. QED  BY <2>1 DEF ImageView
<1>16. Phase = "running" /\ Phase' = "running"
    BY <1>1, <1>7 DEF Phase
<1>17. Spaces!Fork(k)
    BY <1>1, <1>2, <1>3, <1>7, <1>10, <1>11, <1>12, <1>15, <1>16
    DEF Spaces!Fork, Spaces!Answer, Spaces!NoCall, NoTrap, StateView, ImageView, RetView
<1>. QED  BY <1>17

\* process_setup makes its process runnable, and the last one starts process 1.
LEMMA LoadSimulates ==
    ASSUME OwnershipInv, IsolationInv, IsolationInv', OthersKept, kpc' # "panic", SetupStack
    PROVE  \E k \in Pid : Spaces!Load(k)
<1>. DEFINE ready == [state |-> "P_RUNNABLE", pagetable |-> processes[job.pid].pagetable,
                      rip |-> Segments[Loading][1], rax |-> 0]
            procs == [processes EXCEPT ![job.pid] = ready]
<1>1. /\ processes \in [Pid -> Processes] /\ JobOK /\ kpc = "load" /\ KernelIntact(mem, pageinfo)
    BY Parts DEF SetupStack
<1>2. PICK k \in Pid : k = job.pid
    BY Parts DEF TypeOK
<1>3. /\ processes' = procs /\ UNCHANGED <<trap, reboots>>
      /\ \/ kpc' = "setup" /\ current' = current
         \/ \E m : run(procs, m, 1)
    BY Zenon DEF SetupStack, Panic
<1>4. /\ procs[k].state = "P_RUNNABLE"
      /\ \A p \in Pid \ {k} : procs[p] = processes[p]
    BY <1>1, <1>2
<1>. HIDE DEF procs
<1>5. \/ kpc' = "setup" /\ current' = current
      \/ kpc' = "user" /\ current' = 1 /\ processes'[1].state = "P_RUNNABLE"
    BY <1>3 DEF run, Panic
<1>6. Unborn = {} /\ Unborn' = {}
    BY <1>1, <1>5 DEF Unborn
<1>7. ~Visible(k)
    <2>1. k >= job.pid
        BY <1>2, SizeAssumption DEF Pid
    <2>. QED  BY <1>1, <2>1 DEF JobOK, Visible
<1>8. ASSUME NEW p \in Pid \ {k}
      PROVE  /\ Visible(p)' <=> Visible(p)
             /\ processes'[p] = processes[p]
             /\ MemoryOf(p)' = MemoryOf(p)
    <2>1. (Visible(p)' <=> Visible(p)) /\ processes'[p] = processes[p]
        BY <1>3, <1>4, <1>6 DEF Visible
    <2>2. CASE Visible(p)
        <3>1. p \in Pid \ Writers
            BY <1>1, <2>2, VisibleNotWriters DEF Building
        <3>2. \A t \in PN : Owns(pageinfo, p, t) => mem'[t] = mem[t]
            BY <1>1, <3>1, OwnPagesKept
        <3>3. Visible(p)' /\ processes'[p].pagetable = processes[p].pagetable
            BY <2>1, <2>2
        <3>4. MemoryOf(p)' = MemoryOf(p)
            BY <2>2, <3>2, <3>3, MemoryKept
        <3>. QED  BY <2>1, <3>4
    <2>3. CASE ~Visible(p)
        BY <2>1, <2>3 DEF MemoryOf
    <2>. QED  BY <2>2, <2>3
<1>9. StateView[k] = "P_FREE"
    BY <1>7 DEF StateView
<1>10. StateView' = [StateView EXCEPT ![k] = "P_RUNNABLE"]
    <2>1. Visible(k)'
        BY <1>3, <1>4, <1>6 DEF Visible
    <2>2. \A p \in Pid : StateView'[p] = IF p = k THEN "P_RUNNABLE" ELSE StateView[p]
        BY <1>3, <1>4, <1>8, <2>1 DEF StateView
    <2>. QED  BY <2>2 DEF StateView
<1>11. \A p \in Pid \ {k} : ImageView'[p] = ImageView[p] /\ RetView'[p] = RetView[p]
    BY <1>8 DEF ImageView, RetView
<1>12. /\ Phase = "booting"
       /\ \/ Phase' = Phase /\ current' = current
          \/ Phase' = "running" /\ StateView'[current'] = "P_RUNNABLE"
    <2>1. CASE kpc' = "setup" /\ current' = current
        BY <1>1, <2>1 DEF Phase
    <2>2. CASE kpc' = "user" /\ current' = 1 /\ processes'[1].state = "P_RUNNABLE"
        <3>1. 1 \in Pid
            BY SizeAssumption DEF Pid
        <3>2. StateView'[1] = "P_RUNNABLE"
            BY <1>6, <2>2, <3>1 DEF StateView, Visible
        <3>. QED  BY <1>1, <2>2, <3>2 DEF Phase
    <2>. QED  BY <1>5, <2>1, <2>2
<1>13. Spaces!Load(k)
    BY <1>3, <1>9, <1>10, <1>11, <1>12
    DEF Spaces!Load, Spaces!OnlyAt, StateView, ImageView, RetView
<1>. QED  BY <1>13

-----------------------------------------------------------------------------
(* The kernel implements address spaces *)

\* Only the keyboard reboots the machine.
LEMMA NoReboot ==
    ASSUME Setup \/ User \/ Timer \/ Handle
    PROVE  reboots' = reboots
<1>1. CASE Setup
    BY <1>1, Zenon DEF Setup, ProcessSetup, CopyMapping, CopyReturn, ProgramLoadSegment, SetupStack
<1>2. CASE User \/ Timer
    BY <1>2 DEF User, Timer, UserStore, Syscall, SyscallPageAlloc, TimerInterrupt, PageFault, exception
<1>3. CASE HandlePanic \/ HandleGetpid \/ HandleYieldOrTimer \/ HandlePageFault \/ HandlePageAllocOOM
    BY <1>3, Zenon DEF HandlePanic, HandleGetpid, HandleYieldOrTimer, HandlePageFault, HandlePageAllocOOM
<1>4. CASE HandlePageAlloc \/ ForkNoSlot \/ ForkBegin \/ ForkCopyPage \/ ForkEnd
    BY <1>4, Zenon DEF HandlePageAlloc, ForkNoSlot, ForkBegin, ForkCopyPage, ForkEnd
<1>. QED  BY <1>1, <1>2, <1>3, <1>4 DEF Handle

\* What happens while the kernel is well.
LEMMA WellSimulates ==
    ASSUME OwnershipInv, IsolationInv, IsolationInv', OthersKept, [Next]_vars, reboots' = reboots,
           LiveInv, LiveInv', CountInv, RunningInv, CopiedInv, MemoryForTables, MemoryForFork,
           Setup \/ User \/ Timer \/ Handle, ~HandlePanic
    PROVE  [Spaces!Next]_(Spaces!avars)
<1>1. kpc' # "panic" /\ job.pid \in Pid
    BY Parts DEF LiveInv, NoPanic, TypeOK
<1>2. CASE ProcessSetup \/ CopyMapping \/ CopyReturn \/ ProgramLoadSegment
    <2>1. /\ kpc \in {"setup"} \cup Building /\ Phase' = Phase
          /\ UNCHANGED <<current, trap, reboots>>
          /\ \A p \in Pid : Visible(p)' <=> Visible(p)
          /\ \A p \in Pid : Visible(p) => processes'[p] = processes[p]
        BY <1>1, <1>2, LoopStep
    <2>2. UNCHANGED Spaces!avars
        BY <2>1, LoopsUnseen
    <2>. QED  BY <2>2
<1>3. CASE SetupStack
    <2>1. \E k \in Pid : Spaces!Load(k)
        BY <1>1, <1>3, LoadSimulates
    <2>. QED  BY <2>1 DEF Spaces!Next
<1>4. CASE User \/ Timer
    <2>1. Spaces!Store \/ Spaces!Trap
        BY <1>1, <1>4, UserSimulates
    <2>. QED  BY <2>1 DEF Spaces!Next
<1>5. CASE HandleGetpid \/ HandlePageAllocOOM \/ ForkNoSlot
    <2>1. Spaces!Getpid \/ Spaces!Fail
        BY <1>1, <1>5, PlainAnswersSimulate
    <2>. QED  BY <2>1 DEF Spaces!Next
<1>6. CASE HandleYieldOrTimer
    <2>1. Spaces!Yield
        BY <1>1, <1>6, YieldSimulates
    <2>. QED  BY <2>1 DEF Spaces!Next
<1>7. CASE HandlePageFault
    <2>1. Spaces!Break
        BY <1>1, <1>7, BreakSimulates
    <2>. QED  BY <2>1 DEF Spaces!Next
<1>8. CASE HandlePageAlloc
    <2>1. Spaces!PageAlloc
        BY <1>1, <1>8, PageAllocSimulates
    <2>. QED  BY <2>1 DEF Spaces!Next
<1>9. CASE ForkBegin
    <2>1. UNCHANGED Spaces!avars
        BY <1>9, ForkBeginUnseen
    <2>. QED  BY <2>1
<1>10. CASE ForkCopyPage
    <2>1. UNCHANGED Spaces!avars
        BY <1>10, ForkCopyPageUnseen
    <2>. QED  BY <2>1
<1>11. CASE ForkEnd
    <2>1. \E k \in Pid : Spaces!Fork(k)
        BY <1>1, <1>11, ForkSimulates
    <2>. QED  BY <2>1 DEF Spaces!Next
<1>. QED  BY <1>2, <1>3, <1>4, <1>5, <1>6, <1>7, <1>8, <1>9, <1>10, <1>11 DEF Setup, Handle

\* Every step of the kernel and of processes is one of AddressSpaces, or
\* changes nothing there.
LEMMA NextSimulates ==
    ASSUME OwnershipInv, IsolationInv, BootMemory, SpacesInv, MemoryForTables, MemoryForFork,
           [Next]_vars
    PROVE  [Spaces!Next]_(Spaces!avars)
<1>1. IsolationInv' /\ (reboots' # reboots \/ OthersKept)
    BY NextIsolation
<1>2. CASE UNCHANGED vars
    <2>1. UNCHANGED <<mem, processes, kpc, current, trap, job>>
        BY <1>2 DEF vars
    <2>2. Phase' = Phase /\ \A p \in Pid : Visible(p)' <=> Visible(p)
        BY <2>1 DEF Phase, Visible, Unborn
    <2>3. \A p \in Pid : MemoryOf(p)' = MemoryOf(p)
        BY <2>1, <2>2 DEF MemoryOf
    <2>4. UNCHANGED Spaces!avars
        BY <2>1, <2>2, <2>3, NobodyNotices
    <2>. QED  BY <2>4
<1>3. CASE HandlePanic \/ Poweroff
    <2>1. Spaces!Halt
        BY <1>3, HaltSimulates
    <2>. QED  BY <2>1 DEF Spaces!Next
<1>4. CASE \E cmd \in Commands : SoftReboot(cmd)
    <2>1. Spaces!Restart
        BY <1>4, RestartSimulates
    <2>. QED  BY <2>1 DEF Spaces!Next
<1>5. CASE (Setup \/ User \/ Timer \/ Handle) /\ ~HandlePanic
    <2>1. kpc \notin {"panic", "off"}
        BY <1>5, StepsBegin
    <2>2. LiveInv /\ CountInv /\ RunningInv /\ CopiedInv
        BY <2>1 DEF SpacesInv
    <2>3. LiveInv'
        BY <1>5, <2>2, LivesOn
    <2>4. reboots' = reboots /\ OthersKept
        BY <1>1, <1>5, NoReboot
    <2>. QED  BY <1>1, <1>5, <2>2, <2>3, <2>4, WellSimulates
<1>. QED  BY <1>2, <1>3, <1>4, <1>5 DEF Next, Keyboard, Spin

\* The kernel implements AddressSpaces, for every layout, every number of pages
\* and processes and every user program that asks sys_page_alloc only for
\* pages that it does not have: processes have private memory, fork() copies
\* it, system calls are atomic, and nothing else changes what a process sees,
\* as long as fork() does not run out of memory and a page that is found can
\* be mapped.
THEOREM KernelImplementsAddressSpaces ==
    ASSUME RemapVAs = {}
    PROVE  Spec /\ [](MemoryForTables /\ MemoryForFork) => ImplementsAddressSpaces
<1>1. Init /\ IsolationInv => SpacesInv
    <2>. SUFFICES ASSUME Init, IsolationInv PROVE SpacesInv
        OBVIOUS
    <2>1. AtBoot /\ trap = NoTrap /\ kpc = "setup"
        BY DEF Init, AtBoot, NoJob
    <2>. QED  BY <2>1, BootLives, BootCounts DEF SpacesInv, RunningInv, CopiedInv
<1>2. OwnershipInv /\ IsolationInv /\ BootMemory /\ SpacesInv /\ MemoryForTables /\ MemoryForFork
        /\ [Next]_vars /\ IsolationInv' => SpacesInv'
    BY NextSpaces
<1>3. OwnershipInv /\ IsolationInv /\ BootMemory /\ SpacesInv /\ MemoryForTables /\ MemoryForFork
        /\ [Next]_vars => [Spaces!Next]_(Spaces!avars)
    BY NextSimulates
<1>4. Init => Spaces!Init
    BY InitSpaces
<1>. QED  BY <1>1, <1>2, <1>3, <1>4, IsolationInvariant, PTL
          DEF Spec, ImplementsAddressSpaces, Spaces!Spec

-----------------------------------------------------------------------------
(* Dumps *)

\* Page table pt has a page for users where programs begin.
HasStart(m, pt) == PTE_U \in virtual_memory_lookup(m, pt, PROC_START).perm

\* What the theorem asks of programs: those of the commands are linked to
\* PROC_START_ADDR, as p-fork and p-forkexit are, and owners fit into the
\* positive half of a byte.
ProgramsAtStart ==
    /\ \A cmd \in Commands : \A q \in 1 .. LastSetup(cmd) :
         \E k \in DOMAIN SegmentsOf(cmd, q) : SegmentsOf(cmd, q)[k] = PROC_START
    /\ NPROC =< 128

\* Every process that programs see has its first page; and the one being
\* loaded, as soon as the segment is.
StartInv ==
    /\ \A p \in Pid : Visible(p) => HasStart(mem, processes[p].pagetable)
    /\ kpc = "load" /\ (\E k \in 1 .. job.seg - 1 : Segments[Loading][k] = PROC_START) =>
         HasStart(mem, job.pt)

\* Who has the first page is a matter of what programs see.
LEMMA StartSeen ==
    ASSUME NEW p \in Pid, Visible(p)
    PROVE  HasStart(mem, processes[p].pagetable) <=> MemoryOf(p)[PROC_START] # {}
<1>1. PROC_START \in UserVA
    BY LayoutTypes, SizeAssumption DEF UserVA
<1>2. MemoryOf(p)[PROC_START] =
        LET vam == virtual_memory_lookup(mem, processes[p].pagetable, PROC_START)
        IN  IF PTE_U \in vam.perm THEN {mem[vam.pn]} ELSE {}
    BY <1>1 DEF MemoryOf
<1>. QED  BY <1>2 DEF HasStart

\* Every process of AddressSpaces has its first page.
AllStarted == \A p \in Pid : StateView[p] # "P_FREE" => ImageView[p][PROC_START] # {}

\* That says the same.
LEMMA StartViewed ==
    processes \in [Pid -> Processes] =>
        (AllStarted <=> \A p \in Pid : Visible(p) => HasStart(mem, processes[p].pagetable))
<1>. SUFFICES ASSUME processes \in [Pid -> Processes]
              PROVE  AllStarted <=> \A p \in Pid : Visible(p) => HasStart(mem, processes[p].pagetable)
    OBVIOUS
<1>1. \A p \in Pid : (StateView[p] # "P_FREE") <=> Visible(p)
    BY DEF StateView, Visible
<1>2. \A p \in Pid : ImageView[p] = MemoryOf(p)
    BY DEF ImageView
<1>. QED  BY <1>1, <1>2, StartSeen DEF AllStarted

\* In AddressSpaces memory is never taken away, and fork() copies it.
LEMMA StartedStays ==
    ASSUME AllStarted, [Spaces!Next]_(Spaces!avars), Phase # "booting", current \in Pid,
           trap # NoTrap => StateView[current] # "P_FREE"
    PROVE  AllStarted'
<1>0. PICK c \in Pid : c = current
    OBVIOUS
<1>1. PROC_START \in UserVA
    BY LayoutTypes, SizeAssumption DEF UserVA
<1>2. ASSUME NEW p PROVE ~Spaces!Load(p)
    BY DEF Spaces!Load
<1>3. CASE UNCHANGED <<StateView, ImageView>>
    BY <1>3 DEF AllStarted
<1>4. CASE Spaces!Store
    <2>1. /\ StateView' = StateView
          /\ \A p \in Pid \ {c} : ImageView'[p] = ImageView[p]
          /\ \A a \in UserVA : (ImageView'[c][a] = {}) = (ImageView[c][a] = {})
        BY <1>0, <1>4 DEF Spaces!Store, Spaces!OnlyAt, StateView, ImageView
    <2>. QED  BY <1>1, <2>1 DEF AllStarted
<1>5. CASE Spaces!PageAlloc
    <2>1. /\ StateView' = StateView
          /\ \A p \in Pid \ {c} : ImageView'[p] = ImageView[p]
          /\ ImageView'[c][trap.rdi] # {}
          /\ \A a \in UserVA \ {trap.rdi} : ImageView'[c][a] = ImageView[c][a]
        BY <1>0, <1>5 DEF Spaces!PageAlloc, Spaces!OnlyAt, StateView, ImageView
    <2>. QED  BY <1>1, <2>1 DEF AllStarted
<1>6. ASSUME NEW k \in Pid, Spaces!Fork(k) PROVE AllStarted'
    <2>1. /\ trap.int = "INT_SYS_FORK"
          /\ StateView' = [StateView EXCEPT ![k] = "P_RUNNABLE"]
          /\ ImageView' = [ImageView EXCEPT ![k] = ImageView[c]]
        BY <1>0, <1>6 DEF Spaces!Fork, Spaces!Answer, StateView, ImageView
    <2>2. ImageView[c][PROC_START] # {}
        BY <1>0, <2>1 DEF AllStarted, NoTrap
    <2>3. \A p \in Pid : /\ StateView'[p] = IF p = k THEN "P_RUNNABLE" ELSE StateView[p]
                         /\ ImageView'[p] = IF p = k THEN ImageView[c] ELSE ImageView[p]
        BY <2>1 DEF StateView, ImageView
    <2>. QED  BY <2>2, <2>3 DEF AllStarted
<1>7. CASE Spaces!Break
    <2>1. /\ StateView' = [StateView EXCEPT ![c] = "P_BROKEN"]
          /\ ImageView' = ImageView /\ trap.int = "INT_PAGEFAULT"
        BY <1>0, <1>7 DEF Spaces!Break, Spaces!Answer, StateView, ImageView
    <2>2. ImageView[c][PROC_START] # {}
        BY <1>0, <2>1 DEF AllStarted, NoTrap
    <2>3. \A p \in Pid \ {c} : StateView'[p] = StateView[p]
        BY <2>1 DEF StateView
    <2>. QED  BY <2>1, <2>2, <2>3 DEF AllStarted
<1>8. CASE Spaces!Restart
    <2>1. StateView' = [p \in Pid |-> "P_FREE"]
        BY <1>8 DEF Spaces!Restart, StateView
    <2>. QED  BY <2>1 DEF AllStarted
<1>9. CASE Spaces!Trap \/ Spaces!Getpid \/ Spaces!Yield \/ Spaces!Fail \/ Spaces!Halt
    <2>1. UNCHANGED <<StateView, ImageView>>
        BY <1>9 DEF Spaces!Trap, Spaces!Getpid, Spaces!Yield, Spaces!Fail, Spaces!Halt, StateView, ImageView
    <2>. QED  BY <1>3, <2>1
<1>10. CASE UNCHANGED Spaces!avars
    <2>1. UNCHANGED <<StateView, ImageView>>
        BY <1>10 DEF Spaces!avars, StateView, ImageView
    <2>. QED  BY <1>3, <2>1
<1>. QED  BY <1>2, <1>4, <1>5, <1>6, <1>7, <1>8, <1>9, <1>10 DEF Spaces!Next

\* program_load_segment maps the first page if it is the segment's, and keeps it.
LEMMA SegmentStarts ==
    ASSUME OwnershipInv, IsolationInv, BootMemory, CountInv, StartInv, ProgramLoadSegment, kpc' # "panic"
    PROVE  (\E k \in 1 .. job.seg : Segments[Loading][k] = PROC_START) => HasStart(mem', job.pt)
<1>. DEFINE addr == Segments[Loading][job.seg]
            map == virtual_memory_map(Assign(pageinfo, addr, job.pid), mem, job.pt, addr,
                                      addr, RWU, pagetable_owner, FALSE)
            filled == virtual_memory_lookup(map.mem, job.pt, addr).pn
<1>1. /\ pageinfo \in [PN -> PageInfo] /\ mem \in [PN -> Page]
      /\ KernelIntact(mem, pageinfo) /\ JobOK
      /\ kpc = "load" /\ TypeOK /\ job.seg =< Len(Segments[Loading])
    BY Parts DEF ProgramLoadSegment
<1>2. PICK lev \in [PN -> Level], path \in [PN -> Path] :
        Forest(lev, path, mem, pageinfo) /\ RootsUsed(lev, pageinfo, processes, kpc, job)
    BY <1>1 DEF CountInv, ForestInv
<1>3. job.pid \in Pid \ {0} /\ job.pt \in PN /\ pagetable_owner = job.pid
    BY <1>1, JobFacts DEF Building
<1>4. job.pt # NULL
    <2>1. \E l, q : Root(l, pageinfo, job.pt, job.pid)
        BY <1>1, Parts DEF PlacesInv, JobRoot, Building
    <2>. QED  BY <1>1, <1>3, <2>1, RootNotNull
<1>5. Root(lev, pageinfo, job.pt, job.pid) /\ Placed(lev, path, mem, pageinfo)
    BY <1>1, <1>2, <1>3, <1>4 DEF RootsUsed, UsesRoot, Building, Forest
<1>6. CanAssign(pageinfo, addr)
    BY DEF ProgramLoadSegment, Panic
<1>7. addr \in PN /\ pageinfo[addr].refcount = 0
    BY <1>6 DEF CanAssign
<1>8. Loading \in Program /\ Image[Loading] \in Page /\ job.seg \in 1 .. Len(Segments[Loading])
    BY <1>1, LoadingType, ProgramAssumption DEF TypeOK, BootMemory
<1>9. addr \in VA /\ addr >= PROC_START
    <2>1. addr \in UserVA
        BY <1>1, <1>8, LoadingType
    <2>. QED  BY <1>1, <2>1, LoadingType, LayoutTypes DEF UserVA
<1>10. RWU \in SUBSET Flags /\ PTE_P \in RWU
    BY DEF RWU, Flags
<1>11. mem' = [map.mem EXCEPT ![filled] = Image[Loading]] /\ map.res = "ok"
    BY <1>6 DEF ProgramLoadSegment, Panic
<1>12. addr = Segments[Loading][job.seg]
    OBVIOUS
<1>. HIDE DEF addr
<1>13. MappedFresh(job.pid, lev, path, pageinfo, mem, map, job.pt, addr, addr, RWU)
    BY <1>1, <1>3, <1>5, <1>7, <1>9, <1>10, GivenAndMapped
<1>. HIDE DEF map
<1>14. virtual_memory_lookup(map.mem, job.pt, addr) = [pn |-> addr, perm |-> RWU] /\ filled = addr
    BY <1>11, <1>13 DEF MappedFresh
<1>. HIDE DEF filled
<1>15. PICK l \in [PN -> Level], q \in [PN -> Path] :
        /\ Built(job.pid, lev, path, pageinfo, mem, l, q, map.pageinfo, map.mem)
        /\ l[addr] = UserLevel
    BY <1>13 DEF MappedFresh
<1>16. /\ map.mem \in [PN -> Page] /\ Placed(l, q, map.mem, map.pageinfo) /\ l[job.pt] = 0
    BY <1>3, <1>5, <1>15 DEF Built, Root, Owns
<1>17. SeesSame(l, map.mem, mem')
    <2>1. \A u \in PN : l[u] \in 0 .. 3 => mem'[u] = map.mem[u]
        BY <1>7, <1>11, <1>14, <1>15, <1>16 DEF UserLevel
    <2>. QED  BY <1>16, <2>1, SameTables
<1>18. PROC_START \in VA
    BY LayoutTypes, SizeAssumption DEF VA
<1>19. virtual_memory_lookup(mem', job.pt, PROC_START) = virtual_memory_lookup(map.mem, job.pt, PROC_START)
    BY <1>3, <1>16, <1>17, <1>18 DEF SeesSame
<1>20. CASE addr = PROC_START
    BY <1>14, <1>19, <1>20 DEF HasStart, RWU
<1>21. CASE addr # PROC_START
    <2>1. virtual_memory_lookup(map.mem, job.pt, PROC_START) = virtual_memory_lookup(mem, job.pt, PROC_START)
        BY <1>3, <1>5, <1>13, <1>18, <1>21 DEF MappedFresh, MapSees, Root
    <2>2. ASSUME NEW k \in 1 .. job.seg, Segments[Loading][k] = PROC_START PROVE k \in 1 .. job.seg - 1
        BY <1>8, <1>12, <1>21, <2>2
    <2>. QED  BY <1>1, <1>19, <2>1, <2>2 DEF StartInv, HasStart
<1>. QED  BY <1>20, <1>21

\* The stack is mapped elsewhere.
LEMMA StackKeepsStart ==
    ASSUME ProgramsAtStart, OwnershipInv, IsolationInv, BootMemory, CountInv, StartInv, SetupStack,
           kpc' # "panic"
    PROVE  HasStart(mem', job.pt)
<1>. DEFINE n == FreeAddr(pageinfo)
            va == MEMSIZE_VIRTUAL - 1
            map == virtual_memory_map(Assign(pageinfo, n, job.pid), mem, job.pt, va,
                                      n, RWU, job.pid, TRUE)
<1>1. /\ pageinfo \in [PN -> PageInfo] /\ mem \in [PN -> Page]
      /\ processes \in [Pid -> Processes] /\ KernelIntact(mem, pageinfo) /\ JobOK
      /\ kpc = "load" /\ TypeOK /\ AtStack /\ JobOwner
    BY Parts DEF SetupStack, AtStack
<1>2. PICK lev \in [PN -> Level], path \in [PN -> Path] :
        Forest(lev, path, mem, pageinfo) /\ RootsUsed(lev, pageinfo, processes, kpc, job)
    BY <1>1 DEF CountInv, ForestInv
<1>3. job.pid \in Pid \ {0} /\ job.pt \in PN /\ pagetable_owner = job.pid
    BY <1>1, JobFacts DEF Building
<1>4. job.pt # NULL
    <2>1. \E l, q : Root(l, pageinfo, job.pt, job.pid)
        BY <1>1, Parts DEF PlacesInv, JobRoot, Building
    <2>. QED  BY <1>1, <1>3, <2>1, RootNotNull
<1>5. Root(lev, pageinfo, job.pt, job.pid) /\ Placed(lev, path, mem, pageinfo)
    BY <1>1, <1>2, <1>3, <1>4 DEF RootsUsed, UsesRoot, Building, Forest
<1>6. n # NULL /\ n \in PN /\ pageinfo[n].refcount = 0
    BY <1>1, StackPageFound, FreeAddrType DEF IsFree
<1>7. va \in VA /\ va >= PROC_START /\ RWU \in SUBSET Flags /\ PTE_P \in RWU
    BY LayoutTypes, LayoutAssumption, SizeAssumption DEF RWU, Flags, VA
<1>8. get_free_addr(pageinfo, job.pid).pn = n
      /\ get_free_addr(pageinfo, job.pid).pageinfo = Assign(pageinfo, n, job.pid)
    BY <1>6 DEF get_free_addr, Give
<1>9. mem' = map.mem
    BY <1>3, <1>8 DEF SetupStack, va
<1>10. PICK k \in DOMAIN Segments[Loading] : Segments[Loading][k] = PROC_START
    <2>1. job.pid \in 1 .. LastSetup(command) /\ command \in Commands
        BY <1>1 DEF JobOwner, TypeOK
    <2>. QED  BY <2>1 DEF ProgramsAtStart, SegmentsOf, Loading
<1>11. Loading \in Program /\ k \in 1 .. job.seg - 1 /\ PROC_START # va
    <2>1. Loading \in Program /\ job.seg = Len(Segments[Loading]) + 1 /\ Segments[Loading] \in Seq(UserVA)
        BY <1>1, LoadingType DEF BootMemory, AtStack, TypeOK
    <2>2. k \in 1 .. Len(Segments[Loading])
        BY <2>1
    <2>3. PROC_START # va
        BY <1>10, <2>1, LinkAssumption
    <2>4. k \in 1 .. job.seg - 1
        BY <2>1, <2>2
    <2>. QED  BY <2>1, <2>3, <2>4
<1>. HIDE DEF n, va
<1>12. MappedFresh(job.pid, lev, path, pageinfo, mem, map, job.pt, va, n, RWU)
    BY <1>1, <1>3, <1>5, <1>6, <1>7, GivenAndMapped
<1>. HIDE DEF map
<1>13. PROC_START \in VA
    BY LayoutTypes, SizeAssumption DEF VA
<1>14. virtual_memory_lookup(map.mem, job.pt, PROC_START) = virtual_memory_lookup(mem, job.pt, PROC_START)
    BY <1>3, <1>5, <1>11, <1>12, <1>13 DEF MappedFresh, MapSees, Root
<1>15. HasStart(mem, job.pt)
    BY <1>1, <1>10, <1>11 DEF StartInv
<1>. QED  BY <1>9, <1>14, <1>15 DEF HasStart

\* process_setup ends with a process that has its first page.
LEMMA LoadStarts ==
    ASSUME ProgramsAtStart, OwnershipInv, IsolationInv, IsolationInv', BootMemory, OthersKept,
           CountInv, StartInv, SetupStack, kpc' # "panic"
    PROVE  StartInv'
<1>1. /\ processes \in [Pid -> Processes] /\ job.pid \in Pid /\ kpc = "load"
      /\ processes[job.pid].pagetable = job.pt /\ processes[job.pid].state = "P_FREE"
    <2>1. processes \in [Pid -> Processes] /\ job.pid \in Pid /\ kpc = "load" /\ JobOK
        BY Parts DEF TypeOK, SetupStack
    <2>2. job.pid >= job.pid
        BY <2>1, SizeAssumption DEF Pid
    <2>. QED  BY <2>1, <2>2 DEF JobOK
<1>2. PICK j \in Pid : j = job.pid
    BY <1>1
<1>3. /\ processes' = [processes EXCEPT ![job.pid] =
            [state |-> "P_RUNNABLE", pagetable |-> processes[job.pid].pagetable,
             rip |-> Segments[Loading][1], rax |-> 0]]
      /\ kpc' = "setup" \/ \E procs, m : run(procs, m, 1)
    BY Zenon DEF SetupStack, Panic
<1>4. kpc' \in {"setup", "user"}
    BY <1>3 DEF run, Panic
<1>5. processes'[j].pagetable = job.pt
    BY <1>1, <1>2, <1>3
<1>6. HasStart(mem', processes'[j].pagetable)
    BY <1>5, StackKeepsStart
<1>7. PICK k \in Pid : Spaces!Load(k)
    BY LoadSimulates
<1>8. /\ StateView[k] = "P_FREE" /\ StateView' = [StateView EXCEPT ![k] = "P_RUNNABLE"]
      /\ \A p \in Pid \ {k} : ImageView'[p] = ImageView[p]
    BY <1>7 DEF Spaces!Load, Spaces!OnlyAt, StateView, ImageView
<1>9. k = j
    <2>1. StateView'[k] = "P_RUNNABLE"
        BY <1>8 DEF StateView
    <2>2. Visible(k)' /\ ~Visible(k)
        BY <1>8, <2>1 DEF StateView, Visible
    <2>3. Unborn = {}
        BY <1>1 DEF Unborn
    <2>4. processes'[k] # processes[k]
        BY <2>2, <2>3 DEF Visible
    <2>. QED  BY <1>1, <1>2, <1>3, <2>4
<1>10. AllStarted
    BY <1>1, StartViewed DEF StartInv
<1>11. ASSUME NEW p \in Pid, Visible(p)' PROVE HasStart(mem', processes'[p].pagetable)
    <2>1. CASE p = j
        BY <1>6, <2>1
    <2>2. CASE p # j
        <3>1. StateView'[p] = StateView[p] /\ ImageView'[p] = ImageView[p]
            BY <1>8, <1>9, <2>2 DEF StateView
        <3>2. StateView'[p] # "P_FREE"
            BY <1>11 DEF StateView, Visible
        <3>3. MemoryOf(p)'[PROC_START] # {}
            BY <1>10, <3>1, <3>2 DEF AllStarted, ImageView
        <3>4. (HasStart(mem, processes[p].pagetable) <=> MemoryOf(p)[PROC_START] # {})'
            BY <1>11, StartSeen, PTL
        <3>. QED  BY <3>3, <3>4
    <2>. QED  BY <2>1, <2>2
<1>. QED  BY <1>4, <1>11 DEF StartInv

\* Every step keeps every process's first page.
LEMMA NextStarts ==
    ASSUME ProgramsAtStart, OwnershipInv, IsolationInv, BootMemory, SpacesInv, StartInv,
           MemoryForTables, MemoryForFork, [Next]_vars, OwnershipInv'
    PROVE  StartInv'
<1>0. /\ processes \in [Pid -> Processes] /\ processes' \in [Pid -> Processes] /\ current \in Pid
      /\ job.pid \in Pid /\ TypeOK /\ JobOK
    BY Parts DEF TypeOK, OwnershipInv
<1>1. AllStarted
    BY <1>0, StartViewed DEF StartInv
<1>2. (AllStarted <=> \A p \in Pid : Visible(p) => HasStart(mem, processes[p].pagetable))'
    <2>1. (processes \in [Pid -> Processes])'
        BY <1>0
    <2>. QED  BY <2>1, StartViewed, PTL
<1>3. ASSUME AllStarted', kpc' # "load" PROVE StartInv'
    BY <1>3, <1>2 DEF StartInv
<1>4. CASE Phase # "booting"
    <2>1. kpc \notin {"setup", "setup_copy", "load"}
        BY <1>4 DEF Phase
    <2>2. trap # NoTrap => StateView[current] # "P_FREE"
        <3>. SUFFICES ASSUME trap # NoTrap PROVE StateView[current] # "P_FREE"
            OBVIOUS
        <3>1. RunningInv
            BY DEF SpacesInv
        <3>2. kpc \in {"dispatch", "fork_copy", "fork_memory"} /\ processes[current].state = "P_RUNNABLE"
            BY <3>1 DEF RunningInv
        <3>3. current \notin Unborn
            BY <1>0, <3>2 DEF JobOK, Unborn
        <3>. QED  BY <1>0, <3>2, <3>3 DEF StateView, Visible
    <2>3. [Spaces!Next]_(Spaces!avars)
        BY NextSimulates
    <2>4. AllStarted'
        BY <1>0, <1>1, <1>4, <2>2, <2>3, StartedStays
    <2>5. kpc' # "load"
        <3>1. CASE Setup
            <4>1. kpc = "fork_copy" /\ (CopyMapping \/ CopyReturn)
                <5>1. kpc = "fork_copy"
                    BY <2>1, <3>1, StepsBegin
                <5>2. ~ProcessSetup /\ ~ProgramLoadSegment /\ ~SetupStack
                    BY <5>1 DEF ProcessSetup, ProgramLoadSegment, SetupStack
                <5>. QED  BY <3>1, <5>1, <5>2 DEF Setup
            <4>. QED  BY <4>1 DEF CopyMapping, CopyReturn, Panic
        <3>2. CASE User \/ Timer
            BY <3>2 DEF User, Timer, UserStore, Syscall, SyscallPageAlloc, TimerInterrupt,
                        PageFault, exception, Panic, Executing
        <3>3. CASE Handle
            BY <2>1, <3>3, HandleLocation
        <3>4. CASE Keyboard
            BY <3>4 DEF Keyboard, Poweroff, SoftReboot
        <3>5. CASE UNCHANGED vars
            BY <2>1, <3>5 DEF vars
        <3>. QED  BY <3>1, <3>2, <3>3, <3>4, <3>5 DEF Next, Spin
    <2>. QED  BY <1>3, <2>4, <2>5
<1>5. CASE Phase = "booting"
    <2>1. kpc \in {"setup", "setup_copy", "load"}
        BY <1>5 DEF Phase
    <2>2. CASE UNCHANGED vars
        BY <2>2 DEF vars, StartInv, Visible, Unborn, Loading
    <2>3. CASE Setup
        <3>1. LiveInv /\ CountInv
            BY <2>1 DEF SpacesInv
        <3>2. ~HandlePanic
            BY <2>1 DEF HandlePanic
        <3>3. kpc' # "panic"
            BY <3>1, <3>2, LivesOn DEF LiveInv, NoPanic
        <3>4. reboots' = reboots
            BY <2>3, NoReboot
        <3>5. IsolationInv' /\ OthersKept
            BY <3>4, NextIsolation
        <3>6. CASE SetupStack
            BY <3>1, <3>3, <3>5, <3>6, LoadStarts
        <3>7. CASE ProcessSetup \/ CopyMapping \/ CopyReturn \/ ProgramLoadSegment
            <4>1. /\ kpc \in {"setup"} \cup Building /\ Phase' = Phase
                  /\ UNCHANGED <<current, trap, reboots>>
                  /\ \A p \in Pid : Visible(p)' <=> Visible(p)
                  /\ \A p \in Pid : Visible(p) => processes'[p] = processes[p]
                BY <3>3, <3>7, LoopStep
            <4>2. UNCHANGED Spaces!avars
                BY <3>5, <4>1, LoopsUnseen
            <4>3. UNCHANGED <<StateView, ImageView>>
                BY <4>2 DEF Spaces!avars, StateView, ImageView
            <4>4. AllStarted'
                BY <1>1, <4>3 DEF AllStarted
            <4>6. CASE kpc' # "load"
                BY <1>3, <4>4, <4>6
            <4>7. CASE ProgramLoadSegment
                <5>1. job'.seg = job.seg + 1 /\ job'.pt = job.pt /\ Loading' = Loading /\ job.seg \in Nat
                    <6>1. job' = [job EXCEPT !.seg = job.seg + 1] /\ command' = command
                        BY <3>3, <4>7 DEF ProgramLoadSegment, Panic
                    <6>2. job'.seg = job.seg + 1 /\ job'.pt = job.pt /\ job'.pid = job.pid /\ job.seg \in Nat
                        BY <1>0, <6>1 DEF TypeOK
                    <6>. QED  BY <6>1, <6>2 DEF Loading
                <5>2. job'.seg - 1 = job.seg
                    BY <5>1
                <5>3. (\E k \in 1 .. job.seg : Segments[Loading][k] = PROC_START) => HasStart(mem', job.pt)
                    BY <3>1, <3>3, <4>7, SegmentStarts
                <5>4. (\E k \in 1 .. job'.seg - 1 : Segments[Loading'][k] = PROC_START)
                        => HasStart(mem', job'.pt)
                    BY <5>1, <5>2, <5>3
                <5>. QED  BY <1>2, <4>4, <5>4 DEF StartInv
            <4>8. CASE CopyReturn /\ kpc' = "load"
                <5>1. kpc = "setup_copy" /\ job' = job
                    BY <4>8 DEF CopyReturn
                <5>2. job'.seg = 1
                    BY <5>1 DEF BootMemory
                <5>3. 1 .. job'.seg - 1 = {}
                    BY <5>2
                <5>. QED  BY <1>2, <4>4, <5>3 DEF StartInv
            <4>9. CASE ProcessSetup
                <5>1. kpc' # "load"
                    BY <3>3, <4>9 DEF ProcessSetup, Panic
                <5>. QED  BY <4>6, <5>1
            <4>10. CASE CopyMapping
                <5>1. kpc' # "load"
                    BY <4>10 DEF CopyMapping, Panic
                <5>. QED  BY <4>6, <5>1
            <4>. QED  BY <3>7, <4>6, <4>7, <4>8, <4>9, <4>10
        <3>. QED  BY <2>3, <3>6, <3>7 DEF Setup
    <2>4. ~(User \/ Timer \/ Handle \/ Keyboard)
        BY <2>1, StepsBegin DEF Keyboard, Poweroff, SoftReboot
    <2>. QED  BY <2>2, <2>3, <2>4 DEF Next, Spin
<1>. QED  BY <1>4, <1>5

\* A lookup finds a present page or none.
LEMMA PresentOrNone ==
    ASSUME NEW m, NEW pt, NEW va
    PROVE  \/ virtual_memory_lookup(m, pt, va) = NoMapping
           \/ PTE_P \in virtual_memory_lookup(m, pt, va).perm
<1>1. PICK perm, pn :
        virtual_memory_lookup(m, pt, va) = IF PTE_P \in perm THEN [pn |-> pn, perm |-> perm]
                                           ELSE [pn |-> -1, perm |-> {}]
    BY Zenon DEF virtual_memory_lookup
<1>. QED  BY <1>1 DEF NoMapping

\* A page table of a process, as memdump_virtual and memshow_virtual see it.
LEMMA TableSeen ==
    ASSUME OwnershipInv, IsolationInv, LiveInv, CountInv, kpc = "dispatch",
           NEW p \in Pid, processes[p].state # "P_FREE", NEW va \in VA,
           NEW vam, vam = virtual_memory_lookup(mem, processes[p].pagetable, va)
    PROVE  /\ p # 0 /\ p \in HasTable
           /\ va < PROC_START => vam = [pn |-> va, perm |-> KernelPerm(va)] /\ va \in PN
           /\ ~(va < PROC_START) =>
                \/ vam = NoMapping
                \/ vam.pn \in PN /\ vam.perm = RWU /\ pageinfo[vam.pn].owner = p
<1>1. p # 0 /\ p \in HasTable
    <2>1. ActiveInv /\ processes[0].state = "P_FREE"
        BY Parts DEF LiveInv, ProcessZeroUnused
    <2>. QED  BY <2>1 DEF ActiveInv
<1>2. ASSUME va < PROC_START PROVE vam = [pn |-> va, perm |-> KernelPerm(va)] /\ va \in PN
    <2>1. va \in 0 .. PROC_START - 1 /\ va \in PN
        BY <1>2, LayoutTypes, LayoutAssumption, SizeAssumption DEF VA, PN
    <2>2. LowOK(mem, processes[p].pagetable)
        BY <1>1 DEF LiveInv, LowInv
    <2>. QED  BY <2>1, <2>2 DEF LowOK, LowAt
<1>3. ASSUME ~(va < PROC_START), vam # NoMapping
      PROVE  vam.pn \in PN /\ vam.perm = RWU /\ pageinfo[vam.pn].owner = p
    <2>1. PICK lev \in [PN -> Level], path \in [PN -> Path] :
            Forest(lev, path, mem, pageinfo) /\ RootsUsed(lev, pageinfo, processes, kpc, job)
        BY DEF CountInv, ForestInv
    <2>2. PICK pt \in PN \ {NULL} : pt = processes[p].pagetable
        BY <1>1, Parts DEF HasTable, Processes
    <2>3. Root(lev, pageinfo, pt, p)
        BY <2>1, <2>2 DEF RootsUsed, UsesRoot
    <2>4. lev[pt] = 0 /\ Placed(lev, path, mem, pageinfo) /\ HighOK(mem, pt) /\ pageinfo[pt].owner = p
        BY <2>1, <2>3 DEF Root, Owns, Forest
    <2>5. va >= PROC_START
        BY <1>3, LayoutTypes, SizeAssumption DEF VA
    <2>6. vam.perm \in {{}, RWU}
        BY <2>2, <2>4, <2>5 DEF HighOK
    <2>7. PTE_P \in vam.perm
        BY <1>3, PresentOrNone
    <2>8. vam.perm = RWU /\ PTE_U \in vam.perm
        BY <2>6, <2>7 DEF RWU
    <2>9. vam.pn \in PN /\ pageinfo[vam.pn] = pageinfo[pt]
        BY <1>3, <2>2, <2>4, <2>8, Parts, LookupPlaced
    <2>. QED  BY <2>4, <2>8, <2>9
<1>. QED  BY <1>1, <1>2, <1>3

\* A byte is enough for an owner, and keeps which of the processes it is.
LEMMA OwnerPrinted ==
    ASSUME ProgramsAtStart, NEW o \in Owner
    PROVE  /\ uint8_t(o) \in Nat
           /\ o = IF uint8_t(o) > 127 THEN uint8_t(o) - 256 ELSE uint8_t(o)
           /\ o \in Pid => uint8_t(o) = o
<1>1. o = -2 \/ o = -1 \/ o \in 0 .. 127
    BY SizeAssumption DEF Owner, Pid, PO_KERNEL, PO_RESERVED, ProgramsAtStart
<1>2. Pid \subseteq 0 .. 127
    BY SizeAssumption DEF Pid, ProgramsAtStart
<1>3. CASE o \in 0 .. 127
    <2>1. o % 256 = o
        BY <1>3
    <2>. QED  BY <1>3, <2>1 DEF uint8_t
<1>4. CASE o = -2 \/ o = -1
    <2>1. o \in Int /\ o < 0 /\ o > -3
        BY <1>4
    <2>2. o % 256 = 256 + o
        BY <2>1
    <2>. QED  BY <1>2, <2>1, <2>2 DEF uint8_t
<1>. QED  BY <1>1, <1>3, <1>4

\* The pictures can be drawn from the dumps.
LEMMA PicturesDumped ==
    ASSUME ProgramsAtStart, OwnershipInv, IsolationInv, LiveInv, CountInv
    PROVE  DumpsMatchPictures
<1>. SUFFICES ASSUME kpc = "dispatch"
              PROVE  /\ memshow_physical = [pn \in PN |-> DrawnPhysical(memdump_physical[pn])]
                     /\ \A p \in DOMAIN memdump_virtual_all :
                           memshow_virtual(processes[p].pagetable) =
                              [va \in VA |-> DrawnVirtual(memdump_virtual_all[p][va])]
    BY DEF DumpsMatchPictures
<1>1. \A pn \in PN : pageinfo[pn].owner \in Owner
    BY Parts DEF PageInfo
<1>2. \A pn \in PN : Letter(pn) = pageinfo[pn].owner
    BY Parts DEF Letter, PageinfoConsistent
<1>3. ASSUME NEW pn \in PN
      PROVE  memshow_physical[pn] = DrawnPhysical(memdump_physical[pn])
    <2>1. PICK o \in Owner : o = pageinfo[pn].owner
        BY <1>1
    <2>2. o = IF uint8_t(o) > 127 THEN uint8_t(o) - 256 ELSE uint8_t(o)
        BY OwnerPrinted
    <2>3. memshow_physical[pn] = [letter |-> o, dark |-> pageinfo[pn].refcount > 1]
        BY <1>2, <2>1 DEF memshow_physical
    <2>4. memdump_physical[pn] = [owner |-> uint8_t(o), refcount |-> pageinfo[pn].refcount]
        BY <2>1 DEF memdump_physical
    <2>. QED  BY <2>2, <2>3, <2>4 DEF DrawnPhysical
<1>4. ASSUME NEW p \in DOMAIN memdump_virtual_all, NEW va \in VA
      PROVE  memshow_virtual(processes[p].pagetable)[va] = DrawnVirtual(memdump_virtual_all[p][va])
    <2>1. p \in Pid /\ processes[p].state # "P_FREE"
        BY DEF memdump_virtual_all
    <2>2. PICK vam : vam = virtual_memory_lookup(mem, processes[p].pagetable, va)
        OBVIOUS
    <2>3. memdump_virtual_all[p][va] =
            IF vam.pn < 0 THEN [owner |-> 0, refcount |-> 0, perm |-> {}]
            ELSE [owner |-> uint8_t(pageinfo[vam.pn].owner),
                  refcount |-> pageinfo[vam.pn].refcount, perm |-> vam.perm]
        BY <2>1, <2>2 DEF memdump_virtual_all, memdump_virtual
    <2>4. memshow_virtual(processes[p].pagetable)[va] =
            IF vam.pn < 0 THEN Blank
            ELSE [letter |-> Letter(vam.pn), reverse |-> PTE_U \in vam.perm,
                  dark |-> pageinfo[vam.pn].refcount > 1]
        BY <2>2 DEF memshow_virtual
    <2>5. vam = NoMapping \/ (vam.pn \in PN /\ PTE_P \in vam.perm)
        BY <2>1, <2>2, TableSeen DEF KernelPerm, RWU
    <2>6. CASE vam = NoMapping
        BY <2>3, <2>4, <2>6 DEF NoMapping, DrawnVirtual
    <2>7. CASE vam.pn \in PN /\ PTE_P \in vam.perm
        <3>1. PICK o \in Owner : o = pageinfo[vam.pn].owner
            BY <1>1, <2>7
        <3>2. ~(vam.pn < 0)
            BY <2>7, SizeAssumption DEF PN
        <3>3. o = IF uint8_t(o) > 127 THEN uint8_t(o) - 256 ELSE uint8_t(o)
            BY OwnerPrinted
        <3>4. Letter(vam.pn) = o
            BY <1>2, <2>7, <3>1
        <3>. QED  BY <2>3, <2>4, <2>7, <3>1, <3>2, <3>3, <3>4 DEF DrawnVirtual
    <2>. QED  BY <2>5, <2>6, <2>7
<1>5. memshow_physical = [pn \in PN |-> DrawnPhysical(memdump_physical[pn])]
    BY <1>3 DEF memshow_physical
<1>6. ASSUME NEW p \in DOMAIN memdump_virtual_all
      PROVE  memshow_virtual(processes[p].pagetable) = [va \in VA |-> DrawnVirtual(memdump_virtual_all[p][va])]
    BY <1>4 DEF memshow_virtual
<1>. QED  BY <1>5, <1>6

\* The log passes the checks.
LEMMA ChecksOfLogPass ==
    ASSUME ProgramsAtStart, OwnershipInv, IsolationInv, LiveInv, CountInv, StartInv
    PROVE  LogChecksPass
<1>. SUFFICES ASSUME kpc = "dispatch"
              PROVE  /\ IsKernelIsolated(memdump_virtual_all)
                     /\ AreProcessesIsolated(memdump_virtual_all)
                     /\ CheckOwnershipInvariant(memdump_virtual_all)
                     /\ CheckCGAAccessInvariant(memdump_virtual_all)
                     /\ IsForkOK(memdump_virtual_all)
    BY DEF LogChecksPass
<1>. DEFINE vm == memdump_virtual_all
<1>1. ASSUME NEW p \in DOMAIN vm, NEW va \in VA
      PROVE  /\ p \in Pid \ {0} /\ processes[p].state # "P_FREE"
             /\ va < PROC_START => vm[p][va].perm = KernelPerm(va)
             /\ ~(va < PROC_START) =>
                  \/ /\ vm[p][va].owner = 0 /\ vm[p][va].perm = {}
                     /\ virtual_memory_lookup(mem, processes[p].pagetable, va) = NoMapping
                  \/ vm[p][va].owner = p /\ vm[p][va].perm = RWU
    <2>1. p \in Pid /\ processes[p].state # "P_FREE"
        BY DEF memdump_virtual_all
    <2>2. PICK vam : vam = virtual_memory_lookup(mem, processes[p].pagetable, va)
        OBVIOUS
    <2>3. vm[p][va] =
            IF vam.pn < 0 THEN [owner |-> 0, refcount |-> 0, perm |-> {}]
            ELSE [owner |-> uint8_t(pageinfo[vam.pn].owner),
                  refcount |-> pageinfo[vam.pn].refcount, perm |-> vam.perm]
        BY <2>1, <2>2 DEF memdump_virtual_all, memdump_virtual
    <2>. HIDE DEF vm
    <2>4. /\ p # 0
          /\ va < PROC_START => vam = [pn |-> va, perm |-> KernelPerm(va)] /\ va \in PN
          /\ ~(va < PROC_START) =>
                \/ vam = NoMapping
                \/ vam.pn \in PN /\ vam.perm = RWU /\ pageinfo[vam.pn].owner = p
        BY <2>1, <2>2, TableSeen
    <2>5. uint8_t(p) = p
        BY <2>1, OwnerPrinted DEF Owner
    <2>6. \A n \in PN : ~(n < 0)
        BY SizeAssumption DEF PN
    <2>. QED  BY <2>1, <2>2, <2>3, <2>4, <2>5, <2>6 DEF NoMapping
<1>. HIDE DEF vm
<1>2. IsKernelIsolated(vm)
    BY <1>1 DEF IsKernelIsolated, Low, Accessible, KernelPerm, PTE_U, PTE_P, PTE_W
<1>3. AreProcessesIsolated(vm)
    BY <1>1 DEF AreProcessesIsolated, High, Low
<1>4. CheckOwnershipInvariant(vm)
    BY <1>1 DEF CheckOwnershipInvariant, High, Low, Accessible, RWU
<1>5. CONSOLE \in VA /\ CONSOLE < PROC_START
    BY LayoutAssumption, LayoutTypes, SizeAssumption DEF VA
<1>6. CheckCGAAccessInvariant(vm)
    BY <1>1, <1>5 DEF CheckCGAAccessInvariant, Accessible, KernelPerm, RWU
<1>7. PROC_START \in VA /\ ~(PROC_START < PROC_START)
    BY LayoutTypes, SizeAssumption DEF VA
<1>8. ASSUME NEW p \in DOMAIN vm PROVE vm[p][PROC_START].owner = p /\ p # 0
    <2>1. p \in Pid \ {0} /\ Visible(p)
        BY <1>1, <1>7 DEF Visible, Unborn
    <2>2. HasStart(mem, processes[p].pagetable)
        BY <2>1 DEF StartInv
    <2>3. virtual_memory_lookup(mem, processes[p].pagetable, PROC_START) # NoMapping
        BY <2>2 DEF HasStart, NoMapping
    <2>. QED  BY <1>1, <1>7, <2>1, <2>3
<1>9. IsForkOK(vm)
    BY <1>8 DEF IsForkOK
<1>. QED  BY <1>2, <1>3, <1>4, <1>6, <1>9 DEF vm

\* The log of the dumps says what the screen shows and passes the checks of
\* parse_log.py, for every layout, number of pages and processes and program
\* linked to PROC_START_ADDR, as long as fork() does not run out of memory and
\* a page that is found can be mapped.
THEOREM DumpsAlwaysRight ==
    ASSUME RemapVAs = {}, ProgramsAtStart
    PROVE  Spec /\ [](MemoryForTables /\ MemoryForFork) => []DumpsRight
<1>1. Init /\ IsolationInv => SpacesInv /\ StartInv
    <2>. SUFFICES ASSUME Init, IsolationInv PROVE SpacesInv /\ StartInv
        OBVIOUS
    <2>1. AtBoot /\ trap = NoTrap /\ kpc = "setup"
        BY DEF Init, AtBoot, NoJob
    <2>2. \A p \in Pid : ~Visible(p)
        BY DEF Init, BootProcesses, FreeProcess, Visible
    <2>. QED  BY <2>1, <2>2, BootLives, BootCounts DEF SpacesInv, RunningInv, CopiedInv, StartInv
<1>2. OwnershipInv /\ IsolationInv /\ BootMemory /\ SpacesInv /\ MemoryForTables /\ MemoryForFork
        /\ [Next]_vars /\ IsolationInv' => SpacesInv'
    BY NextSpaces
<1>3. OwnershipInv /\ IsolationInv /\ BootMemory /\ SpacesInv /\ StartInv /\ MemoryForTables
        /\ MemoryForFork /\ [Next]_vars /\ OwnershipInv' => StartInv'
    BY NextStarts
<1>4. OwnershipInv /\ IsolationInv /\ SpacesInv /\ StartInv => DumpsRight
    <2>. SUFFICES ASSUME OwnershipInv, IsolationInv, SpacesInv, StartInv PROVE DumpsRight
        OBVIOUS
    <2>1. CASE LiveInv /\ CountInv
        BY <2>1, PicturesDumped, ChecksOfLogPass DEF DumpsRight
    <2>2. CASE kpc \in {"panic", "off"}
        BY <2>2 DEF DumpsRight, DumpsMatchPictures, LogChecksPass
    <2>. QED  BY <2>1, <2>2 DEF SpacesInv
<1>. QED  BY <1>1, <1>2, <1>3, <1>4, IsolationInvariant, PTL DEF Spec
=============================================================================
