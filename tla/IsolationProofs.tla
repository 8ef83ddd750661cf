-------------------------- MODULE IsolationProofs --------------------------
(***************************************************************************)
(* Memory isolation of WeensyKernel, for every layout, every number of     *)
(* pages and processes and every user program: what a process can reach is *)
(* its own memory and the console, never a page table or another process,  *)
(* also when memory runs out in the middle of a handler.                   *)
(***************************************************************************)
EXTENDS KernelProofs

-----------------------------------------------------------------------------
(* The invariant *)

\* Every process that has a page table has one of its own.
RootsOK(lev, pi, procs) ==
    \A p \in Pid : procs[p].state # "P_FREE" /\ procs[p].pagetable # NULL
                    => Root(lev, pi, procs[p].pagetable, p)

Building == {"setup_copy", "load", "fork_copy", "fork_memory"}

\* The loops of process_setup and fork() build a tree of the new process.
JobRoot(lev, pi, pc, j) == pc \in Building => Root(lev, pi, j.pt, j.pid)

PlacesInv ==
    \E lev \in [PN -> Level], path \in [PN -> Path] :
        /\ Placed(lev, path, mem, pageinfo)
        /\ RootsOK(lev, pageinfo, processes)
        /\ JobRoot(lev, pageinfo, kpc, job)

\* The locals of those loops.
JobOK ==
    /\ kpc \in Building => pagetable_owner = job.pid
    /\ kpc \in {"load", "fork_memory"} => processes[job.pid].pagetable = job.pt
    /\ kpc = "fork_memory" => job.va >= PROC_START
    /\ kpc \in {"fork_copy", "fork_memory"} => job.pid # current
    /\ kpc \in {"setup", "setup_copy", "load"} =>
         \A p \in Pid : p >= job.pid => processes[p].state = "P_FREE"

\* The process that runs, or for which a handler works.
CurrentOK ==
    /\ kpc \in {"user", "dispatch", "fork_copy", "fork_memory"} => current \in HasTable
    /\ kpc = "user" => cr3 = processes[current].pagetable
    /\ kpc = "dispatch" /\ trap.int = "INT_SYS_PAGE_ALLOC" => trap.rdi >= PROC_START

IsolationInv == KernelIntact(mem, pageinfo) /\ PlacesInv /\ JobOK /\ CurrentOK

-----------------------------------------------------------------------------
(* Memory at boot.  process_setup does not check that it got a stack page: *)
(* page 0 would be mapped for the process.  The invariant counts the free  *)
(* pages to show that there is one.                                        *)

SegmentBound ==
    CHOOSE segments \in {Len(Segments[n]) : n \in Program} :
        /\ \A n \in Program : Len(Segments[n]) =< segments
        /\ Cardinality(PN \ (KERNEL \cup RESERVED)) >= NALLOC * (8 + segments) - 3

\* What a process takes at most, and what the processes after job.pid take.
ProcessPages == 8 + SegmentBound
ForTheRest(cmd, pid) == (LastSetup(cmd) - pid) * ProcessPages

BootMemory ==
    LET spare == FreeCount(pageinfo) - ForTheRest(command, job.pid)
    IN  /\ kpc \in {"setup", "setup_copy"} => job.seg = 1
        /\ kpc = "setup" => spare >= SegmentBound + 5
        /\ kpc = "setup_copy" /\ job.va = 0 => spare >= SegmentBound + 4
        /\ kpc = "setup_copy" /\ job.va > 0 =>
             spare >= SegmentBound + 1 /\ Present(mem, job.pt, 0)
        /\ kpc = "load" =>
             /\ job.seg \in 1 .. Len(Segments[Loading]) + 1
             /\ spare >= SegmentBound + 2 - job.seg

-----------------------------------------------------------------------------
(* What a step changes *)

\* The process whose pages a step may change: the running one, but in the
\* loops of process_setup and fork() the one that is being built.
Writers == IF kpc \in {"setup"} \cup Building THEN {job.pid} ELSE {current}

\* A step changes no page in use of another process, nor of the kernel, the
\* console excepted.
OthersKept ==
    \A t \in PN : pageinfo[t].refcount # 0 /\ t # CONSOLE /\ pageinfo[t].owner \notin Writers
                    => mem'[t] = mem[t]

\* What each step lemma shows.
Isolates == IsolationInv' /\ OthersKept

\* The parts of the invariants that every step starts from.
LEMMA Parts ==
    ASSUME OwnershipInv, IsolationInv
    PROVE  /\ TypeOK /\ PageinfoConsistent /\ ProcessZeroUnused /\ JobOwner
           /\ pageinfo \in [PN -> PageInfo] /\ mem \in [PN -> Page]
           /\ processes \in [Pid -> Processes] /\ current \in Pid
           /\ KernelIntact(mem, pageinfo) /\ PlacesInv /\ JobOK /\ CurrentOK
BY DEF OwnershipInv, IsolationInv, TypeOK

\* A step that builds for a process keeps the kernel's memory and every root,
\* and what belongs to others if the process is one of the writers.
LEMMA BuiltStep ==
    ASSUME KernelIntact(mem, pageinfo), NEW p \in Pid \ {0},
           NEW lev, NEW path, NEW lev2, NEW path2,
           Built(p, lev, path, pageinfo, mem, lev2, path2, pageinfo', mem')
    PROVE  /\ KernelIntact(mem', pageinfo')
           /\ Placed(lev2, path2, mem', pageinfo')
           /\ lev2 \in [PN -> Level] /\ path2 \in [PN -> Path]
           /\ p \in Writers => OthersKept
           /\ \A q : \A pt \in PN : Root(lev, pageinfo, pt, q) => Root(lev2, pageinfo', pt, q)
<1>1. KernelIntact(mem', pageinfo')
    BY BuiltIntact
<1>2. Placed(lev2, path2, mem', pageinfo')
    BY DEF Built
<1>3. p \in Writers => OthersKept
    BY DEF Built, OthersKept
<1>4. \A q : \A pt \in PN : Root(lev, pageinfo, pt, q) => Root(lev2, pageinfo', pt, q)
    BY DEF Built, Root, Owns
<1>. QED  BY <1>1, <1>2, <1>3, <1>4 DEF Placed

\* Roots that are kept are roots of the processes that have not changed theirs.
LEMMA RootsKept ==
    ASSUME NEW lev, NEW lev2, NEW pi, NEW pi2, NEW procs \in [Pid -> Processes], NEW procs2,
           RootsOK(lev, pi, procs),
           \A q : \A pt \in PN : Root(lev, pi, pt, q) => Root(lev2, pi2, pt, q),
           \A p \in Pid : \/ /\ procs2[p].pagetable = procs[p].pagetable
                             /\ procs2[p].state # "P_FREE" => procs[p].state # "P_FREE"
                          \/ Root(lev2, pi2, procs2[p].pagetable, p)
                          \/ procs2[p].pagetable = NULL
    PROVE  RootsOK(lev2, pi2, procs2)
<1>1. \A p \in Pid : procs[p].pagetable \in PN
    BY DEF Processes
<1>. QED  BY <1>1 DEF RootsOK

-----------------------------------------------------------------------------
(* Leaving the kernel *)

\* run(), schedule() and the end of exception() start a process that has a page
\* table, on that page table, or none.
LeftKernel(procs) ==
    /\ kpc' \in {"user", "panic", "idle", "off"}
    /\ kpc' = "user" => /\ current' \in Pid
                        /\ procs[current'].state = "P_RUNNABLE"
                        /\ procs[current'].pagetable # NULL
                        /\ cr3' = procs[current'].pagetable

\* set_pagetable does not accept page 0: the child of a fork() that found no
\* page for its root never runs.
LEMMA RunLeaves ==
    ASSUME NEW procs, NEW m, m[NULL] = ZeroPage, NEW p \in Pid, run(procs, m, p)
    PROVE  LeftKernel(procs)
<1>1. CASE procs[p].state # "P_RUNNABLE"
    BY <1>1 DEF run, Panic, LeftKernel
<1>2. CASE procs[p].state = "P_RUNNABLE" /\ ~SetPagetableOK(m, procs[p].pagetable)
    BY <1>2 DEF run, LeftKernel
<1>3. CASE procs[p].state = "P_RUNNABLE" /\ SetPagetableOK(m, procs[p].pagetable)
    <2>1. procs[p].pagetable # NULL
        <3>1. KTEXT \in Nat
            BY LayoutAssumption, LayoutTypes
        <3>2. virtual_memory_lookup(m, NULL, KTEXT).pn = -1
            BY <3>1, LookupNull
        <3>. QED  BY <1>3, <3>1, <3>2 DEF SetPagetableOK, MapsIdentically
    <2>. QED  BY <1>3, <2>1 DEF run, LeftKernel
<1>. QED  BY <1>1, <1>2, <1>3

\* schedule() leaves the kernel for a process with a page table, or idles.
LEMMA ScheduleLeaves ==
    ASSUME NEW procs, NEW m, m[NULL] = ZeroPage, schedule(procs, m)
    PROVE  LeftKernel(procs)
<1>1. CASE kpc' = "idle"
    BY <1>1 DEF LeftKernel
<1>2. CASE \E p \in Runnable(procs) : run(procs, m, p)
    <2>1. PICK p \in Pid : run(procs, m, p)
        BY <1>2 DEF Runnable
    <2>. QED  BY <2>1, RunLeaves
<1>. QED  BY <1>1, <1>2 DEF schedule

\* So does the end of exception().
LEMMA ReturnLeaves ==
    ASSUME current \in Pid, NEW procs, NEW m, NEW pi, m[NULL] = ZeroPage, Return(procs, m, pi)
    PROVE  LeftKernel(procs) /\ processes' = procs /\ mem' = m /\ pageinfo' = pi
<1>1. ReturnFromException(procs, m) /\ processes' = procs /\ mem' = m /\ pageinfo' = pi
    BY DEF Return
<1>2. run(procs, m, current) \/ schedule(procs, m)
    BY <1>1 DEF ReturnFromException
<1>3. CASE run(procs, m, current)
    BY <1>1, <1>3, RunLeaves
<1>4. CASE schedule(procs, m)
    BY <1>1, <1>4, ScheduleLeaves
<1>. QED  BY <1>2, <1>3, <1>4

\* Out of the kernel's loops the invariant is about memory and roots only.
LEMMA LeftIsolation ==
    ASSUME LeftKernel(processes'), KernelIntact(mem', pageinfo'),
           NEW lev \in [PN -> Level], NEW path \in [PN -> Path],
           Placed(lev, path, mem', pageinfo'), RootsOK(lev, pageinfo', processes')
    PROVE  IsolationInv'
<1>1. kpc' \notin Building \cup {"setup", "dispatch"}
    BY DEF LeftKernel, Building
<1>2. JobRoot(lev, pageinfo', kpc', job')
    BY <1>1 DEF JobRoot
<1>3. PlacesInv'
    BY <1>2 DEF PlacesInv
<1>4. JobOK'
    BY <1>1 DEF JobOK, Building
<1>5. CurrentOK'
    BY <1>1 DEF CurrentOK, LeftKernel, HasTable, Building
<1>. QED  BY <1>3, <1>4, <1>5 DEF IsolationInv

-----------------------------------------------------------------------------
(* Boot *)

\* process_setup: the root table is a cleared page of the new process.
LEMMA ProcessSetupIsolates == OwnershipInv /\ IsolationInv /\ ProcessSetup => Isolates
<1>. SUFFICES ASSUME OwnershipInv, IsolationInv, ProcessSetup PROVE Isolates
    OBVIOUS
<1>. DEFINE root == pagetable_alloc(pageinfo, mem, job.pid)
<1>1. /\ pageinfo \in [PN -> PageInfo] /\ mem \in [PN -> Page]
      /\ processes \in [Pid -> Processes]
      /\ KernelIntact(mem, pageinfo) /\ JobOK /\ kpc = "setup" /\ JobOwner /\ TypeOK
    BY Parts DEF ProcessSetup
<1>2. PICK lev \in [PN -> Level], path \in [PN -> Path] :
        Placed(lev, path, mem, pageinfo) /\ RootsOK(lev, pageinfo, processes)
    BY Parts DEF PlacesInv
<1>3. job.pid \in Pid \ {0} /\ job.pid \in Writers
    BY <1>1, LayoutTypes, SizeAssumption DEF JobOwner, TypeOK, Writers
<1>4. /\ root.pn = FreeAddr(pageinfo) /\ root.pn \in PN
      /\ root.pn = NULL => root.pageinfo = pageinfo /\ root.mem = mem
      /\ root.pn # NULL => /\ pageinfo[root.pn].refcount = 0
                           /\ root.pageinfo = Assign(pageinfo, root.pn, job.pid)
                           /\ root.mem = [mem EXCEPT ![root.pn] = ZeroPage]
    <2>1. FreshTable(pageinfo, mem, job.pid, root)
        BY <1>1, PagetableAllocFresh
    <2>. HIDE DEF root
    <2>. QED  BY <2>1 DEF FreshTable
<1>. HIDE DEF root
<1>5. pageinfo' = root.pageinfo /\ mem' = root.mem /\ processes' = processes
    BY DEF ProcessSetup, root
<1>6. CASE root.pn = NULL
    <2>1. kpc' = "panic"
        BY <1>6 DEF ProcessSetup, Panic, root
    <2>2. UNCHANGED <<mem, pageinfo, processes>>
        BY <1>4, <1>5, <1>6
    <2>3. IsolationInv'
        BY <1>1, <1>2, <2>1, <2>2, LeftIsolation DEF LeftKernel
    <2>. QED  BY <2>2, <2>3 DEF Isolates, OthersKept
<1>7. CASE root.pn # NULL
    <2>1. /\ kpc' = "setup_copy" /\ job' = [job EXCEPT !.pt = root.pn, !.va = 0]
          /\ pagetable_owner' = job.pid
        BY <1>7 DEF ProcessSetup, root
    <2>2. job'.pt = root.pn /\ job'.pid = job.pid
        BY <1>1, <2>1 DEF TypeOK
    <2>. DEFINE lev2 == [lev EXCEPT ![root.pn] = 0]
    <2>3. Built(job.pid, lev, path, pageinfo, mem, lev2, path, pageinfo', mem')
        <3>1. 0 \in {0, UserLevel} /\ pageinfo[root.pn].refcount = 0
            BY <1>4, <1>7
        <3>2. Built(job.pid, lev, path, pageinfo, mem, lev2, path,
                    Assign(pageinfo, root.pn, job.pid), [mem EXCEPT ![root.pn] = ZeroPage])
            BY <1>1, <1>2, <1>3, <1>4, <3>1, ZeroPageType, GivePlaced
        <3>. QED  BY <1>4, <1>5, <1>7, <3>2
    <2>4. Root(lev2, pageinfo', root.pn, job.pid)
        BY <1>1, <1>2, <1>4, <1>5, <1>7 DEF Root, Owns, Assign
    <2>5. PICK l \in [PN -> Level] : l = lev2
        BY <2>3 DEF Built, Placed
    <2>. HIDE DEF lev2
    <2>6. /\ KernelIntact(mem', pageinfo') /\ Placed(l, path, mem', pageinfo') /\ OthersKept
          /\ \A q : \A pt \in PN : Root(lev, pageinfo, pt, q) => Root(l, pageinfo', pt, q)
        BY <1>1, <1>3, <2>3, <2>5, BuiltStep
    <2>7. RootsOK(l, pageinfo', processes')
        BY <1>1, <1>2, <1>5, <2>6, RootsKept
    <2>8. JobRoot(l, pageinfo', kpc', job')
        BY <2>2, <2>4, <2>5 DEF JobRoot
    <2>9. PlacesInv'
        BY <2>6, <2>7, <2>8 DEF PlacesInv
    <2>10. JobOK' /\ CurrentOK'
        BY <1>1, <1>5, <2>1, <2>2 DEF JobOK, CurrentOK, Building
    <2>. QED  BY <2>6, <2>9, <2>10 DEF Isolates, IsolationInv
<1>. QED  BY <1>6, <1>7

\* Facts about the page table of the process a handler works for.
LEMMA CurrentRoot ==
    ASSUME OwnershipInv, CurrentOK, kpc \in {"user", "dispatch", "fork_copy", "fork_memory"},
           NEW lev, RootsOK(lev, pageinfo, processes)
    PROVE  /\ current \in Pid \ {0}
           /\ processes[current].pagetable \in PN
           /\ processes[current].state # "P_FREE" /\ processes[current].pagetable # NULL
           /\ Root(lev, pageinfo, processes[current].pagetable, current)
<1>1. /\ current \in Pid \ {0} /\ processes[current].pagetable \in PN
      /\ processes[current].state # "P_FREE" /\ processes[current].pagetable # NULL
    BY DEF OwnershipInv, TypeOK, Processes, ProcessZeroUnused, CurrentOK, HasTable
<1>. QED  BY <1>1 DEF RootsOK

\* Facts about the process that is being built.
LEMMA JobFacts ==
    ASSUME OwnershipInv, JobOK, kpc \in Building
    PROVE  /\ job.pid \in Pid \ {0} /\ job.pid \in Writers /\ job.pt \in PN
           /\ pagetable_owner = job.pid /\ job.va \in 0 .. MEMSIZE_VIRTUAL
<1>1. job.pid \in Pid /\ job.pt \in PN /\ job.va \in 0 .. MEMSIZE_VIRTUAL /\ pagetable_owner = job.pid
    BY DEF OwnershipInv, TypeOK, JobOK
<1>2. job.pid # 0
    BY <1>1 DEF OwnershipInv, JobOwner
<1>. QED  BY <1>1, <1>2 DEF Writers

\* copy_pagetable copies the kernel's part of an address space: mappings that
\* users cannot reach, and the console.
LEMMA CopyMappingIsolates == OwnershipInv /\ IsolationInv /\ CopyMapping => Isolates
<1>. SUFFICES ASSUME OwnershipInv, IsolationInv, CopyMapping PROVE Isolates
    OBVIOUS
<1>. DEFINE mapping == virtual_memory_lookup(mem, CopySource, job.va)
            map == virtual_memory_map(pageinfo, mem, job.pt, job.va, mapping.pn,
                                      mapping.perm, pagetable_owner, TRUE)
<1>1. /\ pageinfo \in [PN -> PageInfo] /\ mem \in [PN -> Page]
      /\ processes \in [Pid -> Processes]
      /\ KernelIntact(mem, pageinfo) /\ JobOK /\ CurrentOK /\ TypeOK
      /\ kpc \in {"setup_copy", "fork_copy"} /\ job.va < PROC_START
    BY Parts DEF CopyMapping
<1>2. PICK lev \in [PN -> Level], path \in [PN -> Path] :
        /\ Placed(lev, path, mem, pageinfo) /\ RootsOK(lev, pageinfo, processes)
        /\ JobRoot(lev, pageinfo, kpc, job)
    BY Parts DEF PlacesInv
<1>3. /\ job.pid \in Pid \ {0} /\ job.pid \in Writers /\ job.pt \in PN
      /\ pagetable_owner = job.pid /\ Root(lev, pageinfo, job.pt, job.pid)
    BY <1>1, <1>2, JobFacts DEF JobRoot, Building
<1>4. job.va \in VA /\ job.va \in Nat
    BY <1>1, LayoutTypes, SizeAssumption DEF TypeOK, VA
<1>5. CopySource \in PN
    BY <1>1, LayoutTypes DEF CopySource, TypeOK, Processes
<1>6. mapping.perm \in SUBSET Flags /\ (mapping.perm # {} => mapping.pn \in PN)
    BY <1>1, <1>4, <1>5, LookupType
<1>7. mapping.perm # {} => PTE_P \in mapping.perm
    BY LookupReads
<1>8. PTE_U \in mapping.perm => mapping.pn = CONSOLE
    <2>1. CASE kpc = "setup_copy"
        <3>1. mapping = [pn |-> job.va, perm |-> KernelPerm(job.va)]
            BY <1>1, <1>4, <2>1, LookupKernel DEF CopySource
        <3>. QED  BY <1>1, <3>1 DEF KernelPerm, PTE_P, PTE_W, PTE_U
    <2>2. CASE kpc = "fork_copy"
        <3>1. CopySource = processes[current].pagetable /\ lev[CopySource] = 0
            BY <1>1, <1>2, <2>2, CurrentRoot DEF CopySource, Root
        <3>. QED  BY <1>1, <1>2, <1>4, <1>5, <3>1, LookupPlaced
    <2>. QED  BY <1>1, <2>1, <2>2
<1>. HIDE DEF mapping
<1>9. mapping.perm # {} =>
        \E l \in [PN -> Level], q \in [PN -> Path] :
            Built(job.pid, lev, path, pageinfo, mem, l, q, map.pageinfo, map.mem)
    <2>1. MayMap(job.pid, lev, pageinfo, job.va, mapping.pn, mapping.perm)
        BY <1>1, <1>8 DEF MayMap
    <2>2. mapping.perm # {} => MapBuilds(job.pid, lev, path, pageinfo, mem, job.pt, job.va,
                                         mapping.pn, mapping.perm, map)
        BY <1>1, <1>2, <1>3, <1>4, <1>6, <1>7, <2>1, MapPlaced
    <2>. HIDE DEF map
    <2>. QED  BY <2>2 DEF MapBuilds
<1>. HIDE DEF map
<1>10. /\ UNCHANGED <<processes, current, pagetable_owner, trap>>
       /\ \/ UNCHANGED <<pageinfo, mem>>
          \/ mapping.perm # {} /\ pageinfo' = map.pageinfo /\ mem' = map.mem
       /\ \/ kpc' = kpc /\ job' = [job EXCEPT !.va = job.va + 1]
          \/ kpc' = "panic" /\ job' = job
    BY DEF CopyMapping, Panic, NextVA, mapping, map
<1>11. PICK l \in [PN -> Level], q \in [PN -> Path] :
        Built(job.pid, lev, path, pageinfo, mem, l, q, pageinfo', mem')
    <2>1. CASE UNCHANGED <<pageinfo, mem>>
        <3>1. Built(job.pid, lev, path, pageinfo, mem, lev, path, pageinfo, mem)
            BY <1>1, <1>2, BuiltReflexive
        <3>. QED  BY <1>2, <2>1, <3>1
    <2>2. CASE mapping.perm # {} /\ pageinfo' = map.pageinfo /\ mem' = map.mem
        BY <1>9, <2>2
    <2>. QED  BY <1>10, <2>1, <2>2
<1>12. /\ KernelIntact(mem', pageinfo') /\ Placed(l, q, mem', pageinfo') /\ OthersKept
       /\ \A r : \A pt \in PN : Root(lev, pageinfo, pt, r) => Root(l, pageinfo', pt, r)
    BY <1>1, <1>3, <1>11, BuiltStep
<1>13. RootsOK(l, pageinfo', processes')
    BY <1>1, <1>2, <1>10, <1>12, RootsKept
<1>14. job'.pt = job.pt /\ job'.pid = job.pid
    BY <1>1, <1>10 DEF TypeOK
<1>15. PlacesInv'
    BY <1>3, <1>12, <1>13, <1>14 DEF PlacesInv, JobRoot
<1>16. JobOK' /\ CurrentOK'
    BY <1>1, <1>10, <1>14 DEF JobOK, CurrentOK, HasTable, Building
<1>. QED  BY <1>12, <1>15, <1>16 DEF Isolates, IsolationInv

\* copy_pagetable returns the root of the tree it has built.
LEMMA CopyReturnIsolates == OwnershipInv /\ IsolationInv /\ CopyReturn => Isolates
<1>. SUFFICES ASSUME OwnershipInv, IsolationInv, CopyReturn PROVE Isolates
    OBVIOUS
<1>1. /\ processes \in [Pid -> Processes] /\ KernelIntact(mem, pageinfo) /\ JobOK /\ CurrentOK
      /\ kpc \in {"setup_copy", "fork_copy"} /\ job.va = PROC_START /\ TypeOK
    BY Parts DEF CopyReturn
<1>2. PICK lev \in [PN -> Level], path \in [PN -> Path] :
        /\ Placed(lev, path, mem, pageinfo) /\ RootsOK(lev, pageinfo, processes)
        /\ JobRoot(lev, pageinfo, kpc, job)
    BY Parts DEF PlacesInv
<1>3. job.pid \in Pid \ {0} /\ Root(lev, pageinfo, job.pt, job.pid)
    BY <1>1, <1>2, JobFacts DEF JobRoot, Building
<1>4. /\ processes' = [processes EXCEPT ![job.pid].pagetable = job.pt]
      /\ \/ kpc = "setup_copy" /\ kpc' = "load"
         \/ kpc = "fork_copy" /\ kpc' = "fork_memory"
      /\ UNCHANGED <<pageinfo, mem, current, pagetable_owner, job, trap>>
    BY <1>1 DEF CopyReturn
<1>5. \A p \in Pid : /\ processes'[p].state = processes[p].state
                     /\ p # job.pid => processes'[p] = processes[p]
                     /\ p = job.pid => processes'[p].pagetable = job.pt
    BY <1>1, <1>3, <1>4 DEF Processes
<1>6. RootsOK(lev, pageinfo', processes')
    BY <1>2, <1>3, <1>4, <1>5 DEF RootsOK
<1>7. PlacesInv'
    BY <1>2, <1>3, <1>4, <1>6 DEF PlacesInv, JobRoot
<1>8. PROC_START >= PROC_START
    BY LayoutTypes
<1>9. JobOK' /\ CurrentOK'
    BY <1>1, <1>3, <1>4, <1>5, <1>8 DEF JobOK, CurrentOK, HasTable, Building, TypeOK
<1>. QED  BY <1>1, <1>4, <1>7, <1>9 DEF Isolates, IsolationInv, OthersKept

\* program_load_segment gives the process the page of the segment, maps it and
\* writes to it and nowhere else.
LEMMA ProgramLoadSegmentIsolates ==
    OwnershipInv /\ IsolationInv /\ BootMemory /\ ProgramLoadSegment => Isolates
<1>. SUFFICES ASSUME OwnershipInv, IsolationInv, BootMemory, ProgramLoadSegment PROVE Isolates
    OBVIOUS
<1>. DEFINE addr == Segments[Loading][job.seg]
            map == virtual_memory_map(Assign(pageinfo, addr, job.pid), mem, job.pt, addr,
                                      addr, RWU, pagetable_owner, FALSE)
            filled == virtual_memory_lookup(map.mem, job.pt, addr).pn
<1>1. /\ pageinfo \in [PN -> PageInfo] /\ mem \in [PN -> Page]
      /\ processes \in [Pid -> Processes] /\ KernelIntact(mem, pageinfo) /\ JobOK /\ CurrentOK
      /\ kpc = "load" /\ TypeOK /\ job.seg =< Len(Segments[Loading])
    BY Parts DEF ProgramLoadSegment
<1>2. PICK lev \in [PN -> Level], path \in [PN -> Path] :
        /\ Placed(lev, path, mem, pageinfo) /\ RootsOK(lev, pageinfo, processes)
        /\ JobRoot(lev, pageinfo, kpc, job)
    BY Parts DEF PlacesInv
<1>3. /\ job.pid \in Pid \ {0} /\ job.pid \in Writers /\ job.pt \in PN
      /\ pagetable_owner = job.pid /\ Root(lev, pageinfo, job.pt, job.pid)
    BY <1>1, <1>2, JobFacts DEF JobRoot, Building
<1>4. CASE ~CanAssign(pageinfo, addr)
    <2>1. kpc' = "panic" /\ UNCHANGED <<pageinfo, mem, processes>>
        BY <1>4 DEF ProgramLoadSegment, Panic
    <2>2. IsolationInv'
        BY <1>1, <1>2, <2>1, LeftIsolation DEF LeftKernel
    <2>. QED  BY <2>1, <2>2 DEF Isolates, OthersKept
<1>5. CASE CanAssign(pageinfo, addr)
    <2>1. addr \in PN /\ pageinfo[addr].refcount = 0
        BY <1>5 DEF CanAssign
    <2>2. Loading \in Program /\ Image[Loading] \in Page
        BY <1>1, LoadingType, ProgramAssumption
    <2>3. addr \in VA /\ addr >= PROC_START
        <3>1. job.seg \in 1 .. Len(Segments[Loading])
            BY <1>1, LoadingType DEF TypeOK, BootMemory
        <3>2. addr \in UserVA
            BY <1>1, <3>1, LoadingType
        <3>. QED  BY <1>1, <3>2, LoadingType, LayoutTypes DEF UserVA
    <2>4. RWU \in SUBSET Flags /\ PTE_P \in RWU
        BY DEF RWU, Flags
    <2>. HIDE DEF addr
    <2>5. MappedFresh(job.pid, lev, path, pageinfo, mem, map, job.pt, addr, addr, RWU)
        BY <1>1, <1>2, <1>3, <2>1, <2>3, <2>4, GivenAndMapped
    <2>. HIDE DEF map
    <2>6. PICK l \in [PN -> Level], q \in [PN -> Path] :
            /\ Built(job.pid, lev, path, pageinfo, mem, l, q, map.pageinfo, map.mem)
            /\ l[addr] = UserLevel
        BY <2>5 DEF MappedFresh
    <2>7. map.res = "ok" => filled = addr
        BY <2>5 DEF MappedFresh
    <2>. HIDE DEF filled
    <2>8. /\ UNCHANGED <<processes, pagetable_owner, trap, current>>
          /\ pageinfo' = map.pageinfo
          /\ \/ /\ mem' = [map.mem EXCEPT ![filled] = Image[Loading]] /\ map.res = "ok"
                /\ job' = [job EXCEPT !.seg = job.seg + 1]
                /\ kpc' = kpc
             \/ mem' = map.mem /\ kpc' = "panic" /\ job' = job
        BY <1>5 DEF ProgramLoadSegment, Panic, map, filled, addr
    <2>9. Built(job.pid, lev, path, pageinfo, mem, l, q, pageinfo', mem')
        <3>1. CASE mem' = map.mem
            BY <2>6, <2>8, <3>1
        <3>2. CASE mem' = [map.mem EXCEPT ![addr] = Image[Loading]]
            <4>1. /\ map.mem \in [PN -> Page] /\ map.pageinfo \in [PN -> PageInfo]
                  /\ Placed(l, q, map.mem, map.pageinfo)
                BY <2>6 DEF Built
            <4>2. mem' \in [PN -> Page] /\ \A u \in PN : u # addr => mem'[u] = map.mem[u]
                BY <2>2, <3>2, <4>1
            <4>3. l[addr] \notin 0 .. 3
                BY <2>6 DEF UserLevel
            <4>4. Placed(l, q, mem', map.pageinfo)
                BY <2>1, <4>1, <4>2, <4>3, StorePlaced
            <4>. QED  BY <2>1, <2>6, <2>8, <4>2, <4>4 DEF Built
        <3>. QED  BY <2>7, <2>8, <3>1, <3>2
    <2>10. /\ KernelIntact(mem', pageinfo') /\ Placed(l, q, mem', pageinfo') /\ OthersKept
           /\ \A r : \A pt \in PN : Root(lev, pageinfo, pt, r) => Root(l, pageinfo', pt, r)
        BY <1>1, <1>3, <2>9, BuiltStep
    <2>11. RootsOK(l, pageinfo', processes')
        BY <1>1, <1>2, <2>8, <2>10, RootsKept
    <2>12. job'.pt = job.pt /\ job'.pid = job.pid
        BY <1>1, <2>8 DEF TypeOK
    <2>13. PlacesInv'
        BY <1>3, <2>10, <2>11, <2>12 DEF PlacesInv, JobRoot
    <2>14. JobOK' /\ CurrentOK'
        BY <1>1, <2>8, <2>12 DEF JobOK, CurrentOK, Building
    <2>. QED  BY <2>10, <2>13, <2>14 DEF Isolates, IsolationInv
<1>. QED  BY <1>4, <1>5

-----------------------------------------------------------------------------
(* There is a page for the stack *)

\* No program has more segments than SegmentBound, and memory has room for
\* what processes with so many segments take.
LEMMA SegmentBoundHolds ==
    /\ SegmentBound \in Nat /\ ProcessPages \in Nat
    /\ \A n \in Program : Len(Segments[n]) =< SegmentBound
    /\ Cardinality(PN \ (KERNEL \cup RESERVED)) >= NALLOC * (8 + SegmentBound) - 3
<1>1. /\ SegmentBound \in {Len(Segments[n]) : n \in Program}
      /\ \A n \in Program : Len(Segments[n]) =< SegmentBound
      /\ Cardinality(PN \ (KERNEL \cup RESERVED)) >= NALLOC * (8 + SegmentBound) - 3
    BY BootAssumption DEF SegmentBound
<1>2. SegmentBound \in Nat
    BY <1>1, ProgramAssumption
<1>. QED  BY <1>1, <1>2 DEF ProcessPages

\* The processes that are still to be set up need no negative number of pages.
LEMMA RestNatural ==
    ASSUME OwnershipInv, kpc \in {"setup", "setup_copy", "load"}
    PROVE  /\ ForTheRest(command, job.pid) \in Nat /\ FreeCount(pageinfo) \in Nat
           /\ job.pid \in 1 .. LastSetup(command) /\ LastSetup(command) \in 1 .. NPROC - 1
<1>1. LastSetup(command) \in 1 .. NPROC - 1 /\ job.pid \in 1 .. LastSetup(command)
    BY LayoutTypes DEF OwnershipInv, JobOwner
<1>2. LastSetup(command) - job.pid \in Nat
    BY <1>1, SizeAssumption
<1>3. \A a, b \in Nat : a * b \in Nat
    OBVIOUS
<1>4. ForTheRest(command, job.pid) \in Nat
    BY <1>2, <1>3, SegmentBoundHolds DEF ForTheRest
<1>5. FreeCount(pageinfo) \in Nat
    BY AssignCost, LayoutTypes DEF OwnershipInv, TypeOK
<1>. QED  BY <1>1, <1>4, <1>5

\* process_setup has loaded the program and comes to the stack.
AtStack == kpc = "load" /\ job.seg > Len(Segments[Loading])

\* When process_setup comes to the stack, get_free_addr finds a page for it.
LEMMA StackPageFound ==
    ASSUME OwnershipInv, IsolationInv, BootMemory, AtStack
    PROVE  FreeAddr(pageinfo) # NULL
<1>1. kpc = "load" /\ job.seg > Len(Segments[Loading]) /\ Loading \in Program
    BY LoadingType DEF AtStack
<1>2. Len(Segments[Loading]) \in Nat /\ Len(Segments[Loading]) =< SegmentBound /\ SegmentBound \in Nat
    BY <1>1, LoadingType, SegmentBoundHolds
<1>3. ForTheRest(command, job.pid) \in Nat /\ FreeCount(pageinfo) \in Nat
    BY <1>1, RestNatural
<1>4. /\ job.seg \in 1 .. Len(Segments[Loading]) + 1
      /\ FreeCount(pageinfo) - ForTheRest(command, job.pid) >= SegmentBound + 2 - job.seg
    BY <1>1 DEF BootMemory
<1>5. FreeCount(pageinfo) > 0
    BY <1>1, <1>2, <1>3, <1>4
<1>6. pageinfo[NULL].refcount # 0 /\ pageinfo \in [PN -> PageInfo]
    BY Parts, LayoutAssumption DEF KernelIntact
<1>. QED  BY <1>5, <1>6, FreeAddrFound

\* process_setup maps a free page as the stack.
LEMMA SetupStackIsolates == OwnershipInv /\ IsolationInv /\ BootMemory /\ SetupStack => Isolates
<1>. SUFFICES ASSUME OwnershipInv, IsolationInv, BootMemory, SetupStack PROVE Isolates
    OBVIOUS
<1>. DEFINE n == FreeAddr(pageinfo)
            va == MEMSIZE_VIRTUAL - 1
            map == virtual_memory_map(Assign(pageinfo, n, job.pid), mem, job.pt, va,
                                      n, RWU, pagetable_owner, TRUE)
            ready == [state |-> "P_RUNNABLE", pagetable |-> processes[job.pid].pagetable,
                      rip |-> Segments[Loading][1], rax |-> 0]
            procs == [processes EXCEPT ![job.pid] = ready]
<1>1. /\ pageinfo \in [PN -> PageInfo] /\ mem \in [PN -> Page]
      /\ processes \in [Pid -> Processes] /\ KernelIntact(mem, pageinfo) /\ JobOK /\ CurrentOK
      /\ kpc = "load" /\ TypeOK
    BY Parts DEF SetupStack
<1>2. PICK lev \in [PN -> Level], path \in [PN -> Path] :
        /\ Placed(lev, path, mem, pageinfo) /\ RootsOK(lev, pageinfo, processes)
        /\ JobRoot(lev, pageinfo, kpc, job)
    BY Parts DEF PlacesInv
<1>3. /\ job.pid \in Pid \ {0} /\ job.pid \in Writers /\ job.pt \in PN
      /\ pagetable_owner = job.pid /\ Root(lev, pageinfo, job.pt, job.pid)
    BY <1>1, <1>2, JobFacts DEF JobRoot, Building
<1>4. n # NULL /\ n \in PN /\ pageinfo[n].refcount = 0
    BY <1>1, StackPageFound, FreeAddrType DEF IsFree, AtStack, SetupStack
<1>5. va \in VA /\ va >= PROC_START /\ RWU \in SUBSET Flags /\ PTE_P \in RWU
    BY LayoutTypes, LayoutAssumption, SizeAssumption DEF RWU, Flags, VA
<1>6. get_free_addr(pageinfo, job.pid).pn = n
      /\ get_free_addr(pageinfo, job.pid).pageinfo = Assign(pageinfo, n, job.pid)
    BY <1>4 DEF get_free_addr, Give
<1>. HIDE DEF n, va
<1>7. MappedFresh(job.pid, lev, path, pageinfo, mem, map, job.pt, va, n, RWU)
    BY <1>1, <1>2, <1>3, <1>4, <1>5, GivenAndMapped
<1>8. /\ pageinfo' = map.pageinfo /\ mem' = map.mem
      /\ UNCHANGED <<pagetable_owner, trap>>
      /\ \/ kpc' = "panic" /\ processes' = processes
         \/ /\ processes' = procs /\ kpc' = "setup" /\ job' = [NoJob EXCEPT !.pid = job.pid + 1]
         \/ processes' = procs /\ run(procs, map.mem, 1)
    BY <1>6 DEF SetupStack, Panic, va
<1>. HIDE DEF map
<1>9. PICK l \in [PN -> Level], q \in [PN -> Path] :
        Built(job.pid, lev, path, pageinfo, mem, l, q, pageinfo', mem')
    BY <1>7, <1>8 DEF MappedFresh
<1>10. /\ KernelIntact(mem', pageinfo') /\ Placed(l, q, mem', pageinfo') /\ OthersKept
       /\ \A r : \A pt \in PN : Root(lev, pageinfo, pt, r) => Root(l, pageinfo', pt, r)
    BY <1>1, <1>3, <1>9, BuiltStep
<1>11. processes[job.pid].pagetable = job.pt
    BY <1>1 DEF JobOK
<1>12. \A p \in Pid : /\ p # job.pid => procs[p] = processes[p]
                      /\ procs[p].pagetable = processes[p].pagetable
                      /\ p = job.pid => Root(l, pageinfo', procs[p].pagetable, p)
    BY <1>1, <1>3, <1>10, <1>11 DEF Processes
<1>. HIDE DEF procs
<1>13. RootsOK(l, pageinfo', procs)
    BY <1>1, <1>2, <1>10, <1>12, RootsKept
<1>14. CASE kpc' = "panic" /\ processes' = processes
    <2>1. RootsOK(l, pageinfo', processes')
        BY <1>1, <1>2, <1>10, <1>14, RootsKept
    <2>2. IsolationInv'
        BY <1>10, <1>14, <2>1, LeftIsolation DEF LeftKernel
    <2>. QED  BY <1>10, <2>2 DEF Isolates
<1>15. CASE /\ processes' = procs /\ kpc' = "setup" /\ job' = [NoJob EXCEPT !.pid = job.pid + 1]
    <2>1. job'.pid = job.pid + 1
        BY <1>15 DEF NoJob
    <2>2. PlacesInv'
        BY <1>10, <1>13, <1>15 DEF PlacesInv, JobRoot, Building
    <2>3. \A p \in Pid : p >= job'.pid => p # job.pid /\ p >= job.pid
        BY <1>3, <2>1, SizeAssumption DEF Pid
    <2>4. JobOK' /\ CurrentOK'
        BY <1>1, <1>12, <1>15, <2>3 DEF JobOK, CurrentOK, Building
    <2>. QED  BY <1>10, <2>2, <2>4 DEF Isolates, IsolationInv
<1>16. CASE processes' = procs /\ run(procs, map.mem, 1)
    <2>1. 1 \in Pid /\ map.mem[NULL] = ZeroPage
        BY <1>8, <1>10, SizeAssumption DEF Pid, KernelIntact
    <2>2. LeftKernel(processes')
        BY <1>16, <2>1, RunLeaves
    <2>3. IsolationInv'
        BY <1>10, <1>13, <1>16, <2>2, LeftIsolation
    <2>. QED  BY <1>10, <2>3 DEF Isolates
<1>. QED  BY <1>8, <1>14, <1>15, <1>16

-----------------------------------------------------------------------------
(* User mode *)

\* A store by a process reaches its own memory or the console.
LEMMA UserStoreIsolates ==
    ASSUME OwnershipInv, IsolationInv, NEW va \in TouchVAs, NEW i \in TouchIndexes,
           NEW w \in UserWords, UserStore(va, i, w)
    PROVE  Isolates
<1>. DEFINE n == virtual_memory_lookup(mem, cr3, va).pn
<1>1. /\ pageinfo \in [PN -> PageInfo] /\ mem \in [PN -> Page]
      /\ KernelIntact(mem, pageinfo) /\ JobOK /\ CurrentOK /\ kpc = "user"
      /\ PTE_U \in virtual_memory_lookup(mem, cr3, va).perm
    BY Parts DEF UserStore, Executing, UserPerm
<1>2. PICK lev \in [PN -> Level], path \in [PN -> Path] :
        Placed(lev, path, mem, pageinfo) /\ RootsOK(lev, pageinfo, processes)
    BY Parts DEF PlacesInv
<1>3. cr3 \in PN /\ Root(lev, pageinfo, cr3, current)
    BY <1>1, <1>2, CurrentRoot DEF CurrentOK
<1>4. va \in VA
    BY UserAssumption
<1>5. n \in PN /\ (n = CONSOLE \/ (lev[n] = UserLevel /\ pageinfo[n] = pageinfo[cr3]))
    <2>1. lev[cr3] = 0
        BY <1>3 DEF Root
    <2>. QED  BY <1>1, <1>2, <1>3, <1>4, <2>1, LookupPlaced
<1>6. \A u \in PN : u # n => mem'[u] = mem[u]
    BY <1>1 DEF UserStore
<1>7. UNCHANGED <<pageinfo, processes, current, pagetable_owner, cr3, kpc, job, trap>>
    BY DEF UserStore
<1>. HIDE DEF n
<1>8. n = CONSOLE \/ pageinfo[n].owner = current
    BY <1>3, <1>5 DEF Root, Owns
<1>9. lev[n] \notin 0 .. 3
    <2>1. CASE n = CONSOLE
        <3>1. pageinfo[n].owner = -1
            BY <1>1, <2>1, LayoutAssumption DEF KernelIntact, PO_RESERVED
        <3>2. -1 \notin Pid
            BY SizeAssumption DEF Pid
        <3>. QED  BY <1>2, <1>5, <3>1, <3>2 DEF Placed, PlacesOwned, NoLevel
    <2>2. CASE lev[n] = UserLevel
        BY <2>2 DEF UserLevel
    <2>. QED  BY <1>5, <2>1, <2>2
<1>10. Placed(lev, path, mem', pageinfo')
    BY <1>2, <1>5, <1>6, <1>7, <1>9, StorePlaced
<1>11. PlacesInv'
    BY <1>1, <1>2, <1>7, <1>10 DEF PlacesInv, JobRoot, Building
<1>12. n # NULL /\ \A k \in 0 .. 4 : n # KPT + k
    <2>1. current \in Pid /\ -1 \notin Pid /\ -2 \notin Pid
        BY Parts, SizeAssumption DEF Pid
    <2>2. \A t \in KERNEL \cup RESERVED : pageinfo[t].owner \notin Pid
        BY <1>1, <2>1 DEF KernelIntact, PO_KERNEL, PO_RESERVED
    <2>3. NULL \in RESERVED /\ CONSOLE # NULL
        BY LayoutAssumption
    <2>. QED  BY <1>8, <2>1, <2>2, <2>3, KernelPages
<1>13. KernelIntact(mem', pageinfo')
    <2>1. NULL \in PN /\ \A k \in 0 .. 4 : KPT + k \in PN
        BY KernelPages
    <2>. QED  BY <1>1, <1>6, <1>7, <1>12, <2>1 DEF KernelIntact
<1>14. OthersKept
    BY <1>1, <1>6, <1>8 DEF OthersKept, Writers, Building
<1>15. JobOK' /\ CurrentOK'
    BY <1>1, <1>7 DEF JobOK, CurrentOK, HasTable
<1>. QED  BY <1>11, <1>13, <1>14, <1>15 DEF Isolates, IsolationInv

\* Entering the kernel changes registers only.
LEMMA ExceptionIsolates ==
    ASSUME OwnershipInv, IsolationInv, kpc = "user", NEW int, NEW rdi, NEW rax,
           int = "INT_SYS_PAGE_ALLOC" => rdi >= PROC_START, exception(int, rdi, rax)
    PROVE  Isolates
<1>1. /\ processes \in [Pid -> Processes] /\ current \in Pid
      /\ KernelIntact(mem, pageinfo) /\ JobOK /\ CurrentOK
    BY Parts
<1>2. PICK lev \in [PN -> Level], path \in [PN -> Path] :
        Placed(lev, path, mem, pageinfo) /\ RootsOK(lev, pageinfo, processes)
    BY Parts DEF PlacesInv
<1>3. /\ UNCHANGED <<pageinfo, mem, current, pagetable_owner, job>>
      /\ processes' = [processes EXCEPT ![current].rax = rax]
      /\ \/ kpc' = "dispatch" /\ trap' = [int |-> int, rdi |-> rdi]
         \/ kpc' = "panic" /\ trap' = NoTrap
    BY DEF exception
<1>4. \A p \in Pid : /\ processes'[p].state = processes[p].state
                     /\ processes'[p].pagetable = processes[p].pagetable
    BY <1>1, <1>3 DEF Processes
<1>5. RootsOK(lev, pageinfo', processes')
    BY <1>2, <1>3, <1>4 DEF RootsOK
<1>6. PlacesInv'
    BY <1>2, <1>3, <1>5 DEF PlacesInv, JobRoot, Building
<1>7. JobOK' /\ CurrentOK'
    BY <1>1, <1>3, <1>4 DEF JobOK, CurrentOK, HasTable, Building
<1>. QED  BY <1>1, <1>3, <1>6, <1>7 DEF Isolates, IsolationInv, OthersKept

\* Whatever user programs do.
LEMMA UserIsolates == OwnershipInv /\ IsolationInv /\ (User \/ Timer) => Isolates
<1>. SUFFICES ASSUME OwnershipInv, IsolationInv, User \/ Timer PROVE Isolates
    OBVIOUS
<1>1. CASE \E va \in TouchVAs, i \in TouchIndexes, w \in UserWords : UserStore(va, i, w)
    BY <1>1, UserStoreIsolates
<1>2. CASE \E int \in Syscalls, rax \in UserRax : Syscall(int, rax)
    BY <1>2, ExceptionIsolates DEF Syscall, Executing
<1>3. CASE \E addr \in AllocVAs, rax \in UserRax : SyscallPageAlloc(addr, rax)
    <2>1. \A addr \in AllocVAs : addr >= PROC_START
        BY UserAssumption, LayoutTypes, SizeAssumption
    <2>. QED  BY <1>3, <2>1, ExceptionIsolates DEF SyscallPageAlloc, Executing
<1>4. CASE \E va \in TouchVAs, rax \in UserRax : PageFault(va, rax)
    BY <1>4, ExceptionIsolates DEF PageFault
<1>5. CASE Timer
    BY <1>5, ExceptionIsolates DEF Timer, TimerInterrupt
<1>. QED  BY <1>1, <1>2, <1>3, <1>4, <1>5 DEF User

-----------------------------------------------------------------------------
(* The handlers *)

\* A handler that ends having built for a process and given no process
\* another root.
LEMMA LeaveIsolates ==
    ASSUME OwnershipInv, IsolationInv, NEW p \in Pid \ {0}, p \in Writers,
           NEW lev, NEW path, NEW lev2 \in [PN -> Level], NEW path2 \in [PN -> Path],
           Placed(lev, path, mem, pageinfo), RootsOK(lev, pageinfo, processes),
           Built(p, lev, path, pageinfo, mem, lev2, path2, pageinfo', mem'),
           \A q \in Pid : \/ /\ processes'[q].pagetable = processes[q].pagetable
                             /\ processes'[q].state # "P_FREE" => processes[q].state # "P_FREE"
                          \/ processes'[q].pagetable = NULL,
           LeftKernel(processes')
    PROVE  Isolates
<1>1. KernelIntact(mem, pageinfo) /\ processes \in [Pid -> Processes]
    BY Parts
<1>2. /\ KernelIntact(mem', pageinfo') /\ Placed(lev2, path2, mem', pageinfo') /\ OthersKept
      /\ \A r : \A pt \in PN : Root(lev, pageinfo, pt, r) => Root(lev2, pageinfo', pt, r)
    BY <1>1, BuiltStep
<1>3. RootsOK(lev2, pageinfo', processes')
    BY <1>1, <1>2, RootsKept
<1>4. IsolationInv'
    BY <1>2, <1>3, LeftIsolation
<1>. QED  BY <1>2, <1>4 DEF Isolates

\* A handler that ends and has changed registers or states only.
LEMMA QuietLeave ==
    ASSUME OwnershipInv, IsolationInv, kpc \in {"dispatch", "fork_copy", "fork_memory"},
           UNCHANGED <<pageinfo, mem>>, LeftKernel(processes'),
           \A q \in Pid : \/ /\ processes'[q].pagetable = processes[q].pagetable
                             /\ processes'[q].state # "P_FREE" => processes[q].state # "P_FREE"
                          \/ processes'[q].pagetable = NULL
    PROVE  Isolates
<1>1. /\ pageinfo \in [PN -> PageInfo] /\ mem \in [PN -> Page]
      /\ KernelIntact(mem, pageinfo) /\ processes \in [Pid -> Processes] /\ CurrentOK /\ JobOK
    BY Parts
<1>2. PICK lev \in [PN -> Level], path \in [PN -> Path] :
        Placed(lev, path, mem, pageinfo) /\ RootsOK(lev, pageinfo, processes)
    BY Parts DEF PlacesInv
<1>3. PICK p \in Pid \ {0} : p \in Writers
    BY <1>1, <1>2, CurrentRoot, JobFacts DEF Writers, Building
<1>4. Built(p, lev, path, pageinfo, mem, lev, path, pageinfo', mem')
    <2>1. Built(p, lev, path, pageinfo, mem, lev, path, pageinfo, mem)
        BY <1>1, <1>2, BuiltReflexive
    <2>. QED  BY <2>1
<1>. QED  BY <1>2, <1>3, <1>4, LeaveIsolates

\* SetRax changes one register of one process.
LEMMA SetRaxKeeps ==
    ASSUME NEW procs \in [Pid -> Processes], NEW p \in Pid, NEW rax, NEW q \in Pid
    PROVE  /\ SetRax(procs, p, rax)[q].pagetable = procs[q].pagetable
           /\ SetRax(procs, p, rax)[q].state = procs[q].state
           /\ q # p => SetRax(procs, p, rax)[q] = procs[q]
BY DEF SetRax, Processes

\* The handlers that allocate nothing.
LEMMA SimpleHandlerIsolates ==
    OwnershipInv /\ IsolationInv /\
        (HandlePanic \/ HandleGetpid \/ HandleYieldOrTimer \/ HandlePageFault
         \/ HandlePageAllocOOM \/ ForkNoSlot \/ ForkEnd) => Isolates
<1>. SUFFICES ASSUME OwnershipInv, IsolationInv,
                     HandlePanic \/ HandleGetpid \/ HandleYieldOrTimer \/ HandlePageFault
                     \/ HandlePageAllocOOM \/ ForkNoSlot \/ ForkEnd
              PROVE  Isolates
    OBVIOUS
<1>1. kpc \in {"dispatch", "fork_copy", "fork_memory"}
    BY DEF HandlePanic, HandleGetpid, HandleYieldOrTimer, HandlePageFault,
           HandlePageAllocOOM, ForkNoSlot, ForkEnd
<1>2. /\ processes \in [Pid -> Processes] /\ current \in Pid /\ job.pid \in Pid
      /\ mem[NULL] = ZeroPage
    BY Parts DEF TypeOK, KernelIntact
<1>3. SUFFICES /\ UNCHANGED <<pageinfo, mem>> /\ LeftKernel(processes')
               /\ \A q \in Pid : /\ processes'[q].pagetable = processes[q].pagetable
                                 /\ processes'[q].state # "P_FREE" => processes[q].state # "P_FREE"
    BY <1>1, QuietLeave
<1>4. CASE HandlePanic
    BY <1>4 DEF HandlePanic, Panic, LeftKernel
<1>5. CASE HandleYieldOrTimer
    <2>1. schedule(processes, mem) /\ UNCHANGED <<pageinfo, mem, processes>>
        BY <1>5 DEF HandleYieldOrTimer
    <2>2. LeftKernel(processes')
        BY <1>2, <2>1, ScheduleLeaves
    <2>. QED  BY <2>1, <2>2
<1>6. ASSUME NEW p \in Pid, NEW rax, Return(SetRax(processes, p, rax), mem, pageinfo)
      PROVE  /\ UNCHANGED <<pageinfo, mem>> /\ LeftKernel(processes')
             /\ \A q \in Pid : /\ processes'[q].pagetable = processes[q].pagetable
                               /\ processes'[q].state # "P_FREE" => processes[q].state # "P_FREE"
    <2>1. LeftKernel(SetRax(processes, p, rax)) /\ processes' = SetRax(processes, p, rax)
          /\ UNCHANGED <<pageinfo, mem>>
        BY <1>2, <1>6, ReturnLeaves
    <2>2. LeftKernel(processes')
        BY <2>1, Zenon
    <2>. QED  BY <1>2, <2>1, <2>2, SetRaxKeeps
<1>7. CASE HandleGetpid
    BY <1>2, <1>6, <1>7 DEF HandleGetpid
<1>8. CASE HandlePageAllocOOM
    BY <1>2, <1>6, <1>8 DEF HandlePageAllocOOM
<1>9. CASE ForkNoSlot
    BY <1>2, <1>6, <1>9 DEF ForkNoSlot
<1>10. CASE HandlePageFault
    <2>. DEFINE broken == [processes EXCEPT ![current].state = "P_BROKEN"]
    <2>1. \A q \in Pid : broken[q].pagetable = processes[q].pagetable
        BY <1>2 DEF Processes
    <2>2. \A q \in Pid : processes[q].state # "P_FREE" \/ broken[q].state = processes[q].state
        <3>1. processes[current].state # "P_FREE"
            BY <1>1, Parts DEF CurrentOK, HasTable, HandlePageFault
        <3>. QED  BY <1>2, <3>1 DEF Processes
    <2>3. Return(broken, mem, pageinfo)
        BY <1>10 DEF HandlePageFault
    <2>. HIDE DEF broken
    <2>4. LeftKernel(broken) /\ processes' = broken /\ UNCHANGED <<pageinfo, mem>>
        BY <1>2, <2>3, ReturnLeaves
    <2>5. LeftKernel(processes')
        BY <2>4, Zenon
    <2>. QED  BY <2>1, <2>2, <2>4, <2>5
<1>11. CASE ForkEnd
    <2>. DEFINE parent == SetRax(processes, current, job.pid)
                both == SetRax(parent, job.pid, 0)
    <2>1. parent \in [Pid -> Processes]
        <3>1. job.pid \in Int /\ processes[current] \in Processes
            BY <1>2, SizeAssumption DEF Pid
        <3>. QED  BY <1>2, <3>1 DEF SetRax, Processes
    <2>2. \A q \in Pid : /\ parent[q].pagetable = processes[q].pagetable
                         /\ parent[q].state = processes[q].state
        BY <1>2, SetRaxKeeps
    <2>3. Return(both, mem, pageinfo)
        BY <1>11 DEF ForkEnd
    <2>. HIDE DEF parent
    <2>4. \A q \in Pid : /\ both[q].pagetable = processes[q].pagetable
                         /\ both[q].state = processes[q].state
        BY <1>2, <2>1, <2>2, SetRaxKeeps
    <2>. HIDE DEF both
    <2>5. LeftKernel(both) /\ processes' = both /\ UNCHANGED <<pageinfo, mem>>
        BY <1>2, <2>3, ReturnLeaves
    <2>6. LeftKernel(processes')
        BY <2>5, Zenon
    <2>. QED  BY <2>4, <2>5, <2>6
<1>. QED  BY <1>4, <1>5, <1>7, <1>8, <1>9, <1>10, <1>11

\* sys_page_alloc: the page and the tables above it are built into the tree of
\* the caller, which may be left without the mapping.
LEMMA HandlePageAllocIsolates == OwnershipInv /\ IsolationInv /\ HandlePageAlloc => Isolates
<1>. SUFFICES ASSUME OwnershipInv, IsolationInv, HandlePageAlloc PROVE Isolates
    OBVIOUS
<1>. DEFINE n == FreeAddr(pageinfo)
            pt == processes[current].pagetable
            map == virtual_memory_map(Assign(pageinfo, n, current), mem, pt, trap.rdi,
                                      n, RWU, current, TRUE)
            rax == IF map.res = "ok" THEN 0 ELSE FAILED
            procs == SetRax(processes, current, rax)
<1>1. /\ pageinfo \in [PN -> PageInfo] /\ mem \in [PN -> Page] /\ TypeOK
      /\ processes \in [Pid -> Processes] /\ KernelIntact(mem, pageinfo) /\ CurrentOK
      /\ kpc = "dispatch" /\ trap.int = "INT_SYS_PAGE_ALLOC" /\ n # NULL
    BY Parts DEF HandlePageAlloc
<1>2. PICK lev \in [PN -> Level], path \in [PN -> Path] :
        Placed(lev, path, mem, pageinfo) /\ RootsOK(lev, pageinfo, processes)
    BY Parts DEF PlacesInv
<1>3. /\ current \in Pid \ {0} /\ current \in Writers /\ pt \in PN
      /\ Root(lev, pageinfo, pt, current)
    BY <1>1, <1>2, CurrentRoot DEF Writers, Building
<1>4. n \in PN /\ pageinfo[n].refcount = 0
    BY <1>1, FreeAddrType DEF IsFree
<1>5. trap.rdi \in VA /\ trap.rdi >= PROC_START /\ RWU \in SUBSET Flags /\ PTE_P \in RWU
    BY <1>1 DEF RWU, Flags, CurrentOK, TypeOK
<1>6. get_free_addr(pageinfo, current).pn = n
      /\ get_free_addr(pageinfo, current).pageinfo = Assign(pageinfo, n, current)
    BY <1>1 DEF get_free_addr, Give
<1>7. /\ pageinfo' = map.pageinfo /\ mem' = map.mem
      /\ \/ kpc' = "panic" /\ processes' = processes
         \/ Return(procs, map.mem, map.pageinfo)
    BY <1>6 DEF HandlePageAlloc, Panic, Return
<1>. HIDE DEF n, pt
<1>8. MappedFresh(current, lev, path, pageinfo, mem, map, pt, trap.rdi, n, RWU)
    BY <1>1, <1>2, <1>3, <1>4, <1>5, GivenAndMapped
<1>. HIDE DEF map, rax
<1>9. \A q \in Pid : /\ procs[q].pagetable = processes[q].pagetable
                     /\ procs[q].state = processes[q].state
    BY <1>1, <1>3, SetRaxKeeps
<1>. HIDE DEF procs
<1>10. PICK l \in [PN -> Level], q \in [PN -> Path] :
        Built(current, lev, path, pageinfo, mem, l, q, pageinfo', mem')
    BY <1>7, <1>8 DEF MappedFresh
<1>11. KernelIntact(mem', pageinfo')
    BY <1>1, <1>3, <1>10, BuiltStep
<1>12. CASE kpc' = "panic" /\ processes' = processes
    <2>1. LeftKernel(processes')
        BY <1>12 DEF LeftKernel
    <2>. QED  BY <1>2, <1>3, <1>10, <1>12, <2>1, LeaveIsolates
<1>13. CASE Return(procs, map.mem, map.pageinfo)
    <2>1. map.mem[NULL] = ZeroPage
        BY <1>7, <1>11 DEF KernelIntact
    <2>2. LeftKernel(procs) /\ processes' = procs
        BY <1>3, <1>13, <2>1, ReturnLeaves
    <2>3. LeftKernel(processes')
        BY <2>2, Zenon
    <2>. QED  BY <1>2, <1>3, <1>9, <1>10, <2>2, <2>3, LeaveIsolates
<1>. QED  BY <1>7, <1>12, <1>13

\* fork() takes a free slot and gives it a cleared page as root; without one
\* the child is left without a page table.
LEMMA ForkBeginIsolates == OwnershipInv /\ IsolationInv /\ ForkBegin => Isolates
<1>. SUFFICES ASSUME OwnershipInv, IsolationInv, ForkBegin PROVE Isolates
    OBVIOUS
<1>1. /\ pageinfo \in [PN -> PageInfo] /\ mem \in [PN -> Page] /\ current \in Pid
      /\ processes \in [Pid -> Processes] /\ KernelIntact(mem, pageinfo) /\ CurrentOK
      /\ kpc = "dispatch"
    BY Parts DEF ForkBegin
<1>2. PICK lev \in [PN -> Level], path \in [PN -> Path] :
        Placed(lev, path, mem, pageinfo) /\ RootsOK(lev, pageinfo, processes)
    BY Parts DEF PlacesInv
<1>3. PICK i \in FreeSlots :
        LET procs == [processes EXCEPT ![i] = Child]
            root  == pagetable_alloc(pageinfo, mem, i)
        IN  /\ pagetable_owner' = i
            /\ IF root.pn = NULL
               THEN Return(SetRax(procs, current, FAILED), mem, pageinfo)
               ELSE /\ processes' = procs
                    /\ pageinfo' = root.pageinfo
                    /\ mem' = root.mem
                    /\ kpc' = "fork_copy"
                    /\ job' = [NoJob EXCEPT !.pid = i, !.pt = root.pn]
                    /\ UNCHANGED <<current, cr3, trap>>
    BY DEF ForkBegin
<1>. DEFINE procs == [processes EXCEPT ![i] = Child]
            root  == pagetable_alloc(pageinfo, mem, i)
<1>4. i \in Pid \ {0} /\ i # current /\ current \in HasTable
    BY <1>1, SizeAssumption DEF FreeSlots, Pid, CurrentOK, HasTable
<1>5. FreshTable(pageinfo, mem, i, root)
    BY <1>1, PagetableAllocFresh
<1>6. Child \in Processes /\ Child.pagetable = NULL
    <2>1. processes[current] \in Processes
        BY <1>1
    <2>. QED  BY <2>1, LayoutTypes DEF Child, Processes, NULL
<1>7. /\ procs \in [Pid -> Processes]
      /\ \A q \in Pid : IF q = i THEN procs[q].pagetable = NULL ELSE procs[q] = processes[q]
    BY <1>1, <1>4, <1>6
<1>. HIDE DEF procs, root
<1>8. CASE root.pn = NULL
    <2>. DEFINE failed == SetRax(procs, current, FAILED)
    <2>1. Return(failed, mem, pageinfo)
        BY <1>3, <1>8 DEF procs, root
    <2>2. \A q \in Pid : /\ failed[q].pagetable = procs[q].pagetable
                         /\ failed[q].state = procs[q].state
        BY <1>1, <1>7, SetRaxKeeps
    <2>. HIDE DEF failed
    <2>3. mem[NULL] = ZeroPage
        BY <1>1 DEF KernelIntact
    <2>4. LeftKernel(failed) /\ processes' = failed /\ UNCHANGED <<pageinfo, mem>>
        BY <1>1, <2>1, <2>3, ReturnLeaves
    <2>5. LeftKernel(processes')
        BY <2>4, Zenon
    <2>. QED  BY <1>1, <1>7, <2>2, <2>4, <2>5, QuietLeave
<1>9. CASE root.pn # NULL
    <2>1. /\ processes' = procs /\ pageinfo' = root.pageinfo /\ mem' = root.mem
          /\ kpc' = "fork_copy" /\ pagetable_owner' = i
          /\ job' = [NoJob EXCEPT !.pid = i, !.pt = root.pn]
          /\ UNCHANGED <<current, cr3, trap>>
        BY <1>3, <1>9 DEF procs, root
    <2>2. job'.pid = i /\ job'.pt = root.pn
        BY <2>1 DEF NoJob
    <2>3. /\ root.pn \in PN /\ pageinfo[root.pn].refcount = 0
          /\ pageinfo' = Assign(pageinfo, root.pn, i)
          /\ mem' = [mem EXCEPT ![root.pn] = ZeroPage]
        BY <1>5, <1>9, <2>1 DEF FreshTable
    <2>. DEFINE lev2 == [lev EXCEPT ![root.pn] = 0]
    <2>4. Built(i, lev, path, pageinfo, mem, lev2, path, pageinfo', mem')
        <3>1. 0 \in {0, UserLevel}
            OBVIOUS
        <3>2. Built(i, lev, path, pageinfo, mem, lev2, path,
                    Assign(pageinfo, root.pn, i), [mem EXCEPT ![root.pn] = ZeroPage])
            BY <1>1, <1>2, <1>4, <2>3, <3>1, ZeroPageType, GivePlaced
        <3>. QED  BY <2>3, <3>2
    <2>5. Root(lev2, pageinfo', root.pn, i)
        BY <1>1, <1>2, <2>3 DEF Root, Owns, Assign
    <2>6. PICK l \in [PN -> Level] : l = lev2
        BY <2>4 DEF Built, Placed
    <2>. HIDE DEF lev2
    <2>7. /\ KernelIntact(mem', pageinfo') /\ Placed(l, path, mem', pageinfo')
          /\ \A q : \A pt \in PN : Root(lev, pageinfo, pt, q) => Root(l, pageinfo', pt, q)
        BY <1>1, <1>4, <2>4, <2>6, BuiltStep
    <2>8. RootsOK(l, pageinfo', processes')
        BY <1>1, <1>2, <1>7, <2>1, <2>7, RootsKept
    <2>9. JobRoot(l, pageinfo', kpc', job')
        BY <2>2, <2>5, <2>6 DEF JobRoot
    <2>10. PlacesInv'
        BY <2>7, <2>8, <2>9 DEF PlacesInv
    <2>11. OthersKept
        BY <1>1, <2>3 DEF OthersKept
    <2>12. JobOK' /\ CurrentOK'
        BY <1>1, <1>4, <1>7, <2>1, <2>2 DEF JobOK, CurrentOK, HasTable, Building
    <2>. QED  BY <2>7, <2>10, <2>11, <2>12 DEF Isolates, IsolationInv
<1>. QED  BY <1>8, <1>9

\* One page of fork()'s copying loop is built into the child's tree, whose
\* root the child's descriptor already has.
LEMMA ForkCopyPageIsolates == OwnershipInv /\ IsolationInv /\ ForkCopyPage => Isolates
<1>. SUFFICES ASSUME OwnershipInv, IsolationInv, ForkCopyPage PROVE Isolates
    OBVIOUS
<1>. DEFINE mapping == virtual_memory_lookup(mem, processes[current].pagetable, job.va)
            n      == FreeAddr(pageinfo)
            copied == [mem EXCEPT ![n] = mem[mapping.pn]]
            map    == virtual_memory_map(Assign(pageinfo, n, job.pid), copied, job.pt,
                                         job.va, n, mapping.perm, job.pid, TRUE)
            failed == SetRax(processes, current, FAILED)
<1>1. /\ pageinfo \in [PN -> PageInfo] /\ mem \in [PN -> Page] /\ current \in Pid
      /\ processes \in [Pid -> Processes] /\ KernelIntact(mem, pageinfo) /\ JobOK /\ CurrentOK
      /\ kpc = "fork_memory" /\ TypeOK /\ job.va < MEMSIZE_VIRTUAL
    BY Parts DEF ForkCopyPage
<1>2. PICK lev \in [PN -> Level], path \in [PN -> Path] :
        /\ Placed(lev, path, mem, pageinfo) /\ RootsOK(lev, pageinfo, processes)
        /\ JobRoot(lev, pageinfo, kpc, job)
    BY Parts DEF PlacesInv
<1>3. /\ job.pid \in Pid \ {0} /\ job.pid \in Writers /\ job.pt \in PN
      /\ pagetable_owner = job.pid /\ Root(lev, pageinfo, job.pt, job.pid)
      /\ processes[job.pid].pagetable = job.pt
    BY <1>1, <1>2, JobFacts DEF JobRoot, JobOK, Building
<1>4. job.va \in VA /\ job.va \in Nat /\ job.va >= PROC_START
    BY <1>1, SizeAssumption DEF TypeOK, VA, JobOK
<1>5. processes[current].pagetable \in PN
    BY <1>1 DEF Processes
<1>6. mapping.perm \in SUBSET Flags /\ (PTE_W \in mapping.perm => mapping.pn \in PN)
    BY <1>1, <1>4, <1>5, LookupType
<1>7. PTE_W \in mapping.perm => PTE_P \in mapping.perm
    BY LookupReads
<1>8. n \in PN /\ (n # NULL => pageinfo[n].refcount = 0)
    BY <1>1, FreeAddrType DEF IsFree
<1>9. /\ get_free_addr(pageinfo, job.pid).pn = n
      /\ n # NULL => get_free_addr(pageinfo, job.pid).pageinfo = Assign(pageinfo, n, job.pid)
    BY DEF get_free_addr, Give
<1>10. \/ /\ job' = [job EXCEPT !.va = job.va + 1]
          /\ UNCHANGED <<pageinfo, mem, processes, kpc, current, trap, pagetable_owner>>
       \/ Return(failed, mem, pageinfo)
       \/ /\ PTE_W \in mapping.perm /\ n # NULL
          /\ pageinfo' = map.pageinfo /\ mem' = map.mem
          /\ \/ Return(failed, map.mem, map.pageinfo)
             \/ /\ job' = [job EXCEPT !.va = job.va + 1]
                /\ UNCHANGED <<processes, kpc, current, trap, pagetable_owner>>
             \/ kpc' = "panic" /\ UNCHANGED processes
    BY <1>3, <1>9 DEF ForkCopyPage, Panic, NextVA, Return
<1>. HIDE DEF mapping, n
<1>11. PTE_W \in mapping.perm /\ n # NULL =>
        MappedFresh(job.pid, lev, path, pageinfo, mem, map, job.pt, job.va, n, mapping.perm)
    <2>1. PTE_W \in mapping.perm =>
            copied \in [PN -> Page] /\ \A t \in PN : t # n => copied[t] = mem[t]
        BY <1>1, <1>6, <1>8
    <2>. HIDE DEF copied
    <2>. QED  BY <1>1, <1>2, <1>3, <1>4, <1>6, <1>7, <1>8, <2>1, GivenAndMapped
<1>. HIDE DEF map
<1>12. \A q \in Pid : /\ failed[q].pagetable = processes[q].pagetable
                      /\ failed[q].state = processes[q].state
    BY <1>1, SetRaxKeeps
<1>. HIDE DEF failed
<1>13. CASE Return(failed, mem, pageinfo)
    <2>1. mem[NULL] = ZeroPage
        BY <1>1 DEF KernelIntact
    <2>2. LeftKernel(failed) /\ processes' = failed /\ UNCHANGED <<pageinfo, mem>>
        BY <1>1, <1>13, <2>1, ReturnLeaves
    <2>3. LeftKernel(processes')
        BY <2>2, Zenon
    <2>. QED  BY <1>1, <1>12, <2>2, <2>3, QuietLeave
<1>14. CASE /\ \/ UNCHANGED <<pageinfo, mem>>
               \/ PTE_W \in mapping.perm /\ n # NULL /\ pageinfo' = map.pageinfo /\ mem' = map.mem
            /\ \/ Return(failed, mem', pageinfo')
               \/ /\ job' = [job EXCEPT !.va = job.va + 1]
                  /\ UNCHANGED <<processes, kpc, current, trap, pagetable_owner>>
               \/ kpc' = "panic" /\ UNCHANGED processes
    <2>1. PICK l \in [PN -> Level], q \in [PN -> Path] :
            Built(job.pid, lev, path, pageinfo, mem, l, q, pageinfo', mem')
        <3>1. CASE UNCHANGED <<pageinfo, mem>>
            <4>1. Built(job.pid, lev, path, pageinfo, mem, lev, path, pageinfo, mem)
                BY <1>1, <1>2, BuiltReflexive
            <4>. QED  BY <1>2, <3>1, <4>1
        <3>2. CASE PTE_W \in mapping.perm /\ n # NULL /\ pageinfo' = map.pageinfo /\ mem' = map.mem
            BY <1>11, <3>2 DEF MappedFresh
        <3>. QED  BY <1>14, <3>1, <3>2
    <2>2. /\ KernelIntact(mem', pageinfo') /\ Placed(l, q, mem', pageinfo') /\ OthersKept
          /\ \A r : \A pt \in PN : Root(lev, pageinfo, pt, r) => Root(l, pageinfo', pt, r)
        BY <1>1, <1>3, <2>1, BuiltStep
    <2>3. CASE Return(failed, mem', pageinfo')
        <3>1. mem'[NULL] = ZeroPage
            BY <2>2 DEF KernelIntact
        <3>2. LeftKernel(failed) /\ processes' = failed
            BY <1>1, <2>3, <3>1, ReturnLeaves
        <3>3. LeftKernel(processes')
            BY <3>2, Zenon
        <3>. QED  BY <1>2, <1>3, <1>12, <2>1, <3>2, <3>3, LeaveIsolates
    <2>4. CASE kpc' = "panic" /\ UNCHANGED processes
        <3>1. LeftKernel(processes')
            BY <2>4 DEF LeftKernel
        <3>. QED  BY <1>2, <1>3, <2>1, <2>4, <3>1, LeaveIsolates
    <2>5. CASE /\ job' = [job EXCEPT !.va = job.va + 1]
               /\ UNCHANGED <<processes, kpc, current, trap, pagetable_owner>>
        <3>1. RootsOK(l, pageinfo', processes')
            BY <1>1, <1>2, <2>2, <2>5, RootsKept
        <3>2. job'.pt = job.pt /\ job'.pid = job.pid /\ job'.va = job.va + 1
            BY <1>1, <2>5 DEF TypeOK
        <3>3. PlacesInv'
            BY <1>3, <2>2, <3>1, <3>2 DEF PlacesInv, JobRoot
        <3>4. job'.va >= PROC_START
            BY <1>4, <3>2, LayoutTypes
        <3>5. JobOK' /\ CurrentOK'
            BY <1>1, <2>5, <3>2, <3>4 DEF JobOK, CurrentOK, HasTable, Building
        <3>. QED  BY <2>2, <3>3, <3>5 DEF Isolates, IsolationInv
    <2>. QED  BY <1>14, <2>3, <2>4, <2>5
<1>. QED  BY <1>10, <1>13, <1>14

-----------------------------------------------------------------------------
(* Boot and the keyboard *)

\* kernel(command) starts without any process, on a kernel_pagetables[] that
\* it sets up again; the temporary page table of check_keyboard is in memory
\* that is given away.
LEMMA BootPlaced ==
    ASSUME NEW m, m[NULL] = ZeroPage
    PROVE  /\ KernelIntact(KernelMapped(m), pageinfo_init)
           /\ \E lev \in [PN -> Level], path \in [PN -> Path] :
                Placed(lev, path, KernelMapped(m), pageinfo_init)
           /\ \A p \in Pid : BootProcesses[p].state = "P_FREE"
<1>. DEFINE m2 == KernelMapped(m)
<1>1. NULL \in PN /\ NULL \notin KPT .. KPT + 4
    BY KernelPages, LayoutAssumption
<1>2. m2[NULL] = ZeroPage
    BY <1>1 DEF KernelMapped
<1>3. ASSUME NEW n \in 0 .. 4 PROVE m2[KPT + n] = KernelTable(n)
    <2>. DEFINE k == KPT + n
    <2>1. k \in PN /\ k \in KPT .. KPT + 4 /\ k - KPT = n
        BY KernelPages, LayoutAssumption
    <2>. HIDE DEF k
    <2>2. m2[k] = KernelTable(k - KPT)
        BY <2>1 DEF KernelMapped
    <2>. QED  BY <2>1, <2>2 DEF k
<1>. HIDE DEF m2
<1>4. KernelIntact(m2, pageinfo_init)
    <2>1. \A pn \in RESERVED : InitOwner(pn) = PO_RESERVED
        BY DEF InitOwner
    <2>2. \A pn \in KERNEL : InitOwner(pn) = PO_KERNEL
        BY LayoutAssumption DEF InitOwner
    <2>3. PO_RESERVED # PO_FREE /\ PO_KERNEL # PO_FREE
        BY DEF PO_RESERVED, PO_KERNEL, PO_FREE
    <2>. QED  BY <1>2, <1>3, <2>1, <2>2, <2>3, KernelPages DEF KernelIntact, pageinfo_init
<1>. DEFINE lev == [t \in PN |-> NoLevel]
            path == [t \in PN |-> [k \in 0 .. 3 |-> 0]]
<1>5. lev \in [PN -> Level] /\ path \in [PN -> Path]
    BY SizeAssumption DEF Level, NoLevel, Path, Index
<1>6. Placed(lev, path, m2, pageinfo_init)
    <2>1. \A t \in PN : lev[t] = NoLevel /\ lev[t] \notin 0 .. 2 /\ lev[t] # 3
        BY DEF NoLevel
    <2>. HIDE DEF lev, path
    <2>. QED  BY <1>5, <2>1 DEF Placed, PlacesOwned, EntryOK
<1>. HIDE DEF lev, path
<1>7. \A p \in Pid : BootProcesses[p].state = "P_FREE"
    BY DEF BootProcesses, FreeProcess
<1>. QED  BY <1>4, <1>5, <1>6, <1>7 DEF m2

\* The invariant holds when the machine is switched on.
LEMMA InitIsolation == Init => IsolationInv
<1>. SUFFICES ASSUME Init PROVE IsolationInv
    OBVIOUS
<1>. DEFINE m == [pn \in PN |-> ZeroPage]
<1>1. m[NULL] = ZeroPage
    BY KernelPages
<1>2. mem = KernelMapped(m) /\ pageinfo = pageinfo_init /\ processes = BootProcesses /\ kpc = "setup"
    BY DEF Init
<1>. HIDE DEF m
<1>3. PlacesInv
    BY <1>1, <1>2, BootPlaced DEF PlacesInv, RootsOK, JobRoot, Building
<1>4. JobOK /\ CurrentOK
    BY <1>1, <1>2, BootPlaced DEF JobOK, CurrentOK, Building
<1>. QED  BY <1>1, <1>2, <1>3, <1>4, BootPlaced DEF IsolationInv

\* A soft reboot establishes the invariant anew.
LEMMA SoftRebootIsolates ==
    ASSUME OwnershipInv, IsolationInv, NEW cmd \in Commands, SoftReboot(cmd)
    PROVE  IsolationInv'
<1>1. TemporaryTable(mem)[NULL] = ZeroPage
    <2>1. NULL \in PN /\ NULL \notin TEMPPT .. TEMPPT + 2
        BY KernelPages, LayoutAssumption
    <2>2. mem[NULL] = ZeroPage
        BY Parts DEF KernelIntact
    <2>. QED  BY <2>1, <2>2 DEF TemporaryTable
<1>. DEFINE m == TemporaryTable(mem)
<1>2. /\ mem' = KernelMapped(m) /\ pageinfo' = pageinfo_init /\ processes' = BootProcesses
      /\ kpc' = "setup" /\ m[NULL] = ZeroPage
    BY <1>1 DEF SoftReboot
<1>. HIDE DEF m
<1>3. PlacesInv'
    BY <1>2, BootPlaced DEF PlacesInv, RootsOK, JobRoot, Building
<1>4. JobOK' /\ CurrentOK'
    BY <1>2, BootPlaced DEF JobOK, CurrentOK, Building
<1>. QED  BY <1>2, <1>3, <1>4, BootPlaced DEF IsolationInv

\* Switching off changes no memory.
LEMMA PoweroffIsolates == OwnershipInv /\ IsolationInv /\ Poweroff => Isolates
<1>. SUFFICES ASSUME OwnershipInv, IsolationInv, Poweroff PROVE Isolates
    OBVIOUS
<1>1. kpc' = "off" /\ UNCHANGED <<pageinfo, mem, processes>>
    BY DEF Poweroff
<1>2. PICK lev \in [PN -> Level], path \in [PN -> Path] :
        Placed(lev, path, mem, pageinfo) /\ RootsOK(lev, pageinfo, processes)
    BY Parts DEF PlacesInv
<1>3. IsolationInv'
    BY <1>1, <1>2, Parts, LeftIsolation DEF LeftKernel
<1>. QED  BY <1>1, <1>3 DEF Isolates, OthersKept

\* Neither does a step that changes nothing.
LEMMA StutterIsolates == OwnershipInv /\ IsolationInv /\ UNCHANGED vars => Isolates
<1>. SUFFICES ASSUME OwnershipInv, IsolationInv, UNCHANGED vars PROVE Isolates
    OBVIOUS
<1>1. UNCHANGED <<pageinfo, mem, processes, current, pagetable_owner, cr3, kpc, job, trap>>
    BY DEF vars
<1>2. KernelIntact(mem', pageinfo') /\ PlacesInv'
    BY <1>1, Parts DEF PlacesInv
<1>3. JobOK' /\ CurrentOK'
    BY <1>1, Parts DEF JobOK, CurrentOK, HasTable
<1>. QED  BY <1>1, <1>2, <1>3 DEF Isolates, IsolationInv, OthersKept

-----------------------------------------------------------------------------
(* Memory at boot *)

\* Outside process_setup there is nothing to count.
LEMMA NoMoreSetup ==
    ASSUME kpc' \notin {"setup", "setup_copy", "load"}
    PROVE  BootMemory'
BY DEF BootMemory

\* What is free after pageinfo_init is enough for every process.
LEMMA BootCount ==
    ASSUME NEW cmd
    PROVE  FreeCount(pageinfo_init) - ForTheRest(cmd, 1) >= SegmentBound + 5
<1>. DEFINE b == 8 + SegmentBound
<1>1. b \in Nat /\ NALLOC \in Nat /\ NALLOC >= 1 /\ SegmentBound \in Nat
    BY SegmentBoundHolds, ProgramAssumption, SizeAssumption
<1>2. FreePages(pageinfo_init) = PN \ (KERNEL \cup RESERVED)
    <2>1. PO_RESERVED # PO_FREE /\ PO_KERNEL # PO_FREE
        BY DEF PO_RESERVED, PO_KERNEL, PO_FREE
    <2>2. \A pn \in PN : InitOwner(pn) = PO_FREE <=> pn \notin KERNEL \cup RESERVED
        BY <2>1 DEF InitOwner
    <2>. QED  BY <2>2 DEF FreePages, IsFree, pageinfo_init
<1>3. FreeCount(pageinfo_init) >= NALLOC * b - 3
    BY <1>2, SegmentBoundHolds DEF FreeCount
<1>4. FreeCount(pageinfo_init) \in Nat
    <2>1. pageinfo_init \in [PN -> PageInfo] /\ NULL \in PN
        BY BootState, KernelPages
    <2>. QED  BY <2>1, AssignCost
<1>5. (NALLOC - 1) * b \in Nat /\ NALLOC * b = (NALLOC - 1) * b + b /\ (1 - 1) * b = 0
    <2>1. \A x, y \in Nat : x * y \in Nat /\ (x + 1) * y = x * y + y /\ 0 * y = 0
        OBVIOUS
    <2>2. NALLOC - 1 \in Nat /\ NALLOC = (NALLOC - 1) + 1 /\ 1 - 1 = 0
        BY <1>1
    <2>. HIDE DEF b
    <2>. QED  BY <1>1, <2>1, <2>2
<1>6. ForTheRest(cmd, 1) = (LastSetup(cmd) - 1) * b /\ LastSetup(cmd) \in {1, NALLOC}
    BY DEF ForTheRest, ProcessPages, LastSetup
<1>7. b = 8 + SegmentBound
    OBVIOUS
<1>. HIDE DEF b
<1>8. CASE LastSetup(cmd) = 1
    <2>1. ForTheRest(cmd, 1) = 0
        BY <1>5, <1>6, <1>8, Zenon
    <2>. QED  BY <1>1, <1>3, <1>4, <1>5, <1>7, <2>1
<1>9. CASE LastSetup(cmd) = NALLOC
    <2>1. ForTheRest(cmd, 1) = (NALLOC - 1) * b
        BY <1>6, <1>9, Zenon
    <2>. QED  BY <1>1, <1>3, <1>4, <1>5, <1>7, <2>1
<1>. QED  BY <1>6, <1>8, <1>9

\* The count holds when the machine is switched on and after a reboot.
LEMMA InitMemory == Init => BootMemory
<1>. SUFFICES ASSUME Init PROVE BootMemory
    OBVIOUS
<1>1. kpc = "setup" /\ pageinfo = pageinfo_init /\ job.pid = 1 /\ job.seg = 1
    BY DEF Init, NoJob
<1>. QED  BY <1>1, BootCount DEF BootMemory

\* The count holds after a reboot.
LEMMA SoftRebootMemory ==
    ASSUME NEW cmd \in Commands, SoftReboot(cmd)
    PROVE  BootMemory'
<1>1. kpc' = "setup" /\ pageinfo' = pageinfo_init /\ job'.pid = 1 /\ job'.seg = 1
    BY DEF SoftReboot, NoJob
<1>. QED  BY <1>1, BootCount DEF BootMemory

\* process_setup takes a page for the root.
LEMMA ProcessSetupMemory == OwnershipInv /\ BootMemory /\ ProcessSetup => BootMemory'
<1>. SUFFICES ASSUME OwnershipInv, BootMemory, ProcessSetup PROVE BootMemory'
    OBVIOUS
<1>. DEFINE root == pagetable_alloc(pageinfo, mem, job.pid)
<1>1. /\ pageinfo \in [PN -> PageInfo] /\ mem \in [PN -> Page] /\ kpc = "setup" /\ TypeOK
    BY DEF OwnershipInv, TypeOK, ProcessSetup
<1>2. FreshTable(pageinfo, mem, job.pid, root)
    BY <1>1, PagetableAllocFresh
<1>. HIDE DEF root
<1>3. /\ pageinfo' = root.pageinfo /\ UNCHANGED command
      /\ \/ kpc' = "panic"
         \/ /\ root.pn # NULL /\ kpc' = "setup_copy"
            /\ job' = [job EXCEPT !.pt = root.pn, !.va = 0]
    BY DEF ProcessSetup, Panic, root
<1>4. CASE kpc' = "panic"
    BY <1>4, NoMoreSetup
<1>5. CASE /\ root.pn # NULL /\ kpc' = "setup_copy"
           /\ job' = [job EXCEPT !.pt = root.pn, !.va = 0]
    <2>1. job'.pid = job.pid /\ job'.va = 0 /\ job'.seg = job.seg
        BY <1>1, <1>5 DEF TypeOK
    <2>2. /\ FreeCount(pageinfo) \in Nat /\ FreeCount(pageinfo') \in Nat
          /\ FreeCount(pageinfo') >= FreeCount(pageinfo) - 1
        <3>1. pageinfo' = Assign(pageinfo, root.pn, job.pid) /\ root.pn \in PN
            BY <1>2, <1>3, <1>5 DEF FreshTable
        <3>. QED  BY <1>1, <3>1, AssignCost
    <2>3. ForTheRest(command, job.pid) \in Nat /\ SegmentBound \in Nat
        BY <1>1, RestNatural, SegmentBoundHolds
    <2>4. job.seg = 1 /\ FreeCount(pageinfo) - ForTheRest(command, job.pid) >= SegmentBound + 5
        BY <1>1 DEF BootMemory
    <2>5. FreeCount(pageinfo') - ForTheRest(command, job.pid) >= SegmentBound + 4
        BY <2>2, <2>3, <2>4
    <2>. QED  BY <1>3, <1>5, <2>1, <2>4, <2>5 DEF BootMemory
<1>. QED  BY <1>3, <1>4, <1>5

\* A tree in which some address copy_pagetable copies can be reached has the
\* tables for all of them.
LEMMA PresentTogether ==
    ASSUME NEW m, NEW pt, NEW va \in Nat, va < PROC_START
    PROVE  Present(m, pt, va) <=> Present(m, pt, 0)
<1>1. 0 \in Nat /\ 0 < PROC_START
    BY KernelPages
<1>2. /\ PAGEINDEX(va, 0) = PAGEINDEX(0, 0) /\ PAGEINDEX(va, 1) = PAGEINDEX(0, 1)
      /\ PAGEINDEX(va, 2) = PAGEINDEX(0, 2)
    BY <1>1, LowIndexes
<1>. QED  BY <1>2 DEF Present, Entry0, Entry1, Entry2

\* The first page copy_pagetable maps takes at most three tables, the others
\* take none.
LEMMA CopyMappingMemory ==
    OwnershipInv /\ IsolationInv /\ BootMemory /\ CopyMapping => BootMemory'
<1>. SUFFICES ASSUME OwnershipInv, IsolationInv, BootMemory, CopyMapping PROVE BootMemory'
    OBVIOUS
<1>. DEFINE mapping == virtual_memory_lookup(mem, CopySource, job.va)
            map == virtual_memory_map(pageinfo, mem, job.pt, job.va, mapping.pn,
                                      mapping.perm, job.pid, TRUE)
<1>1. /\ pageinfo \in [PN -> PageInfo] /\ mem \in [PN -> Page] /\ TypeOK
      /\ KernelIntact(mem, pageinfo) /\ JobOK
      /\ kpc \in {"setup_copy", "fork_copy"} /\ job.va < PROC_START
    BY Parts DEF CopyMapping
<1>2. CASE kpc = "fork_copy"
    <2>1. kpc' \in {"fork_copy", "panic"}
        BY <1>2 DEF CopyMapping, Panic
    <2>. QED  BY <2>1, NoMoreSetup
<1>3. CASE kpc = "setup_copy"
    <2>1. PICK lev \in [PN -> Level], path \in [PN -> Path] :
            Placed(lev, path, mem, pageinfo) /\ JobRoot(lev, pageinfo, kpc, job)
        BY Parts DEF PlacesInv
    <2>2. /\ job.pid \in Pid \ {0} /\ job.pt \in PN
          /\ pagetable_owner = job.pid /\ Root(lev, pageinfo, job.pt, job.pid)
        BY <1>1, <1>3, <2>1, JobFacts DEF JobRoot, Building
    <2>3. job.va \in VA /\ job.va \in Nat /\ job.va \in PN
        BY <1>1, LayoutTypes, LayoutAssumption, SizeAssumption, SMTT(60) DEF TypeOK, VA, PN
    <2>4. mapping = [pn |-> job.va, perm |-> KernelPerm(job.va)]
        BY <1>1, <1>3, <2>3, LookupKernel DEF CopySource
    <2>5. /\ mapping.pn \in PN /\ mapping.perm \in SUBSET Flags /\ PTE_P \in mapping.perm
          /\ PTE_U \in mapping.perm => mapping.pn = CONSOLE
        BY <1>1, <2>3, <2>4 DEF KernelPerm, RWU, Flags, PTE_P, PTE_W, PTE_U
    <2>6. \/ kpc' = "panic"
          \/ /\ kpc' = kpc /\ job' = [job EXCEPT !.va = job.va + 1] /\ map.res = "ok"
             /\ pageinfo' = map.pageinfo /\ mem' = map.mem /\ UNCHANGED command
        BY <2>2, <2>5 DEF CopyMapping, Panic, NextVA
    <2>. HIDE DEF mapping
    <2>7. map.res = "ok" =>
            virtual_memory_lookup(map.mem, job.pt, job.va) = [pn |-> mapping.pn, perm |-> mapping.perm]
        <3>1. MayMap(job.pid, lev, pageinfo, job.va, mapping.pn, mapping.perm)
            BY <1>1, <2>5 DEF MayMap
        <3>2. MapBuilds(job.pid, lev, path, pageinfo, mem, job.pt, job.va, mapping.pn,
                        mapping.perm, map)
            BY <1>1, <2>1, <2>2, <2>3, <2>5, <3>1, MapPlaced
        <3>. HIDE DEF map
        <3>. QED  BY <3>2 DEF MapBuilds
    <2>8. /\ FreeCount(pageinfo) \in Nat /\ FreeCount(map.pageinfo) \in Nat
          /\ FreeCount(map.pageinfo) >= FreeCount(pageinfo) - 3
          /\ Present(mem, job.pt, job.va) => map.pageinfo = pageinfo
        <3>1. job.pid \in Owner
            BY <2>2 DEF Owner
        <3>2. MapCosts(pageinfo, mem, job.pt, job.va, TRUE, map)
            BY <1>1, <2>2, <2>3, <3>1, MapCost
        <3>. HIDE DEF map
        <3>. QED  BY <3>2 DEF MapCosts
    <2>. HIDE DEF map
    <2>9. CASE kpc' = "panic"
        BY <2>9, NoMoreSetup
    <2>10. CASE /\ kpc' = kpc /\ job' = [job EXCEPT !.va = job.va + 1] /\ map.res = "ok"
                /\ pageinfo' = map.pageinfo /\ mem' = map.mem /\ UNCHANGED command
        <3>1. /\ job'.pid = job.pid /\ job'.seg = job.seg /\ job'.pt = job.pt
              /\ job'.va = job.va + 1 /\ job'.va # 0
            BY <1>1, <2>3, <2>10 DEF TypeOK
        <3>2. Present(mem', job'.pt, 0)
            <4>1. PTE_P \in virtual_memory_lookup(mem', job.pt, job.va).perm
                BY <2>5, <2>7, <2>10
            <4>2. Present(mem', job.pt, job.va)
                BY <4>1, LookupReads DEF Present
            <4>. QED  BY <1>1, <2>3, <3>1, <4>2, PresentTogether
        <3>3. ForTheRest(command, job.pid) \in Nat /\ SegmentBound \in Nat
            BY <1>3, RestNatural, SegmentBoundHolds
        <3>4. FreeCount(pageinfo') - ForTheRest(command, job.pid) >= SegmentBound + 1
            <4>1. CASE job.va = 0
                <5>1. FreeCount(pageinfo) - ForTheRest(command, job.pid) >= SegmentBound + 4
                    BY <1>3, <4>1 DEF BootMemory
                <5>. QED  BY <2>8, <2>10, <3>3, <5>1
            <4>2. CASE job.va # 0
                <5>1. /\ FreeCount(pageinfo) - ForTheRest(command, job.pid) >= SegmentBound + 1
                      /\ Present(mem, job.pt, 0)
                    BY <1>3, <2>3, <4>2 DEF BootMemory
                <5>2. pageinfo' = pageinfo
                    BY <1>1, <2>3, <2>8, <2>10, <5>1, PresentTogether
                <5>. QED  BY <5>1, <5>2
            <4>. QED  BY <4>1, <4>2
        <3>5. job.seg = 1
            BY <1>3 DEF BootMemory
        <3>. QED  BY <1>3, <2>10, <3>1, <3>2, <3>4, <3>5 DEF BootMemory
    <2>. QED  BY <2>6, <2>9, <2>10
<1>. QED  BY <1>1, <1>2, <1>3

\* After copy_pagetable process_setup loads the first segment.
LEMMA CopyReturnMemory == OwnershipInv /\ BootMemory /\ CopyReturn => BootMemory'
<1>. SUFFICES ASSUME OwnershipInv, BootMemory, CopyReturn PROVE BootMemory'
    OBVIOUS
<1>1. /\ kpc \in {"setup_copy", "fork_copy"} /\ job.va = PROC_START
      /\ UNCHANGED <<pageinfo, job, command>>
    BY DEF CopyReturn
<1>2. CASE kpc = "fork_copy"
    BY <1>2, NoMoreSetup DEF CopyReturn
<1>3. CASE kpc = "setup_copy"
    <2>1. kpc' = "load" /\ job.va > 0
        BY <1>3, KernelPages DEF CopyReturn
    <2>2. job.seg = 1 /\ FreeCount(pageinfo) - ForTheRest(command, job.pid) >= SegmentBound + 1
        BY <1>3, <2>1 DEF BootMemory
    <2>3. Len(Segments[Loading]) \in Nat /\ Loading' = Loading
        BY <1>1, <1>3, LoadingType DEF Loading
    <2>4. SegmentBound \in Nat
        BY SegmentBoundHolds
    <2>. QED  BY <1>1, <2>1, <2>2, <2>3, <2>4 DEF BootMemory
<1>. QED  BY <1>1, <1>2, <1>3

\* A segment takes its page and no table.
LEMMA ProgramLoadSegmentMemory ==
    OwnershipInv /\ BootMemory /\ ProgramLoadSegment => BootMemory'
<1>. SUFFICES ASSUME OwnershipInv, BootMemory, ProgramLoadSegment PROVE BootMemory'
    OBVIOUS
<1>. DEFINE addr == Segments[Loading][job.seg]
            given == Assign(pageinfo, addr, job.pid)
            map == virtual_memory_map(given, mem, job.pt, addr, addr, RWU,
                                      pagetable_owner, FALSE)
<1>1. /\ pageinfo \in [PN -> PageInfo] /\ mem \in [PN -> Page] /\ TypeOK /\ kpc = "load"
      /\ job.seg =< Len(Segments[Loading]) /\ job.pt \in PN /\ JobOwner
    BY DEF OwnershipInv, TypeOK, ProgramLoadSegment
<1>2. \/ kpc' = "panic"
      \/ /\ CanAssign(pageinfo, addr) /\ pageinfo' = map.pageinfo
         /\ kpc' = "load" /\ job' = [job EXCEPT !.seg = job.seg + 1] /\ UNCHANGED command
    BY <1>1 DEF ProgramLoadSegment, Panic
<1>3. CASE kpc' = "panic"
    BY <1>3, NoMoreSetup
<1>4. CASE /\ CanAssign(pageinfo, addr) /\ pageinfo' = map.pageinfo
           /\ kpc' = "load" /\ job' = [job EXCEPT !.seg = job.seg + 1] /\ UNCHANGED command
    <2>1. addr \in PN /\ addr \in Nat /\ job.pid \in Pid \ {0} /\ job.pid \in Owner
        BY <1>1, <1>4, LoadingType, SizeAssumption DEF CanAssign, PN
    <2>2. pagetable_owner \in Owner
        BY <1>1 DEF TypeOK, JobOwner, Owner, PO_RESERVED
    <2>. HIDE DEF addr
    <2>3. /\ given \in [PN -> PageInfo]
          /\ FreeCount(pageinfo) \in Nat /\ FreeCount(given) \in Nat
          /\ FreeCount(given) >= FreeCount(pageinfo) - 1
        <3>1. given \in [PN -> PageInfo]
            BY <1>1, <2>1 DEF Assign, PageInfo
        <3>. QED  BY <1>1, <2>1, <3>1, AssignCost
    <2>. HIDE DEF given
    <2>4. pageinfo' = given
        <3>1. MapCosts(given, mem, job.pt, addr, FALSE, map)
            BY <1>1, <2>1, <2>2, <2>3, MapCost
        <3>. HIDE DEF map
        <3>. QED  BY <1>4, <3>1 DEF MapCosts
    <2>5. job'.pid = job.pid /\ job'.seg = job.seg + 1 /\ job.seg \in Nat
        BY <1>1, <1>4 DEF TypeOK
    <2>6. /\ job.seg \in 1 .. Len(Segments[Loading]) + 1
          /\ FreeCount(pageinfo) - ForTheRest(command, job.pid) >= SegmentBound + 2 - job.seg
        BY <1>1 DEF BootMemory
    <2>7. /\ ForTheRest(command, job.pid) \in Nat /\ SegmentBound \in Nat
          /\ Len(Segments[Loading]) \in Nat
        BY <1>1, RestNatural, SegmentBoundHolds, LoadingType
    <2>8. FreeCount(given) - ForTheRest(command, job.pid) >= SegmentBound + 2 - (job.seg + 1)
        BY <2>3, <2>5, <2>6, <2>7, SMTT(60)
    <2>9. job.seg + 1 \in 1 .. Len(Segments[Loading]) + 1
        BY <1>1, <2>5, <2>7
    <2>10. Loading' = Loading
        BY <1>4, <2>5 DEF Loading
    <2>. QED  BY <1>4, <2>4, <2>5, <2>8, <2>9, <2>10 DEF BootMemory
<1>. QED  BY <1>2, <1>3, <1>4

\* The stack takes its page and at most three tables, and the next process
\* finds what it needs.
LEMMA SetupStackMemory ==
    OwnershipInv /\ IsolationInv /\ BootMemory /\ SetupStack => BootMemory'
<1>. SUFFICES ASSUME OwnershipInv, IsolationInv, BootMemory, SetupStack PROVE BootMemory'
    OBVIOUS
<1>. DEFINE stack == get_free_addr(pageinfo, job.pid)
            map == virtual_memory_map(stack.pageinfo, mem, job.pt, MEMSIZE_VIRTUAL - 1,
                                      stack.pn, RWU, pagetable_owner, TRUE)
<1>1. /\ pageinfo \in [PN -> PageInfo] /\ mem \in [PN -> Page] /\ TypeOK /\ kpc = "load"
      /\ job.seg > Len(Segments[Loading]) /\ job.pt \in PN /\ JobOwner
    BY DEF OwnershipInv, TypeOK, SetupStack
<1>2. \/ kpc' \in {"panic", "user"}
      \/ /\ pageinfo' = map.pageinfo /\ kpc' = "setup" /\ UNCHANGED command
         /\ job' = [NoJob EXCEPT !.pid = job.pid + 1] /\ job.pid < LastSetup(command)
    BY DEF SetupStack, Panic, run
<1>3. CASE kpc' \in {"panic", "user"}
    BY <1>3, NoMoreSetup
<1>4. CASE /\ pageinfo' = map.pageinfo /\ kpc' = "setup" /\ UNCHANGED command
           /\ job' = [NoJob EXCEPT !.pid = job.pid + 1] /\ job.pid < LastSetup(command)
    <2>1. job'.pid = job.pid + 1 /\ job'.seg = 1
        BY <1>4 DEF NoJob
    <2>2. /\ stack.pageinfo \in [PN -> PageInfo]
          /\ FreeCount(pageinfo) \in Nat /\ FreeCount(stack.pageinfo) \in Nat
          /\ FreeCount(stack.pageinfo) >= FreeCount(pageinfo) - 1
        <3>. DEFINE n == FreeAddr(pageinfo)
        <3>1. n # NULL /\ n \in PN
            BY <1>1, StackPageFound, FreeAddrType DEF AtStack
        <3>2. stack.pageinfo = Assign(pageinfo, n, job.pid)
            BY <3>1 DEF get_free_addr, Give
        <3>3. job.pid \in Owner
            BY <1>1, LoadingType
        <3>. HIDE DEF n, stack
        <3>4. stack.pageinfo \in [PN -> PageInfo]
            BY <1>1, <3>1, <3>2, <3>3 DEF Assign, PageInfo
        <3>. QED  BY <1>1, <3>1, <3>2, <3>4, AssignCost
    <2>. HIDE DEF stack
    <2>3. /\ FreeCount(map.pageinfo) \in Nat
          /\ FreeCount(map.pageinfo) >= FreeCount(stack.pageinfo) - 3
        <3>1. pagetable_owner \in Owner /\ MEMSIZE_VIRTUAL - 1 \in Nat
            BY <1>1, SizeAssumption DEF TypeOK, JobOwner, Owner, PO_RESERVED
        <3>2. MapCosts(stack.pageinfo, mem, job.pt, MEMSIZE_VIRTUAL - 1, TRUE, map)
            BY <1>1, <2>2, <3>1, MapCost
        <3>. HIDE DEF map
        <3>. QED  BY <3>2 DEF MapCosts
    <2>. HIDE DEF map
    <2>4. /\ job.seg \in 1 .. Len(Segments[Loading]) + 1
          /\ FreeCount(pageinfo) - ForTheRest(command, job.pid) >= SegmentBound + 2 - job.seg
        BY <1>1 DEF BootMemory
    <2>5. /\ Len(Segments[Loading]) \in Nat /\ Len(Segments[Loading]) =< SegmentBound
          /\ SegmentBound \in Nat /\ ProcessPages \in Nat
        BY <1>1, LoadingType, SegmentBoundHolds
    <2>6. /\ job.pid \in Nat /\ LastSetup(command) \in Nat
        BY <1>1, RestNatural, SizeAssumption
    <2>7. /\ ForTheRest(command, job.pid) = ForTheRest(command, job.pid + 1) + ProcessPages
          /\ ForTheRest(command, job.pid + 1) \in Nat
        <3>. DEFINE rest == LastSetup(command) - (job.pid + 1)
        <3>1. rest \in Nat /\ LastSetup(command) - job.pid = rest + 1
            BY <1>4, <2>6
        <3>2. \A x, y \in Nat : x * y \in Nat /\ (x + 1) * y = x * y + y
            OBVIOUS
        <3>3. /\ ForTheRest(command, job.pid + 1) = rest * ProcessPages
              /\ ForTheRest(command, job.pid) = (LastSetup(command) - job.pid) * ProcessPages
            BY DEF ForTheRest
        <3>. HIDE DEF rest
        <3>. QED  BY <2>5, <3>1, <3>2, <3>3
    <2>8. ProcessPages = 8 + SegmentBound
        BY DEF ProcessPages
    <2>9. FreeCount(map.pageinfo) - ForTheRest(command, job.pid + 1) >= SegmentBound + 5
        <3>1. FreeCount(pageinfo) - ForTheRest(command, job.pid) >= 1
            <4>1. job.seg = Len(Segments[Loading]) + 1
                BY <1>1, <2>4, <2>5
            <4>. HIDE DEF Loading
            <4>. QED  BY <2>2, <2>4, <2>5, <2>7, <4>1
        <3>. QED  BY <2>2, <2>3, <2>5, <2>7, <2>8, <3>1
    <2>. QED  BY <1>4, <2>1, <2>9 DEF BootMemory
<1>. QED  BY <1>2, <1>3, <1>4

-----------------------------------------------------------------------------
(* Isolation *)

\* Returning from exception() does not lead back to process_setup or fork().
LEMMA ReturnLocation ==
    ASSUME NEW procs, NEW m, NEW pi, Return(procs, m, pi)
    PROVE  kpc' \in {"user", "panic", "idle"}
BY DEF Return, ReturnFromException, run, schedule, Panic

\* Where the handlers lead.
LEMMA HandleLocation ==
    ASSUME Handle
    PROVE  /\ kpc' \in {"user", "panic", "idle", "fork_copy", "fork_memory"}
           /\ kpc' \in {"fork_copy", "fork_memory"} => ForkBegin \/ ForkCopyPage
<1>1. CASE HandlePanic \/ HandleYieldOrTimer
    BY <1>1 DEF HandlePanic, HandleYieldOrTimer, schedule, run, Panic
<1>2. CASE HandleGetpid \/ HandlePageFault \/ HandlePageAllocOOM \/ ForkNoSlot \/ ForkEnd
    BY <1>2, ReturnLocation
    DEF HandleGetpid, HandlePageFault, HandlePageAllocOOM, ForkNoSlot, ForkEnd
<1>3. CASE HandlePageAlloc
    BY <1>3, ReturnLocation DEF HandlePageAlloc, Panic
<1>4. CASE ForkBegin
    BY <1>4, ReturnLocation DEF ForkBegin
<1>5. CASE ForkCopyPage
    BY <1>5, ReturnLocation DEF ForkCopyPage, Panic
<1>. QED  BY <1>1, <1>2, <1>3, <1>4, <1>5 DEF Handle

\* Every step of the machine preserves the invariants and, unless it is a
\* reboot, changes no page of a process it is not working for.
THEOREM NextIsolation ==
    ASSUME OwnershipInv, IsolationInv, BootMemory, [Next]_vars
    PROVE  IsolationInv' /\ BootMemory' /\ (reboots' # reboots \/ OthersKept)
<1>1. CASE Setup
    <2>1. Isolates
        BY <1>1, ProcessSetupIsolates, CopyMappingIsolates, CopyReturnIsolates,
           ProgramLoadSegmentIsolates, SetupStackIsolates DEF Setup
    <2>2. BootMemory'
        BY <1>1, ProcessSetupMemory, CopyMappingMemory, CopyReturnMemory,
           ProgramLoadSegmentMemory, SetupStackMemory DEF Setup
    <2>. QED  BY <2>1, <2>2 DEF Isolates
<1>2. CASE User \/ Timer
    <2>1. Isolates
        BY <1>2, UserIsolates
    <2>2. kpc' \in {"user", "dispatch", "panic"}
        BY <1>2 DEF User, Timer, UserStore, Syscall, SyscallPageAlloc, TimerInterrupt,
                    PageFault, exception, Executing
    <2>. QED  BY <2>1, <2>2, NoMoreSetup DEF Isolates
<1>3. CASE Handle
    <2>1. Isolates
        BY <1>3, SimpleHandlerIsolates, HandlePageAllocIsolates, ForkBeginIsolates,
           ForkCopyPageIsolates DEF Handle
    <2>2. BootMemory'
        BY <1>3, HandleLocation, NoMoreSetup
    <2>. QED  BY <2>1, <2>2 DEF Isolates
<1>4. CASE Poweroff
    <2>1. BootMemory'
        BY <1>4, NoMoreSetup DEF Poweroff
    <2>. QED  BY <1>4, <2>1, PoweroffIsolates DEF Isolates
<1>5. CASE \E cmd \in Commands : SoftReboot(cmd)
    BY <1>5, SoftRebootIsolates, SoftRebootMemory, SoftRebootStep
<1>6. CASE UNCHANGED vars
    <2>1. BootMemory'
        BY <1>6 DEF vars, BootMemory, Loading
    <2>. QED  BY <1>6, <2>1, StutterIsolates DEF Isolates
<1>. QED  BY <1>1, <1>2, <1>3, <1>4, <1>5, <1>6 DEF Next, Keyboard, Spin

\* The isolation invariant holds in every state: each process that has a page
\* table has a tree of its own, of pages it owns, whose user mappings are for
\* the console and for user memory of the process; and while the processes are
\* set up there is memory for all of them.
THEOREM IsolationInvariant == Spec => [](OwnershipInv /\ IsolationInv /\ BootMemory)
<1>1. Init => OwnershipInv /\ IsolationInv /\ BootMemory
    BY InitOwnership, InitIsolation, InitMemory
<1>2. OwnershipInv /\ IsolationInv /\ BootMemory /\ [Next]_vars
        => (OwnershipInv /\ IsolationInv /\ BootMemory)'
    BY NextOwnership, NextIsolation
<1>. QED  BY <1>1, <1>2, PTL DEF Spec

\* The pages of a process's user mappings: the console, or user memory it owns.
LEMMA UserPagesPlaced ==
    ASSUME OwnershipInv, IsolationInv, NEW lev \in [PN -> Level], NEW path,
           Placed(lev, path, mem, pageinfo), RootsOK(lev, pageinfo, processes),
           NEW p \in HasTable, NEW pn \in UserPages(processes[p].pagetable)
    PROVE  /\ pn \in PN
           /\ \/ pn = CONSOLE
              \/ lev[pn] = UserLevel /\ Owns(pageinfo, p, pn)
<1>. DEFINE pt == processes[p].pagetable
<1>1. mem \in [PN -> Page] /\ processes \in [Pid -> Processes]
    BY Parts
<1>2. p \in Pid /\ pt \in PN /\ lev[pt] = 0 /\ Owns(pageinfo, p, pt)
    BY <1>1 DEF HasTable, RootsOK, Root, Processes
<1>3. PICK va \in VA : /\ PTE_U \in virtual_memory_lookup(mem, pt, va).perm
                       /\ pn = virtual_memory_lookup(mem, pt, va).pn
    BY DEF UserPages
<1>. HIDE DEF pt
<1>4. /\ pn \in PN
      /\ IF va < PROC_START THEN pn = CONSOLE
         ELSE lev[pn] = UserLevel /\ pageinfo[pn] = pageinfo[pt]
    BY <1>1, <1>2, <1>3, LookupPlaced
<1>. QED  BY <1>2, <1>4 DEF Owns

\* Page tables and the kernel's pages are not user memory, nor is the console.
LEMMA LevelsApart ==
    ASSUME KernelIntact(mem, pageinfo), NEW lev \in [PN -> Level],
           PlacesOwned(lev, pageinfo), NEW t \in KERNEL \cup RESERVED
    PROVE  lev[t] = NoLevel
<1>1. pageinfo[t].owner \notin Pid
    BY SizeAssumption DEF KernelIntact, PO_KERNEL, PO_RESERVED, Pid
<1>. QED  BY <1>1, KernelPages DEF PlacesOwned

\* What a process can reach in user mode is its own pages and the console, in
\* every state, for every layout: also in the middle of fork(), after a system
\* call that ran out of memory half way and after reboots.
THEOREM ReachesOnlyItsOwn == Spec => []UserPagesOwned
<1>1. OwnershipInv /\ IsolationInv /\ BootMemory => UserPagesOwned
    <2>. SUFFICES ASSUME OwnershipInv, IsolationInv PROVE UserPagesOwned
        OBVIOUS
    <2>1. PICK lev \in [PN -> Level], path \in [PN -> Path] :
            Placed(lev, path, mem, pageinfo) /\ RootsOK(lev, pageinfo, processes)
        BY Parts DEF PlacesInv
    <2>. QED  BY <2>1, UserPagesPlaced DEF UserPagesOwned, Owns
<1>. QED  BY IsolationInvariant, <1>1, PTL

\* No process can reach a page table, its own included, nor the kernel.
THEOREM NoPageTableReachable == Spec => []PageTablesProtected
<1>1. OwnershipInv /\ IsolationInv /\ BootMemory => PageTablesProtected
    <2>. SUFFICES ASSUME OwnershipInv, IsolationInv, NEW p \in HasTable, NEW q \in HasTable,
                         NEW pn \in UserPages(processes[p].pagetable)
                  PROVE  pn \notin TablesOf(q) \cup KERNEL
        BY DEF PageTablesProtected
    <2>1. PICK lev \in [PN -> Level], path \in [PN -> Path] :
            Placed(lev, path, mem, pageinfo) /\ RootsOK(lev, pageinfo, processes)
        BY Parts DEF PlacesInv
    <2>2. pn \in PN /\ (pn = CONSOLE \/ lev[pn] = UserLevel)
        BY <2>1, UserPagesPlaced
    <2>3. KernelIntact(mem, pageinfo) /\ PlacesOwned(lev, pageinfo) /\ CONSOLE \in RESERVED
        BY <2>1, Parts, LayoutAssumption DEF Placed
    <2>4. lev[pn] \in {UserLevel, NoLevel}
        BY <2>2, <2>3, LevelsApart
    <2>5. pn \notin KERNEL
        <3>1. \A t \in KERNEL : lev[t] = NoLevel
            BY <2>3, LevelsApart
        <3>. QED  BY <2>2, <3>1, KernelPages DEF UserLevel, NoLevel
    <2>6. \A t \in TablesOf(q) : lev[t] \in 0 .. 3
        <3>1. mem \in [PN -> Page] /\ processes \in [Pid -> Processes]
            BY Parts
        <3>2. processes[q].pagetable \in PN /\ lev[processes[q].pagetable] = 0
            BY <2>1, <3>1 DEF HasTable, RootsOK, Root, Processes
        <3>3. \A t \in TablesBelow(mem, processes[q].pagetable) : lev[t] \in 1 .. 3
            BY <2>1, <3>1, <3>2, TreePlaced
        <3>. QED  BY <3>2, <3>3 DEF TablesOf
    <2>. QED  BY <2>4, <2>5, <2>6 DEF UserLevel, NoLevel
<1>. QED  BY IsolationInvariant, <1>1, PTL

\* process_setup does not check whether get_free_addr found a page for the
\* stack, and never has to: at boot and after every reboot there is one.
THEOREM StackHasMemory == Spec => [](AtStack => FreeAddr(pageinfo) # NULL)
<1>1. OwnershipInv /\ IsolationInv /\ BootMemory => (AtStack => FreeAddr(pageinfo) # NULL)
    BY StackPageFound
<1>. QED  BY IsolationInvariant, <1>1, PTL

\* The kernel's own page tables, page 0 and the owners of the kernel's and the
\* reserved pages stay as kernel() set them up, whatever processes do: every
\* exception finds kernel_pagetable as it was.
THEOREM KernelStaysIntact == Spec => []KernelIntact(mem, pageinfo)
<1>1. OwnershipInv /\ IsolationInv /\ BootMemory => KernelIntact(mem, pageinfo)
    BY DEF IsolationInv
<1>. QED  BY IsolationInvariant, <1>1, PTL

-----------------------------------------------------------------------------
(* Only the current process changes *)

\* Pages of a process other than the writers are kept.
LEMMA OwnPagesKept ==
    ASSUME KernelIntact(mem, pageinfo), OthersKept, NEW p \in Pid \ Writers
    PROVE  \A t \in PN : Owns(pageinfo, p, t) => mem'[t] = mem[t]
<1>1. pageinfo[CONSOLE].owner = -1 /\ p # -1
    BY LayoutAssumption, SizeAssumption DEF KernelIntact, PO_RESERVED, Pid
<1>. QED  BY <1>1 DEF OthersKept, Owns

\* What a step leaves alone of a process p that user programs see.
ProcessKept(p) == processes'[p] = processes[p] /\ p \notin Unborn'

\* A visible process other than the current one is none of the writers.
LEMMA OthersNotWriters ==
    ASSUME OwnershipInv, IsolationInv, NEW p \in Pid \ {current}, Visible(p)
    PROVE  p \notin Writers
<1>1. JobOK /\ job.pid \in Pid
    BY Parts DEF TypeOK
<1>2. CASE kpc \in {"fork_copy", "fork_memory"}
    BY <1>2 DEF Visible, Unborn, Writers
<1>3. CASE kpc \in {"setup", "setup_copy", "load"}
    <2>1. job.pid >= job.pid
        BY <1>1, SizeAssumption DEF Pid
    <2>. QED  BY <1>1, <1>3, <2>1 DEF Visible, Writers, JobOK
<1>4. CASE kpc \notin {"setup", "setup_copy", "load", "fork_copy", "fork_memory"}
    BY <1>4 DEF Writers, Building
<1>. QED  BY <1>2, <1>3, <1>4

\* A return from exception() leaves every process alone that the handler does.
LEMMA ReturnKeeps ==
    ASSUME NEW procs, NEW m, NEW pi, Return(procs, m, pi), NEW p, procs[p] = processes[p]
    PROVE  ProcessKept(p)
<1>1. kpc' \in {"user", "panic", "idle"} /\ processes' = procs
    BY ReturnLocation DEF Return
<1>. QED  BY <1>1 DEF ProcessKept, Unborn

\* No step changes the descriptor of a visible process other than the current
\* one, or makes it one that is being built.
LEMMA DescriptorsKept ==
    ASSUME OwnershipInv, IsolationInv, [Next]_vars, reboots' = reboots,
           NEW p \in Pid \ {current}, Visible(p)
    PROVE  ProcessKept(p)
<1>1. /\ processes \in [Pid -> Processes] /\ current \in Pid /\ job.pid \in Pid
      /\ p \notin Writers /\ p \notin Unborn /\ processes[p].state # "P_FREE" /\ TypeOK
    BY Parts, OthersNotWriters DEF TypeOK, Visible
<1>2. CASE Setup
    <2>1. kpc \in {"setup", "setup_copy", "load", "fork_copy"}
        BY <1>2 DEF Setup, ProcessSetup, CopyMapping, CopyReturn, ProgramLoadSegment, SetupStack
    <2>2. p # job.pid
        BY <1>1, <2>1 DEF Writers, Building
    <2>3. processes'[p] = processes[p]
        BY <1>1, <1>2, <2>2
        DEF Setup, ProcessSetup, CopyMapping, CopyReturn, ProgramLoadSegment, SetupStack
    <2>4. kpc' \in {"fork_copy", "fork_memory"} => job'.pid = job.pid
        <3>1. CASE CopyMapping
            BY <1>1, <3>1 DEF CopyMapping, TypeOK, Panic
        <3>2. CASE CopyReturn
            BY <3>2 DEF CopyReturn
        <3>3. CASE ProcessSetup \/ ProgramLoadSegment \/ SetupStack
            BY <3>3 DEF ProcessSetup, ProgramLoadSegment, SetupStack, run, Panic
        <3>. QED  BY <1>2, <3>1, <3>2, <3>3 DEF Setup
    <2>. QED  BY <2>2, <2>3, <2>4 DEF ProcessKept, Unborn
<1>3. CASE User \/ Timer
    <2>1. kpc' \in {"user", "dispatch", "panic"}
        BY <1>3 DEF User, Timer, UserStore, Syscall, SyscallPageAlloc, TimerInterrupt,
                    PageFault, exception, Executing
    <2>2. processes'[p] = processes[p]
        BY <1>1, <1>3 DEF User, Timer, UserStore, Syscall, SyscallPageAlloc, TimerInterrupt,
                          PageFault, exception
    <2>. QED  BY <2>1, <2>2 DEF ProcessKept, Unborn
<1>4. ASSUME NEW rax, NEW m, NEW pi, Return(SetRax(processes, current, rax), m, pi)
      PROVE  ProcessKept(p)
    <2>1. SetRax(processes, current, rax)[p] = processes[p]
        BY <1>1, SetRaxKeeps
    <2>. QED  BY <1>4, <2>1, ReturnKeeps
<1>5. CASE HandlePanic \/ HandleYieldOrTimer
    BY <1>5 DEF HandlePanic, HandleYieldOrTimer, schedule, run, Panic, ProcessKept, Unborn
<1>6. CASE HandleGetpid \/ HandlePageAllocOOM \/ ForkNoSlot
    BY <1>4, <1>6 DEF HandleGetpid, HandlePageAllocOOM, ForkNoSlot
<1>7. CASE HandlePageFault
    <2>1. [processes EXCEPT ![current].state = "P_BROKEN"][p] = processes[p]
        BY <1>1
    <2>. QED  BY <1>7, <2>1, ReturnKeeps DEF HandlePageFault
<1>8. CASE HandlePageAlloc
    BY <1>4, <1>8 DEF HandlePageAlloc, Panic, ProcessKept, Unborn
<1>9. CASE ForkBegin
    <2>1. PICK i \in FreeSlots :
            \/ Return(SetRax([processes EXCEPT ![i] = Child], current, FAILED), mem, pageinfo)
            \/ processes' = [processes EXCEPT ![i] = Child] /\ job'.pid = i
        BY <1>9 DEF ForkBegin, NoJob
    <2>2. p # i
        BY <1>1 DEF FreeSlots
    <2>3. CASE Return(SetRax([processes EXCEPT ![i] = Child], current, FAILED), mem, pageinfo)
        <3>1. SetRax([processes EXCEPT ![i] = Child], current, FAILED)[p] = processes[p]
            BY <1>1, <2>2 DEF SetRax
        <3>. QED  BY <2>3, <3>1, ReturnKeeps
    <2>4. CASE processes' = [processes EXCEPT ![i] = Child] /\ job'.pid = i
        BY <1>1, <2>2, <2>4 DEF ProcessKept, Unborn
    <2>. QED  BY <2>1, <2>3, <2>4
<1>10. CASE ForkCopyPage
    <2>1. kpc = "fork_memory" /\ p # job.pid
        BY <1>1, <1>10 DEF ForkCopyPage, Writers, Building
    <2>2. \/ \E m, pi : Return(SetRax(processes, current, FAILED), m, pi)
          \/ processes' = processes /\ job'.pid = job.pid
          \/ processes' = processes /\ kpc' = "panic"
        BY <1>1, <1>10 DEF ForkCopyPage, Panic, TypeOK
    <2>. QED  BY <1>4, <2>1, <2>2 DEF ProcessKept, Unborn
<1>11. CASE ForkEnd
    <2>. DEFINE both == SetRax(SetRax(processes, current, job.pid), job.pid, 0)
    <2>1. kpc = "fork_memory" /\ p # job.pid
        BY <1>1, <1>11 DEF ForkEnd, Writers, Building
    <2>2. both[p] = processes[p]
        BY <1>1, <2>1 DEF SetRax
    <2>. HIDE DEF both
    <2>3. Return(both, mem, pageinfo)
        BY <1>11 DEF ForkEnd, both
    <2>. QED  BY <2>2, <2>3, ReturnKeeps
<1>12. CASE Handle
    BY <1>5, <1>6, <1>7, <1>8, <1>9, <1>10, <1>11, <1>12 DEF Handle
<1>13. CASE Poweroff
    BY <1>13 DEF Poweroff, ProcessKept, Unborn
<1>14. CASE UNCHANGED vars
    BY <1>1, <1>14 DEF vars, ProcessKept, Unborn
<1>15. ASSUME NEW cmd \in Commands, SoftReboot(cmd) PROVE FALSE
    BY <1>15, SoftRebootStep
<1>. QED  BY <1>2, <1>3, <1>12, <1>13, <1>14, <1>15 DEF Next, Keyboard, Spin

\* A step that changes no page of a process keeps what the process sees, unless
\* the process is not what it was.
LEMMA MemoryKept ==
    ASSUME OwnershipInv, IsolationInv, IsolationInv', NEW p \in Pid, Visible(p), Visible(p)',
           processes'[p].pagetable = processes[p].pagetable,
           \A t \in PN : Owns(pageinfo, p, t) => mem'[t] = mem[t]
    PROVE  MemoryOf(p)' = MemoryOf(p)
<1>. DEFINE pt == processes[p].pagetable
<1>1. mem \in [PN -> Page] /\ processes \in [Pid -> Processes]
    BY Parts
<1>2. PICK lev \in [PN -> Level], path \in [PN -> Path] :
        Placed(lev, path, mem, pageinfo) /\ RootsOK(lev, pageinfo, processes)
    BY Parts DEF PlacesInv
<1>3. mem[NULL] = ZeroPage /\ mem'[NULL] = ZeroPage
    BY DEF IsolationInv, KernelIntact
<1>4. ASSUME NEW va \in UserVA
      PROVE  LET vam == virtual_memory_lookup(mem, pt, va)
             IN  /\ virtual_memory_lookup(mem', pt, va) = vam
                 /\ PTE_U \in vam.perm => mem'[vam.pn] = mem[vam.pn]
    <2>1. va \in VA /\ va \in Nat /\ ~(va < PROC_START)
        BY LayoutTypes, SizeAssumption DEF UserVA, VA
    <2>2. CASE pt = NULL
        <3>1. /\ virtual_memory_lookup(mem, NULL, va) = [pn |-> -1, perm |-> {}]
              /\ virtual_memory_lookup(mem', NULL, va) = [pn |-> -1, perm |-> {}]
            BY <1>3, <2>1, LookupNull
        <3>. HIDE DEF pt
        <3>. QED  BY <2>2, <3>1
    <2>3. CASE pt # NULL
        <3>1. pt \in PN /\ Root(lev, pageinfo, pt, p)
            BY <1>1, <1>2, <2>3 DEF RootsOK, Visible, Processes
        <3>2. lev[pt] = 0 /\ Owns(pageinfo, p, pt)
            BY <3>1 DEF Root
        <3>. HIDE DEF pt
        <3>3. virtual_memory_lookup(mem', pt, va) = virtual_memory_lookup(mem, pt, va)
            BY <1>1, <1>2, <1>3, <2>1, <3>1, SameLookup
        <3>4. ASSUME PTE_U \in virtual_memory_lookup(mem, pt, va).perm
              PROVE  mem'[virtual_memory_lookup(mem, pt, va).pn] = mem[virtual_memory_lookup(mem, pt, va).pn]
            <4>. DEFINE pn == virtual_memory_lookup(mem, pt, va).pn
            <4>1. pn \in PN /\ pageinfo[pn] = pageinfo[pt]
                BY <1>1, <1>2, <2>1, <3>1, <3>2, <3>4, LookupPlaced
            <4>. HIDE DEF pn
            <4>2. Owns(pageinfo, p, pn)
                BY <3>2, <4>1 DEF Owns
            <4>3. mem'[pn] = mem[pn]
                BY <4>1, <4>2
            <4>. QED  BY <4>3 DEF pn
        <3>. QED  BY <3>3, <3>4
    <2>. QED  BY <2>2, <2>3
<1>. QED  BY <1>4 DEF MemoryOf

\* A step of the running process, or of the kernel on its behalf, changes
\* neither the memory nor the registers of another process, whatever fails
\* half way: only a reboot ends another process.
THEOREM OthersUntouched == Spec => OnlyCurrentChanges
<1>1. OwnershipInv /\ IsolationInv /\ BootMemory /\ [Next]_vars =>
        [ \/ reboots' # reboots
          \/ \A p \in Pid \ {current} :
               Visible(p) => MemoryOf(p)' = MemoryOf(p) /\ processes'[p] = processes[p] ]_vars
    <2>. SUFFICES ASSUME OwnershipInv, IsolationInv, BootMemory, [Next]_vars, reboots' = reboots,
                         NEW p \in Pid \ {current}, Visible(p)
                  PROVE  MemoryOf(p)' = MemoryOf(p) /\ processes'[p] = processes[p]
        OBVIOUS
    <2>1. IsolationInv' /\ OthersKept
        BY NextIsolation
    <2>2. ProcessKept(p)
        BY DescriptorsKept
    <2>3. \A t \in PN : Owns(pageinfo, p, t) => mem'[t] = mem[t]
        BY <2>1, OwnPagesKept, OthersNotWriters DEF IsolationInv
    <2>4. Visible(p)' /\ processes'[p] = processes[p]
        BY <2>2 DEF Visible, ProcessKept
    <2>. QED  BY <2>1, <2>3, <2>4, MemoryKept
<1>. QED  BY IsolationInvariant, <1>1, PTL DEF Spec, OnlyCurrentChanges
=============================================================================
