--------------------------- MODULE ProgramsProofs ---------------------------
(***************************************************************************)
(* The user programs use memory as the kernel expects them to: for any     *)
(* number of process slots and heap pages they ask only for pages that are *)
(* not mapped, their heap has the shape their loops assume, and they store *)
(* their own process ID, whenever the timer interrupts them and whichever  *)
(* of their forks fail.                                                    *)
(*                                                                         *)
(* The invariant ties together where a process is (its pc), the call it    *)
(* waits in, what the last call returned, and its memory.  A process waits *)
(* for an answer only while it runs; once answered, the result may wait in *)
(* %rax while others run.                                                  *)
(***************************************************************************)
EXTENDS Programs, WellFoundedInduction, TLAPS

\* There is a process slot besides the kernel's, and the stack is not below
\* the heap.
Sizes == NPROC \in Nat \ {0, 1} /\ HeapPages \in Nat

BeforeHeap == {"main", "p1", "p2", "check", "forked", "start"}
WithHeap == {"loop", "reforked", "repid", "allocated", "stored", "idle"}
Places == BeforeHeap \cup WithHeap \cup {"stopped"}
Calls == {"none", "INT_TIMER", "INT_SYS_PANIC", "INT_SYS_EXIT", "INT_SYS_GETPID",
          "INT_SYS_YIELD", "INT_SYS_PAGE_ALLOC", "INT_SYS_FORK"}

TypeOK ==
    /\ state \in [Proc -> {"P_FREE", "P_RUNNABLE"}]
    /\ image \in [Proc -> [Address -> SUBSET Int]]
    /\ ret \in [Proc -> Int]
    /\ running \in Proc
    /\ call \in [int : Calls, rdi : Int]
    /\ u \in [Proc -> [pc : Places, p1 : Int, p2 : Int, p : Int, heap_top : Int]]

\* p waits for the answer to the call int.
Waits(p, int) == p = running /\ call.int = int

\* heap_top is set at "start", and stays between the program and the stack.
HeapTops ==
    \A p \in Proc :
        /\ u[p].heap_top \in 0 .. Stack
        /\ u[p].pc \in BeforeHeap => u[p].heap_top = 0
        /\ u[p].pc \in WithHeap => u[p].heap_top # 0
        /\ u[p].pc = "allocated" => u[p].heap_top # Stack

\* The call of the running process is one it makes at its pc.
CallOfPc ==
    /\ state[running] = "P_RUNNABLE"
    /\ call.int = "none" => call = NoCall
    /\ call.int = "INT_SYS_GETPID" => u[running].pc \in {"check", "start", "repid"}
    /\ call.int = "INT_SYS_YIELD" => u[running].pc \in {"main", "loop", "idle"}
    /\ call.int = "INT_SYS_FORK" => u[running].pc \in {"p1", "p2", "forked", "reforked"}
    /\ call.int = "INT_SYS_PAGE_ALLOC" =>
          u[running].pc = "allocated" /\ call.rdi = u[running].heap_top
    /\ call.int \in {"INT_SYS_PANIC", "INT_SYS_EXIT"} => u[running].pc = "stopped"

\* What a process finds in %rax: its own ID where it asked for that, 0 or -1
\* where it asked for a page.  Its variable p is its own ID past that, unless
\* it is a child that has not asked yet.
Results ==
    \A p \in Proc :
        /\ u[p].pc \in {"start", "repid"} /\ ~Waits(p, "INT_SYS_GETPID") => ret[p] = p
        /\ u[p].pc = "allocated" => ret[p] \in {0, -1}
        /\ u[p].pc \in {"loop", "allocated", "stored", "idle"} => u[p].p = p
        /\ u[p].pc = "reforked" /\ (ret[p] # 0 \/ Waits(p, "INT_SYS_FORK")) => u[p].p = p

\* p was given the page at heap_top and has not stored to it yet.
HasFreshPage(p) ==
    u[p].pc = "allocated" /\ ret[p] = 0 /\ ~Waits(p, "INT_SYS_PAGE_ALLOC")

Heaps ==
    \A p \in Proc : state[p] = "P_RUNNABLE" =>
        \A a \in HeapStart .. Stack - 1 :
            /\ a < u[p].heap_top => image[p][a] \in {{q} : q \in Proc}
            /\ a > u[p].heap_top => image[p][a] = {}
            /\ a = u[p].heap_top => (image[p][a] # {} <=> HasFreshPage(p))

ProgramsInv == TypeOK /\ HeapTops /\ CallOfPc /\ Results /\ Heaps

-----------------------------------------------------------------------------
(* Steps of the programs.                                                  *)

Vars == [pc : Places, p1 : Int, p2 : Int, p : Int, heap_top : Int]

\* The running process has the heap below v.heap_top and no page above.
HeapBelow(v) ==
    \A a \in HeapStart .. Stack - 1 :
        /\ a < v.heap_top => image[running][a] \in {{q} : q \in Proc}
        /\ a >= v.heap_top => image[running][a] = {}

\* A call the invariant allows to make with the variables v, to go on at pc.
GoodTrap(int, rdi, v, pc) ==
    /\ v \in Vars /\ pc \in Places /\ rdi \in Int
    /\ int \in Calls \ {"none", "INT_TIMER"}
    /\ v.heap_top \in 0 .. Stack
    /\ pc \in BeforeHeap => v.heap_top = 0
    /\ pc \in WithHeap => v.heap_top # 0
    /\ pc = "allocated" => v.heap_top # Stack /\ int = "INT_SYS_PAGE_ALLOC"
    /\ pc \in {"start", "repid"} => int = "INT_SYS_GETPID"
    /\ pc \in {"loop", "allocated", "stored", "idle", "reforked"} => v.p = running
    /\ int = "INT_SYS_GETPID" => pc \in {"check", "start", "repid"}
    /\ int = "INT_SYS_YIELD" => pc \in {"main", "loop", "idle"}
    /\ int = "INT_SYS_FORK" => pc \in {"p1", "p2", "forked", "reforked"}
    /\ int = "INT_SYS_PAGE_ALLOC" => pc = "allocated" /\ rdi = v.heap_top
    /\ int \in {"INT_SYS_PANIC", "INT_SYS_EXIT"} => pc = "stopped"
    /\ HeapBelow(v)

\* A step of the model that enters the kernel changes this.
LEMMA TrapChanges ==
    ASSUME TypeOK, NEW int, NEW rdi, NEW v \in Vars, NEW pc, Trap(int, rdi, v, pc)
    PROVE  /\ call' = [int |-> int, rdi |-> rdi]
           /\ u'[running] = [v EXCEPT !.pc = pc]
           /\ ret'[running] = 0
           /\ \A q \in Proc \ {running} : u'[q] = u[q] /\ ret'[q] = ret[q]
           /\ UNCHANGED <<state, image, running>>
  BY DEF Trap, TypeOK

\* The variables of a process after a trap.
LEMMA VarsAt ==
    ASSUME NEW v \in Vars, NEW pc \in Places
    PROVE  /\ [v EXCEPT !.pc = pc] \in Vars
           /\ [v EXCEPT !.pc = pc].pc = pc
           /\ [v EXCEPT !.pc = pc].p = v.p
           /\ [v EXCEPT !.pc = pc].heap_top = v.heap_top
  BY DEF Vars

\* Every good trap keeps the invariant.
LEMMA TrapStep ==
    ASSUME Sizes, ProgramsInv, NEW int, NEW rdi, NEW v, NEW pc,
           GoodTrap(int, rdi, v, pc), Trap(int, rdi, v, pc)
    PROVE  ProgramsInv'
  <1>0. TypeOK /\ HeapTops /\ CallOfPc /\ Results /\ Heaps
    BY DEF ProgramsInv
  <1>1. v \in Vars /\ pc \in Places
    BY DEF GoodTrap
  <1>2. /\ call' = [int |-> int, rdi |-> rdi]
        /\ u'[running] = [v EXCEPT !.pc = pc]
        /\ ret'[running] = 0
        /\ \A q \in Proc \ {running} : u'[q] = u[q] /\ ret'[q] = ret[q]
        /\ UNCHANGED <<state, image, running>>
    BY <1>0, <1>1, TrapChanges
  <1>3. u'[running] \in Vars /\ u'[running].pc = pc /\ u'[running].p = v.p
        /\ u'[running].heap_top = v.heap_top
    BY <1>1, <1>2, VarsAt
  <1>4. call'.int = int /\ call'.rdi = rdi
    BY <1>2
  <1>5. int \in Calls \ {"none", "INT_TIMER"} /\ rdi \in Int
    BY DEF GoodTrap
  <1>6. TypeOK'
    <2>1. u' \in [Proc -> Vars]
      BY <1>0, <1>2, <1>3 DEF Trap, TypeOK, Vars
    <2>2. ret' \in [Proc -> Int]
      BY <1>0 DEF Trap, TypeOK
    <2>3. call' \in [int : Calls, rdi : Int]
      BY <1>2, <1>5
    <2> QED  BY <1>0, <1>2, <2>1, <2>2, <2>3 DEF TypeOK, Vars
  <1>7. HeapTops'
    <2> SUFFICES ASSUME NEW q \in Proc
                 PROVE  /\ u'[q].heap_top \in 0 .. Stack
                        /\ u'[q].pc \in BeforeHeap => u'[q].heap_top = 0
                        /\ u'[q].pc \in WithHeap => u'[q].heap_top # 0
                        /\ u'[q].pc = "allocated" => u'[q].heap_top # Stack
      BY DEF HeapTops
    <2>1. CASE q = running
      BY <1>3, <2>1 DEF GoodTrap
    <2>2. CASE q # running
      BY <1>0, <1>2, <2>2 DEF HeapTops
    <2> QED  BY <2>1, <2>2
  <1>8. CallOfPc'
    BY <1>0, <1>2, <1>3, <1>4, <1>5 DEF CallOfPc, GoodTrap
  <1>9. Results'
    <2> SUFFICES ASSUME NEW q \in Proc
                 PROVE  /\ u'[q].pc \in {"start", "repid"} /\ ~Waits(q, "INT_SYS_GETPID")'
                              => ret'[q] = q
                        /\ u'[q].pc = "allocated" => ret'[q] \in {0, -1}
                        /\ u'[q].pc \in {"loop", "allocated", "stored", "idle"} => u'[q].p = q
                        /\ u'[q].pc = "reforked" /\ (ret'[q] # 0 \/ Waits(q, "INT_SYS_FORK")')
                              => u'[q].p = q
      BY DEF Results
    <2>1. CASE q = running
      BY <1>2, <1>3, <1>4, <2>1 DEF GoodTrap, Waits
    <2>2. CASE q # running
      BY <1>0, <1>2, <2>2 DEF Results, Waits
    <2> QED  BY <2>1, <2>2
  <1>10. Heaps'
    <2> SUFFICES ASSUME NEW q \in Proc, state'[q] = "P_RUNNABLE",
                        NEW a \in HeapStart .. Stack - 1
                 PROVE  /\ a < u'[q].heap_top => image'[q][a] \in {{r} : r \in Proc}
                        /\ a > u'[q].heap_top => image'[q][a] = {}
                        /\ a = u'[q].heap_top => (image'[q][a] # {} <=> HasFreshPage(q)')
      BY DEF Heaps
    <2>1. CASE q = running
      <3>1. ~HasFreshPage(q)'
        BY <1>2, <1>3, <1>4, <2>1 DEF GoodTrap, HasFreshPage, Waits
      <3>2. v.heap_top \in Int /\ a \in Int
        BY <1>1 DEF Vars, HeapStart
      <3>3. /\ a < v.heap_top => image[running][a] \in {{r} : r \in Proc}
            /\ a >= v.heap_top => image[running][a] = {}
        BY DEF GoodTrap, HeapBelow
      <3>4. image'[q][a] = image[running][a] /\ u'[q].heap_top = v.heap_top
        BY <1>2, <1>3, <2>1
      <3>5. a > v.heap_top \/ a = v.heap_top => a >= v.heap_top
        BY <3>2
      <3> QED  BY <3>1, <3>3, <3>4, <3>5
    <2>2. CASE q # running
      <3>1. HasFreshPage(q)' <=> HasFreshPage(q)
        BY <1>2, <2>2 DEF HasFreshPage, Waits
      <3> QED  BY <1>0, <1>2, <2>2, <3>1 DEF Heaps
    <2> QED  BY <2>1, <2>2
  <1> QED  BY <1>6, <1>7, <1>8, <1>9, <1>10 DEF ProgramsInv

\* Variables with which the loop of a program goes on.
GoodVars(v) ==
    /\ v \in Vars
    /\ v.heap_top \in HeapStart .. Stack
    /\ v.p = running
    /\ HeapBelow(v)

\* One iteration of a program's loop keeps the invariant.
LEMMA IterateStep ==
    ASSUME Sizes, ProgramsInv, NEW v, GoodVars(v), Iterate(v)
    PROVE  ProgramsInv'
  <1>0. /\ v \in Vars /\ v.heap_top \in 0 .. Stack /\ v.heap_top # 0
        /\ v.heap_top \in Int /\ v.p = running /\ HeapBelow(v)
    BY DEF GoodVars, Sizes, HeapStart, Stack
  <1> USE DEF GoodTrap, Places, BeforeHeap, WithHeap, Calls
  <1>1. CASE Trap("INT_SYS_YIELD", 0, v, "idle")
    <2>1. GoodTrap("INT_SYS_YIELD", 0, v, "idle")
      BY <1>0
    <2> QED  BY <1>1, <2>1, TrapStep
  <1>2. CASE ~HeapFull(v) /\ Trap("INT_SYS_PAGE_ALLOC", v.heap_top, v, "allocated")
    <2>1. GoodTrap("INT_SYS_PAGE_ALLOC", v.heap_top, v, "allocated")
      BY <1>0, <1>2 DEF HeapFull
    <2> QED  BY <1>2, <2>1, TrapStep
  <1>3. CASE Trap("INT_SYS_YIELD", 0, v, "loop")
    <2>1. GoodTrap("INT_SYS_YIELD", 0, v, "loop")
      BY <1>0
    <2> QED  BY <1>3, <2>1, TrapStep
  <1>4. CASE Trap("INT_SYS_FORK", 0, v, "reforked")
    <2>1. GoodTrap("INT_SYS_FORK", 0, v, "reforked")
      BY <1>0
    <2> QED  BY <1>4, <2>1, TrapStep
  <1>5. CASE Trap("INT_SYS_EXIT", 0, v, "stopped")
    <2>1. GoodTrap("INT_SYS_EXIT", 0, v, "stopped")
      BY <1>0
    <2> QED  BY <1>5, <2>1, TrapStep
  <1> QED  BY <1>1, <1>2, <1>3, <1>4, <1>5 DEF Iterate, Alloc

\* The variables and the memory of the running process between two calls.
LEMMA MyHeap ==
    ASSUME Sizes, ProgramsInv, call = NoCall
    PROVE  /\ me \in Vars
           /\ result \in Int
           /\ me.pc # "allocated" \/ result < 0 => HeapBelow(me)
           /\ me.pc \in WithHeap => me.heap_top \in HeapStart .. Stack
           /\ \A int \in Calls \ {"none"} : ~Waits(running, int)
  <1> USE DEF me, result
  <1>0. TypeOK /\ HeapTops /\ CallOfPc /\ Results /\ Heaps
    BY DEF ProgramsInv
  <1>1. running \in Proc /\ me \in Vars /\ result \in Int
    BY <1>0 DEF TypeOK, Vars
  <1>2. state[running] = "P_RUNNABLE"
    BY <1>0 DEF CallOfPc
  <1>3. me.heap_top \in 0 .. Stack /\ (me.pc \in WithHeap => me.heap_top # 0)
    BY <1>0, <1>1 DEF HeapTops
  <1>4. me.pc \in WithHeap => me.heap_top \in HeapStart .. Stack
    BY <1>3 DEF HeapStart
  <1>5. call.int = "none"
    BY DEF NoCall, Spaces!NoCall
  <1>6. ASSUME me.pc # "allocated" \/ result < 0  PROVE HeapBelow(me)
    <2>1. ~HasFreshPage(running)
      BY <1>1, <1>6 DEF HasFreshPage
    <2> SUFFICES ASSUME NEW a \in HeapStart .. Stack - 1
                 PROVE  /\ a < me.heap_top => image[running][a] \in {{q} : q \in Proc}
                        /\ a >= me.heap_top => image[running][a] = {}
      BY DEF HeapBelow
    <2>2. /\ a < u[running].heap_top => image[running][a] \in {{q} : q \in Proc}
          /\ a > u[running].heap_top => image[running][a] = {}
          /\ a = u[running].heap_top => (image[running][a] # {} <=> HasFreshPage(running))
      BY <1>0, <1>1, <1>2 DEF Heaps
    <2>3. a >= me.heap_top => a > me.heap_top \/ a = me.heap_top
      BY <1>3 DEF HeapStart
    <2> QED  BY <2>1, <2>2, <2>3
  <1>7. \A int \in Calls \ {"none"} : ~Waits(running, int)
    BY <1>5 DEF Waits
  <1> QED  BY <1>1, <1>4, <1>6, <1>7

\* Variables in which p1 or p2 was assigned.
LEMMA Assigned ==
    ASSUME NEW v \in Vars, NEW x \in Int
    PROVE  /\ [v EXCEPT !.p1 = x] \in Vars /\ [v EXCEPT !.p1 = x].heap_top = v.heap_top
           /\ [v EXCEPT !.p2 = x] \in Vars /\ [v EXCEPT !.p2 = x].heap_top = v.heap_top
  BY DEF Vars

\* A call made before the heap is set up.
LEMMA EarlyTrap ==
    ASSUME Sizes, ProgramsInv, NEW int, NEW v \in Vars, NEW pc, Trap(int, 0, v, pc),
           v.heap_top = 0, me.heap_top = 0, HeapBelow(me),
           \/ int = "INT_SYS_FORK" /\ pc \in {"p1", "p2", "forked"}
           \/ int = "INT_SYS_GETPID" /\ pc \in {"check", "start"}
           \/ int = "INT_SYS_YIELD" /\ pc = "main"
           \/ int = "INT_SYS_PANIC" /\ pc = "stopped"
    PROVE  ProgramsInv'
  <1>1. HeapBelow(v)
    BY DEF HeapBelow
  <1>2. 0 \in 0 .. Stack
    BY DEF Sizes, Stack, HeapStart
  <1>3. GoodTrap(int, 0, v, pc)
    BY <1>1, <1>2 DEF GoodTrap, Places, BeforeHeap, WithHeap, Calls
  <1> QED  BY <1>3, TrapStep

\* What is known of the running process at a place before the heap is set up.
LEMMA Early ==
    ASSUME Sizes, ProgramsInv, NEW pc \in BeforeHeap, At(pc)
    PROVE  me \in Vars /\ result \in Int /\ me.heap_top = 0 /\ HeapBelow(me)
  <1>1. call = NoCall /\ me.pc = pc
    BY DEF At
  <1>2. me.pc # "allocated"
    BY <1>1 DEF BeforeHeap
  <1>3. me.heap_top = 0
    BY <1>1 DEF ProgramsInv, HeapTops, TypeOK, me
  <1> QED  BY <1>1, <1>2, <1>3, MyHeap

\* What is known of the running process at a place in its loop.
LEMMA Late ==
    ASSUME Sizes, ProgramsInv, NEW pc \in {"loop", "stored", "idle", "repid", "reforked"},
           At(pc)
    PROVE  /\ me \in Vars /\ result \in Int
           /\ me.heap_top \in HeapStart .. Stack /\ HeapBelow(me)
           /\ pc \in {"loop", "stored", "idle"} => me.p = running
           /\ pc = "repid" => result = running
           /\ pc = "reforked" /\ result # 0 => me.p = running
  <1>1. call = NoCall /\ me.pc = pc
    BY DEF At
  <1>2. me.pc # "allocated" /\ me.pc \in WithHeap
    BY <1>1 DEF WithHeap
  <1>3. ~Waits(running, "INT_SYS_GETPID") /\ running \in Proc
    BY <1>1, MyHeap DEF Calls, ProgramsInv, TypeOK
  <1>4. /\ pc \in {"loop", "stored", "idle"} => me.p = running
        /\ pc = "repid" => result = running
        /\ pc = "reforked" /\ result # 0 => me.p = running
    BY <1>1, <1>3 DEF ProgramsInv, Results, me, result
  <1> QED  BY <1>1, <1>2, <1>4, MyHeap

\* The process stores its ID to the page it was given, and only that.
LEMMA StoreHeapChanges ==
    ASSUME Sizes, ProgramsInv, StoreHeap
    PROVE  /\ me \in Vars
           /\ me.heap_top \in HeapStart .. Stack - 1
           /\ me.p = running
           /\ u'[running] = [me EXCEPT !.pc = "stored", !.heap_top = me.heap_top + 1]
           /\ image'[running] = [image[running] EXCEPT ![me.heap_top] = {running}]
           /\ \A q \in Proc \ {running} : u'[q] = u[q] /\ image'[q] = image[q]
           /\ UNCHANGED <<state, ret, running, call>>
  <1>1. At("allocated") /\ call = NoCall /\ me.pc = "allocated"
    BY DEF StoreHeap, At
  <1>2. me \in Vars /\ me.heap_top \in HeapStart .. Stack
    BY <1>1, MyHeap DEF WithHeap
  <1>3. running \in Proc
    BY DEF ProgramsInv, TypeOK
  <1>4. me.heap_top # Stack /\ me.p = running
    BY <1>1, <1>3 DEF ProgramsInv, HeapTops, Results, me
  <1>5. me.heap_top \in HeapStart .. Stack - 1
    BY <1>2, <1>4 DEF Sizes, Stack, HeapStart
  <1>6. u' = [u EXCEPT ![running] = [me EXCEPT !.pc = "stored", !.heap_top = me.heap_top + 1]]
    BY <1>2 DEF StoreHeap, StoredTop, Vars
  <1>7. image' = [image EXCEPT ![running] = [image[running] EXCEPT ![me.heap_top] = {running}]]
    BY <1>4 DEF StoreHeap, ProgramsInv, TypeOK
  <1>8. u \in [Proc -> Vars] /\ image \in [Proc -> [Address -> SUBSET Int]]
    BY DEF ProgramsInv, TypeOK, Vars
  <1>9. UNCHANGED <<state, ret, running, call>>
    BY DEF StoreHeap
  <1> QED  BY <1>2, <1>3, <1>4, <1>5, <1>6, <1>7, <1>8, <1>9

\* Storing to the page just given makes it part of the heap.
LEMMA StoreHeapInv ==
    ASSUME Sizes, ProgramsInv, StoreHeap
    PROVE  ProgramsInv'
  <1>0. TypeOK /\ HeapTops /\ CallOfPc /\ Results /\ Heaps
    BY DEF ProgramsInv
  <1> DEFINE h == me.heap_top
  <1>1. /\ me \in Vars
        /\ h \in HeapStart .. Stack - 1
        /\ me.p = running
        /\ u'[running] = [me EXCEPT !.pc = "stored", !.heap_top = h + 1]
        /\ image'[running] = [image[running] EXCEPT ![h] = {running}]
        /\ \A q \in Proc \ {running} : u'[q] = u[q] /\ image'[q] = image[q]
        /\ UNCHANGED <<state, ret, running, call>>
    BY StoreHeapChanges
  <1> HIDE DEF h
  <1>2. h \in Int /\ Stack \in Int /\ h + 1 \in 1 .. Stack /\ h \in Address
    BY <1>1 DEF Sizes, HeapStart, Stack, Address
  <1>3. /\ u'[running] \in Vars /\ u'[running].pc = "stored"
        /\ u'[running].heap_top = h + 1 /\ u'[running].p = running
    <2>1. h + 1 \in Int /\ "stored" \in Places
      BY <1>2 DEF Places, WithHeap
    <2>2. /\ u'[running] \in Vars /\ u'[running].pc = "stored"
          /\ u'[running].p = me.p /\ u'[running].heap_top = h + 1
      <3>1. PICK m \in Vars : m = me
        BY <1>1
      <3>2. PICK y \in Int : y = h + 1
        BY <2>1
      <3>3. u'[running] = [m EXCEPT !.pc = "stored", !.heap_top = y]
        BY <1>1, <3>1, <3>2
      <3>4. /\ u'[running] \in Vars /\ u'[running].pc = "stored"
            /\ u'[running].p = m.p /\ u'[running].heap_top = y
        BY <2>1, <3>1, <3>2, <3>3 DEF Vars
      <3> QED  BY <3>1, <3>2, <3>4
    <2> QED  BY <1>1, <2>2
  <1>4. running \in Proc /\ running \in Int /\ call = NoCall
    BY <1>0 DEF TypeOK, Proc, StoreHeap, At
  <1>5. TypeOK'
    <2>1. DOMAIN u' = Proc /\ DOMAIN image' = Proc
      BY <1>0 DEF StoreHeap, TypeOK
    <2>2. image'[running] \in [Address -> SUBSET Int]
      <3>1. {running} \in SUBSET Int /\ image[running] \in [Address -> SUBSET Int]
        BY <1>0, <1>4 DEF TypeOK
      <3> QED  BY <1>1, <3>1
    <2>3. u' \in [Proc -> Vars]
      <3>1. \A q \in Proc : u'[q] \in Vars
        BY <1>0, <1>1, <1>3 DEF TypeOK, Vars
      <3>2. u' = [q \in Proc |-> u'[q]]
        BY <1>0 DEF StoreHeap, TypeOK
      <3> QED  BY <3>1, <3>2
    <2>4. image' \in [Proc -> [Address -> SUBSET Int]]
      <3>1. \A q \in Proc : image'[q] \in [Address -> SUBSET Int]
        BY <1>0, <1>1, <2>2 DEF TypeOK
      <3>2. image' = [q \in Proc |-> image'[q]]
        BY <1>0 DEF StoreHeap, TypeOK
      <3> QED  BY <3>1, <3>2
    <2> QED  BY <1>0, <1>1, <2>3, <2>4 DEF TypeOK, Vars
  <1>6. HeapTops'
    <2> SUFFICES ASSUME NEW q \in Proc
                 PROVE  /\ u'[q].heap_top \in 0 .. Stack
                        /\ u'[q].pc \in BeforeHeap => u'[q].heap_top = 0
                        /\ u'[q].pc \in WithHeap => u'[q].heap_top # 0
                        /\ u'[q].pc = "allocated" => u'[q].heap_top # Stack
      BY DEF HeapTops
    <2>1. CASE q = running
      BY <1>2, <1>3, <2>1 DEF BeforeHeap
    <2>2. CASE q # running
      BY <1>0, <1>1, <2>2 DEF HeapTops
    <2> QED  BY <2>1, <2>2
  <1>7. CallOfPc'
    BY <1>0, <1>1, <1>4 DEF CallOfPc, NoCall, Spaces!NoCall
  <1>8. Results'
    <2> SUFFICES ASSUME NEW q \in Proc
                 PROVE  /\ u'[q].pc \in {"start", "repid"} /\ ~Waits(q, "INT_SYS_GETPID")'
                              => ret'[q] = q
                        /\ u'[q].pc = "allocated" => ret'[q] \in {0, -1}
                        /\ u'[q].pc \in {"loop", "allocated", "stored", "idle"} => u'[q].p = q
                        /\ u'[q].pc = "reforked" /\ (ret'[q] # 0 \/ Waits(q, "INT_SYS_FORK")')
                              => u'[q].p = q
      BY DEF Results
    <2>1. CASE q = running
      BY <1>3, <2>1
    <2>2. CASE q # running
      BY <1>0, <1>1, <2>2 DEF Results, Waits
    <2> QED  BY <2>1, <2>2
  <1>9. Heaps'
    <2> SUFFICES ASSUME NEW q \in Proc, state'[q] = "P_RUNNABLE",
                        NEW a \in HeapStart .. Stack - 1
                 PROVE  /\ a < u'[q].heap_top => image'[q][a] \in {{r} : r \in Proc}
                        /\ a > u'[q].heap_top => image'[q][a] = {}
                        /\ a = u'[q].heap_top => (image'[q][a] # {} <=> HasFreshPage(q)')
      BY DEF Heaps
    <2>0. /\ a < u[q].heap_top => image[q][a] \in {{r} : r \in Proc}
          /\ a > u[q].heap_top => image[q][a] = {}
          /\ a = u[q].heap_top => (image[q][a] # {} <=> HasFreshPage(q))
      BY <1>0, <1>1 DEF Heaps
    <2>1. CASE q = running
      <3>1. ~HasFreshPage(q)'
        BY <1>3, <2>1 DEF HasFreshPage
      <3>2. a \in Address /\ a \in Int
        BY DEF Address, Sizes, HeapStart, Stack
      <3>3. image'[q][a] = IF a = h THEN {running} ELSE image[q][a]
        <4>1. image[running] \in [Address -> SUBSET Int]
          BY <1>0, <1>4 DEF TypeOK
        <4> QED  BY <1>1, <2>1, <3>2, <4>1
      <3>4. u[q].heap_top = h
        BY <2>1 DEF h, me
      <3>5. a < h + 1 => a < h \/ a = h
        BY <1>2, <3>2
      <3>6. a > h + 1 \/ a = h + 1 => a > h /\ a # h
        BY <1>2, <3>2
      <3> QED  BY <1>3, <1>4, <2>0, <2>1, <3>1, <3>3, <3>4, <3>5, <3>6
    <2>2. CASE q # running
      <3>1. HasFreshPage(q)' <=> HasFreshPage(q)
        BY <1>1, <2>2 DEF HasFreshPage, Waits
      <3> QED  BY <1>1, <2>0, <2>2, <3>1
    <2> QED  BY <2>1, <2>2
  <1> QED  BY <1>5, <1>6, <1>7, <1>8, <1>9 DEF ProgramsInv

\* Every step of a program up to the next trap keeps the invariant.
LEMMA StepInv ==
    ASSUME Sizes, ProgramsInv, Step
    PROVE  ProgramsInv'
  <1>0. running \in Proc /\ running \in Int
    BY DEF ProgramsInv, TypeOK, Proc
  <1>1. CASE Fork1
    <2>1. At("main") /\ Trap("INT_SYS_FORK", 0, me, "p1")
      BY <1>1 DEF Fork1
    <2>2. me \in Vars /\ me.heap_top = 0 /\ HeapBelow(me)
      BY <2>1, Early DEF BeforeHeap
    <2> QED  BY <2>1, <2>2, EarlyTrap
  <1>2. CASE Fork2
    <2>1. At("p1") /\ Assert(result >= 0, Trap("INT_SYS_FORK", 0, [me EXCEPT !.p1 = result], "p2"))
      BY <1>2 DEF Fork2
    <2>2. me \in Vars /\ result \in Int /\ me.heap_top = 0 /\ HeapBelow(me)
      BY <2>1, Early DEF BeforeHeap
    <2>3. PICK v : v = [me EXCEPT !.p1 = result]
      OBVIOUS
    <2>4. v \in Vars /\ v.heap_top = 0
      BY <2>2, <2>3, Assigned
    <2>5. \/ Trap("INT_SYS_FORK", 0, v, "p2")
          \/ Trap("INT_SYS_PANIC", 0, me, "stopped")
      BY <2>1, <2>3 DEF Assert
    <2> QED  BY <2>2, <2>4, <2>5, EarlyTrap
  <1>3. CASE Forked2
    <2>1. At("p2") /\ Assert(result >= 0, Trap("INT_SYS_GETPID", 0, [me EXCEPT !.p2 = result], "check"))
      BY <1>3 DEF Forked2
    <2>2. me \in Vars /\ result \in Int /\ me.heap_top = 0 /\ HeapBelow(me)
      BY <2>1, Early DEF BeforeHeap
    <2>3. PICK v : v = [me EXCEPT !.p2 = result]
      OBVIOUS
    <2>4. v \in Vars /\ v.heap_top = 0
      BY <2>2, <2>3, Assigned
    <2>5. \/ Trap("INT_SYS_GETPID", 0, v, "check")
          \/ Trap("INT_SYS_PANIC", 0, me, "stopped")
      BY <2>1, <2>3 DEF Assert
    <2> QED  BY <2>2, <2>4, <2>5, EarlyTrap
  <1>4. CASE CheckReturns
    <2>1. /\ At("check")
          /\ \/ Trap("INT_SYS_GETPID", 0, me, "start")
             \/ Trap("INT_SYS_PANIC", 0, me, "stopped")
      BY <1>4 DEF CheckReturns, Assert
    <2>2. me \in Vars /\ me.heap_top = 0 /\ HeapBelow(me)
      BY <2>1, Early DEF BeforeHeap
    <2> QED  BY <2>1, <2>2, EarlyTrap
  <1>5. CASE FirstLoop
    <2>1. /\ At("main") \/ At("forked")
          /\ \/ Trap("INT_SYS_FORK", 0, me, "forked")
             \/ Trap("INT_SYS_YIELD", 0, me, "main")
      BY <1>5 DEF FirstLoop, ForkOrYield
    <2>2. me \in Vars /\ me.heap_top = 0 /\ HeapBelow(me)
      BY <2>1, Early DEF BeforeHeap
    <2> QED  BY <2>1, <2>2, EarlyTrap
  <1>6. CASE ChildBreaks
    <2>1. At("forked") /\ Trap("INT_SYS_GETPID", 0, me, "start")
      BY <1>6 DEF ChildBreaks
    <2>2. me \in Vars /\ me.heap_top = 0 /\ HeapBelow(me)
      BY <2>1, Early DEF BeforeHeap
    <2> QED  BY <2>1, <2>2, EarlyTrap
  <1>7. CASE Reforked
    <2>1. At("reforked")
      BY <1>7 DEF Reforked
    <2>2. /\ me \in Vars /\ me.heap_top \in HeapStart .. Stack /\ HeapBelow(me)
          /\ result # 0 => me.p = running
      BY <2>1, Late
    <2>3. CASE result = 0 /\ Trap("INT_SYS_GETPID", 0, me, "repid")
      <3>1. me.heap_top \in 0 .. Stack /\ me.heap_top # 0
        BY <2>2 DEF HeapStart
      <3>2. GoodTrap("INT_SYS_GETPID", 0, me, "repid")
        BY <2>2, <3>1 DEF GoodTrap, Places, BeforeHeap, WithHeap, Calls
      <3> QED  BY <2>3, <3>2, TrapStep
    <2>4. CASE result # 0 /\ Iterate(me)
      <3>1. GoodVars(me)
        BY <2>2, <2>4 DEF GoodVars
      <3> QED  BY <2>4, <3>1, IterateStep
    <2> QED  BY <1>7, <2>3, <2>4 DEF Reforked
  <1>8. CASE Repid
    <2>1. At("repid")
      BY <1>8 DEF Repid
    <2>2. /\ me \in Vars /\ me.heap_top \in HeapStart .. Stack /\ HeapBelow(me)
          /\ result = running
      BY <2>1, Late
    <2>3. PICK v : v = [me EXCEPT !.p = result]
      OBVIOUS
    <2>4. v \in Vars /\ v.heap_top = me.heap_top /\ v.p = running
      BY <1>0, <2>2, <2>3 DEF Vars
    <2>5. GoodVars(v)
      BY <2>2, <2>4 DEF GoodVars, HeapBelow
    <2>6. Iterate(v)
      BY <1>8, <2>3 DEF Repid
    <2> QED  BY <2>5, <2>6, IterateStep
  <1>9. CASE AllocatorMain
    <2>1. At("main") /\ Trap("INT_SYS_GETPID", 0, me, "start")
      BY <1>9 DEF AllocatorMain
    <2>2. me \in Vars /\ me.heap_top = 0 /\ HeapBelow(me)
      BY <2>1, Early DEF BeforeHeap
    <2> QED  BY <2>1, <2>2, EarlyTrap
  <1>10. CASE Start
    <2>1. At("start")
      BY <1>10 DEF Start
    <2>2. me \in Vars /\ me.heap_top = 0 /\ HeapBelow(me)
      BY <2>1, Early DEF BeforeHeap
    <2>3. result = running
      <3>1. ~Waits(running, "INT_SYS_GETPID")
        BY <2>1, MyHeap DEF At, Calls
      <3> QED  BY <1>0, <2>1, <3>1 DEF At, ProgramsInv, Results, me, result
    <2>4. PICK v : v = [me EXCEPT !.p = result, !.heap_top = HeapStart]
      OBVIOUS
    <2>5. v \in Vars /\ v.heap_top = HeapStart /\ v.p = running
      <3>1. HeapStart \in Int
        BY DEF HeapStart
      <3>2. PICK m \in Vars : m = me
        BY <2>2
      <3>3. PICK y \in Int : y = HeapStart
        BY <3>1
      <3>4. v = [m EXCEPT !.p = running, !.heap_top = y]
        BY <2>3, <2>4, <3>2, <3>3
      <3>5. v \in Vars /\ v.p = running /\ v.heap_top = y
        BY <1>0, <3>2, <3>3, <3>4 DEF Vars
      <3> QED  BY <3>3, <3>5
    <2>6. HeapBelow(v)
      BY <2>2, <2>5 DEF HeapBelow, HeapStart
    <2>7. GoodVars(v)
      BY <2>5, <2>6 DEF GoodVars, Sizes, HeapStart, Stack
    <2>8. Iterate(v)
      BY <1>10, <2>4 DEF Start
    <2> QED  BY <2>7, <2>8, IterateStep
  <1>11. CASE Loop
    <2>1. GoodVars(me)
      BY <1>11, Late DEF Loop, GoodVars
    <2> QED  BY <1>11, <2>1, IterateStep DEF Loop
  <1>12. CASE AllocFailed
    <2>1. At("allocated") /\ result < 0 /\ Trap("INT_SYS_YIELD", 0, me, "idle")
      BY <1>12 DEF AllocFailed
    <2>2. me \in Vars /\ me.heap_top \in HeapStart .. Stack /\ HeapBelow(me)
      BY <2>1, MyHeap DEF At, WithHeap
    <2>3. me.p = running
      BY <1>0, <2>1 DEF At, ProgramsInv, Results, me
    <2>4. me.heap_top \in 0 .. Stack /\ me.heap_top # 0
      BY <2>2 DEF HeapStart
    <2>5. GoodTrap("INT_SYS_YIELD", 0, me, "idle")
      BY <2>2, <2>3, <2>4 DEF GoodTrap, Places, BeforeHeap, WithHeap, Calls
    <2> QED  BY <2>1, <2>5, TrapStep
  <1>13. CASE StoreHeap
    BY <1>13, StoreHeapInv
  <1>14. CASE Stored
    <2>1. At("stored")
      BY <1>14 DEF Stored
    <2>2. GoodVars(me)
      BY <2>1, Late DEF GoodVars
    <2>3. Iterate(me)
      BY <1>14 DEF Stored, Iterate
    <2> QED  BY <2>2, <2>3, IterateStep
  <1>15. CASE Idle
    <2>1. At("idle") /\ (\/ Trap("INT_SYS_YIELD", 0, me, "idle")
                         \/ Trap("INT_SYS_EXIT", 0, me, "stopped"))
      BY <1>15 DEF Idle
    <2>2. /\ me \in Vars /\ me.heap_top \in HeapStart .. Stack /\ HeapBelow(me)
          /\ me.p = running
      BY <2>1, Late
    <2>3. me.heap_top \in 0 .. Stack /\ me.heap_top # 0
      BY <2>2 DEF HeapStart
    <2>4. /\ GoodTrap("INT_SYS_YIELD", 0, me, "idle")
          /\ GoodTrap("INT_SYS_EXIT", 0, me, "stopped")
      BY <2>2, <2>3 DEF GoodTrap, Places, BeforeHeap, WithHeap, Calls
    <2> QED  BY <2>1, <2>4, TrapStep
  <1> QED
    BY <1>1, <1>2, <1>3, <1>4, <1>5, <1>6, <1>7, <1>8, <1>9, <1>10, <1>11, <1>12,
       <1>13, <1>14, <1>15 DEF Step

-----------------------------------------------------------------------------
(* The kernel's answers, and the timer.                                    *)

\* The calls whose answers the invariant speaks of.
Asking == {"INT_SYS_GETPID", "INT_SYS_FORK", "INT_SYS_PAGE_ALLOC"}

\* A step that changes who runs or why, but answers no such call.
LEMMA QuietStep ==
    ASSUME ProgramsInv, UNCHANGED <<state, image, ret, u>>,
           call.int \notin Asking, call'.int \notin Asking,
           call' \in [int : Calls, rdi : Int],
           call'.int = "none" => call' = NoCall,
           call'.int \notin {"INT_SYS_PANIC", "INT_SYS_EXIT", "INT_SYS_YIELD"},
           running' \in Proc, state[running'] = "P_RUNNABLE"
    PROVE  ProgramsInv'
  <1>0. TypeOK /\ HeapTops /\ CallOfPc /\ Results /\ Heaps
    BY DEF ProgramsInv
  <1>1. \A p \in Proc : \A int \in Asking : ~Waits(p, int) /\ ~Waits(p, int)'
    BY DEF Waits
  <1>2. TypeOK'
    BY <1>0 DEF TypeOK
  <1>3. HeapTops'
    BY <1>0 DEF HeapTops
  <1>4. CallOfPc'
    BY <1>0 DEF CallOfPc, Asking
  <1>5. Results'
    BY <1>0, <1>1 DEF Results, Asking
  <1>6. \A p \in Proc : HasFreshPage(p)' <=> HasFreshPage(p)
    BY <1>1 DEF HasFreshPage, Asking
  <1>7. Heaps'
    BY <1>0, <1>6 DEF Heaps
  <1> QED  BY <1>2, <1>3, <1>4, <1>5, <1>7 DEF ProgramsInv

\* The timer interrupts between two calls.
LEMMA TimerInv ==
    ASSUME ProgramsInv, Timer
    PROVE  ProgramsInv'
  <1>1. call = NoCall /\ call' = [int |-> "INT_TIMER", rdi |-> 0]
        /\ UNCHANGED <<state, image, ret, running, u>>
    BY DEF Timer
  <1>2. call.int \notin Asking /\ call'.int \notin Asking
    BY <1>1 DEF Asking, NoCall, Spaces!NoCall
  <1>3. call' \in [int : Calls, rdi : Int]
    BY <1>1 DEF Calls
  <1>4. call'.int = "INT_TIMER"
    BY <1>1
  <1>5. running' \in Proc /\ state[running'] = "P_RUNNABLE"
    BY <1>1 DEF ProgramsInv, TypeOK, CallOfPc
  <1> QED  BY <1>1, <1>2, <1>3, <1>4, <1>5, QuietStep

\* schedule picks a runnable process: one is the next in cyclic order.
LEMMA ScheduleRunnable ==
    ASSUME Sizes, ProgramsInv, schedule
    PROVE  running' \in Runnable
  <1> DEFINE D == {Distance(p) : p \in Runnable}
  <1>1. running \in Runnable
    BY DEF ProgramsInv, TypeOK, CallOfPc, Runnable
  <1>2. \A p \in Runnable : Distance(p) \in Nat
    BY DEF ProgramsInv, TypeOK, Runnable, Proc, Distance, Sizes
  <1>3. D # {} /\ D \subseteq Nat
    BY <1>1, <1>2
  <1> HIDE DEF D
  <1>4. PICK d \in D : \A e \in D : ~(<<e, d>> \in OpToRel(<, Nat))
    BY <1>3, NatLessThanWellFounded, WFMin
  <1>5. \A e \in D : d =< e
    <2> SUFFICES ASSUME NEW e \in D, ~(d =< e)  PROVE FALSE
      OBVIOUS
    <2>1. d \in Nat /\ e \in Nat /\ e < d
      BY <1>3
    <2>2. <<e, d>> \in Nat \X Nat /\ <<e, d>>[1] < <<e, d>>[2]
      BY <2>1
    <2>3. <<e, d>> \in OpToRel(<, Nat)
      BY <2>2 DEF OpToRel
    <2> QED  BY <1>4, <2>3
  <1>6. \E p \in Runnable : \A q \in Runnable : Distance(p) =< Distance(q)
    BY <1>4, <1>5 DEF D
  <1> QED  BY <1>6 DEF schedule

\* sys_yield and the timer.
LEMMA ScheduleInv ==
    ASSUME Sizes, ProgramsInv, schedule
    PROVE  ProgramsInv'
  <1>1. running' \in Proc /\ state[running'] = "P_RUNNABLE"
    BY ScheduleRunnable DEF Runnable
  <1>2. /\ call.int \in {"INT_SYS_YIELD", "INT_TIMER"}
        /\ call' = NoCall
        /\ UNCHANGED <<state, image, ret, u>>
    BY DEF schedule, Spaces!Yield, Spaces!Answer, NoCall
  <1>3. call' \in [int : Calls, rdi : Int] /\ call'.int = "none"
    BY <1>2 DEF NoCall, Spaces!NoCall, Calls
  <1>4. call.int \notin Asking /\ call'.int \notin Asking
    BY <1>2, <1>3 DEF Asking
  <1> QED  BY <1>1, <1>2, <1>3, <1>4, QuietStep

\* The machine stops.
LEMMA HaltInv ==
    ASSUME ProgramsInv, Halt
    PROVE  ProgramsInv'
  <1>1. /\ call.int \in {"INT_SYS_PANIC", "INT_SYS_EXIT"}
        /\ call' = NoCall
        /\ UNCHANGED <<state, image, ret, running, u>>
    BY DEF Halt, Spaces!Halt, NoCall
  <1>2. call' \in [int : Calls, rdi : Int] /\ call'.int = "none"
    BY <1>1 DEF NoCall, Spaces!NoCall, Calls
  <1>3. call.int \notin Asking /\ call'.int \notin Asking
    BY <1>1, <1>2 DEF Asking
  <1>4. running' \in Proc /\ state[running'] = "P_RUNNABLE"
    BY <1>1 DEF ProgramsInv, TypeOK, CallOfPc
  <1> QED  BY <1>1, <1>2, <1>3, <1>4, QuietStep

\* sys_getpid.
LEMMA GetpidInv ==
    ASSUME ProgramsInv, Getpid
    PROVE  ProgramsInv'
  <1>0. TypeOK /\ HeapTops /\ CallOfPc /\ Results /\ Heaps
    BY DEF ProgramsInv
  <1>1. /\ call.int = "INT_SYS_GETPID"
        /\ call' = NoCall
        /\ ret' = [ret EXCEPT ![running] = running]
        /\ UNCHANGED <<state, image, running, u>>
    BY DEF Getpid, Spaces!Getpid, Spaces!Answer, Spaces!Returns, NoCall
  <1>2. call' \in [int : Calls, rdi : Int] /\ call'.int = "none"
    BY <1>1 DEF NoCall, Spaces!NoCall, Calls
  <1>3. running \in Proc /\ running \in Int /\ u[running].pc \in {"check", "start", "repid"}
    BY <1>0, <1>1 DEF TypeOK, CallOfPc, Proc
  <1>4. /\ ret'[running] = running /\ ret' \in [Proc -> Int]
        /\ \A q \in Proc \ {running} : ret'[q] = ret[q]
    BY <1>0, <1>1, <1>3 DEF TypeOK
  <1>5. TypeOK'
    BY <1>0, <1>1, <1>2, <1>4 DEF TypeOK
  <1>6. HeapTops'
    BY <1>0, <1>1 DEF HeapTops
  <1>7. CallOfPc'
    BY <1>0, <1>1, <1>2 DEF CallOfPc
  <1>8. Results'
    <2> SUFFICES ASSUME NEW q \in Proc
                 PROVE  /\ u[q].pc \in {"start", "repid"} => ret'[q] = q
                        /\ u[q].pc = "allocated" => ret'[q] \in {0, -1}
                        /\ u[q].pc \in {"loop", "allocated", "stored", "idle"} => u[q].p = q
                        /\ u[q].pc = "reforked" /\ ret'[q] # 0 => u[q].p = q
      BY <1>1, <1>2 DEF Results, Waits
    <2>1. CASE q = running
      BY <1>3, <1>4, <2>1
    <2>2. CASE q # running
      BY <1>0, <1>4, <2>2 DEF Results, Waits
    <2> QED  BY <2>1, <2>2
  <1>9. \A q \in Proc : HasFreshPage(q)' <=> HasFreshPage(q)
    BY <1>1, <1>2, <1>3, <1>4 DEF HasFreshPage, Waits
  <1>10. Heaps'
    BY <1>0, <1>1, <1>9 DEF Heaps
  <1> QED  BY <1>5, <1>6, <1>7, <1>8, <1>10 DEF ProgramsInv

\* A failing sys_page_alloc or sys_fork.
LEMMA FailInv ==
    ASSUME ProgramsInv, Fail
    PROVE  ProgramsInv'
  <1>0. TypeOK /\ HeapTops /\ CallOfPc /\ Results /\ Heaps
    BY DEF ProgramsInv
  <1>1. /\ call.int \in {"INT_SYS_PAGE_ALLOC", "INT_SYS_FORK"}
        /\ call' = NoCall
        /\ ret' = [ret EXCEPT ![running] = -1]
        /\ UNCHANGED <<state, image, running, u>>
    BY DEF Fail, Spaces!Fail, Spaces!Answer, Spaces!Returns, NoCall
  <1>2. call' \in [int : Calls, rdi : Int] /\ call'.int = "none"
    BY <1>1 DEF NoCall, Spaces!NoCall, Calls
  <1>3. /\ running \in Proc
        /\ call.int = "INT_SYS_FORK" => u[running].pc \in {"p1", "p2", "forked", "reforked"}
        /\ call.int = "INT_SYS_PAGE_ALLOC" => u[running].pc = "allocated"
    BY <1>0, <1>1 DEF TypeOK, CallOfPc
  <1>4. /\ ret'[running] = -1 /\ ret' \in [Proc -> Int]
        /\ \A q \in Proc \ {running} : ret'[q] = ret[q]
    BY <1>0, <1>1, <1>3 DEF TypeOK
  <1>5. TypeOK'
    BY <1>0, <1>1, <1>2, <1>4 DEF TypeOK
  <1>6. HeapTops'
    BY <1>0, <1>1 DEF HeapTops
  <1>7. CallOfPc'
    BY <1>0, <1>1, <1>2 DEF CallOfPc
  <1>8. Results'
    <2> SUFFICES ASSUME NEW q \in Proc
                 PROVE  /\ u[q].pc \in {"start", "repid"} => ret'[q] = q
                        /\ u[q].pc = "allocated" => ret'[q] \in {0, -1}
                        /\ u[q].pc \in {"loop", "allocated", "stored", "idle"} => u[q].p = q
                        /\ u[q].pc = "reforked" /\ ret'[q] # 0 => u[q].p = q
      BY <1>1, <1>2 DEF Results, Waits
    <2>1. CASE q = running
      BY <1>0, <1>1, <1>3, <1>4, <2>1 DEF Results, Waits
    <2>2. CASE q # running
      BY <1>0, <1>4, <2>2 DEF Results, Waits
    <2> QED  BY <2>1, <2>2
  <1>9. ASSUME NEW q \in Proc  PROVE HasFreshPage(q)' <=> HasFreshPage(q)
    <2>1. CASE q = running
      BY <1>1, <1>2, <1>3, <1>4, <2>1 DEF HasFreshPage, Waits
    <2>2. CASE q # running
      BY <1>1, <1>4, <2>2 DEF HasFreshPage, Waits
    <2> QED  BY <2>1, <2>2
  <1>10. Heaps'
    BY <1>0, <1>1, <1>9 DEF Heaps
  <1> QED  BY <1>5, <1>6, <1>7, <1>8, <1>10 DEF ProgramsInv

\* sys_page_alloc: a page of zeroes at heap_top.
LEMMA PageAllocInv ==
    ASSUME Sizes, ProgramsInv, PageAlloc
    PROVE  ProgramsInv'
  <1>0. TypeOK /\ HeapTops /\ CallOfPc /\ Results /\ Heaps
    BY DEF ProgramsInv
  <1> DEFINE h == u[running].heap_top
  <1>1. /\ call.int = "INT_SYS_PAGE_ALLOC"
        /\ call' = NoCall
        /\ image' = [image EXCEPT ![running][call.rdi] = {0}]
        /\ ret' = [ret EXCEPT ![running] = 0]
        /\ UNCHANGED <<state, running, u>>
    BY DEF PageAlloc, Spaces!PageAlloc, Spaces!Answer, Spaces!Returns, NoCall
  <1>2. call' \in [int : Calls, rdi : Int] /\ call'.int = "none"
    BY <1>1 DEF NoCall, Spaces!NoCall, Calls
  <1>3. running \in Proc /\ u[running].pc = "allocated" /\ call.rdi = h
    BY <1>0, <1>1 DEF TypeOK, CallOfPc
  <1>4. h \in 0 .. Stack /\ h # 0 /\ h # Stack
    BY <1>0, <1>3 DEF HeapTops, WithHeap
  <1>5. h \in Address /\ h \in Int
    BY <1>4 DEF Address
  <1> HIDE DEF h
  <1>6. /\ ret'[running] = 0 /\ ret' \in [Proc -> Int]
        /\ \A q \in Proc \ {running} : ret'[q] = ret[q]
    BY <1>0, <1>1, <1>3 DEF TypeOK
  <1>7. image[running] \in [Address -> SUBSET Int]
    BY <1>0, <1>3 DEF TypeOK
  <1>8. /\ image'[running] = [image[running] EXCEPT ![h] = {0}]
        /\ \A q \in Proc \ {running} : image'[q] = image[q]
    BY <1>0, <1>1, <1>3 DEF TypeOK
  <1>9. image' \in [Proc -> [Address -> SUBSET Int]]
    <2>1. [image[running] EXCEPT ![h] = {0}] \in [Address -> SUBSET Int]
      <3>1. {0} \in SUBSET Int
        OBVIOUS
      <3> QED  BY <1>7, <3>1
    <2>2. image' = [image EXCEPT ![running] = [image[running] EXCEPT ![h] = {0}]]
      BY <1>0, <1>1, <1>3 DEF TypeOK
    <2> QED  BY <1>0, <2>1, <2>2 DEF TypeOK
  <1>10. TypeOK'
    BY <1>0, <1>1, <1>2, <1>6, <1>9 DEF TypeOK
  <1>11. HeapTops'
    BY <1>0, <1>1 DEF HeapTops
  <1>12. CallOfPc'
    BY <1>0, <1>1, <1>2 DEF CallOfPc
  <1>13. Results'
    <2> SUFFICES ASSUME NEW q \in Proc
                 PROVE  /\ u[q].pc \in {"start", "repid"} => ret'[q] = q
                        /\ u[q].pc = "allocated" => ret'[q] \in {0, -1}
                        /\ u[q].pc \in {"loop", "allocated", "stored", "idle"} => u[q].p = q
                        /\ u[q].pc = "reforked" /\ ret'[q] # 0 => u[q].p = q
      BY <1>1, <1>2 DEF Results, Waits
    <2>1. CASE q = running
      BY <1>0, <1>3, <1>6, <2>1 DEF Results
    <2>2. CASE q # running
      BY <1>0, <1>6, <2>2 DEF Results, Waits
    <2> QED  BY <2>1, <2>2
  <1>14. Heaps'
    <2> SUFFICES ASSUME NEW q \in Proc, state[q] = "P_RUNNABLE",
                        NEW a \in HeapStart .. Stack - 1
                 PROVE  /\ a < u[q].heap_top => image'[q][a] \in {{r} : r \in Proc}
                        /\ a > u[q].heap_top => image'[q][a] = {}
                        /\ a = u[q].heap_top => (image'[q][a] # {} <=> HasFreshPage(q)')
      BY <1>1 DEF Heaps
    <2>0. /\ a < u[q].heap_top => image[q][a] \in {{r} : r \in Proc}
          /\ a > u[q].heap_top => image[q][a] = {}
          /\ a = u[q].heap_top => (image[q][a] # {} <=> HasFreshPage(q))
      BY <1>0 DEF Heaps
    <2>1. CASE q = running
      <3>1. HasFreshPage(q)'
        BY <1>1, <1>2, <1>3, <1>6, <2>1 DEF HasFreshPage, Waits
      <3>2. a \in Address /\ a \in Int
        BY DEF Address, Sizes, HeapStart, Stack
      <3>3. image'[q][a] = IF a = h THEN {0} ELSE image[q][a]
        BY <1>7, <1>8, <2>1, <3>2
      <3>4. u[q].heap_top = h
        BY <2>1 DEF h
      <3>5. a < h \/ a > h => a # h
        BY <1>5, <3>2
      <3> QED  BY <2>0, <3>1, <3>3, <3>4, <3>5
    <2>2. CASE q # running
      <3>1. HasFreshPage(q)' <=> HasFreshPage(q)
        BY <1>1, <1>6, <2>2 DEF HasFreshPage, Waits
      <3> QED  BY <1>8, <2>0, <2>2, <3>1
    <2> QED  BY <2>1, <2>2
  <1> QED  BY <1>10, <1>11, <1>12, <1>13, <1>14 DEF ProgramsInv

\* sys_fork: the child has its parent's memory and variables, and returns 0.
LEMMA ForkInv ==
    ASSUME ProgramsInv, ForkAnswer
    PROVE  ProgramsInv'
  <1>0. TypeOK /\ HeapTops /\ CallOfPc /\ Results /\ Heaps
    BY DEF ProgramsInv
  <1>1. PICK child \in FreeSlots : Spaces!Fork(child) /\ u' = [u EXCEPT ![child] = me]
    BY DEF ForkAnswer
  <1>2. /\ call.int = "INT_SYS_FORK"
        /\ call' = NoCall
        /\ state' = [state EXCEPT ![child] = "P_RUNNABLE"]
        /\ image' = [image EXCEPT ![child] = image[running]]
        /\ ret' = [ret EXCEPT ![running] = child, ![child] = 0]
        /\ running' = running
    BY <1>1 DEF Spaces!Fork, Spaces!Answer, NoCall
  <1>3. call' \in [int : Calls, rdi : Int] /\ call'.int = "none"
    BY <1>2 DEF NoCall, Spaces!NoCall, Calls
  <1>4. /\ running \in Proc /\ child \in Proc /\ child # running
        /\ state[running] = "P_RUNNABLE"
        /\ u[running].pc \in {"p1", "p2", "forked", "reforked"}
    BY <1>0, <1>1, <1>2 DEF TypeOK, CallOfPc, FreeSlots
  <1>5. child \in Int /\ child # 0
    BY <1>4 DEF Proc
  <1>6. /\ ret'[running] = child /\ ret'[child] = 0 /\ ret' \in [Proc -> Int]
        /\ \A q \in Proc \ {running, child} : ret'[q] = ret[q]
    BY <1>0, <1>2, <1>4, <1>5 DEF TypeOK
  <1>7. /\ u'[child] = u[running] /\ u'[running] = u[running]
        /\ \A q \in Proc \ {child} : u'[q] = u[q]
    BY <1>0, <1>1, <1>4 DEF TypeOK, me
  <1>8. /\ image'[child] = image[running]
        /\ \A q \in Proc \ {child} : image'[q] = image[q]
        /\ state'[running] = "P_RUNNABLE"
        /\ \A q \in Proc \ {child} : state'[q] = state[q]
    BY <1>0, <1>2, <1>4 DEF TypeOK
  <1>9. TypeOK'
    <2>1. u' \in [Proc -> Vars]
      BY <1>0, <1>1, <1>4 DEF TypeOK, me, Vars
    <2>2. image' \in [Proc -> [Address -> SUBSET Int]]
      BY <1>0, <1>2, <1>4 DEF TypeOK
    <2>3. state' \in [Proc -> {"P_FREE", "P_RUNNABLE"}]
      BY <1>0, <1>2 DEF TypeOK
    <2> QED  BY <1>0, <1>2, <1>3, <1>6, <2>1, <2>2, <2>3 DEF TypeOK, Vars
  <1>10. HeapTops'
    BY <1>0, <1>4, <1>7 DEF HeapTops
  <1>11. CallOfPc'
    BY <1>2, <1>3, <1>8 DEF CallOfPc
  <1>12. Results'
    <2> SUFFICES ASSUME NEW q \in Proc
                 PROVE  /\ u'[q].pc \in {"start", "repid"} => ret'[q] = q
                        /\ u'[q].pc = "allocated" => ret'[q] \in {0, -1}
                        /\ u'[q].pc \in {"loop", "allocated", "stored", "idle"} => u'[q].p = q
                        /\ u'[q].pc = "reforked" /\ ret'[q] # 0 => u'[q].p = q
      BY <1>2, <1>3 DEF Results, Waits
    <2>1. CASE q = running
      BY <1>0, <1>2, <1>4, <1>7, <2>1 DEF Results, Waits
    <2>2. CASE q = child
      BY <1>4, <1>6, <1>7, <2>2
    <2>3. CASE q \notin {running, child}
      BY <1>0, <1>6, <1>7, <2>3 DEF Results, Waits
    <2> QED  BY <2>1, <2>2, <2>3
  <1>13. Heaps'
    <2> SUFFICES ASSUME NEW q \in Proc, state'[q] = "P_RUNNABLE",
                        NEW a \in HeapStart .. Stack - 1
                 PROVE  /\ a < u'[q].heap_top => image'[q][a] \in {{r} : r \in Proc}
                        /\ a > u'[q].heap_top => image'[q][a] = {}
                        /\ a = u'[q].heap_top => (image'[q][a] # {} <=> HasFreshPage(q)')
      BY DEF Heaps
    <2>1. CASE q \in {running, child}
      <3>1. u'[q] = u[running] /\ image'[q] = image[running]
        BY <1>4, <1>7, <1>8, <2>1
      <3>2. ~HasFreshPage(q)' /\ ~HasFreshPage(running)
        BY <1>4, <3>1 DEF HasFreshPage
      <3>3. /\ a < u[running].heap_top => image[running][a] \in {{r} : r \in Proc}
            /\ a > u[running].heap_top => image[running][a] = {}
            /\ a = u[running].heap_top => (image[running][a] # {} <=> HasFreshPage(running))
        BY <1>0, <1>4 DEF Heaps
      <3> QED  BY <3>1, <3>2, <3>3
    <2>2. CASE q \notin {running, child}
      <3>1. HasFreshPage(q)' <=> HasFreshPage(q)
        BY <1>2, <1>6, <1>7, <2>2 DEF HasFreshPage, Waits
      <3>2. u'[q] = u[q] /\ image'[q] = image[q] /\ state'[q] = state[q]
        BY <1>7, <1>8, <2>2
      <3> QED  BY <1>0, <3>1, <3>2 DEF Heaps
    <2> QED  BY <2>1, <2>2
  <1> QED  BY <1>9, <1>10, <1>11, <1>12, <1>13 DEF ProgramsInv

-----------------------------------------------------------------------------
\* The programs start without a heap.
LEMMA InitProgramsInv ==
    ASSUME Sizes, Init
    PROVE  ProgramsInv
  <1>1. 1 \in Proc /\ 1 \in Loaded
    BY DEF Proc, Loaded, Sizes
  <1>2. call \in [int : Calls, rdi : Int] /\ call.int = "none" /\ call = NoCall
    BY DEF Init, NoCall, Spaces!NoCall, Calls
  <1>3. \A p \in Proc : /\ u[p] \in Vars /\ u[p].pc = "main" /\ u[p].heap_top = 0
    BY DEF Init, Vars, Places, BeforeHeap
  <1>4. u \in [Proc -> Vars]
    BY DEF Init, Vars, Places, BeforeHeap
  <1>5. image \in [Proc -> [Address -> SUBSET Int]]
    BY DEF Init
  <1>6. TypeOK
    BY <1>1, <1>2, <1>4, <1>5 DEF Init, TypeOK, Vars
  <1>7. HeapTops
    BY <1>3 DEF HeapTops, WithHeap, Sizes, Stack, HeapStart
  <1>8. CallOfPc
    BY <1>1, <1>2 DEF Init, CallOfPc
  <1>9. Results
    BY <1>3 DEF Results
  <1>10. Heaps
    <2> SUFFICES ASSUME NEW p \in Proc, NEW a \in HeapStart .. Stack - 1
                 PROVE  /\ a < u[p].heap_top => image[p][a] \in {{r} : r \in Proc}
                        /\ a > u[p].heap_top => image[p][a] = {}
                        /\ a = u[p].heap_top => (image[p][a] # {} <=> HasFreshPage(p))
      BY DEF Heaps
    <2>1. a \in Address /\ a \notin {0, Stack} /\ a \in Int /\ a > 0
      BY DEF Address, Sizes, HeapStart, Stack
    <2>2. image[p][a] = {}
      BY <2>1 DEF Init
    <2> QED  BY <1>3, <2>1, <2>2
  <1> QED  BY <1>6, <1>7, <1>8, <1>9, <1>10 DEF ProgramsInv

\* Every step of the programs and of the kernel keeps the invariant.
LEMMA NextProgramsInv ==
    ASSUME Sizes, ProgramsInv, [Next]_vars
    PROVE  ProgramsInv'
  <1>1. CASE Step
    BY <1>1, StepInv
  <1>2. CASE Timer
    BY <1>2, TimerInv
  <1>3. CASE Kernel
    BY <1>3, GetpidInv, ScheduleInv, PageAllocInv, ForkInv, FailInv, HaltInv DEF Kernel
  <1>4. CASE UNCHANGED vars
    BY <1>4 DEF vars, ProgramsInv, TypeOK, HeapTops, CallOfPc, Results, Heaps,
                HasFreshPage, Waits
  <1> QED  BY <1>1, <1>2, <1>3, <1>4 DEF Next

\* The invariant holds in every behaviour of the three programs.
THEOREM ProgramsSafe ==
    ASSUME Sizes
    PROVE  Spec => []ProgramsInv
  <1>1. Init => ProgramsInv
    BY InitProgramsInv
  <1>2. ProgramsInv /\ [Next]_vars => ProgramsInv'
    BY NextProgramsInv
  <1> QED  BY <1>1, <1>2, PTL DEF Spec

\* p-allocator, p-fork and p-forkexit ask sys_page_alloc only for pages that
\* are not mapped, never for the stack or the program: what the kernel's
\* model takes for granted of its callers.
THEOREM ProgramsAskForUnmapped ==
    ASSUME Sizes
    PROVE  Spec => []AllocsUnmapped
  <1>1. ProgramsInv => AllocsUnmapped
    <2> SUFFICES ASSUME ProgramsInv, call.int = "INT_SYS_PAGE_ALLOC"
                 PROVE  image[running][call.rdi] = {}
      BY DEF AllocsUnmapped
    <2>1. /\ running \in Proc /\ state[running] = "P_RUNNABLE"
          /\ u[running].pc = "allocated" /\ call.rdi = u[running].heap_top
      BY DEF ProgramsInv, TypeOK, CallOfPc
    <2>2. call.rdi \in HeapStart .. Stack - 1
      BY <2>1 DEF ProgramsInv, HeapTops, WithHeap, Sizes, Stack, HeapStart
    <2>3. ~HasFreshPage(running)
      BY DEF HasFreshPage, Waits
    <2> QED  BY <2>1, <2>2, <2>3 DEF ProgramsInv, Heaps
  <1> QED  BY <1>1, ProgramsSafe, PTL

\* The heap of every process is exactly the pages below its heap_top, which
\* hold process IDs, and the page it has just been given: also after forks in
\* the middle of the loop, and whenever the timer interrupts.
THEOREM HeapsInShape ==
    ASSUME Sizes
    PROVE  Spec => []HeapShape
  <1>1. ProgramsInv => HeapShape
    <2> SUFFICES ASSUME ProgramsInv, NEW p \in Proc, state[p] = "P_RUNNABLE",
                        NEW a \in HeapStart .. Stack - 1
                 PROVE  CASE a < u[p].heap_top -> image[p][a] \in {{q} : q \in Proc}
                          [] a > u[p].heap_top -> image[p][a] = {}
                          [] OTHER -> image[p][a] # {} <=>
                                /\ u[p].pc = "allocated" /\ ret[p] = 0
                                /\ p = running => call.int \in {"none", "INT_TIMER"}
      BY DEF HeapShape
    <2>1. /\ a < u[p].heap_top => image[p][a] \in {{q} : q \in Proc}
          /\ a > u[p].heap_top => image[p][a] = {}
          /\ a = u[p].heap_top => (image[p][a] # {} <=> HasFreshPage(p))
      BY DEF ProgramsInv, Heaps
    <2>2. u[p].heap_top \in Int /\ a \in Int
      BY DEF ProgramsInv, HeapTops, HeapStart
    <2>3. HasFreshPage(p) <=> /\ u[p].pc = "allocated" /\ ret[p] = 0
                              /\ p = running => call.int \in {"none", "INT_TIMER"}
      <3>1. p = running /\ u[p].pc = "allocated" =>
              call.int \in {"none", "INT_TIMER", "INT_SYS_PAGE_ALLOC"}
        BY DEF ProgramsInv, TypeOK, CallOfPc, Calls
      <3> QED  BY <3>1 DEF HasFreshPage, Waits
    <2>4. a < u[p].heap_top \/ a > u[p].heap_top \/ a = u[p].heap_top
      BY <2>2
    <2>5. CASE a < u[p].heap_top
      BY <2>1, <2>2, <2>5
    <2>6. CASE a > u[p].heap_top
      BY <2>1, <2>2, <2>6
    <2>7. CASE a = u[p].heap_top
      BY <2>1, <2>2, <2>3, <2>7
    <2> QED  BY <2>4, <2>5, <2>6, <2>7
  <1> QED  BY <1>1, ProgramsSafe, PTL

\* A process stores nothing but its own ID to its heap, also one that was
\* forked in the middle of p-forkexit's loop and so has inherited its
\* parent's p: the child asks for its ID before it stores again.
THEOREM OwnIdStored ==
    ASSUME Sizes
    PROVE  Spec => StoresOwnPid
  <1>1. ProgramsInv /\ [Next]_vars =>
          [call = NoCall => \A p \in Proc : \A a \in HeapStart .. Stack - 1 :
              image'[p][a] # image[p][a] => p = running /\ image'[p][a] = {p}]_vars
    <2> SUFFICES ASSUME ProgramsInv, Next, call = NoCall,
                        NEW p \in Proc, NEW a \in HeapStart .. Stack - 1,
                        image'[p][a] # image[p][a]
                 PROVE  p = running /\ image'[p][a] = {p}
      BY DEF vars
    <2>1. call.int = "none"
      BY DEF NoCall, Spaces!NoCall
    <2>2. ~Kernel
      BY <2>1 DEF Kernel, Getpid, schedule, PageAlloc, ForkAnswer, Fail, Halt,
                  Spaces!Getpid, Spaces!Yield, Spaces!Fork, Spaces!Fail, Spaces!Answer
    <2>3. ~Timer
      BY DEF Timer
    <2>4. \A int, rdi, v, pc : ~Trap(int, rdi, v, pc)
      BY DEF Trap
    <2>5. \A v : ~Iterate(v)
      BY <2>4 DEF Iterate, Alloc
    <2>6. StoreHeap
      <3>1. Step
        BY <2>2, <2>3 DEF Next
      <3>2. ~Fork1 /\ ~Fork2 /\ ~Forked2 /\ ~CheckReturns
        BY <2>4 DEF Fork1, Fork2, Forked2, CheckReturns, Assert
      <3>3. ~FirstLoop /\ ~ChildBreaks /\ ~AllocatorMain /\ ~AllocFailed /\ ~Idle
        BY <2>4 DEF FirstLoop, ForkOrYield, ChildBreaks, AllocatorMain, AllocFailed, Idle
      <3>4. ~Reforked /\ ~Repid /\ ~Start /\ ~Loop /\ ~Stored
        BY <2>4, <2>5 DEF Reforked, Repid, Start, Loop, Stored
      <3> QED  BY <3>1, <3>2, <3>3, <3>4 DEF Step
    <2>7. /\ image'[running] = [image[running] EXCEPT ![me.heap_top] = {running}]
          /\ \A q \in Proc \ {running} : image'[q] = image[q]
      BY <2>6, StoreHeapChanges
    <2>8. p = running
      BY <2>7
    <2>9. image[running] \in [Address -> SUBSET Int] /\ a \in Address
      BY <2>8 DEF ProgramsInv, TypeOK, Address, Sizes, HeapStart, Stack
    <2> QED  BY <2>7, <2>8, <2>9
  <1> QED  BY <1>1, ProgramsSafe, PTL DEF Spec, StoresOwnPid

\* A process that sys_page_alloc told 0 has the page it stores to next: its
\* store never faults, however long the timer kept it from storing.
StoreAllowed == At("allocated") /\ result >= 0 => image[running][me.heap_top] # {}

\* The programs never touch memory they do not have.
THEOREM StoresHaveMemory ==
    ASSUME Sizes
    PROVE  Spec => []StoreAllowed
  <1>1. ProgramsInv => StoreAllowed
    <2> SUFFICES ASSUME ProgramsInv, At("allocated"), result >= 0
                 PROVE  image[running][me.heap_top] # {}
      BY DEF StoreAllowed
    <2>1. running \in Proc /\ state[running] = "P_RUNNABLE" /\ call = NoCall
          /\ u[running].pc = "allocated"
      BY DEF ProgramsInv, TypeOK, CallOfPc, At, me
    <2>2. ret[running] = 0
      BY <2>1 DEF ProgramsInv, Results, result
    <2>3. ~Waits(running, "INT_SYS_PAGE_ALLOC")
      BY <2>1 DEF Waits, NoCall, Spaces!NoCall
    <2>4. HasFreshPage(running)
      BY <2>1, <2>2, <2>3 DEF HasFreshPage
    <2>5. u[running].heap_top \in HeapStart .. Stack - 1
      BY <2>1 DEF ProgramsInv, HeapTops, WithHeap, Sizes, Stack, HeapStart
    <2> QED  BY <2>1, <2>4, <2>5 DEF ProgramsInv, Heaps, me
  <1> QED  BY <1>1, ProgramsSafe, PTL
=============================================================================
