-------------------------- MODULE InterruptsProofs --------------------------
(***************************************************************************)
(* The kernel is never interrupted, whatever lines devices raise, whatever *)
(* `int n' programs execute and however often the user reboots.  The       *)
(* inductive invariant says that the interrupt flag is set in user mode    *)
(* only and that every gate clears it.                                     *)
(*                                                                         *)
(* And exception() is called with the number of what happened, while the   *)
(* controllers and the timer are programmed as the kernel asked for        *)
(* whenever a process runs: the invariant says, for each of the port       *)
(* writes still to make, what the writes before it have reached.           *)
(***************************************************************************)
EXTENDS Interrupts, SequenceTheorems, TLAPS

GatesClearFlag == \A i \in DOMAIN idt : idt[i].clears_if
FlagOnlyInUserMode == iflag => mode = "user"

Inv == GatesClearFlag /\ FlagOnlyInUserMode /\ KernelNotInterrupted

(* All gates that segments_init sets are interrupt gates.                  *)
LEMMA SegmentsInitClears ==
    \A i \in DOMAIN segments_init : segments_init[i].clears_if
  <1>1. ASSUME NEW i  PROVE set_gates(i).clears_if
    BY DEF set_gates, gate
  <1> QED  BY <1>1 DEF segments_init

(* The kernel's first instructions run with the flag clear.                *)
LEMMA InitInv == Init => Inv
  BY SegmentsInitClears
  DEF Init, Inv, GatesClearFlag, FlagOnlyInUserMode, KernelNotInterrupted

(* Entering the kernel through any gate, or through none, clears the flag. *)
LEMMA EnterClears ==
  ASSUME NEW vector, NEW c, GatesClearFlag, Enter(vector, c)
  PROVE  ~iflag'
  BY DEF Enter, GatesClearFlag

(* Every step keeps the flag clear outside user mode.                      *)
LEMMA NextInv == Inv /\ [Next]_vars => Inv'
  <1> SUFFICES ASSUME Inv, [Next]_vars  PROVE Inv'
    OBVIOUS
  <1> USE DEF Inv, GatesClearFlag, FlagOnlyInUserMode, KernelNotInterrupted
  <1>1. CASE Outb
    BY <1>1 DEF Outb
  <1>2. CASE Run
    BY <1>2 DEF Run
  <1>3. CASE Raise
    BY <1>3 DEF Raise
  <1>4. CASE TimerFires
    BY <1>4 DEF TimerFires
  <1>5. CASE Deliver
    <2>1. PICK vector, c : Enter(vector, c)
      BY <1>5 DEF Deliver
    <2>2. ~iflag'
      BY <2>1, EnterClears
    <2>3. ~nested' /\ idt' = idt
      BY <1>5 DEF Deliver
    <2> QED  BY <2>2, <2>3
  <1>6. CASE UserInt
    <2>1. PICK vector, c : Enter(vector, c)
      BY <1>6 DEF UserInt
    <2>2. ~iflag'
      BY <2>1, EnterClears
    <2> QED  BY <1>6, <2>2 DEF UserInt
  <1>7. CASE PageFault
    <2>1. ~iflag'
      BY <1>7, EnterClears DEF PageFault
    <2> QED  BY <1>7, <2>1 DEF PageFault
  <1>8. CASE Fail
    BY <1>8 DEF Fail
  <1>9. CASE SoftReboot
    BY <1>9, SegmentsInitClears DEF SoftReboot
  <1>10. CASE UNCHANGED vars
    BY <1>10 DEF vars
  <1> QED
    BY <1>1, <1>2, <1>3, <1>4, <1>5, <1>6, <1>7, <1>8, <1>9, <1>10 DEF Next

(* "Hardware interrupts are disabled whenever the kernel is running"       *)
(* (kernel.c, exception): no interrupt is ever delivered outside user      *)
(* mode.                                                                   *)
THEOREM KernelNeverInterrupted == Spec => []KernelNotInterrupted
  <1>1. Inv => KernelNotInterrupted
    BY DEF Inv
  <1> QED  BY InitInv, NextInv, <1>1, PTL DEF Spec

-----------------------------------------------------------------------------
(* What exception() is told, and what the hardware is set to when a        *)
(* process runs.  The invariant goes through the writes of the set up one  *)
(* by one: Remaining(k) says which are left after k of them, Reached(k)    *)
(* what the controllers and the timer have understood by then.  Where they *)
(* start from does not matter, so the same holds after a soft reboot in    *)
(* the middle of an exception.                                             *)

Write == [port : Int, value : Int]
Pics == [stage : {"ready", "icw2", "icw3", "icw4"}, base : Int,
         mask : SUBSET (0 .. 7), irr : SUBSET (0 .. 7), isr : SUBSET (0 .. 7),
         aeoi : BOOLEAN, special : BOOLEAN]

Writes == 21

Remaining(k) ==
    /\ script \in Seq(Write)
    /\ Len(script) = Writes - k
    /\ \A i \in 1 .. Writes - k : script[i] = SetUp[k + i]

Reached(k) ==
    /\ k = 3 => pic[1].stage = "icw2"
    /\ k = 4 => pic[1].stage = "icw3"
    /\ k = 5 => pic[1].stage = "icw4"
    /\ k >= 6 => pic[1].stage = "ready"
    /\ k >= 4 => pic[1].base = INT_HARDWARE
    /\ k = 7 => pic[2].stage = "icw2"
    /\ k = 8 => pic[2].stage = "icw3"
    /\ k = 9 => pic[2].stage = "icw4"
    /\ k >= 10 => pic[2].stage = "ready"
    /\ k = 17 => timer.expects = 2
    /\ k = 18 => timer.expects = 1 /\ timer.reload = TIMER_DIV(HZ) % 256
    /\ k >= 19 => timer.expects = 0 /\ timer.reload = TIMER_DIV(HZ)
    /\ k >= 20 => pic[1].mask = 1 .. 7
    /\ k >= 21 => pic[2].mask = 0 .. 7

HardwareType ==
    /\ pic \in [1 .. 2 -> Pics]
    /\ timer \in [expects : 0 .. 2, reload : Int]
Progress ==
    /\ mode = "boot" => \E k \in 0 .. Writes : Remaining(k) /\ Reached(k)
    /\ mode # "boot" => Reached(Writes)
RightNumber ==
    mode = "handler" =>
        /\ intno = cause
        /\ intno \in {INT_GPF, INT_PAGEFAULT, INT_TIMER}
                     \cup (INT_SYS .. INT_SYS + 15)

SetUpInv ==
    /\ HardwareType
    /\ idt = segments_init
    /\ mode \in {"boot", "user", "handler", "failed"}
    /\ Progress
    /\ RightNumber

(* The reload value timer_init computes for 100 interrupts a second.       *)
LEMMA TimerValue ==
    TIMER_DIV(HZ) = 11932 /\ TIMER_DIV(HZ) % 256 = 156 /\ TIMER_DIV(HZ) \div 256 = 46
  BY DEF TIMER_DIV, TIMER_FREQ, HZ

(* The powers of two that select the bits of a byte.                       *)
LEMMA Powers ==
    /\ 2^0 = 1 /\ 2^1 = 2 /\ 2^2 = 4 /\ 2^3 = 8
    /\ 2^4 = 16 /\ 2^5 = 32 /\ 2^6 = 64 /\ 2^7 = 128
  BY SMT

(* The masks interrupt_mask writes: every line, and every line but 0.      *)
LEMMA MaskBits == Bits(254) = 1 .. 7 /\ Bits(255) = 0 .. 7
  <1>1. ASSUME NEW k \in 0 .. 7  PROVE Bit(255, k) /\ (Bit(254, k) <=> k # 0)
    <2>1. \/ k = 0 \/ k = 1 \/ k = 2 \/ k = 3 \/ k = 4 \/ k = 5 \/ k = 6 \/ k = 7
      OBVIOUS
    <2>2. CASE k = 0
      BY <2>2, Powers DEF Bit
    <2>3. CASE k = 1
      BY <2>3, Powers DEF Bit
    <2>4. CASE k = 2
      BY <2>4, Powers DEF Bit
    <2>5. CASE k = 3
      BY <2>5, Powers DEF Bit
    <2>6. CASE k = 4
      BY <2>6, Powers DEF Bit
    <2>7. CASE k = 5
      BY <2>7, Powers DEF Bit
    <2>8. CASE k = 6
      BY <2>8, Powers DEF Bit
    <2>9. CASE k = 7
      BY <2>9, Powers DEF Bit
    <2> QED  BY <2>1, <2>2, <2>3, <2>4, <2>5, <2>6, <2>7, <2>8, <2>9
  <1> QED  BY <1>1 DEF Bits

(* The bits of ICW1 and of the two OCW3 that tell them apart.              *)
LEMMA CommandBits ==
    /\ Bit(17, 4)
    /\ ~Bit(104, 4) /\ Bit(104, 3) /\ Bit(104, 6)
    /\ ~Bit(10, 4) /\ Bit(10, 3) /\ ~Bit(10, 6)
  BY Powers DEF Bit

(* The ports and the values of the set up as numbers.                      *)
LEMMA PortNumbers ==
    /\ IO_PIC1 = 32 /\ IO_PIC1 + 1 = 33 /\ IO_PIC2 = 160 /\ IO_PIC2 + 1 = 161
    /\ INT_HARDWARE = 32 /\ INT_HARDWARE + 8 = 40
    /\ IRQ_SLAVE = 2 /\ 2 ^ IRQ_SLAVE = 4 /\ 2 ^ (INT_TIMER - INT_HARDWARE) = 1
    /\ TIMER_MODE = 67 /\ IO_TIMER1 = 64
  BY Powers DEF IO_PIC1, IO_PIC2, INT_HARDWARE, INT_TIMER, IRQ_SLAVE, TIMER_MODE,
                IO_TIMER1

(* The writes of the set up as a list.                                     *)
AllWrites ==
    << outb(33, 255), outb(161, 255),
       outb(32, 17), outb(33, 32), outb(33, 4), outb(33, 3),
       outb(160, 17), outb(161, 40), outb(161, 2), outb(161, 1),
       outb(32, 104), outb(32, 10), outb(160, 104), outb(160, 10),
       outb(33, 255), outb(161, 255),
       outb(67, 52), outb(64, 156), outb(64, 46),
       outb(33, 254), outb(161, 255) >>

(* A byte for a port is a write.                                           *)
LEMMA OutbType == \A p, v \in Int : outb(p, v) \in Write
  BY DEF outb, Write

(* u is s, of length n, followed by t, of length k.                        *)
Joined(u, s, t, n, k) ==
    /\ u \in Seq(Write)
    /\ Len(u) = n + k
    /\ \A i \in 1 .. n : u[i] = s[i]
    /\ \A i \in n + 1 .. n + k : u[i] = t[i - n]

(* Writes of two sequences, one after the other.                           *)
LEMMA JoinWrites ==
    ASSUME NEW s \in Seq(Write), NEW t \in Seq(Write), NEW n, NEW k,
           Len(s) = n, Len(t) = k
    PROVE  Joined(s \o t, s, t, n, k)
  <1>1. /\ s \o t \in Seq(Write)
        /\ Len(s \o t) = Len(s) + Len(t)
        /\ \A i \in 1 .. Len(s) + Len(t) :
              (s \o t)[i] = IF i <= Len(s) THEN s[i] ELSE t[i - Len(s)]
    BY ConcatProperties, Zenon
  <1>2. n \in Nat /\ k \in Nat
    BY LenProperties
  <1> QED  BY <1>1, <1>2 DEF Joined

(* interrupt_init and timer_init write these bytes in this order.          *)
LEMMA SetUpWrites ==
    /\ SetUp \in Seq(Write)
    /\ Len(SetUp) = Writes
    /\ \A i \in 1 .. Writes : SetUp[i] = AllWrites[i]
  <1> DEFINE m == interrupt_mask(0)
             t == interrupt_mask(2 ^ (INT_TIMER - INT_HARDWARE))
             c == << outb(IO_PIC1, 17), outb(IO_PIC1 + 1, INT_HARDWARE),
                     outb(IO_PIC1 + 1, 2 ^ IRQ_SLAVE), outb(IO_PIC1 + 1, 3),
                     outb(IO_PIC2, 17), outb(IO_PIC2 + 1, INT_HARDWARE + 8),
                     outb(IO_PIC2 + 1, IRQ_SLAVE), outb(IO_PIC2 + 1, 1),
                     outb(IO_PIC1, 104), outb(IO_PIC1, 10),
                     outb(IO_PIC2, 104), outb(IO_PIC2, 10) >>
             r == << outb(TIMER_MODE, 52),
                     outb(IO_TIMER1, TIMER_DIV(HZ) % 256),
                     outb(IO_TIMER1, TIMER_DIV(HZ) \div 256) >>
  <1>1. SetUp = ((m \o c) \o m) \o (r \o t)
    <2>1. HZ > 0
      BY DEF HZ
    <2>2. timer_init(HZ) = r \o t
      BY <2>1 DEF timer_init
    <2>3. interrupt_init = (m \o c) \o m
      BY DEF interrupt_init
    <2> HIDE DEF m, c, r, t
    <2> QED  BY <2>2, <2>3 DEF SetUp
  <1>2. m = << outb(33, 255), outb(161, 255) >>
    BY PortNumbers DEF interrupt_mask
  <1>3. t = << outb(33, 254), outb(161, 255) >>
    BY PortNumbers DEF interrupt_mask
  <1>4. c = << outb(32, 17), outb(33, 32), outb(33, 4), outb(33, 3),
               outb(160, 17), outb(161, 40), outb(161, 2), outb(161, 1),
               outb(32, 104), outb(32, 10), outb(160, 104), outb(160, 10) >>
    BY PortNumbers
  <1>5. r = << outb(67, 52), outb(64, 156), outb(64, 46) >>
    BY PortNumbers, TimerValue
  <1> HIDE DEF m, c, r, t
  <1>6. m \in Seq(Write) /\ t \in Seq(Write) /\ Len(m) = 2 /\ Len(t) = 2
    BY <1>2, <1>3, OutbType
  <1>7. c \in Seq(Write) /\ Len(c) = 12
    BY <1>4, OutbType
  <1>8. r \in Seq(Write) /\ Len(r) = 3
    BY <1>5, OutbType
  <1> DEFINE a == m \o c
             b == a \o m
             d == r \o t
  <1>9. Joined(a, m, c, 2, 12)
    BY <1>6, <1>7, JoinWrites, Zenon
  <1>10. a \in Seq(Write) /\ Len(a) = 14
    BY <1>9 DEF Joined
  <1>11. Joined(b, a, m, 14, 2)
    BY <1>6, <1>10, JoinWrites, Zenon
  <1>12. b \in Seq(Write) /\ Len(b) = 16
    BY <1>11 DEF Joined
  <1>13. Joined(d, r, t, 3, 2)
    BY <1>6, <1>8, JoinWrites, Zenon
  <1>14. d \in Seq(Write) /\ Len(d) = 5
    BY <1>13 DEF Joined
  <1>15. Joined(SetUp, b, d, 16, 5)
    BY <1>1, <1>12, <1>14, JoinWrites, Zenon
  <1> HIDE DEF a, b, d
  <1>16. SetUp \in Seq(Write) /\ Len(SetUp) = Writes
    BY <1>15 DEF Joined, Writes
  <1>17. \A i \in 1 .. 2 : SetUp[i] = m[i] /\ SetUp[i + 14] = m[i] /\ SetUp[i + 19] = t[i]
    <2> SUFFICES ASSUME NEW i \in 1 .. 2
                 PROVE  SetUp[i] = m[i] /\ SetUp[i + 14] = m[i] /\ SetUp[i + 19] = t[i]
      OBVIOUS
    <2>1. SetUp[i] = b[i] /\ SetUp[i + 14] = b[i + 14]
      BY <1>15, SMTT(60) DEF Joined
    <2>2. b[i] = a[i] /\ b[i + 14] = m[i]
      BY <1>11, SMTT(60) DEF Joined
    <2>3. a[i] = m[i]
      BY <1>9 DEF Joined
    <2>4. SetUp[i + 19] = d[i + 3] /\ d[i + 3] = t[i]
      BY <1>13, <1>15, SMTT(60) DEF Joined
    <2> QED  BY <2>1, <2>2, <2>3, <2>4
  <1>18. \A i \in 1 .. 12 : SetUp[i + 2] = c[i]
    <2> SUFFICES ASSUME NEW i \in 1 .. 12  PROVE SetUp[i + 2] = c[i]
      OBVIOUS
    <2>1. SetUp[i + 2] = b[i + 2]
      BY <1>15, SMTT(60) DEF Joined
    <2>2. b[i + 2] = a[i + 2]
      BY <1>11 DEF Joined
    <2> QED  BY <1>9, <2>1, <2>2 DEF Joined
  <1>19. \A i \in 1 .. 3 : SetUp[i + 16] = r[i]
    <2> SUFFICES ASSUME NEW i \in 1 .. 3  PROVE SetUp[i + 16] = r[i]
      OBVIOUS
    <2>1. SetUp[i + 16] = d[i]
      BY <1>15, SMTT(60) DEF Joined
    <2> QED  BY <1>13, <2>1 DEF Joined
  <1>20. ASSUME NEW i \in 1 .. Writes  PROVE SetUp[i] = AllWrites[i]
    <2>1. CASE i \in 1 .. 2
      BY <1>2, <1>17, <2>1 DEF AllWrites
    <2>2. CASE i \in 3 .. 14
      <3>1. i - 2 \in 1 .. 12 /\ i = (i - 2) + 2
        BY <2>2
      <3>2. SetUp[i] = c[i - 2]
        BY <1>18, <3>1
      <3> QED  BY <1>4, <2>2, <3>2 DEF AllWrites
    <2>3. CASE i \in 15 .. 16
      <3>1. i - 14 \in 1 .. 2 /\ i = (i - 14) + 14
        BY <2>3
      <3>2. SetUp[i] = m[i - 14]
        BY <1>17, <3>1
      <3> QED  BY <1>2, <2>3, <3>2 DEF AllWrites
    <2>4. CASE i \in 17 .. 19
      <3>1. i - 16 \in 1 .. 3 /\ i = (i - 16) + 16
        BY <2>4
      <3>2. SetUp[i] = r[i - 16]
        BY <1>19, <3>1
      <3> QED  BY <1>5, <2>4, <3>2 DEF AllWrites
    <2>5. CASE i \in 20 .. 21
      <3>1. i - 19 \in 1 .. 2 /\ i = (i - 19) + 19
        BY <2>5
      <3>2. SetUp[i] = t[i - 19]
        BY <1>17, <3>1
      <3> QED  BY <1>3, <2>5, <3>2 DEF AllWrites
    <2> QED  BY <2>1, <2>2, <2>3, <2>4, <2>5 DEF Writes
  <1> QED  BY <1>16, <1>20

(* The first write left is the next one of the list; when it is made, the  *)
(* rest are left.                                                          *)
LEMMA NextOfScript ==
    ASSUME NEW k \in 0 .. Writes, Remaining(k)
    PROVE  /\ (script = <<>>) <=> (k = Writes)
           /\ k # Writes => Head(script) = AllWrites[k + 1]
           /\ k # Writes /\ script' = Tail(script) => Remaining(k + 1)'
  <1> USE DEF Remaining, Writes
  <1>1. (script = <<>>) <=> (k = Writes)
    OBVIOUS
  <1>2. ASSUME k # Writes  PROVE Head(script) = AllWrites[k + 1]
    <2>1. Head(script) = script[1] /\ 1 \in 1 .. Writes - k /\ k + 1 \in 1 .. Writes
      BY <1>2, SMTT(60)
    <2> QED  BY <2>1, SetUpWrites
  <1>3. ASSUME k # Writes, script' = Tail(script)  PROVE Remaining(k + 1)'
    <2>1. /\ Tail(script) \in Seq(Write)
          /\ Len(Tail(script)) = Writes - (k + 1)
          /\ \A i \in 1 .. Writes - (k + 1) : Tail(script)[i] = script[i + 1]
      BY <1>3, SMTT(60)
    <2>2. ASSUME NEW i \in 1 .. Writes - (k + 1)
          PROVE  script[i + 1] = SetUp[k + 1 + i]
      <3>1. i + 1 \in 1 .. Writes - k /\ k + (i + 1) = k + 1 + i
        OBVIOUS
      <3> QED  BY <3>1
    <2> QED  BY <1>3, <2>1, <2>2
  <1> QED  BY <1>1, <1>2, <1>3

(* A write to a controller is one of its states.                           *)
LEMMA PicType ==
    ASSUME NEW p \in Pics, NEW v \in Int
    PROVE  PicEven(p, v) \in Pics /\ PicOdd(p, v) \in Pics
  <1>1. PicEven(p, v) \in Pics
    BY DEF PicEven, Pics, Bit
  <1>2. PicOdd(p, v) \in Pics
    <2>1. Bits(v) \subseteq 0 .. 7
      BY DEF Bits
    <2>2. v - (v % 8) \in Int
      OBVIOUS
    <2>3. Bit(v, 1) \in BOOLEAN
      BY DEF Bit
    <2> HIDE DEF Bit, Bits
    <2> QED  BY <2>1, <2>2, <2>3 DEF PicOdd, Pics
  <1> QED  BY <1>1, <1>2

(* What a controller makes of a command: ICW1 starts its initialization,   *)
(* an OCW3 changes neither lines nor vectors.                              *)
LEMMA CommandEffect ==
    ASSUME NEW p \in Pics
    PROVE  /\ PicEven(p, 17).stage = "icw2"
           /\ PicEven(p, 17).base = p.base
           /\ PicEven(p, 104).stage = p.stage
           /\ PicEven(p, 104).base = p.base
           /\ PicEven(p, 104).mask = p.mask
           /\ PicEven(p, 10) = p
  <1>1. PicEven(p, 17) = [p EXCEPT !.stage = "icw2", !.mask = {}, !.irr = {},
                                   !.isr = {}, !.special = FALSE]
    BY CommandBits DEF PicEven
  <1>2. PicEven(p, 104) = [p EXCEPT !.special = Bit(104, 5)]
    BY CommandBits DEF PicEven
  <1>3. PicEven(p, 10) = p
    BY CommandBits DEF PicEven
  <1> QED  BY <1>1, <1>2, <1>3, ZenonT(60) DEF Pics

(* What a controller makes of a byte for its odd port: the vectors, two    *)
(* words more of the initialization, from then on the mask.                *)
LEMMA DataEffect ==
    ASSUME NEW p \in Pics, NEW v \in Int
    PROVE  /\ p.stage = "icw2" => /\ PicOdd(p, v).stage = "icw3"
                                  /\ PicOdd(p, v).base = v - (v % 8)
           /\ p.stage = "icw3" => /\ PicOdd(p, v).stage = "icw4"
                                  /\ PicOdd(p, v).base = p.base
           /\ p.stage = "icw4" => /\ PicOdd(p, v).stage = "ready"
                                  /\ PicOdd(p, v).base = p.base
           /\ p.stage = "ready" => /\ PicOdd(p, v).stage = "ready"
                                   /\ PicOdd(p, v).base = p.base
                                   /\ PicOdd(p, v).mask = Bits(v)
  <1>1. ASSUME p.stage = "icw2"
        PROVE  PicOdd(p, v) = [p EXCEPT !.base = v - (v % 8), !.stage = "icw3"]
    BY <1>1 DEF PicOdd
  <1>2. ASSUME p.stage = "icw3"  PROVE PicOdd(p, v) = [p EXCEPT !.stage = "icw4"]
    BY <1>2 DEF PicOdd
  <1>3. ASSUME p.stage = "icw4"
        PROVE  PicOdd(p, v) = [p EXCEPT !.aeoi = Bit(v, 1), !.stage = "ready"]
    BY <1>3 DEF PicOdd
  <1>4. ASSUME p.stage = "ready"  PROVE PicOdd(p, v) = [p EXCEPT !.mask = Bits(v)]
    BY <1>4 DEF PicOdd
  <1> QED  BY <1>1, <1>2, <1>3, <1>4 DEF Pics

(* A mode byte makes the timer expect two bytes; no byte breaks its type.  *)
LEMMA TimerEffect ==
    ASSUME NEW t \in [expects : 0 .. 2, reload : Int], NEW v \in Int
    PROVE  /\ TimerWrite(t, 67, v).expects = 2
           /\ TimerWrite(t, 67, v) \in [expects : 0 .. 2, reload : Int]
           /\ TimerWrite(t, 64, v) \in [expects : 0 .. 2, reload : Int]
  <1>1. TimerWrite(t, 67, v) = [t EXCEPT !.expects = 2]
    BY PortNumbers DEF TimerWrite
  <1>2. ASSUME t.expects = 2
        PROVE  TimerWrite(t, 64, v) = [expects |-> 1, reload |-> v]
    BY <1>2, PortNumbers DEF TimerWrite
  <1>3. ASSUME t.expects = 1
        PROVE  TimerWrite(t, 64, v) = [expects |-> 0, reload |-> t.reload + 256 * v]
    BY <1>3, PortNumbers DEF TimerWrite
  <1>4. ASSUME t.expects = 0  PROVE TimerWrite(t, 64, v) = t
    BY <1>4, PortNumbers DEF TimerWrite
  <1>5. t.expects = 0 \/ t.expects = 1 \/ t.expects = 2
    OBVIOUS
  <1>6. TimerWrite(t, 64, v) \in [expects : 0 .. 2, reload : Int]
    <2>1. t.reload + 256 * v \in Int /\ t.reload \in Int
      OBVIOUS
    <2>2. CASE t.expects = 2
      BY <1>2, <2>2
    <2>3. CASE t.expects = 1
      BY <1>3, <2>1, <2>3
    <2>4. CASE t.expects = 0
      BY <1>4, <2>4
    <2> QED  BY <1>5, <2>2, <2>3, <2>4
  <1> QED  BY <1>1, <1>6


(* One byte of the set up and what the hardware makes of it.               *)
Byte(port, v) ==
    /\ pic' = CASE port = 32 -> [pic EXCEPT ![1] = PicEven(@, v)]
                [] port = 33 -> [pic EXCEPT ![1] = PicOdd(@, v)]
                [] port = 160 -> [pic EXCEPT ![2] = PicEven(@, v)]
                [] port = 161 -> [pic EXCEPT ![2] = PicOdd(@, v)]
                [] OTHER -> pic
    /\ timer' = IF port \in {64, 67} THEN TimerWrite(timer, port, v) ELSE timer

(* Whatever byte reaches it, the hardware keeps its type.                  *)
LEMMA ByteType ==
    ASSUME HardwareType, NEW port \in Int, NEW v \in Int, Byte(port, v)
    PROVE  HardwareType'
  <1>1. pic[1] \in Pics /\ pic[2] \in Pics
    BY DEF HardwareType
  <1>2. /\ PicEven(pic[1], v) \in Pics /\ PicOdd(pic[1], v) \in Pics
        /\ PicEven(pic[2], v) \in Pics /\ PicOdd(pic[2], v) \in Pics
    BY <1>1, PicType
  <1>3. pic' \in [1 .. 2 -> Pics]
    BY <1>2 DEF HardwareType, Byte
  <1>4. timer' \in [expects : 0 .. 2, reload : Int]
    BY TimerEffect DEF HardwareType, Byte
  <1> QED  BY <1>3, <1>4 DEF HardwareType

(* The k-th byte takes the hardware from what it has understood to the     *)
(* next.                                                                   *)
LEMMA ByteReaches ==
    ASSUME HardwareType, NEW k \in 0 .. Writes - 1, Reached(k),
           Byte(AllWrites[k + 1].port, AllWrites[k + 1].value)
    PROVE  Reached(k + 1)'
  <1>types. /\ pic[1] \in Pics /\ pic[2] \in Pics
            /\ timer \in [expects : 0 .. 2, reload : Int]
    BY DEF HardwareType
  <1>0. CASE k = 0
    <2>1. Byte(33, 255)
      BY <1>0 DEF AllWrites, outb
    <2>2. pic'[1] = PicOdd(pic[1], 255) /\ pic'[2] = pic[2] /\ timer' = timer
      BY <2>1 DEF Byte, HardwareType
    <2> QED  BY <1>0, <2>2, <1>types, DataEffect, MaskBits DEF Reached
  <1>1. CASE k = 1
    <2>1. Byte(161, 255)
      BY <1>1 DEF AllWrites, outb
    <2>2. pic'[2] = PicOdd(pic[2], 255) /\ pic'[1] = pic[1] /\ timer' = timer
      BY <2>1 DEF Byte, HardwareType
    <2> QED  BY <1>1, <2>2, <1>types, DataEffect, MaskBits DEF Reached
  <1>2. CASE k = 2
    <2>1. Byte(32, 17)
      BY <1>2 DEF AllWrites, outb
    <2>2. pic'[1] = PicEven(pic[1], 17) /\ pic'[2] = pic[2] /\ timer' = timer
      BY <2>1 DEF Byte, HardwareType
    <2> QED  BY <1>2, <2>2, <1>types, CommandEffect DEF Reached
  <1>3. CASE k = 3
    <2>1. Byte(33, 32)
      BY <1>3 DEF AllWrites, outb
    <2>2. pic'[1] = PicOdd(pic[1], 32) /\ pic'[2] = pic[2] /\ timer' = timer
      BY <2>1 DEF Byte, HardwareType
    <2> QED  BY <1>3, <2>2, <1>types, DataEffect DEF Reached, INT_HARDWARE
  <1>4. CASE k = 4
    <2>1. Byte(33, 4)
      BY <1>4 DEF AllWrites, outb
    <2>2. pic'[1] = PicOdd(pic[1], 4) /\ pic'[2] = pic[2] /\ timer' = timer
      BY <2>1 DEF Byte, HardwareType
    <2> QED  BY <1>4, <2>2, <1>types, DataEffect DEF Reached
  <1>5. CASE k = 5
    <2>1. Byte(33, 3)
      BY <1>5 DEF AllWrites, outb
    <2>2. pic'[1] = PicOdd(pic[1], 3) /\ pic'[2] = pic[2] /\ timer' = timer
      BY <2>1 DEF Byte, HardwareType
    <2> QED  BY <1>5, <2>2, <1>types, DataEffect DEF Reached
  <1>6. CASE k = 6
    <2>1. Byte(160, 17)
      BY <1>6 DEF AllWrites, outb
    <2>2. pic'[2] = PicEven(pic[2], 17) /\ pic'[1] = pic[1] /\ timer' = timer
      BY <2>1 DEF Byte, HardwareType
    <2> QED  BY <1>6, <2>2, <1>types, CommandEffect DEF Reached
  <1>7. CASE k = 7
    <2>1. Byte(161, 40)
      BY <1>7 DEF AllWrites, outb
    <2>2. pic'[2] = PicOdd(pic[2], 40) /\ pic'[1] = pic[1] /\ timer' = timer
      BY <2>1 DEF Byte, HardwareType
    <2> QED  BY <1>7, <2>2, <1>types, DataEffect DEF Reached
  <1>8. CASE k = 8
    <2>1. Byte(161, 2)
      BY <1>8 DEF AllWrites, outb
    <2>2. pic'[2] = PicOdd(pic[2], 2) /\ pic'[1] = pic[1] /\ timer' = timer
      BY <2>1 DEF Byte, HardwareType
    <2> QED  BY <1>8, <2>2, <1>types, DataEffect DEF Reached
  <1>9. CASE k = 9
    <2>1. Byte(161, 1)
      BY <1>9 DEF AllWrites, outb
    <2>2. pic'[2] = PicOdd(pic[2], 1) /\ pic'[1] = pic[1] /\ timer' = timer
      BY <2>1 DEF Byte, HardwareType
    <2> QED  BY <1>9, <2>2, <1>types, DataEffect DEF Reached
  <1>10. CASE k = 10
    <2>1. Byte(32, 104)
      BY <1>10 DEF AllWrites, outb
    <2>2. pic'[1] = PicEven(pic[1], 104) /\ pic'[2] = pic[2] /\ timer' = timer
      BY <2>1 DEF Byte, HardwareType
    <2> QED  BY <1>10, <2>2, <1>types, CommandEffect DEF Reached
  <1>11. CASE k = 11
    <2>1. Byte(32, 10)
      BY <1>11 DEF AllWrites, outb
    <2>2. pic'[1] = PicEven(pic[1], 10) /\ pic'[2] = pic[2] /\ timer' = timer
      BY <2>1 DEF Byte, HardwareType
    <2> QED  BY <1>11, <2>2, <1>types, CommandEffect DEF Reached
  <1>12. CASE k = 12
    <2>1. Byte(160, 104)
      BY <1>12 DEF AllWrites, outb
    <2>2. pic'[2] = PicEven(pic[2], 104) /\ pic'[1] = pic[1] /\ timer' = timer
      BY <2>1 DEF Byte, HardwareType
    <2> QED  BY <1>12, <2>2, <1>types, CommandEffect DEF Reached
  <1>13. CASE k = 13
    <2>1. Byte(160, 10)
      BY <1>13 DEF AllWrites, outb
    <2>2. pic'[2] = PicEven(pic[2], 10) /\ pic'[1] = pic[1] /\ timer' = timer
      BY <2>1 DEF Byte, HardwareType
    <2> QED  BY <1>13, <2>2, <1>types, CommandEffect DEF Reached
  <1>14. CASE k = 14
    <2>1. Byte(33, 255)
      BY <1>14 DEF AllWrites, outb
    <2>2. pic'[1] = PicOdd(pic[1], 255) /\ pic'[2] = pic[2] /\ timer' = timer
      BY <2>1 DEF Byte, HardwareType
    <2> QED  BY <1>14, <2>2, <1>types, DataEffect, MaskBits DEF Reached
  <1>15. CASE k = 15
    <2>1. Byte(161, 255)
      BY <1>15 DEF AllWrites, outb
    <2>2. pic'[2] = PicOdd(pic[2], 255) /\ pic'[1] = pic[1] /\ timer' = timer
      BY <2>1 DEF Byte, HardwareType
    <2> QED  BY <1>15, <2>2, <1>types, DataEffect, MaskBits DEF Reached
  <1>16. CASE k = 16
    <2>1. Byte(67, 52)
      BY <1>16 DEF AllWrites, outb
    <2>2. pic' = pic /\ timer' = TimerWrite(timer, 67, 52)
      BY <2>1 DEF Byte, HardwareType
    <2> QED  BY <1>16, <2>2, <1>types, TimerEffect, TimerValue DEF Reached
  <1>17. CASE k = 17
    <2>1. Byte(64, 156)
      BY <1>17 DEF AllWrites, outb
    <2>2. pic' = pic /\ timer' = TimerWrite(timer, 64, 156)
      BY <2>1 DEF Byte, HardwareType
    <2>3. timer.expects = 2 /\ 156 \in Int
      BY <1>17 DEF Reached
    <2>4. timer'.expects = 1 /\ timer'.reload = 156
      BY <2>2, <2>3, PortNumbers DEF TimerWrite
    <2> QED  BY <1>17, <2>2, <2>4, TimerValue DEF Reached
  <1>18. CASE k = 18
    <2>1. Byte(64, 46)
      BY <1>18 DEF AllWrites, outb
    <2>2. pic' = pic /\ timer' = TimerWrite(timer, 64, 46)
      BY <2>1 DEF Byte, HardwareType
    <2>3. timer'.expects = 0 /\ timer'.reload = timer.reload + 256 * 46
      <3>1. timer.expects = 1 /\ 46 \in Int
        BY <1>18 DEF Reached
      <3> QED  BY <2>2, <3>1, PortNumbers DEF TimerWrite
    <2>4. timer'.reload = TIMER_DIV(HZ)
      BY <1>18, <2>3, TimerValue DEF Reached
    <2> QED  BY <1>18, <2>2, <2>3, <2>4 DEF Reached
  <1>19. CASE k = 19
    <2>1. Byte(33, 254)
      BY <1>19 DEF AllWrites, outb
    <2>2. pic'[1] = PicOdd(pic[1], 254) /\ pic'[2] = pic[2] /\ timer' = timer
      BY <2>1 DEF Byte, HardwareType
    <2> QED  BY <1>19, <2>2, <1>types, DataEffect, MaskBits DEF Reached
  <1>20. CASE k = 20
    <2>1. Byte(161, 255)
      BY <1>20 DEF AllWrites, outb
    <2>2. pic'[2] = PicOdd(pic[2], 255) /\ pic'[1] = pic[1] /\ timer' = timer
      BY <2>1 DEF Byte, HardwareType
    <2> QED  BY <1>20, <2>2, <1>types, DataEffect, MaskBits DEF Reached
  <1> QED
    BY <1>0, <1>1, <1>2, <1>3, <1>4, <1>5, <1>6, <1>7, <1>8, <1>9, <1>10, <1>11, <1>12, <1>13, <1>14, <1>15, <1>16, <1>17, <1>18, <1>19, <1>20 DEF Writes

(* The writes an outb of the model makes are such bytes.                   *)
LEMMA OutbByte ==
    ASSUME Outb
    PROVE  Byte(Head(script).port, Head(script).value)
  BY PortNumbers DEF Outb, Byte

(* A controller differs from another in its requests only.                 *)
SameSetUp(p, q) == p.stage = q.stage /\ p.base = q.base /\ p.mask = q.mask

(* A device's request changes neither lines nor vectors.                   *)
LEMMA RequestKeeps ==
    ASSUME HardwareType, NEW i \in Lines, pic' = Request(i)
    PROVE  /\ pic' \in [1 .. 2 -> Pics]
           /\ SameSetUp(pic'[1], pic[1]) /\ SameSetUp(pic'[2], pic[2])
  <1>1. pic[1] \in Pics /\ pic[2] \in Pics /\ pic \in [1 .. 2 -> Pics]
    BY DEF HardwareType
  <1>2. i \in 0 .. 15
    BY LinesAssumption
  <1>3. CASE i < 8
    <2>1. pic' = [pic EXCEPT ![1].irr = @ \cup {i}]
      BY <1>3 DEF Request
    <2>2. pic'[2] = pic[2] /\ pic'[1] = [pic[1] EXCEPT !.irr = pic[1].irr \cup {i}]
      BY <1>1, <2>1
    <2>3. pic[1].irr \cup {i} \in SUBSET (0 .. 7)
      BY <1>1, <1>2, <1>3 DEF Pics
    <2>4. pic'[1] \in Pics
      BY <1>1, <2>2, <2>3 DEF Pics
    <2>5. pic' \in [1 .. 2 -> Pics]
      BY <1>1, <2>1, <2>2, <2>4
    <2>6. SameSetUp(pic'[1], pic[1]) /\ SameSetUp(pic'[2], pic[2])
      BY <1>1, <2>2 DEF SameSetUp, Pics
    <2> QED  BY <2>5, <2>6
  <1>4. CASE ~(i < 8)
    <2>1. pic' = [pic EXCEPT ![1].irr = @ \cup {IRQ_SLAVE}, ![2].irr = @ \cup {i - 8}]
      BY <1>4 DEF Request
    <2>2. /\ pic'[1] = [pic[1] EXCEPT !.irr = pic[1].irr \cup {IRQ_SLAVE}]
          /\ pic'[2] = [pic[2] EXCEPT !.irr = pic[2].irr \cup {i - 8}]
      BY <1>1, <2>1
    <2>3. /\ pic[1].irr \cup {IRQ_SLAVE} \in SUBSET (0 .. 7)
          /\ pic[2].irr \cup {i - 8} \in SUBSET (0 .. 7)
      BY <1>1, <1>2, <1>4 DEF Pics, IRQ_SLAVE
    <2>4. pic'[1] \in Pics /\ pic'[2] \in Pics
      BY <1>1, <2>2, <2>3 DEF Pics
    <2>5. pic' \in [1 .. 2 -> Pics]
      BY <1>1, <2>1, <2>2, <2>4
    <2>6. SameSetUp(pic'[1], pic[1]) /\ SameSetUp(pic'[2], pic[2])
      BY <1>1, <2>2 DEF SameSetUp, Pics
    <2> QED  BY <2>5, <2>6
  <1> QED  BY <1>3, <1>4

(* What the hardware has understood does not depend on requests.           *)
LEMMA ReachedKept ==
    ASSUME NEW k, Reached(k), timer' = timer,
           SameSetUp(pic'[1], pic[1]), SameSetUp(pic'[2], pic[2])
    PROVE  Reached(k)'
  BY DEF Reached, SameSetUp

(* Once the set up is made, only the timer's line gets through.            *)
LEMMA OnlyTimerOffered ==
    ASSUME HardwareType, Reached(Writes), NEW i \in Offers(pic[1])
    PROVE  i = 0 /\ pic[1].base + i = INT_TIMER
  <1>1. pic[1].mask = 1 .. 7 /\ pic[1].base = INT_HARDWARE
    BY DEF Reached, Writes
  <1>2. pic[1].irr \subseteq 0 .. 7
    BY DEF HardwareType, Pics
  <1>3. i \in pic[1].irr \ pic[1].mask
    BY DEF Offers
  <1>4. i = 0
    BY <1>1, <1>2, <1>3
  <1> QED  BY <1>1, <1>4 DEF INT_TIMER, INT_HARDWARE

(* The CPU's acknowledgement changes neither lines nor vectors.            *)
LEMMA AcknowledgedKeeps ==
    ASSUME NEW p \in Pics, NEW i \in 0 .. 7
    PROVE  Acknowledged(p, i) \in Pics /\ SameSetUp(Acknowledged(p, i), p)
  <1>1. p.irr \ {i} \in SUBSET (0 .. 7) /\ p.isr \cup {i} \in SUBSET (0 .. 7)
    BY DEF Pics
  <1>2. CASE p.aeoi
    <2>1. Acknowledged(p, i) = [p EXCEPT !.irr = p.irr \ {i}, !.isr = p.isr]
      BY <1>2 DEF Acknowledged, Pics
    <2> QED  BY <1>1, <2>1 DEF Pics, SameSetUp
  <1>3. CASE ~p.aeoi
    <2>1. Acknowledged(p, i) = [p EXCEPT !.irr = p.irr \ {i}, !.isr = p.isr \cup {i}]
      BY <1>3 DEF Acknowledged, Pics
    <2> QED  BY <1>1, <2>1 DEF Pics, SameSetUp
  <1> QED  BY <1>2, <1>3

(* The gates the properties are about, and who may use them.               *)
LEMMA Gates ==
    /\ \A i \in {INT_GPF, INT_PAGEFAULT, INT_TIMER} \cup (INT_SYS .. INT_SYS + 15) :
          i \in DOMAIN segments_init /\ segments_init[i].number = i
    /\ \A i \in DOMAIN segments_init :
          segments_init[i].dpl >= cpl <=> i \in INT_SYS .. INT_SYS + 15
  <1> USE DEF INT_GPF, INT_PAGEFAULT, INT_TIMER, INT_HARDWARE, INT_SYS
  <1>1. cpl = 3
    BY DEF cpl, process_init, SEGSEL_APP_CODE
  <1>2. DOMAIN segments_init = (16 .. 255) \cup {13, 14}
    BY DEF segments_init
  <1>3. ASSUME NEW i \in DOMAIN segments_init  PROVE segments_init[i] = set_gates(i)
    BY DEF segments_init
  <1>4. ASSUME NEW i \in 48 .. 63
        PROVE  set_gates(i).number = i /\ set_gates(i).dpl = 3
    BY DEF set_gates, gate
  <1>5. ASSUME NEW i \in {13, 14, 32}
        PROVE  set_gates(i).number = i /\ set_gates(i).dpl = 0
    BY DEF set_gates, gate
  <1>6. ASSUME NEW i \in DOMAIN segments_init, i \notin 48 .. 63
        PROVE  set_gates(i).dpl = 0
    BY <1>6 DEF set_gates, gate
  <1>7. ASSUME NEW i \in {13, 14, 32} \cup (48 .. 63)
        PROVE  i \in DOMAIN segments_init /\ segments_init[i].number = i
    <2>1. i \in DOMAIN segments_init
      BY <1>2
    <2>2. set_gates(i).number = i
      BY <1>4, <1>5
    <2> QED  BY <1>3, <2>1, <2>2
  <1>8. ASSUME NEW i \in DOMAIN segments_init
        PROVE  segments_init[i].dpl >= cpl <=> i \in 48 .. 63
    <2>1. CASE i \in 48 .. 63
      BY <1>1, <1>3, <1>4, <2>1
    <2>2. CASE i \notin 48 .. 63
      BY <1>1, <1>3, <1>6, <2>2
    <2> QED  BY <2>1, <2>2
  <1> QED  BY <1>7, <1>8

(* Whatever the BIOS left, the set up begins with its first write.         *)
LEMMA InitSetUpInv == Init => SetUpInv
  <1> SUFFICES ASSUME Init  PROVE SetUpInv
    OBVIOUS
  <1>1. PicAfterBIOS \subseteq Pics
    <2> SUFFICES ASSUME NEW p \in PicAfterBIOS  PROVE p \in Pics
      OBVIOUS
    <2>1. PICK b \in {8, 112}, m \in {{}, 0 .. 7} :
            p = [stage |-> "ready", base |-> b, mask |-> m, irr |-> {}, isr |-> {},
                 aeoi |-> FALSE, special |-> FALSE]
      BY DEF PicAfterBIOS
    <2>2. b \in Int /\ m \in SUBSET (0 .. 7)
      OBVIOUS
    <2> QED  BY <2>1, <2>2 DEF Pics
  <1>2. HardwareType
    BY <1>1 DEF Init, HardwareType
  <1>3. script = SetUp
    BY DEF Init
  <1>4. Remaining(0) /\ Reached(0)
    BY <1>3, SetUpWrites DEF Remaining, Reached, Writes
  <1>5. Progress
    BY <1>4 DEF Init, Progress, Writes
  <1> QED  BY <1>2, <1>5 DEF Init, SetUpInv, RightNumber

(* A step that keeps the set up, the gates and the mode.                   *)
LEMMA RequestStep ==
    ASSUME SetUpInv, NEW i \in Lines, pic' = Request(i),
           UNCHANGED <<timer, idt, mode, script, intno, cause>>
    PROVE  SetUpInv'
  <1> USE DEF SetUpInv
  <1>1. /\ pic' \in [1 .. 2 -> Pics]
        /\ SameSetUp(pic'[1], pic[1]) /\ SameSetUp(pic'[2], pic[2])
    BY RequestKeeps
  <1>2. HardwareType'
    BY <1>1 DEF HardwareType
  <1>3. \A k : Reached(k) => Reached(k)'
    BY <1>1, ReachedKept
  <1>4. \A k : Remaining(k) => Remaining(k)'
    BY DEF Remaining
  <1>5. Progress'
    BY <1>3, <1>4 DEF Progress
  <1> QED  BY <1>2, <1>5 DEF RightNumber

(* The CPU enters the kernel through the gate of what happened.            *)
LEMMA EnterStep ==
    ASSUME SetUpInv, mode = "user", NEW c, Enter(c, c), HardwareType',
           c \in {INT_GPF, INT_PAGEFAULT, INT_TIMER} \cup (INT_SYS .. INT_SYS + 15),
           SameSetUp(pic'[1], pic[1]), SameSetUp(pic'[2], pic[2]),
           UNCHANGED <<timer, idt>>
    PROVE  SetUpInv'
  <1> USE DEF SetUpInv
  <1>1. mode' = "handler" /\ cause' = c
    BY DEF Enter
  <1>2. c \in DOMAIN idt /\ idt[c].number = c
    BY Gates
  <1>3. intno' = c
    BY <1>2 DEF Enter
  <1>4. Reached(Writes)'
    BY ReachedKept DEF Progress
  <1>5. Progress'
    BY <1>1, <1>4 DEF Progress
  <1>6. RightNumber'
    BY <1>1, <1>3 DEF RightNumber
  <1> QED  BY <1>1, <1>5, <1>6

(* Every step keeps the invariant.                                         *)
LEMMA NextSetUpInv == Inv /\ SetUpInv /\ [Next]_vars => SetUpInv'
  <1> SUFFICES ASSUME Inv, SetUpInv, [Next]_vars  PROVE SetUpInv'
    OBVIOUS
  <1>0. /\ HardwareType /\ idt = segments_init /\ Progress /\ RightNumber
        /\ mode \in {"boot", "user", "handler", "failed"}
    BY DEF SetUpInv
  <1>same. ASSUME pic' = pic  PROVE SameSetUp(pic'[1], pic[1]) /\ SameSetUp(pic'[2], pic[2])
    BY <1>same DEF SameSetUp
  <1>1. CASE Outb
    <2>0. mode = "boot" /\ script # <<>> /\ script' = Tail(script)
          /\ UNCHANGED <<idt, mode, intno, cause>>
      BY <1>1 DEF Outb
    <2>1. PICK k \in 0 .. Writes : Remaining(k) /\ Reached(k)
      BY <1>0, <2>0 DEF Progress
    <2>2. k # Writes /\ Head(script) = AllWrites[k + 1] /\ Remaining(k + 1)'
      BY <2>0, <2>1, NextOfScript
    <2>3. k \in 0 .. Writes - 1 /\ k + 1 \in 0 .. Writes /\ k + 1 \in 1 .. Writes
      BY <2>2 DEF Writes
    <2>4. Byte(AllWrites[k + 1].port, AllWrites[k + 1].value)
      BY <1>1, <2>2, OutbByte
    <2>5. Reached(k + 1)'
      BY <1>0, <2>1, <2>3, <2>4, ByteReaches
    <2>6. AllWrites[k + 1] \in Write
      BY <2>3, SetUpWrites, ElementOfSeq
    <2>7. AllWrites[k + 1].port \in Int /\ AllWrites[k + 1].value \in Int
      BY <2>6 DEF Write
    <2>8. HardwareType'
      BY <1>0, <2>4, <2>7, ByteType
    <2>9. Progress'
      BY <2>0, <2>2, <2>3, <2>5 DEF Progress
    <2> QED  BY <1>0, <2>0, <2>8, <2>9 DEF SetUpInv, RightNumber
  <1>2. CASE Run
    <2>1. mode' = "user" /\ UNCHANGED <<pic, timer, idt, script, intno, cause>>
      BY <1>2 DEF Run
    <2>2. Reached(Writes)
      <3>1. CASE mode = "boot"
        <4>1. PICK k \in 0 .. Writes : Remaining(k) /\ Reached(k)
          BY <1>0, <3>1 DEF Progress
        <4>2. script = <<>>
          BY <1>2, <3>1 DEF Run
        <4> QED  BY <4>1, <4>2, NextOfScript
      <3>2. CASE mode # "boot"
        BY <1>0, <3>2 DEF Progress
      <3> QED  BY <3>1, <3>2
    <2>3. Reached(Writes)'
      BY <1>same, <2>1, <2>2, ReachedKept
    <2>4. HardwareType'
      BY <1>0, <2>1 DEF HardwareType
    <2> QED  BY <1>0, <2>1, <2>3, <2>4 DEF SetUpInv, Progress, RightNumber
  <1>3. CASE Raise
    <2>1. PICK i \in Lines : pic' = Request(i)
      BY <1>3 DEF Raise
    <2> QED  BY <1>3, <2>1, RequestStep DEF Raise
  <1>4. CASE TimerFires
    <2>1. 0 \in Lines
      BY LinesAssumption
    <2> QED  BY <1>4, <2>1, RequestStep DEF TimerFires
  <1>5. CASE Deliver
    <2>1. mode = "user" /\ Reached(Writes) /\ UNCHANGED <<timer, idt, script>>
      BY <1>0, <1>5 DEF Deliver, Inv, FlagOnlyInUserMode, Progress
    <2>2. PICK i \in Offers(pic[1]) :
            IF i # IRQ_SLAVE \/ Offers(pic[2]) = {}
            THEN /\ pic' = [pic EXCEPT ![1] = Acknowledged(@, i)]
                 /\ Enter(pic[1].base + i, pic[1].base + i)
            ELSE \E k \in Offers(pic[2]) :
                 /\ pic' = [pic EXCEPT ![1] = Acknowledged(@, i),
                                       ![2] = Acknowledged(@, k)]
                 /\ Enter(pic[2].base + k, pic[2].base + k)
      BY <1>5 DEF Deliver
    <2>3. i = 0 /\ pic[1].base + i = INT_TIMER
      BY <1>0, <2>1, OnlyTimerOffered
    <2>4. i # IRQ_SLAVE
      BY <2>3 DEF IRQ_SLAVE
    <2>5. pic' = [pic EXCEPT ![1] = Acknowledged(@, i)] /\ Enter(INT_TIMER, INT_TIMER)
      BY <2>2, <2>3, <2>4
    <2>6. pic[1] \in Pics /\ pic[2] \in Pics /\ i \in 0 .. 7
      BY <1>0, <2>3 DEF HardwareType
    <2>7. Acknowledged(pic[1], i) \in Pics /\ SameSetUp(Acknowledged(pic[1], i), pic[1])
      BY <2>6, AcknowledgedKeeps
    <2>8. pic'[1] = Acknowledged(pic[1], i) /\ pic'[2] = pic[2] /\ pic' \in [1 .. 2 -> Pics]
      BY <1>0, <2>5, <2>7 DEF HardwareType
    <2>9. SameSetUp(pic'[1], pic[1]) /\ SameSetUp(pic'[2], pic[2])
      BY <2>7, <2>8 DEF SameSetUp
    <2>10. HardwareType'
      BY <1>0, <2>1, <2>8 DEF HardwareType
    <2> QED  BY <2>1, <2>5, <2>9, <2>10, EnterStep
  <1>6. CASE UserInt
    <2>0. mode = "user" /\ UNCHANGED <<pic, timer, idt, script>>
      BY <1>6 DEF UserInt
    <2>1. PICK n \in UserInts :
            Enter(IF n \in DOMAIN idt /\ idt[n].dpl >= cpl THEN n ELSE INT_GPF,
                  IF n \in INT_SYS .. INT_SYS + 15 THEN n ELSE INT_GPF)
      BY <1>6 DEF UserInt
    <2>2. (n \in DOMAIN idt /\ idt[n].dpl >= cpl) <=> n \in INT_SYS .. INT_SYS + 15
      BY <1>0, Gates
    <2>3. PICK c : c = IF n \in INT_SYS .. INT_SYS + 15 THEN n ELSE INT_GPF
      OBVIOUS
    <2>4. Enter(c, c)
      BY <2>1, <2>2, <2>3
    <2>5. c \in {INT_GPF, INT_PAGEFAULT, INT_TIMER} \cup (INT_SYS .. INT_SYS + 15)
      BY <2>3
    <2>6. HardwareType'
      BY <1>0, <2>0 DEF HardwareType
    <2> QED  BY <1>same, <2>0, <2>4, <2>5, <2>6, EnterStep
  <1>7. CASE PageFault
    <2>0. mode = "user" /\ UNCHANGED <<pic, timer, idt, script>>
          /\ Enter(INT_PAGEFAULT, INT_PAGEFAULT)
      BY <1>7 DEF PageFault
    <2>1. HardwareType'
      BY <1>0, <2>0 DEF HardwareType
    <2> QED  BY <1>same, <2>0, <2>1, EnterStep
  <1>8. CASE Fail
    <2>1. /\ mode = "handler" /\ mode' = "failed"
          /\ UNCHANGED <<pic, timer, idt, script>>
      BY <1>8 DEF Fail
    <2>2. Reached(Writes)'
      BY <1>0, <1>same, <2>1, ReachedKept DEF Progress
    <2>3. HardwareType'
      BY <1>0, <2>1 DEF HardwareType
    <2> QED  BY <1>0, <2>1, <2>2, <2>3 DEF SetUpInv, Progress, RightNumber
  <1>9. CASE SoftReboot
    <2>1. mode' = "boot" /\ script' = SetUp /\ idt' = segments_init
          /\ UNCHANGED <<pic, timer, intno, cause>>
      BY <1>9 DEF SoftReboot
    <2>2. Remaining(0)'
      BY <2>1, SetUpWrites DEF Remaining, Writes
    <2>3. Reached(0)'
      BY DEF Reached
    <2>4. HardwareType'
      BY <1>0, <2>1 DEF HardwareType
    <2>5. 0 \in 0 .. Writes
      BY DEF Writes
    <2> QED  BY <2>1, <2>2, <2>3, <2>4, <2>5 DEF SetUpInv, Progress, RightNumber
  <1>10. CASE UNCHANGED vars
    <2>1. UNCHANGED <<pic, timer, idt, mode, script, intno, cause>>
      BY <1>10 DEF vars
    <2>2. \A k : Reached(k) => Reached(k)'
      BY <1>same, <2>1, ReachedKept
    <2>3. \A k : Remaining(k) => Remaining(k)'
      BY <2>1 DEF Remaining
    <2>4. HardwareType'
      BY <1>0, <2>1 DEF HardwareType
    <2> QED  BY <1>0, <2>1, <2>2, <2>3, <2>4 DEF SetUpInv, Progress, RightNumber
  <1> QED
    BY <1>1, <1>2, <1>3, <1>4, <1>5, <1>6, <1>7, <1>8, <1>9, <1>10 DEF Next

(* exception() is always told what really happened, the default handler    *)
(* never runs, and a process runs only when the timer ticks at the rate    *)
(* asked for and is the only line let through: whatever state the BIOS     *)
(* left the controllers in, whichever lines are raised during the set up,  *)
(* and after any number of soft reboots.                                   *)
THEOREM AlwaysAsSetUp == Spec => []InterruptsAsSetUp
  <1>1. SetUpInv => InterruptsAsSetUp
    <2> SUFFICES ASSUME SetUpInv  PROVE InterruptsAsSetUp
      OBVIOUS
    <2>1. ASSUME mode = "handler"
          PROVE  /\ intno = cause
                 /\ intno \in {INT_GPF, INT_PAGEFAULT, INT_TIMER}
                              \cup (INT_SYS .. INT_SYS + 15)
      BY <2>1 DEF SetUpInv, RightNumber
    <2>2. ASSUME mode = "user"
          PROVE  /\ timer.expects = 0
                 /\ 2 * timer.reload * HZ \in 2 * TIMER_FREQ - HZ .. 2 * TIMER_FREQ + HZ
                 /\ \A c \in 1 .. 2 : pic[c].stage = "ready"
                 /\ (0 .. 7) \ pic[1].mask = {INT_TIMER - INT_HARDWARE}
                 /\ pic[2].mask = 0 .. 7
      <3>1. Reached(21)
        BY <2>2 DEF SetUpInv, Progress, Writes
      <3>2. /\ timer.expects = 0 /\ timer.reload = 11932
            /\ pic[1].stage = "ready" /\ pic[2].stage = "ready"
            /\ pic[1].mask = 1 .. 7 /\ pic[2].mask = 0 .. 7
        BY <3>1, TimerValue DEF Reached
      <3> QED  BY <3>2 DEF HZ, TIMER_FREQ, INT_TIMER, INT_HARDWARE
    <2> QED  BY <2>1, <2>2 DEF InterruptsAsSetUp
  <1> QED  BY InitInv, NextInv, InitSetUpInv, NextSetUpInv, <1>1, PTL DEF Spec
=============================================================================
