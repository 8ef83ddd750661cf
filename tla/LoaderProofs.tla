---------------------------- MODULE LoaderProofs ----------------------------
(***************************************************************************)
(* A program that program_load returns 0 for, and a kernel that boot       *)
(* enters, are in memory as their images ask, for every page size and      *)
(* every size of their segments.  The proofs rest on the layout of images: *)
(* segments start at page boundaries and one ends before the next begins,  *)
(* so that neither the copying nor the clearing of a segment destroys what *)
(* was loaded before; the boot loader, which reads whole sectors, has a    *)
(* page that is a multiple of a sector.                                    *)
(***************************************************************************)
EXTENDS ProgramLoader, BootLoader, SequenceTheorems, TLAPS

\* PAGESIZE is 4096 bytes; any limits on the sizes of segments.
Sizes == PAGESIZE \in Nat \ {0} /\ MaxText \in Nat /\ MaxData \in Nat

-----------------------------------------------------------------------------
(* Rounding *)

\* Rounding up to a multiple.
LEMMA RoundUp ==
    ASSUME NEW n \in Nat \ {0}, NEW a \in Nat
    PROVE  /\ ROUNDUP(a, n) \in Nat /\ a =< ROUNDUP(a, n)
           /\ \E q \in Nat : q = (a + n - 1) \div n /\ ROUNDUP(a, n) = q * n
  <1> DEFINE b == a + n - 1
             q == b \div n
             r == b % n
  <1>1. q \in Nat /\ r \in 0 .. n - 1 /\ b = n * q + r
    OBVIOUS
  <1>2. ROUNDUP(a, n) = q * n
    BY DEF ROUNDUP
  <1>3. b = a + n - 1
    OBVIOUS
  <1> HIDE DEF b, q, r
  <1>4. q * n \in Nat /\ a =< q * n
    BY <1>1, <1>3
  <1> QED  BY <1>1, <1>2, <1>4 DEF q, b

\* A larger size is rounded up to more.
LEMMA RoundUpMonotone ==
    ASSUME NEW n \in Nat \ {0}, NEW a \in Nat, NEW c \in Nat, a =< c
    PROVE  ROUNDUP(a, n) =< ROUNDUP(c, n)
  <1>1. PICK q \in Nat : q = (a + n - 1) \div n /\ ROUNDUP(a, n) = q * n
    BY RoundUp
  <1>2. PICK s \in Nat : s = (c + n - 1) \div n /\ ROUNDUP(c, n) = s * n
    BY RoundUp
  <1>3. q =< s
    BY <1>1, <1>2
  <1>4. q * n =< s * n
    BY <1>3
  <1> QED  BY <1>1, <1>2, <1>4

\* Multiples of n.
LEMMA Multiple ==
    ASSUME NEW n \in Nat \ {0}, NEW q \in Nat
    PROVE  (q * n) % n = 0
  OBVIOUS

LEMMA Quotient ==
    ASSUME NEW n \in Nat \ {0}, NEW a \in Nat, a % n = 0
    PROVE  /\ a \div n \in Nat /\ a = (a \div n) * n
           /\ \E q \in Nat : a = q * n
  <1>1. a \div n \in Nat /\ a = (a \div n) * n
    OBVIOUS
  <1> QED  BY <1>1

\* Rounding down leads to the last multiple that is not beyond.
LEMMA RoundDown ==
    ASSUME NEW n \in Nat \ {0}, NEW a \in Nat
    PROVE  /\ ROUNDDOWN(a, n) \in Nat /\ ROUNDDOWN(a, n) =< a
           /\ ROUNDDOWN(a, n) % n = 0
           /\ a % n = 0 => ROUNDDOWN(a, n) = a
           /\ \A b \in Nat : b % n = 0 /\ b =< a => b =< ROUNDDOWN(a, n)
  <1> DEFINE q == a \div n
             r == a % n
  <1>1. q \in Nat /\ r \in 0 .. n - 1 /\ a = n * q + r
    OBVIOUS
  <1>2. ROUNDDOWN(a, n) = a - r
    BY DEF ROUNDDOWN
  <1>3. a % n = 0 => r = 0
    OBVIOUS
  <1> HIDE DEF q, r
  <1>4. ROUNDDOWN(a, n) = q * n /\ q * n \in Nat
    BY <1>1, <1>2
  <1>5. (q * n) % n = 0
    BY <1>1, Multiple
  <1>6. ASSUME NEW b \in Nat, b % n = 0, b =< a  PROVE b =< q * n
    <2> DEFINE s == b \div n
    <2>1. s \in Nat /\ b = s * n
      BY <1>6
    <2> HIDE DEF s
    <2>2. s =< q
      <3> SUFFICES ASSUME s >= q + 1  PROVE FALSE
        BY <1>1, <2>1
      <3>1. s * n >= (q + 1) * n
        BY <1>1, <2>1
      <3> QED  BY <1>1, <1>6, <2>1, <3>1
    <2>3. s * n =< q * n
      BY <1>1, <2>1, <2>2
    <2> QED  BY <2>1, <2>3
  <1> QED  BY <1>1, <1>2, <1>3, <1>4, <1>5, <1>6

-----------------------------------------------------------------------------
(* Images *)

\* A segment starts at a page boundary and fits into memory.
HeaderOK(h) ==
    /\ h.p_va \in Nat /\ h.p_va % PAGESIZE = 0
    /\ h.p_offset \in Nat /\ h.p_memsz \in Nat /\ h.p_filesz \in 0 .. h.p_memsz
    /\ h.p_va + h.p_memsz =< MEMSIZE

\* The loadable segments follow one another.
WellFormed(im) ==
    /\ Len(im.ph) \in Nat /\ DOMAIN im.ph = 1 .. Len(im.ph)
    /\ \A k \in DOMAIN im.ph : im.ph[k].p_type = ELF_PTYPE_LOAD => HeaderOK(im.ph[k])
    /\ \A j, k \in DOMAIN im.ph :
         /\ j < k
         /\ im.ph[j].p_type = ELF_PTYPE_LOAD /\ im.ph[k].p_type = ELF_PTYPE_LOAD
         => im.ph[j].p_va + im.ph[j].p_memsz =< im.ph[k].p_va

\* Cells of the largest image.
FILESIZE == PAGESIZE + ROUNDUP(MaxText, PAGESIZE) + ROUNDUP(MaxData, PAGESIZE)

\* What boot, which does not look at p_type, needs of headers besides: the
\* contents of a segment start at a page of the file, the segment lies behind
\* the scratch page, and a header that is not loadable asks for nothing.
SegmentOK(h) ==
    /\ h.p_offset % PAGESIZE = 0 /\ h.p_offset + h.p_filesz =< FILESIZE
    /\ h.p_va >= 2 * PAGESIZE

Linked(im) ==
    /\ im.e_phoff = 1 /\ Len(im.ph) =< 3
    /\ \A k \in DOMAIN im.ph :
          IF im.ph[k].p_type = ELF_PTYPE_LOAD THEN SegmentOK(im.ph[k])
          ELSE im.ph[k] = elf_program(PT_GNU_STACK, 0, 0, 0, 0)

\* The two segments that link/process.ld and link/kernel.ld lay out.
LEMMA LoadHeadersOK ==
    ASSUME Sizes, NEW text \in 1 .. MaxText, NEW data \in 0 .. MaxData,
           NEW msz \in 1 .. MaxData, data =< msz
    PROVE  LET h == LoadHeaders(PROC_START_ADDR, text, data, msz)
           IN  /\ Len(h) = 2
               /\ HeaderOK(h[1]) /\ HeaderOK(h[2])
               /\ SegmentOK(h[1]) /\ SegmentOK(h[2])
               /\ h[1].p_type = ELF_PTYPE_LOAD /\ h[2].p_type = ELF_PTYPE_LOAD
               /\ h[1].p_va + h[1].p_memsz =< h[2].p_va
  <1> DEFINE n == PAGESIZE
             rt == ROUNDUP(text, n)
             dva == 2 * n + rt
  <1>0. n \in Nat \ {0} /\ MaxText \in Nat /\ MaxData \in Nat /\ text \in Nat /\ msz \in Nat
    BY DEF Sizes
  <1>1. rt \in Nat /\ text =< rt /\ rt =< ROUNDUP(MaxText, n) /\ ROUNDUP(MaxText, n) \in Nat
    <2>1. text =< MaxText
      BY <1>0
    <2>2. rt =< ROUNDUP(MaxText, n)
      BY <1>0, <2>1, RoundUpMonotone
    <2> QED  BY <1>0, <2>2, RoundUp
  <1>2. ROUNDUP(MaxData, n) \in Nat /\ MaxData =< ROUNDUP(MaxData, n)
    BY <1>0, RoundUp
  <1>3. PICK q \in Nat : rt = q * n
    BY <1>0, RoundUp
  <1>4. (2 * n) % n = 0
    BY <1>0, Multiple
  <1>5. dva % n = 0
    <2>1. dva = (q + 2) * n
      BY <1>0, <1>3
    <2>2. ((q + 2) * n) % n = 0
      BY <1>0, Multiple
    <2> QED  BY <2>1, <2>2
  <1>6. PICK offset \in Nat : offset = IF data = 0 THEN 0 ELSE n + rt
    BY <1>0, <1>1
  <1> DEFINE h1 == elf_program(ELF_PTYPE_LOAD, n, 2 * n, text, text)
             h2 == elf_program(ELF_PTYPE_LOAD, offset, dva, data, msz)
  <1>7. LoadHeaders(PROC_START_ADDR, text, data, msz) = <<h1, h2>>
    BY <1>6 DEF LoadHeaders, PROC_START_ADDR
  <1>8. MEMSIZE = 2 * n + ROUNDUP(MaxText, n) + ROUNDUP(MaxData, n)
    BY DEF MEMSIZE, PROC_START_ADDR
  <1> HIDE DEF rt
  <1>9. HeaderOK(h1)
    BY <1>0, <1>1, <1>2, <1>4, <1>8 DEF HeaderOK, elf_program
  <1>10. HeaderOK(h2)
    <2>1. dva \in Nat /\ dva + msz =< MEMSIZE
      BY <1>0, <1>1, <1>2, <1>8
    <2> HIDE DEF dva
    <2> QED  BY <1>5, <1>6, <2>1 DEF HeaderOK, elf_program
  <1>11. h1.p_va + h1.p_memsz =< h2.p_va
    BY <1>0, <1>1 DEF elf_program
  <1>13. h1.p_type = ELF_PTYPE_LOAD /\ h2.p_type = ELF_PTYPE_LOAD
    BY DEF elf_program
  <1>14. SegmentOK(h1)
    <2>1. n % n = 0
      BY <1>0
    <2> QED  BY <1>0, <1>1, <1>2, <2>1 DEF SegmentOK, FILESIZE, elf_program
  <1>15. SegmentOK(h2)
    <2>1. offset % n = 0
      <3>1. (n + rt) = (q + 1) * n /\ (0 * n) % n = 0
        BY <1>0, <1>3
      <3>2. ((q + 1) * n) % n = 0
        BY <1>0, Multiple
      <3> QED  BY <1>0, <1>6, <3>1, <3>2
    <2>2. offset + data =< FILESIZE
      BY <1>0, <1>1, <1>2, <1>6 DEF FILESIZE
    <2>3. dva >= 2 * n
      BY <1>0, <1>1
    <2> HIDE DEF dva
    <2> QED  BY <2>1, <2>2, <2>3 DEF SegmentOK, elf_program
  <1> HIDE DEF h1, h2
  <1>12. Len(<<h1, h2>>) = 2 /\ <<h1, h2>>[1] = h1 /\ <<h1, h2>>[2] = h2
    OBVIOUS
  <1> QED  BY <1>7, <1>9, <1>10, <1>11, <1>12, <1>13, <1>14, <1>15

\* Every image is well formed, with or without a header for the stack.
LEMMA ImagesWellFormed ==
    ASSUME Sizes, NEW im \in Images(PROC_START_ADDR)
    PROVE  WellFormed(im) /\ Linked(im) /\ im.e_magic
  <1> DEFINE Sz == {s \in (0 .. MaxData) \X (1 .. MaxData) : s[1] <= s[2]}
             Text == 1 .. MaxText
  <1>1. PICK text \in Text, sz \in Sz, stack \in StackHeaders :
          im = LinkedImage(PROC_START_ADDR, text, sz, stack)
    BY DEF Images
  <1> HIDE DEF Sz, Text
  <1>2. sz[1] \in 0 .. MaxData /\ sz[2] \in 1 .. MaxData /\ sz[1] =< sz[2]
        /\ text \in 1 .. MaxText
    BY <1>1 DEF Sz, Text
  <1> DEFINE h == LoadHeaders(PROC_START_ADDR, text, sz[1], sz[2])
             a == h \o stack
  <1>3. /\ Len(h) = 2 /\ HeaderOK(h[1]) /\ HeaderOK(h[2])
        /\ SegmentOK(h[1]) /\ SegmentOK(h[2])
        /\ h[1].p_type = ELF_PTYPE_LOAD /\ h[2].p_type = ELF_PTYPE_LOAD
        /\ h[1].p_va + h[1].p_memsz =< h[2].p_va
    BY <1>2, LoadHeadersOK
  <1>4. h \in Seq({h[1], h[2]})
    <2>1. PICK x, y : h = <<x, y>>
      BY DEF LoadHeaders
    <2> HIDE DEF h
    <2> QED  BY <2>1
  <1>5. im.ph = a /\ im.e_phoff = 1 /\ im.e_magic
    BY <1>1 DEF LinkedImage
  <1> DEFINE g == elf_program(PT_GNU_STACK, 0, 0, 0, 0)
  <1>6. stack = <<>> \/ stack = <<g>>
    BY DEF StackHeaders
  <1>7. g.p_type # ELF_PTYPE_LOAD
    BY DEF elf_program, PT_GNU_STACK, ELF_PTYPE_LOAD
  <1> HIDE DEF g, h
  <1>8. stack \in Seq({g}) /\ Len(stack) \in {0, 1} /\ (Len(stack) = 1 => stack[1] = g)
    <2>1. CASE stack = <<>>
      BY <2>1
    <2>2. CASE stack = <<g>>
      BY <2>2
    <2> QED  BY <1>6, <2>1, <2>2
  <1>9. PICK x, y : x = h[1] /\ y = h[2]
    OBVIOUS
  <1>10. h \in Seq({x, y, g}) /\ stack \in Seq({x, y, g})
    BY <1>4, <1>8, <1>9
  <1>11. /\ Len(a) = Len(h) + Len(stack) /\ DOMAIN a = 1 .. Len(a)
         /\ a[1] = x /\ a[2] = y
         /\ Len(a) = 3 => a[3] = g
         /\ Len(a) \in {2, 3}
    <2> DEFINE S == {x, y, g}
    <2>1. h \in Seq(S) /\ stack \in Seq(S)
      BY <1>10
    <2> HIDE DEF S
    <2>2. /\ Len(a) = Len(h) + Len(stack) /\ a \in Seq(S)
          /\ \A k \in 1 .. Len(h) + Len(stack) :
               a[k] = IF k <= Len(h) THEN h[k] ELSE stack[k - Len(h)]
      BY Zenon, <2>1, ConcatProperties
    <2> HIDE DEF a
    <2>3. Len(a) = 2 + Len(stack) /\ Len(stack) \in {0, 1}
      BY <1>3, <1>8, <2>2
    <2>8. PICK l \in {0, 1} : l = Len(stack)
      BY <2>3
    <2>9. Len(a) = 2 + l
      BY <2>3, <2>8
    <2>4. 1 \in 1 .. 2 + Len(stack) /\ 2 \in 1 .. 2 + Len(stack)
      BY <2>3
    <2>5. a[1] = x /\ a[2] = y
      BY <1>3, <1>9, <2>2, <2>4
    <2>6. ASSUME Len(a) = 3  PROVE a[3] = g
      <3>3. l = 1
        <4>1. l = 0 \/ l = 1
          BY <2>8
        <4>2. ASSUME l = 0  PROVE FALSE
          <5>1. Len(a) = 2
            BY <2>9, <4>2
          <5> QED  BY <2>6, <5>1
        <4> QED  BY <4>1, <4>2
      <3>1. Len(stack) = 1
        BY <2>8, <3>3
      <3>2. 3 \in 1 .. Len(h) + Len(stack) /\ ~(3 <= Len(h)) /\ 3 - Len(h) = 1
        BY <1>3, <3>1
      <3> QED  BY <1>8, <2>2, <3>1, <3>2
    <2>7. Len(a) \in {2, 3}
      BY <2>9
    <2> QED  BY <2>2, <2>5, <2>6, <2>7
  <1> HIDE DEF a
  <1>12. Len(a) \in {2, 3}
    BY <1>11
  <1>13. \A k \in DOMAIN a : a[k].p_type = ELF_PTYPE_LOAD => k \in {1, 2}
    BY <1>7, <1>11, <1>12
  <1>14. \A k \in DOMAIN a : a[k].p_type = ELF_PTYPE_LOAD => HeaderOK(a[k])
    BY <1>3, <1>9, <1>11, <1>13
  <1>15. \A j, k \in DOMAIN a :
            j < k /\ a[j].p_type = ELF_PTYPE_LOAD /\ a[k].p_type = ELF_PTYPE_LOAD
              => a[j].p_va + a[j].p_memsz =< a[k].p_va
    BY <1>3, <1>9, <1>11, <1>13
  <1>16. \A k \in DOMAIN a :
            IF a[k].p_type = ELF_PTYPE_LOAD THEN SegmentOK(a[k]) ELSE a[k] = g
    <2> SUFFICES ASSUME NEW k \in DOMAIN a
                 PROVE  IF a[k].p_type = ELF_PTYPE_LOAD THEN SegmentOK(a[k]) ELSE a[k] = g
      OBVIOUS
    <2>1. k = 1 \/ k = 2 \/ (k = 3 /\ Len(a) = 3)
      <3>1. CASE Len(a) = 2
        BY <1>11, <3>1
      <3>2. CASE Len(a) = 3
        BY <1>11, <3>2
      <3> QED  BY <1>12, <3>1, <3>2
    <2>2. CASE k = 1
      BY <1>3, <1>9, <1>11, <2>2
    <2>3. CASE k = 2
      BY <1>3, <1>9, <1>11, <2>3
    <2>4. CASE k = 3 /\ Len(a) = 3
      BY <1>7, <1>11, <2>4
    <2> QED  BY <2>1, <2>2, <2>3, <2>4
  <1>17. Len(a) =< 3
    <2>1. CASE Len(a) = 2
      BY <2>1
    <2>2. CASE Len(a) = 3
      BY <2>2
    <2> QED  BY <1>12, <2>1, <2>2
  <1>18. Linked(im)
    BY <1>5, <1>16, <1>17 DEF Linked, g
  <1> QED  BY <1>5, <1>11, <1>12, <1>14, <1>15, <1>18 DEF WellFormed

-----------------------------------------------------------------------------
(* program_load *)

\* The segments of the first n headers are in memory m.
LoadedUpTo(m, im, n) ==
    \A k \in 1 .. n : im.ph[k].p_type = ELF_PTYPE_LOAD => SegmentLoaded(m, im.ph[k])

\* The kernel wrote to mapped pages only.
WritesMapped == touched \subseteq Nat /\ \A a \in touched : ROUNDDOWN(a, PAGESIZE) \in mapped

LoadInv ==
    /\ WellFormed(image)
    /\ header_no \in 0 .. Len(image.ph)
    /\ DOMAIN mem = 0 .. MEMSIZE - 1
    /\ LoadedUpTo(mem, image, header_no)
    /\ WritesMapped
    /\ result # 0 => rip = Stale
    /\ result = 0 => header_no = Len(image.ph) /\ rip = image.e_entry

\* Memory holds a segment once it has been copied and cleared.
Filled(m, h, a) ==
    IF a \in h.p_va .. (h.p_va + h.p_filesz) - 1 THEN h.p_offset + (a - h.p_va)
    ELSE IF a \in h.p_va + h.p_filesz .. (h.p_va + h.p_memsz) - 1 THEN Zero
    ELSE m[a]

\* A segment that was just loaded is in memory, and what lies before it stays.
LEMMA FilledLoads ==
    ASSUME NEW m, NEW m2, NEW h, HeaderOK(h), MEMSIZE \in Nat,
           m2 = [a \in 0 .. MEMSIZE - 1 |-> Filled(m, h, a)]
    PROVE  /\ SegmentLoaded(m2, h)
           /\ \A g : HeaderOK(g) /\ g.p_va + g.p_memsz =< h.p_va /\ SegmentLoaded(m, g)
                       => SegmentLoaded(m2, g)
  <1>0. /\ h.p_va \in Nat /\ h.p_memsz \in Nat /\ h.p_filesz \in 0 .. h.p_memsz
        /\ h.p_offset \in Nat /\ h.p_va + h.p_memsz =< MEMSIZE
    BY DEF HeaderOK
  <1>1. SegmentLoaded(m2, h)
    <2> SUFFICES ASSUME NEW j \in 0 .. h.p_memsz - 1
                 PROVE  m2[h.p_va + j] = IF j < h.p_filesz THEN h.p_offset + j ELSE Zero
      BY DEF SegmentLoaded
    <2>1. PICK b \in Nat : b = h.p_va + j
      BY <1>0
    <2>2. b \in 0 .. MEMSIZE - 1 /\ b - h.p_va = j
      BY <1>0, <2>1
    <2>3. m2[b] = Filled(m, h, b)
      BY <2>2
    <2>4. CASE j < h.p_filesz
      <3>1. b \in h.p_va .. (h.p_va + h.p_filesz) - 1
        BY <1>0, <2>1, <2>4
      <3> QED  BY <2>1, <2>2, <2>3, <2>4, <3>1 DEF Filled
    <2>5. CASE ~(j < h.p_filesz)
      <3>1. /\ b \notin h.p_va .. (h.p_va + h.p_filesz) - 1
            /\ b \in h.p_va + h.p_filesz .. (h.p_va + h.p_memsz) - 1
        BY <1>0, <2>1, <2>5, SMTT(60)
      <3> QED  BY <2>1, <2>3, <2>5, <3>1 DEF Filled
    <2> QED  BY <2>4, <2>5
  <1>2. ASSUME NEW g, HeaderOK(g), g.p_va + g.p_memsz =< h.p_va, SegmentLoaded(m, g)
        PROVE  SegmentLoaded(m2, g)
    <2>0. g.p_va \in Nat /\ g.p_memsz \in Nat
      BY <1>2 DEF HeaderOK
    <2> SUFFICES ASSUME NEW j \in 0 .. g.p_memsz - 1
                 PROVE  m2[g.p_va + j] = IF j < g.p_filesz THEN g.p_offset + j ELSE Zero
      BY DEF SegmentLoaded
    <2>1. PICK b \in Nat : b = g.p_va + j
      BY <2>0
    <2>2. /\ b \in 0 .. MEMSIZE - 1 /\ b < h.p_va
      BY <1>0, <1>2, <2>0, <2>1, SMTT(60)
    <2>3. /\ b \notin h.p_va .. (h.p_va + h.p_filesz) - 1
          /\ b \notin h.p_va + h.p_filesz .. (h.p_va + h.p_memsz) - 1
      BY <1>0, <2>2
    <2>4. m2[b] = m[b]
      BY <2>2, <2>3 DEF Filled
    <2>5. m[g.p_va + j] = IF j < g.p_filesz THEN g.p_offset + j ELSE Zero
      BY <1>2 DEF SegmentLoaded
    <2> QED  BY <2>1, <2>4, <2>5
  <1> QED  BY <1>1, <1>2

\* Memory has room for the largest program.
LEMMA MemsizeType == Sizes => MEMSIZE \in Nat
  <1> SUFFICES ASSUME Sizes  PROVE MEMSIZE \in Nat
    OBVIOUS
  <1>1. ROUNDUP(MaxText, PAGESIZE) \in Nat /\ ROUNDUP(MaxData, PAGESIZE) \in Nat
    BY RoundUp DEF Sizes
  <1> QED  BY <1>1 DEF MEMSIZE, PROC_START_ADDR, Sizes

\* The allocation loop maps the page of every cell of the segment.
LEMMA SegmentMapped ==
    ASSUME Sizes, HeaderOK(header), NEW a \in header.p_va .. end_mem - 1
    PROVE  a \in Nat /\ va = header.p_va /\ ROUNDDOWN(a, PAGESIZE) \in SegmentPages
  <1>0. /\ header.p_va \in Nat /\ header.p_va % PAGESIZE = 0 /\ header.p_memsz \in Nat
        /\ header.p_va + header.p_memsz =< MEMSIZE /\ PAGESIZE \in Nat \ {0}
        /\ MEMSIZE \in Nat
    BY MemsizeType DEF HeaderOK, Sizes
  <1>1. a \in Nat /\ header.p_va =< a /\ a < end_mem /\ end_mem =< MEMSIZE /\ end_mem \in Nat
    BY <1>0 DEF end_mem
  <1>2. va = header.p_va
    BY <1>0, RoundDown DEF va
  <1> DEFINE r == ROUNDDOWN(a, PAGESIZE)
  <1>3. r \in Nat /\ r =< a /\ r % PAGESIZE = 0 /\ header.p_va =< r
    BY <1>0, <1>1, RoundDown
  <1> HIDE DEF r
  <1>4. r \in 0 .. MEMSIZE - 1 /\ r < end_mem
    BY <1>0, <1>1, <1>3
  <1>5. r \in SegmentPages
    BY <1>2, <1>3, <1>4 DEF SegmentPages, Pages
  <1> QED  BY <1>1, <1>2, <1>5 DEF r

\* Before the first header.
LEMMA InitLoads == Sizes /\ LoadInit => LoadInv
  <1> SUFFICES ASSUME Sizes, LoadInit  PROVE LoadInv
    OBVIOUS
  <1>1. WellFormed(image)
    BY ImagesWellFormed DEF LoadInit
  <1>2. /\ header_no = 0 /\ touched = {} /\ rip = Stale /\ result = 1
        /\ DOMAIN mem = 0 .. MEMSIZE - 1
    BY DEF LoadInit, Running
  <1>3. header_no \in 0 .. Len(image.ph)
    BY <1>1, <1>2 DEF WellFormed
  <1>4. LoadedUpTo(mem, image, header_no)
    BY <1>2 DEF LoadedUpTo
  <1> QED  BY <1>1, <1>2, <1>3, <1>4 DEF LoadInv, WritesMapped

\* A segment is loaded.
LEMMA SegmentLoads ==
    ASSUME Sizes, LoadInv, result = Running, header_no < Len(image.ph), is_loadable,
           program_load_segment
    PROVE  LoadInv'
  <1>0. /\ WellFormed(image) /\ header_no \in 0 .. Len(image.ph) /\ DOMAIN mem = 0 .. MEMSIZE - 1
        /\ LoadedUpTo(mem, image, header_no) /\ WritesMapped /\ rip = Stale
    BY DEF LoadInv, Running
  <1>1. Len(image.ph) \in Nat /\ DOMAIN image.ph = 1 .. Len(image.ph)
    BY <1>0 DEF WellFormed
  <1>2. header_no + 1 \in 1 .. Len(image.ph) /\ header_no \in Nat
    BY <1>0, <1>1
  <1>3. header = image.ph[header_no + 1] /\ header.p_type = ELF_PTYPE_LOAD
    BY DEF header, is_loadable
  <1>4. HeaderOK(header)
    BY <1>0, <1>1, <1>2, <1>3 DEF WellFormed
  <1>5. MEMSIZE \in Nat
    BY MemsizeType
  <1>6. va = header.p_va
    <2>1. PAGESIZE \in Nat \ {0} /\ header.p_va \in Nat /\ header.p_va % PAGESIZE = 0
      BY <1>4 DEF HeaderOK, Sizes
    <2> QED  BY <2>1, RoundDown DEF va
  <1>7. /\ UNCHANGED <<image, rip, result>> /\ header_no' = header_no + 1
        /\ mapped' = mapped \cup SegmentPages
        /\ touched' = touched \cup (va .. end_mem - 1)
    BY DEF program_load_segment
  <1>8. mem' = [a \in 0 .. MEMSIZE - 1 |-> Filled(mem, header, a)]
    BY <1>0, <1>6 DEF program_load_segment, Filled, end_file, end_mem
  <1> HIDE DEF header
  <1>9. LoadedUpTo(mem', image, header_no + 1)
    <2> SUFFICES ASSUME NEW k \in 1 .. header_no + 1, image.ph[k].p_type = ELF_PTYPE_LOAD
                 PROVE  SegmentLoaded(mem', image.ph[k])
      BY DEF LoadedUpTo
    <2>1. CASE k = header_no + 1
      <3>1. SegmentLoaded(mem', header)
        BY <1>4, <1>5, <1>8, FilledLoads
      <3> QED  BY <1>3, <2>1, <3>1
    <2>2. CASE k # header_no + 1
      <3>1. k \in 1 .. header_no /\ k \in DOMAIN image.ph /\ header_no + 1 \in DOMAIN image.ph /\ k < header_no + 1
        BY <1>1, <1>2, <2>2
      <3>2. PICK g : g = image.ph[k]
        OBVIOUS
      <3>3. HeaderOK(g) /\ g.p_va + g.p_memsz =< header.p_va
        BY <1>0, <1>3, <3>1, <3>2 DEF WellFormed
      <3>4. SegmentLoaded(mem, g)
        BY <1>0, <3>1, <3>2 DEF LoadedUpTo
      <3> QED  BY <1>4, <1>5, <1>8, <3>2, <3>3, <3>4, FilledLoads, ZenonT(60)
    <2> QED  BY <2>1, <2>2
  <1>10. WritesMapped'
    <2>1. \A a \in va .. end_mem - 1 : a \in Nat /\ ROUNDDOWN(a, PAGESIZE) \in SegmentPages
      BY <1>4, <1>6, SegmentMapped
    <2> QED  BY <1>0, <1>7, <2>1 DEF WritesMapped
  <1>11. DOMAIN mem' = 0 .. MEMSIZE - 1
    BY <1>8
  <1>12. header_no' \in 0 .. Len(image.ph)
    BY <1>1, <1>2, <1>7
  <1> QED  BY <1>0, <1>7, <1>9, <1>10, <1>11, <1>12 DEF LoadInv, Running

\* Every step of program_load.
LEMMA NextLoads ==
    ASSUME Sizes, LoadInv, [LoadNext]_loadVars
    PROVE  LoadInv'
  <1>0. /\ WellFormed(image) /\ header_no \in 0 .. Len(image.ph) /\ DOMAIN mem = 0 .. MEMSIZE - 1
        /\ LoadedUpTo(mem, image, header_no) /\ WritesMapped
        /\ result # 0 => rip = Stale
        /\ Len(image.ph) \in Nat
    BY DEF LoadInv, WellFormed
  <1>1. CASE LoadSegment /\ program_load_segment
    BY <1>1, SegmentLoads DEF LoadSegment
  <1>2. CASE LoadSegment /\ program_load_segment_fails
    <2>1. /\ mapped \subseteq mapped' /\ result' = -1 /\ result = 1
          /\ UNCHANGED <<image, header_no, mem, touched, rip>>
      BY <1>2 DEF LoadSegment, program_load_segment_fails, Running
    <2>2. WritesMapped'
      BY <1>0, <2>1 DEF WritesMapped
    <2> QED  BY <1>0, <2>1, <2>2 DEF LoadInv
  <1>3. CASE SkipHeader
    <2>1. /\ header_no' = header_no + 1 /\ header_no < Len(image.ph) /\ result = 1
          /\ image.ph[header_no + 1].p_type # ELF_PTYPE_LOAD
          /\ UNCHANGED <<image, mapped, mem, touched, rip, result>>
      BY <1>3 DEF SkipHeader, is_loadable, header, Running
    <2>2. \A k \in 1 .. header_no + 1 : k \in 1 .. header_no \/ k = header_no + 1
      BY <1>0
    <2>3. LoadedUpTo(mem, image, header_no + 1)
      BY <1>0, <2>1, <2>2 DEF LoadedUpTo
    <2>4. header_no' \in 0 .. Len(image.ph)
      BY <1>0, <2>1
    <2>5. WritesMapped'
      BY <1>0, <2>1 DEF WritesMapped
    <2> QED  BY <1>0, <2>1, <2>3, <2>4, <2>5 DEF LoadInv
  <1>4. CASE program_load_returns
    <2>1. /\ header_no = Len(image.ph) /\ rip' = image.e_entry /\ result' = 0
          /\ UNCHANGED <<image, header_no, mapped, mem, touched>>
      BY <1>4 DEF program_load_returns
    <2>2. WritesMapped'
      BY <1>0, <2>1 DEF WritesMapped
    <2> QED  BY <1>0, <2>1, <2>2 DEF LoadInv
  <1>5. CASE UNCHANGED loadVars
    <2>1. UNCHANGED <<image, header_no, mapped, mem, touched, rip, result>>
      BY <1>5 DEF loadVars
    <2>2. WritesMapped'
      BY <1>0, <2>1 DEF WritesMapped
    <2> QED  BY <1>0, <2>1, <2>2 DEF LoadInv
  <1> QED  BY <1>1, <1>2, <1>3, <1>4, <1>5 DEF LoadNext, LoadSegment

\* A program that was loaded successfully is in memory, .bss cleared, whatever
\* an earlier program left there; one that was not is never given an entry
\* point; and the kernel writes to mapped pages only, also when it fails
\* halfway: for every page size and every size of the segments.
THEOREM ProgramAlwaysLoaded == ASSUME Sizes PROVE LoadSpec => []ProgramLoaded
  <1>1. LoadInit => LoadInv
    BY InitLoads
  <1>2. LoadInv /\ [LoadNext]_loadVars => LoadInv'
    BY NextLoads
  <1>3. LoadInv => ProgramLoaded
    <2> SUFFICES ASSUME LoadInv  PROVE ProgramLoaded
      OBVIOUS
    <2>1. ASSUME result = 0  PROVE ImageLoaded(mem, image) /\ rip = image.e_entry
      <3>1. header_no = Len(image.ph) /\ DOMAIN image.ph = 1 .. Len(image.ph)
            /\ rip = image.e_entry /\ LoadedUpTo(mem, image, header_no)
        BY <2>1 DEF LoadInv, WellFormed
      <3> QED  BY <3>1 DEF ImageLoaded, LoadedUpTo
    <2>2. result = -1 => rip = Stale
      BY DEF LoadInv
    <2> QED  BY <2>1, <2>2 DEF LoadInv, WritesMapped, ProgramLoaded
  <1> QED  BY <1>1, <1>2, <1>3, PTL DEF LoadSpec

-----------------------------------------------------------------------------
(* boot *)

\* A page is a whole number of sectors and has room for the headers; the disk
\* has a number for every sector of the image.
BootSizes ==
    /\ Sizes /\ PAGESIZE >= 4
    /\ SECTORSIZE \in Nat \ {0} /\ PAGESIZE % SECTORSIZE = 0
    /\ BYTE \in Nat \ {0}
    /\ FILESIZE =< (BYTE * BYTE * BYTE * BYTE - 1) * SECTORSIZE

\* What the four registers say.
Decoded(r) == r[1] + BYTE * (r[2] + BYTE * (r[3] + BYTE * r[4]))

\* Dividing both sides of an inequality.
LEMMA LessFactor ==
    ASSUME NEW a \in Int, NEW c \in Int, NEW n \in Nat \ {0}, a * n < c * n
    PROVE  a < c
  <1> SUFFICES ASSUME c =< a  PROVE FALSE
    OBVIOUS
  <1>1. (a - c) * n >= 0
    OBVIOUS
  <1>2. (a - c) * n = a * n - c * n
    OBVIOUS
  <1> QED  BY <1>1, <1>2

\* One byte of a number.
LEMMA OneByte ==
    ASSUME NEW B \in Nat \ {0}, NEW n \in Nat, NEW c \in Nat, n < c * B
    PROVE  /\ n \div B \in Nat /\ n \div B < c
           /\ n % B \in Nat /\ n % B < B /\ n = (n % B) + B * (n \div B)
  <1> DEFINE q == n \div B
             r == n % B
  <1>1. q \in Nat /\ r \in 0 .. B - 1 /\ n = B * q + r
    OBVIOUS
  <1> HIDE DEF q, r
  <1>2. q * B < c * B
    BY <1>1
  <1>3. q < c
    BY <1>1, <1>2, LessFactor
  <1> QED  BY <1>1, <1>3 DEF q, r

\* The disk understands the number the loader writes to its registers.
LEMMA SectorNumber ==
    ASSUME BYTE \in Nat \ {0}, NEW n \in Nat, n < BYTE * BYTE * BYTE * BYTE
    PROVE  Decoded(outb_sector(n)) = n
  <1>0. PICK B \in Nat \ {0} : B = BYTE
    OBVIOUS
  <1>1. PICK p2 \in Nat : p2 = B * B
    BY <1>0
  <1>2. PICK p3 \in Nat : p3 = p2 * B
    BY <1>0, <1>1
  <1>3. n < p3 * B
    BY <1>0, <1>1, <1>2
  <1> DEFINE n8 == n \div B
             n16 == n8 \div B
             n24 == n16 \div B
  <1>4. n8 \in Nat /\ n8 < p3 /\ n = (n % B) + B * n8
    BY <1>0, <1>3, OneByte
  <1> HIDE DEF n8
  <1>5. n16 \in Nat /\ n16 < p2 /\ n8 = (n8 % B) + B * n16
    BY <1>0, <1>2, <1>4, OneByte
  <1> HIDE DEF n16
  <1>6. n24 \in Nat /\ n24 < B /\ n16 = (n16 % B) + B * n24
    BY <1>0, <1>1, <1>5, OneByte
  <1>7. n24 % B = n24
    BY <1>0, <1>6
  <1>8. outb_sector(n) = << n % B, n8 % B, n16 % B, n24 % B >>
    BY <1>0 DEF outb_sector, n8, n16, n24
  <1> HIDE DEF n24
  <1>9. PICK r1, r2, r3, r4 : r1 = n % B /\ r2 = n8 % B /\ r3 = n16 % B /\ r4 = n24 % B
    OBVIOUS
  <1>10. Decoded(<<r1, r2, r3, r4>>) = r1 + B * (r2 + B * (r3 + B * r4))
    BY <1>0 DEF Decoded
  <1> QED  BY <1>4, <1>5, <1>6, <1>7, <1>8, <1>9, <1>10

\* Every image on the disk is well formed, with or without the magic number.
LEMMA BootImagesOK ==
    ASSUME Sizes, NEW im \in BootImages
    PROVE  WellFormed(im) /\ Linked(im)
  <1>1. KERNEL_START = PROC_START_ADDR
    BY DEF KERNEL_START, PROC_START_ADDR
  <1>2. CASE im \in Images(KERNEL_START)
    BY <1>1, <1>2, ImagesWellFormed
  <1>3. CASE \E j \in Images(KERNEL_START) : im = [j EXCEPT !.e_magic = FALSE]
    <2>1. PICK j \in Images(KERNEL_START) : im = [j EXCEPT !.e_magic = FALSE]
      BY <1>3
    <2>2. WellFormed(j) /\ Linked(j)
      BY <1>1, ImagesWellFormed
    <2>3. \E a, b, c, d : j = [e_magic |-> a, e_entry |-> b, e_phoff |-> c, ph |-> d]
      BY DEF Images, LinkedImage
    <2>4. im.ph = j.ph /\ im.e_phoff = j.e_phoff
      BY <2>1, <2>3
    <2> QED  BY <2>2, <2>4 DEF WellFormed, Linked
  <1> QED  BY <1>2, <1>3 DEF BootImages

\* The segment being read: at first the page of the headers, then the one of
\* the header at ph.
cur == IF ph = 0 THEN elf_program(ELF_PTYPE_LOAD, 0, ELFHDR, PAGESIZE, PAGESIZE)
       ELSE kernel_image.ph[ph - PAGESIZE]

\* What boot reads: whole pages of the file to whole pages behind its own, or
\* nothing at all.
Readable(h) ==
    /\ h.p_va \in Nat /\ h.p_offset \in Nat /\ h.p_memsz \in Nat
    /\ h.p_filesz \in 0 .. h.p_memsz
    /\ h.p_va % SECTORSIZE = 0 /\ h.p_offset % SECTORSIZE = 0
    /\ h.p_offset + h.p_filesz =< FILESIZE
    /\ h.p_va >= PAGESIZE \/ h.p_memsz = 0

\* The first n cells of a segment have been read.
CopiedCells(m, h, n) ==
    \A j \in Nat : j < n /\ h.p_va + j \in 0 .. MEMSIZE - 1
        => m[h.p_va + j] = h.p_offset + j

\* boot_readseg's loop after n sectors.
ReadsegLoop(n) ==
    /\ end_ptr = cur.p_va + cur.p_filesz /\ memsz = cur.p_va + cur.p_memsz
    /\ ptr = cur.p_va + n * SECTORSIZE
    /\ src_sect = (cur.p_offset \div SECTORSIZE) + 1 + n
    /\ CopiedCells(boot_mem, cur, n * SECTORSIZE)
    /\ boot_pc # "readseg" => ptr < end_ptr

HeadersKept == \A k \in 0 .. PAGESIZE - 1 : boot_mem[ELFHDR + k] = k

InReadseg == boot_pc \in {"readseg", "readsect", "data"}

BootImage == WellFormed(kernel_image) /\ Linked(kernel_image)
BootMemory == DOMAIN boot_mem = 0 .. MEMSIZE - 1 /\ \A a \in LoaderArea : boot_mem[a] = Stale
BootHeader ==
    \/ ph = 0
    \/ /\ ph - PAGESIZE \in 1 .. Len(kernel_image.ph) + 1 /\ ph \in Nat /\ ph # 0
       /\ eph = PAGESIZE + 1 + Len(kernel_image.ph)
       /\ kernel_image.e_magic
       /\ HeadersKept
       /\ LoadedUpTo(boot_mem, kernel_image, (ph - PAGESIZE) - 1)
BootReads ==
    InReadseg => /\ ph # 0 => ph - PAGESIZE \in 1 .. Len(kernel_image.ph)
                 /\ \E n \in Nat : ReadsegLoop(n)
BootDisk ==
    boot_pc = "data" => /\ lba = outb_sector(src_sect)
                        /\ status = {DRDY} => buffer = src_sect
BootPc ==
    /\ InReadseg \/ boot_pc \in {"magic", "walk", "kernel"}
    /\ boot_pc = "magic" => ph = 0 /\ HeadersKept
    /\ boot_pc \in {"walk", "kernel"} => ph # 0
    /\ boot_pc = "kernel" => /\ ph - PAGESIZE = Len(kernel_image.ph) + 1
                             /\ kernel_rip = kernel_image.e_entry
    /\ boot_pc # "kernel" => kernel_rip = Stale

BootInv ==
    BootImage /\ BootMemory /\ BootHeader /\ BootReads /\ BootDisk /\ BootPc

\* The sizes the proofs use.
LEMMA BootFacts ==
    ASSUME BootSizes
    PROVE  /\ PAGESIZE \in Nat /\ PAGESIZE >= 4 /\ SECTORSIZE \in Nat \ {0}
           /\ MEMSIZE \in Nat /\ 2 * PAGESIZE =< MEMSIZE
           /\ FILESIZE \in Nat /\ PAGESIZE =< FILESIZE /\ BOOT_MEMSIZE = MEMSIZE
           /\ ELFHDR = PAGESIZE
  <1>1. ROUNDUP(MaxText, PAGESIZE) \in Nat /\ ROUNDUP(MaxData, PAGESIZE) \in Nat
    BY RoundUp DEF BootSizes, Sizes
  <1> QED  BY <1>1 DEF BootSizes, Sizes, MEMSIZE, BOOT_MEMSIZE, PROC_START_ADDR,
                       KERNEL_START, FILESIZE, ELFHDR

\* A multiple of the page size is one of the sector size.
LEMMA PageSectors ==
    ASSUME BootSizes, NEW a \in Nat, a % PAGESIZE = 0
    PROVE  a % SECTORSIZE = 0
  <1>1. PICK q \in Nat : a = q * PAGESIZE
    <2>1. PAGESIZE \in Nat \ {0}
      BY DEF BootSizes, Sizes
    <2> QED  BY <2>1, Quotient
  <1>2. PICK s \in Nat : PAGESIZE = s * SECTORSIZE
    <2>1. PAGESIZE \in Nat /\ SECTORSIZE \in Nat \ {0} /\ PAGESIZE % SECTORSIZE = 0
      BY DEF BootSizes, Sizes
    <2> QED  BY <2>1, Quotient
  <1>3. SECTORSIZE \in Nat \ {0} /\ q * s \in Nat /\ a = (q * s) * SECTORSIZE
    BY <1>1, <1>2 DEF BootSizes
  <1> QED  BY <1>3, Multiple

\* A header of the image, by its kind.
LEMMA HeaderReadable ==
    ASSUME BootSizes, BootImage, NEW k \in 1 .. Len(kernel_image.ph)
    PROVE  LET h == kernel_image.ph[k]
           IN  /\ Readable(h)
               /\ h.p_va >= 2 * PAGESIZE \/ h.p_memsz = 0
               /\ h.p_va + h.p_memsz =< MEMSIZE
  <1>1. k \in DOMAIN kernel_image.ph
    BY DEF BootImage, WellFormed
  <1>2. PICK h : h = kernel_image.ph[k]
    OBVIOUS
  <1>3. CASE h.p_type = ELF_PTYPE_LOAD
    <2>1. HeaderOK(h) /\ SegmentOK(h)
      BY <1>1, <1>2, <1>3 DEF BootImage, WellFormed, Linked
    <2>2. /\ h.p_va \in Nat /\ h.p_offset \in Nat /\ h.p_va % PAGESIZE = 0
          /\ h.p_offset % PAGESIZE = 0 /\ h.p_va >= 2 * PAGESIZE
          /\ h.p_memsz \in Nat /\ h.p_filesz \in 0 .. h.p_memsz
          /\ h.p_offset + h.p_filesz =< FILESIZE /\ h.p_va + h.p_memsz =< MEMSIZE
      BY <2>1 DEF HeaderOK, SegmentOK
    <2>3. h.p_va % SECTORSIZE = 0 /\ h.p_offset % SECTORSIZE = 0
      BY <2>2, PageSectors
    <2>4. h.p_va >= PAGESIZE
      BY <2>2, BootFacts
    <2> QED  BY <1>2, <2>2, <2>3, <2>4 DEF Readable
  <1>4. CASE h.p_type # ELF_PTYPE_LOAD
    <2>1. h = elf_program(PT_GNU_STACK, 0, 0, 0, 0)
      BY <1>1, <1>2, <1>4 DEF BootImage, Linked
    <2>2. h.p_va = 0 /\ h.p_offset = 0 /\ h.p_memsz = 0 /\ h.p_filesz = 0
      BY <2>1 DEF elf_program
    <2>3. 0 % SECTORSIZE = 0
      BY BootFacts
    <2> QED  BY <1>2, <2>2, <2>3, BootFacts DEF Readable
  <1> QED  BY <1>3, <1>4

\* What boot_readseg is asked for can always be read.
LEMMA CurReadable ==
    ASSUME BootSizes, BootInv, InReadseg
    PROVE  /\ Readable(cur) /\ cur.p_va + cur.p_memsz =< MEMSIZE
           /\ ph # 0 => cur.p_va >= 2 * PAGESIZE \/ cur.p_memsz = 0
  <1>1. CASE ph = 0
    <2>1. cur = elf_program(ELF_PTYPE_LOAD, 0, PAGESIZE, PAGESIZE, PAGESIZE)
      BY <1>1 DEF cur, ELFHDR
    <2>2. PAGESIZE % SECTORSIZE = 0 /\ 0 % SECTORSIZE = 0
      BY BootFacts DEF BootSizes
    <2>3. /\ cur.p_va = PAGESIZE /\ cur.p_offset = 0 /\ cur.p_filesz = PAGESIZE
          /\ cur.p_memsz = PAGESIZE
      BY <2>1 DEF elf_program
    <2> QED  BY <1>1, <2>2, <2>3, BootFacts DEF Readable
  <1>2. CASE ph # 0
    <2>1. ph - PAGESIZE \in 1 .. Len(kernel_image.ph) /\ BootImage
      BY <1>2 DEF BootInv, BootReads
    <2>2. cur = kernel_image.ph[ph - PAGESIZE]
      BY <1>2 DEF cur
    <2> QED  BY <2>1, <2>2, HeaderReadable
  <1> QED  BY <1>1, <1>2

\* What is written at or behind the segment being read leaves the loader's own
\* page, the headers and the segments before it alone.
LEMMA BelowKept ==
    ASSUME BootSizes, BootInv, InReadseg, NEW m,
           \A a \in 0 .. MEMSIZE - 1 :
              a < cur.p_va \/ cur.p_memsz = 0 => m[a] = boot_mem[a]
    PROVE  /\ \A a \in LoaderArea : m[a] = Stale
           /\ ph # 0 => /\ \A k \in 0 .. PAGESIZE - 1 : m[ELFHDR + k] = k
                        /\ LoadedUpTo(m, kernel_image, (ph - PAGESIZE) - 1)
  <1>0. /\ PAGESIZE \in Nat /\ MEMSIZE \in Nat /\ 2 * PAGESIZE =< MEMSIZE /\ ELFHDR = PAGESIZE
    BY BootFacts
  <1>1. /\ cur.p_va \in Nat /\ cur.p_memsz \in Nat
        /\ cur.p_va >= PAGESIZE \/ cur.p_memsz = 0
        /\ ph # 0 => cur.p_va >= 2 * PAGESIZE \/ cur.p_memsz = 0
    BY CurReadable DEF Readable
  <1>2. \A a \in LoaderArea : m[a] = Stale
    <2> SUFFICES ASSUME NEW a \in LoaderArea  PROVE m[a] = Stale
      OBVIOUS
    <2>1. a \in 0 .. MEMSIZE - 1 /\ (a < cur.p_va \/ cur.p_memsz = 0)
      BY <1>0, <1>1 DEF LoaderArea
    <2>2. boot_mem[a] = Stale
      BY DEF BootInv, BootMemory
    <2> QED  BY <2>1, <2>2
  <1>3. ASSUME ph # 0, NEW k \in 0 .. PAGESIZE - 1  PROVE m[ELFHDR + k] = k
    <2>1. PICK a \in Nat : a = ELFHDR + k
      BY <1>0
    <2>2. a \in 0 .. MEMSIZE - 1 /\ (a < cur.p_va \/ cur.p_memsz = 0)
      BY <1>0, <1>1, <1>3, <2>1
    <2>3. boot_mem[a] = k
      BY <1>3, <2>1 DEF BootInv, BootHeader, HeadersKept
    <2> QED  BY <2>1, <2>2, <2>3
  <1>4. ASSUME ph # 0  PROVE LoadedUpTo(m, kernel_image, (ph - PAGESIZE) - 1)
    <2>1. PICK i : i = ph - PAGESIZE
      OBVIOUS
    <2>2. i \in 1 .. Len(kernel_image.ph) /\ cur = kernel_image.ph[i]
      BY <1>4, <2>1 DEF BootInv, BootReads, cur
    <2>3. /\ DOMAIN kernel_image.ph = 1 .. Len(kernel_image.ph) /\ WellFormed(kernel_image)
          /\ Linked(kernel_image) /\ Len(kernel_image.ph) \in Nat
      BY DEF BootInv, BootImage, WellFormed
    <2> SUFFICES ASSUME NEW k \in 1 .. i - 1, kernel_image.ph[k].p_type = ELF_PTYPE_LOAD
                 PROVE  SegmentLoaded(m, kernel_image.ph[k])
      BY <2>1 DEF LoadedUpTo
    <2>4. PICK g : g = kernel_image.ph[k]
      OBVIOUS
    <2>5. SegmentLoaded(boot_mem, g)
      BY <1>4, <2>1, <2>4 DEF BootInv, BootHeader, LoadedUpTo
    <2>6. k \in DOMAIN kernel_image.ph /\ i \in DOMAIN kernel_image.ph /\ k < i
      BY <2>2, <2>3
    <2>7. HeaderOK(g)
      BY <2>3, <2>4, <2>6 DEF WellFormed
    <2>8. g.p_va + g.p_memsz =< cur.p_va \/ cur.p_memsz = 0
      <3>1. CASE cur.p_type = ELF_PTYPE_LOAD
        BY <2>2, <2>3, <2>4, <2>6, <3>1 DEF WellFormed
      <3>2. CASE cur.p_type # ELF_PTYPE_LOAD
        <4>1. cur = elf_program(PT_GNU_STACK, 0, 0, 0, 0)
          BY <2>2, <2>3, <2>6, <3>2 DEF Linked
        <4> QED  BY <4>1 DEF elf_program
      <3> QED  BY <3>1, <3>2
    <2>9. g.p_va \in Nat /\ g.p_memsz \in Nat /\ g.p_va + g.p_memsz =< MEMSIZE
      BY <2>7 DEF HeaderOK
    <2>10. ASSUME NEW j \in 0 .. g.p_memsz - 1  PROVE m[g.p_va + j] = boot_mem[g.p_va + j]
      <3>1. PICK a \in Nat : a = g.p_va + j
        BY <2>9
      <3>2. a \in 0 .. MEMSIZE - 1 /\ (a < cur.p_va \/ cur.p_memsz = 0)
        BY <1>0, <1>1, <2>8, <2>9, <3>1
      <3> QED  BY <3>1, <3>2
    <2>11. SegmentLoaded(m, g)
      BY <2>5, <2>10 DEF SegmentLoaded
    <2> QED  BY <2>4, <2>11
  <1> QED  BY <1>2, <1>3, <1>4

\* What one sector adds to the segment.
LEMMA SectorCopied ==
    ASSUME BootSizes, BootInv, boot_readsect_data
    PROVE  /\ BootMemory' /\ BootHeader'
           /\ \E n \in Nat : ReadsegLoop(n)'
  <1>1. /\ boot_pc = "data" /\ status = {DRDY} /\ boot_pc' = "readseg"
        /\ ptr' = ptr + SECTORSIZE /\ src_sect' = src_sect + 1
        /\ UNCHANGED <<kernel_image, ph, eph, end_ptr, memsz>>
    BY DEF boot_readsect_data, boot_waitdisk
  <1>2. boot_mem' = [a \in 0 .. MEMSIZE - 1 |->
            IF a \notin ptr .. ptr + SECTORSIZE - 1 THEN boot_mem[a]
            ELSE IF buffer = NoSector THEN Stale
            ELSE Sector(buffer)[a - ptr]]
    BY DEF boot_readsect_data, BootInv, BootMemory
  <1>3. InReadseg /\ buffer = src_sect
    BY <1>1 DEF InReadseg, BootInv, BootDisk
  <1>4. PICK n \in Nat : ReadsegLoop(n)
    BY <1>3 DEF BootInv, BootReads
  <1>5. PICK S \in Nat \ {0} : S = SECTORSIZE
    BY BootFacts
  <1>6. PICK c : c = cur
    OBVIOUS
  <1>7. /\ c.p_va \in Nat /\ c.p_offset \in Nat /\ c.p_memsz \in Nat
        /\ c.p_filesz \in 0 .. c.p_memsz /\ c.p_offset % S = 0
    BY <1>3, <1>5, <1>6, CurReadable DEF Readable
  <1>8. /\ ptr = c.p_va + n * S /\ ptr < c.p_va + c.p_filesz
        /\ src_sect = (c.p_offset \div S) + 1 + n
        /\ end_ptr = c.p_va + c.p_filesz /\ memsz = c.p_va + c.p_memsz
        /\ CopiedCells(boot_mem, c, n * S)
    BY <1>1, <1>4, <1>5, <1>6 DEF ReadsegLoop
  <1>9. PICK o \in Nat : o = c.p_offset \div S /\ c.p_offset = o * S
    BY <1>5, <1>7, Quotient
  <1>10. PICK w \in Nat : w = n * S
    BY <1>5
  <1>11. ptr \in Nat /\ ptr = c.p_va + w /\ c.p_memsz # 0
    BY <1>7, <1>8, <1>10
  <1>12. buffer = o + 1 + n /\ buffer > 0 /\ buffer # NoSector
    BY <1>3, <1>8, <1>9 DEF NoSector
  <1>13. (buffer - 1) * S = c.p_offset + w
    <2>1. buffer - 1 = o + n
      BY <1>12
    <2>2. (o + n) * S = o * S + n * S
      BY <1>5
    <2> QED  BY <1>9, <1>10, <2>1, <2>2
  <1>14. cur' = c
    BY <1>1, <1>6 DEF cur
  <1>15. CopiedCells(boot_mem', c, w + S)
    <2> SUFFICES ASSUME NEW j \in Nat, j < w + S, c.p_va + j \in 0 .. MEMSIZE - 1
                 PROVE  boot_mem'[c.p_va + j] = c.p_offset + j
      BY DEF CopiedCells
    <2>1. PICK a \in Nat : a = c.p_va + j
      BY <1>7
    <2>2. CASE j < w
      <3>1. a \notin ptr .. ptr + SECTORSIZE - 1
        BY <1>5, <1>7, <1>11, <2>1, <2>2
      <3>2. boot_mem'[a] = boot_mem[a]
        BY <1>2, <2>1, <3>1
      <3> QED  BY <1>8, <1>10, <2>1, <2>2, <3>2 DEF CopiedCells
    <2>3. CASE j >= w
      <3>1. a \in ptr .. ptr + SECTORSIZE - 1 /\ a - ptr = j - w /\ j - w \in 0 .. S - 1
        BY <1>5, <1>7, <1>10, <1>11, <2>1, <2>3
      <3>2. boot_mem'[a] = Sector(buffer)[a - ptr]
        BY <1>2, <1>12, <2>1, <3>1
      <3>3. Sector(buffer)[j - w] = (buffer - 1) * S + (j - w)
        BY <1>5, <1>12, <3>1 DEF Sector
      <3>4. boot_mem'[a] = (c.p_offset + w) + (j - w)
        BY <1>13, <3>1, <3>2, <3>3
      <3> QED  BY <1>7, <1>10, <2>1, <3>4
    <2> QED  BY <1>10, <2>2, <2>3
  <1>16. ReadsegLoop(n + 1)'
    <2>1. (n + 1) * S = w + S
      BY <1>5, <1>10
    <2>2. ptr' = c.p_va + (n + 1) * S
      BY <1>1, <1>5, <1>7, <1>11, <2>1
    <2>3. src_sect' = (c.p_offset \div S) + 1 + (n + 1)
      BY <1>1, <1>8, <1>9
    <2>4. end_ptr' = c.p_va + c.p_filesz /\ memsz' = c.p_va + c.p_memsz
      BY <1>1, <1>8
    <2>5. CopiedCells(boot_mem', c, (n + 1) * S)
      BY <1>15, <2>1
    <2>6. SECTORSIZE = S /\ cur' = c /\ boot_pc' = "readseg"
      BY <1>1, <1>5, <1>14
    <2> QED  BY <2>2, <2>3, <2>4, <2>5, <2>6 DEF ReadsegLoop
  <1>17. \A a \in 0 .. MEMSIZE - 1 : a < cur.p_va \/ cur.p_memsz = 0 => boot_mem'[a] = boot_mem[a]
    <2> SUFFICES ASSUME NEW a \in 0 .. MEMSIZE - 1, a < c.p_va
                 PROVE  boot_mem'[a] = boot_mem[a]
      BY <1>6, <1>11
    <2>1. a \notin ptr .. ptr + SECTORSIZE - 1
      BY <1>5, <1>7, <1>10, <1>11
    <2> QED  BY <1>2, <2>1
  <1>18. /\ \A a \in LoaderArea : boot_mem'[a] = Stale
         /\ ph # 0 => /\ \A k \in 0 .. PAGESIZE - 1 : boot_mem'[ELFHDR + k] = k
                      /\ LoadedUpTo(boot_mem', kernel_image, (ph - PAGESIZE) - 1)
    BY <1>3, <1>17, BelowKept
  <1>19. BootMemory'
    BY <1>2, <1>18 DEF BootMemory, LoaderArea
  <1>20. BootHeader'
    BY <1>1, <1>18 DEF BootInv, BootHeader, HeadersKept, ELFHDR
  <1> QED  BY <1>16, <1>19, <1>20

\* The end of a segment: its .bss is cleared and it is in memory.
LEMMA SegmentCleared ==
    ASSUME BootSizes, BootInv, boot_readseg_clear
    PROVE  BootMemory' /\ BootHeader' /\ (ph = 0 => HeadersKept')
  <1>1. /\ boot_pc = "readseg" /\ ~(ptr < end_ptr)
        /\ ph' = (IF ph = 0 THEN 0 ELSE ph + 1) /\ UNCHANGED <<kernel_image, eph>>
    BY DEF boot_readseg_clear, readseg_more
  <1>2. boot_mem' = [a \in 0 .. MEMSIZE - 1 |->
            IF a \in end_ptr .. memsz - 1 THEN Zero ELSE boot_mem[a]]
    BY DEF boot_readseg_clear, BootInv, BootMemory
  <1>3. InReadseg
    BY <1>1 DEF InReadseg
  <1>4. PICK n \in Nat : ReadsegLoop(n)
    BY <1>3 DEF BootInv, BootReads
  <1>5. PICK c : c = cur
    OBVIOUS
  <1>6. /\ c.p_va \in Nat /\ c.p_offset \in Nat /\ c.p_memsz \in Nat
        /\ c.p_filesz \in 0 .. c.p_memsz /\ c.p_va + c.p_memsz =< MEMSIZE
    BY <1>3, <1>5, CurReadable DEF Readable
  <1>7. PICK w \in Nat : w = n * SECTORSIZE
    BY BootFacts
  <1>8. /\ end_ptr = c.p_va + c.p_filesz /\ memsz = c.p_va + c.p_memsz
        /\ ptr = c.p_va + w /\ CopiedCells(boot_mem, c, w)
    BY <1>4, <1>5, <1>7 DEF ReadsegLoop
  <1>9. c.p_filesz =< w /\ MEMSIZE \in Nat
    BY <1>1, <1>6, <1>8, BootFacts
  <1>10. SegmentLoaded(boot_mem', c)
    <2> SUFFICES ASSUME NEW j \in 0 .. c.p_memsz - 1
                 PROVE  boot_mem'[c.p_va + j] = IF j < c.p_filesz THEN c.p_offset + j ELSE Zero
      BY DEF SegmentLoaded
    <2>1. PICK a \in 0 .. MEMSIZE - 1 : a = c.p_va + j
      BY <1>6, <1>9
    <2>2. CASE j < c.p_filesz
      <3>1. a \notin end_ptr .. memsz - 1 /\ j < w
        BY <1>6, <1>8, <1>9, <2>1, <2>2
      <3>2. boot_mem[a] = c.p_offset + j
        BY <1>8, <2>1, <3>1 DEF CopiedCells
      <3> QED  BY <1>2, <2>1, <2>2, <3>1, <3>2
    <2>3. CASE ~(j < c.p_filesz)
      <3>1. a \in end_ptr .. memsz - 1
        BY <1>6, <1>8, <2>1, <2>3
      <3> QED  BY <1>2, <2>1, <2>3, <3>1
    <2> QED  BY <2>2, <2>3
  <1>11. \A a \in 0 .. MEMSIZE - 1 : a < cur.p_va \/ cur.p_memsz = 0 => boot_mem'[a] = boot_mem[a]
    <2> SUFFICES ASSUME NEW a \in 0 .. MEMSIZE - 1, a < c.p_va \/ c.p_memsz = 0
                 PROVE  boot_mem'[a] = boot_mem[a]
      BY <1>5
    <2>1. a \notin end_ptr .. memsz - 1
      BY <1>6, <1>8
    <2> QED  BY <1>2, <2>1
  <1>12. /\ \A a \in LoaderArea : boot_mem'[a] = Stale
         /\ ph # 0 => /\ \A k \in 0 .. PAGESIZE - 1 : boot_mem'[ELFHDR + k] = k
                      /\ LoadedUpTo(boot_mem', kernel_image, (ph - PAGESIZE) - 1)
    BY <1>3, <1>11, BelowKept
  <1>13. BootMemory'
    BY <1>2, <1>12 DEF BootMemory, LoaderArea
  <1>14. CASE ph = 0
    <2>1. c = elf_program(ELF_PTYPE_LOAD, 0, PAGESIZE, PAGESIZE, PAGESIZE)
      BY <1>5, <1>14 DEF cur, ELFHDR
    <2>2. c.p_va = PAGESIZE /\ c.p_offset = 0 /\ c.p_filesz = PAGESIZE /\ c.p_memsz = PAGESIZE
      BY <2>1 DEF elf_program
    <2>3. \A k \in 0 .. PAGESIZE - 1 : boot_mem'[PAGESIZE + k] = k
      BY <1>10, <2>2, BootFacts DEF SegmentLoaded
    <2>4. HeadersKept' /\ ph' = 0
      BY <1>1, <1>14, <2>3 DEF HeadersKept, ELFHDR
    <2> QED  BY <1>13, <2>4 DEF BootHeader
  <1>15. CASE ph # 0
    <2>1. PICK i : i = ph - PAGESIZE
      OBVIOUS
    <2>2. i \in 1 .. Len(kernel_image.ph) /\ c = kernel_image.ph[i]
      BY <1>3, <1>5, <1>15, <2>1 DEF BootInv, BootReads, cur
    <2>3. /\ ph \in Nat /\ ph # 0 /\ eph = PAGESIZE + 1 + Len(kernel_image.ph)
          /\ kernel_image.e_magic /\ Len(kernel_image.ph) \in Nat /\ PAGESIZE \in Nat
      BY <1>15, BootFacts DEF BootInv, BootHeader, BootImage, WellFormed
    <2>4. ph' = ph + 1 /\ ph' - PAGESIZE = i + 1 /\ i \in Nat
      BY <1>1, <1>15, <2>1, <2>2, <2>3
    <2>5. LoadedUpTo(boot_mem', kernel_image, i)
      <3> SUFFICES ASSUME NEW k \in 1 .. i, kernel_image.ph[k].p_type = ELF_PTYPE_LOAD
                   PROVE  SegmentLoaded(boot_mem', kernel_image.ph[k])
        BY DEF LoadedUpTo
      <3>1. CASE k = i
        BY <1>10, <2>2, <3>1
      <3>2. CASE k # i
        <4>1. k \in 1 .. i - 1
          BY <2>4, <3>2
        <4>2. LoadedUpTo(boot_mem', kernel_image, i - 1)
          BY <1>12, <1>15, <2>1
        <4> QED  BY <4>1, <4>2 DEF LoadedUpTo
      <3> QED  BY <3>1, <3>2
    <2>6. HeadersKept'
      BY <1>12, <1>15 DEF HeadersKept, ELFHDR
    <2>7. /\ ph' - PAGESIZE \in 1 .. Len(kernel_image.ph) + 1 /\ ph' \in Nat /\ ph' # 0
          /\ (ph' - PAGESIZE) - 1 = i
      BY <2>2, <2>3, <2>4
    <2>8. BootHeader'
      BY <1>1, <2>3, <2>5, <2>6, <2>7 DEF BootHeader
    <2> QED  BY <1>13, <1>15, <2>8
  <1> QED  BY <1>13, <1>14, <1>15

\* The number of the sector being read fits into the registers.
LEMMA SectorBound ==
    ASSUME BootSizes, BootInv, InReadseg, ptr < end_ptr
    PROVE  src_sect \in Nat /\ src_sect < BYTE * BYTE * BYTE * BYTE
  <1>1. PICK S \in Nat \ {0} : S = SECTORSIZE
    BY BootFacts
  <1>2. PICK n \in Nat : ReadsegLoop(n)
    BY DEF BootInv, BootReads
  <1>3. PICK va0 \in Nat, off \in Nat, fsz \in Nat :
           va0 = cur.p_va /\ off = cur.p_offset /\ fsz = cur.p_filesz
           /\ off % S = 0 /\ off + fsz =< FILESIZE
    <2>1. /\ cur.p_va \in Nat /\ cur.p_offset \in Nat /\ cur.p_memsz \in Nat
          /\ cur.p_filesz \in 0 .. cur.p_memsz /\ cur.p_offset % SECTORSIZE = 0
          /\ cur.p_offset + cur.p_filesz =< FILESIZE
      BY CurReadable DEF Readable
    <2>2. cur.p_filesz \in Nat
      BY <2>1
    <2> QED  BY <1>1, <2>1, <2>2
  <1>4. va0 + n * S < va0 + fsz /\ src_sect = (off \div S) + 1 + n
    BY <1>1, <1>2, <1>3 DEF ReadsegLoop
  <1>5. PICK o \in Nat : o = off \div S /\ off = o * S
    BY <1>1, <1>3, Quotient
  <1>6. (o + n) * S = o * S + n * S /\ n * S \in Nat
    BY <1>1
  <1>7. PICK B4 \in Nat : B4 = BYTE * BYTE * BYTE * BYTE
    BY DEF BootSizes
  <1>8. FILESIZE \in Nat /\ FILESIZE =< (B4 - 1) * S
    BY <1>1, <1>7, BootFacts DEF BootSizes
  <1>9. (o + n) * S < (B4 - 1) * S
    BY <1>3, <1>4, <1>5, <1>6, <1>8
  <1>10. o + n < B4 - 1
    BY <1>1, <1>7, <1>9, LessFactor
  <1> QED  BY <1>4, <1>5, <1>7, <1>10

LEMMA BootInitInv == BootSizes /\ BootInit => BootInv
  <1> SUFFICES ASSUME BootSizes, BootInit  PROVE BootInv
    OBVIOUS
  <1>1. BootImage
    BY BootImagesOK DEF BootInit, BootImage, BootSizes
  <1>2. BootMemory
    <2>1. LoaderArea \subseteq 0 .. MEMSIZE - 1
      BY BootFacts DEF LoaderArea
    <2> QED  BY <2>1, BootFacts DEF BootInit, BootMemory
  <1>3. /\ ph = 0 /\ end_ptr = PAGESIZE + PAGESIZE /\ memsz = PAGESIZE + PAGESIZE
        /\ ptr = PAGESIZE /\ src_sect = 1 /\ boot_pc = "readseg" /\ kernel_rip = Stale
    BY DEF BootInit, ELFHDR
  <1>4. cur = elf_program(ELF_PTYPE_LOAD, 0, PAGESIZE, PAGESIZE, PAGESIZE)
    BY <1>3 DEF cur, ELFHDR
  <1>5. cur.p_va = PAGESIZE /\ cur.p_offset = 0 /\ cur.p_filesz = PAGESIZE /\ cur.p_memsz = PAGESIZE
    BY <1>4 DEF elf_program
  <1>6. 0 \div SECTORSIZE = 0 /\ 0 * SECTORSIZE = 0
    BY BootFacts
  <1>7. ReadsegLoop(0)
    BY <1>3, <1>5, <1>6, BootFacts DEF ReadsegLoop, CopiedCells
  <1> QED  BY <1>1, <1>2, <1>3, <1>7
           DEF BootInv, BootHeader, BootReads, BootDisk, BootPc, InReadseg

\* The sector arrives.
LEMMA DataInv ==
    ASSUME BootSizes, BootInv, boot_readsect_data
    PROVE  BootInv'
  <1>1. BootMemory' /\ BootHeader' /\ \E n \in Nat : ReadsegLoop(n)'
    BY SectorCopied
  <1>2. /\ boot_pc = "data" /\ boot_pc' = "readseg"
        /\ UNCHANGED <<kernel_image, ph, eph, kernel_rip>>
    BY DEF boot_readsect_data
  <1>3. BootImage' /\ BootReads' /\ BootDisk' /\ BootPc'
    BY <1>1, <1>2 DEF BootInv, BootImage, BootReads, BootDisk, BootPc, InReadseg
  <1> QED  BY <1>1, <1>3 DEF BootInv

\* The end of a segment.
LEMMA ClearInv ==
    ASSUME BootSizes, BootInv, boot_readseg_clear
    PROVE  BootInv'
  <1>1. BootMemory' /\ BootHeader' /\ (ph = 0 => HeadersKept')
    BY SegmentCleared
  <1>2. /\ boot_pc = "readseg" /\ boot_pc' = (IF ph = 0 THEN "magic" ELSE "walk")
        /\ ph' = (IF ph = 0 THEN 0 ELSE ph + 1) /\ UNCHANGED <<kernel_image, kernel_rip>>
    BY DEF boot_readseg_clear
  <1>3. ph # 0 => ph' # 0
    BY <1>2 DEF BootInv, BootHeader
  <1>4. BootImage' /\ BootReads' /\ BootDisk'
    BY <1>2 DEF BootInv, BootImage, BootReads, BootDisk, InReadseg
  <1>5. BootPc'
    BY <1>1, <1>2, <1>3 DEF BootInv, BootPc, InReadseg
  <1> QED  BY <1>1, <1>4, <1>5 DEF BootInv

\* The next header, read from the scratch page, is the image's.
LEMMA SegmentInv ==
    ASSUME BootSizes, BootInv, boot_segment
    PROVE  BootInv'
  <1>1. /\ boot_pc = "walk" /\ ph < eph
        /\ boot_readseg(program_header.p_va, (program_header.p_offset \div SECTORSIZE) + 1,
                        program_header.p_filesz, program_header.p_memsz)
        /\ UNCHANGED <<kernel_image, boot_mem, disk, ph, eph, kernel_rip>>
    BY DEF boot_segment
  <1>2. /\ ph \in Nat /\ ph # 0 /\ eph = PAGESIZE + 1 + Len(kernel_image.ph) /\ HeadersKept
        /\ ph - PAGESIZE \in 1 .. Len(kernel_image.ph) + 1
    BY <1>1 DEF BootInv, BootHeader, BootPc
  <1>3. /\ Len(kernel_image.ph) \in Nat /\ Len(kernel_image.ph) =< 3 /\ kernel_image.e_phoff = 1
        /\ DOMAIN kernel_image.ph = 1 .. Len(kernel_image.ph)
    BY DEF BootInv, BootImage, WellFormed, Linked
  <1>4. PICK i \in 1 .. Len(kernel_image.ph) : i = ph - PAGESIZE
    BY <1>1, <1>2, <1>3, BootFacts, SMTT(60)
  <1>5. i \in 0 .. PAGESIZE - 1 /\ ph = PAGESIZE + i
    <2>1. i \in Nat /\ i =< 3
      BY <1>3, <1>4
    <2>2. PAGESIZE \in Nat /\ PAGESIZE >= 4
      BY BootFacts
    <2> QED  BY <1>2, <1>4, <2>1, <2>2
  <1>6. boot_mem[ph] = i
    BY <1>2, <1>5 DEF HeadersKept, ELFHDR
  <1>7. boot_mem[ph] - kernel_image.e_phoff + 1 = i
    BY <1>3, <1>4, <1>6
  <1>8. program_header = kernel_image.ph[i]
    BY <1>3, <1>4, <1>7 DEF program_header
  <1>9. cur = program_header /\ cur' = cur
    BY <1>1, <1>2, <1>4, <1>8 DEF cur
  <1>10. Readable(cur)
    BY <1>8, <1>9, HeaderReadable DEF BootInv
  <1>11. /\ end_ptr' = cur.p_va + cur.p_filesz /\ memsz' = cur.p_va + cur.p_memsz
         /\ ptr' = ROUNDDOWN(cur.p_va, SECTORSIZE)
         /\ src_sect' = (cur.p_offset \div SECTORSIZE) + 1
         /\ boot_pc' = "readseg"
    BY <1>1, <1>9 DEF boot_readseg
  <1>12. SECTORSIZE \in Nat \ {0} /\ cur.p_va \in Nat /\ cur.p_va % SECTORSIZE = 0
         /\ cur.p_offset \in Nat /\ cur.p_offset % SECTORSIZE = 0
    BY <1>10, BootFacts DEF Readable
  <1>13. ROUNDDOWN(cur.p_va, SECTORSIZE) = cur.p_va /\ cur.p_offset \div SECTORSIZE \in Nat
    BY <1>12, RoundDown, Quotient
  <1>14. /\ ptr' = cur.p_va + 0 * SECTORSIZE
         /\ src_sect' = (cur.p_offset \div SECTORSIZE) + 1 + 0
         /\ 0 * SECTORSIZE = 0
    BY <1>11, <1>12, <1>13
  <1>15. ReadsegLoop(0)'
    BY <1>9, <1>11, <1>14 DEF ReadsegLoop, CopiedCells
  <1>16. BootReads'
    BY <1>1, <1>4, <1>15 DEF BootReads
  <1>17. BootImage' /\ BootMemory' /\ BootHeader' /\ BootDisk' /\ BootPc'
    BY <1>1, <1>11
       DEF BootInv, BootImage, BootMemory, BootHeader, BootDisk, BootPc, HeadersKept, InReadseg
  <1> QED  BY <1>16, <1>17 DEF BootInv

\* The disk answers.
LEMMA DiskInv ==
    ASSUME BootSizes, BootInv, DiskReadies
    PROVE  BootInv'
  <1>1. /\ status' = {DRDY} /\ lba' = lba
        /\ buffer' = (IF lba = <<>> THEN buffer ELSE Decoded(lba))
        /\ UNCHANGED <<kernel_image, boot_mem, boot_pc, ph, eph, kernel_rip>>
        /\ UNCHANGED <<ptr, end_ptr, memsz, src_sect>>
    BY DEF DiskReadies, Decoded, seg
  <1>2. BootDisk'
    <2> SUFFICES ASSUME boot_pc = "data"  PROVE lba = outb_sector(src_sect) /\ buffer' = src_sect
      BY <1>1 DEF BootDisk
    <2>1. InReadseg /\ lba = outb_sector(src_sect)
      BY DEF InReadseg, BootInv, BootDisk
    <2>2. ptr < end_ptr
      BY <2>1 DEF BootInv, BootReads, ReadsegLoop
    <2>3. src_sect \in Nat /\ src_sect < BYTE * BYTE * BYTE * BYTE /\ BYTE \in Nat \ {0}
      BY <2>1, <2>2, SectorBound DEF BootSizes
    <2>4. Decoded(outb_sector(src_sect)) = src_sect
      BY <2>3, SectorNumber
    <2>5. outb_sector(src_sect) # <<>>
      BY DEF outb_sector
    <2> QED  BY <1>1, <2>1, <2>4, <2>5
  <1>3. InReadseg' = InReadseg /\ cur' = cur /\ \A n \in Nat : ReadsegLoop(n)' = ReadsegLoop(n)
    BY <1>1 DEF InReadseg, cur, ReadsegLoop
  <1>4. BootImage' /\ BootMemory' /\ BootHeader' /\ BootReads' /\ BootPc'
    BY <1>1, <1>3
       DEF BootInv, BootImage, BootMemory, BootHeader, BootReads, BootPc, HeadersKept, InReadseg
  <1> QED  BY <1>2, <1>4 DEF BootInv

\* Every step of boot and of the disk.
LEMMA BootNextInv ==
    ASSUME BootSizes, BootInv, [BootNext]_bootVars
    PROVE  BootInv'
  <1>1. CASE boot_readsect_command
    <2>1. /\ boot_pc = "readsect" /\ boot_pc' = "data" /\ lba' = outb_sector(src_sect)
          /\ status' \in {{BSY}, {BSY, DRDY}}
          /\ UNCHANGED <<kernel_image, boot_mem, ph, eph, kernel_rip>>
          /\ UNCHANGED <<ptr, end_ptr, memsz, src_sect>>
      BY <1>1 DEF boot_readsect_command, boot_waitdisk, seg
    <2>2. status' # {DRDY}
      BY <2>1 DEF BSY, DRDY
    <2>3. cur' = cur /\ \A n \in Nat : ReadsegLoop(n) => ReadsegLoop(n)'
      BY <2>1 DEF cur, ReadsegLoop
    <2>4. BootDisk' /\ BootReads'
      BY <2>1, <2>2, <2>3 DEF BootInv, BootDisk, BootReads, InReadseg
    <2>5. BootImage' /\ BootMemory' /\ BootHeader' /\ BootPc'
      BY <2>1 DEF BootInv, BootImage, BootMemory, BootHeader, BootPc, HeadersKept, InReadseg
    <2> QED  BY <2>4, <2>5 DEF BootInv
  <1>2. CASE boot_readsect_data
    BY <1>2, DataInv
  <1>3. CASE boot_readseg_sector
    <2>1. /\ boot_pc = "readseg" /\ boot_pc' = "readsect" /\ ptr < end_ptr
          /\ UNCHANGED <<kernel_image, boot_mem, ph, eph, kernel_rip>>
          /\ UNCHANGED <<ptr, end_ptr, memsz, src_sect>>
      BY <1>3 DEF boot_readseg_sector, readseg_more, seg
    <2>2. cur' = cur /\ \A n \in Nat : ReadsegLoop(n) => ReadsegLoop(n)'
      BY <2>1 DEF cur, ReadsegLoop
    <2>3. BootDisk' /\ BootReads'
      BY <2>1, <2>2 DEF BootInv, BootDisk, BootReads, InReadseg
    <2>4. BootImage' /\ BootMemory' /\ BootHeader' /\ BootPc'
      BY <2>1 DEF BootInv, BootImage, BootMemory, BootHeader, BootPc, HeadersKept, InReadseg
    <2> QED  BY <2>3, <2>4 DEF BootInv
  <1>4. CASE boot_readseg_clear
    BY <1>4, ClearInv
  <1>5. CASE boot_start
    <2>1. /\ boot_pc = "magic" /\ kernel_image.e_magic /\ boot_pc' = "walk"
          /\ ph' = ELFHDR + kernel_image.e_phoff
          /\ eph' = ELFHDR + kernel_image.e_phoff + Len(kernel_image.ph)
          /\ UNCHANGED <<kernel_image, boot_mem, kernel_rip>>
      BY <1>5 DEF boot_start, e_magic
    <2>2. /\ kernel_image.e_phoff = 1 /\ Len(kernel_image.ph) \in Nat /\ PAGESIZE \in Nat
          /\ HeadersKept
      BY <2>1, BootFacts DEF BootInv, BootImage, WellFormed, Linked, BootPc
    <2>3. /\ ph' - PAGESIZE = 1 /\ 1 \in 1 .. Len(kernel_image.ph) + 1 /\ ph' \in Nat /\ ph' # 0
          /\ eph' = PAGESIZE + 1 + Len(kernel_image.ph)
      BY <2>1, <2>2 DEF ELFHDR
    <2>4. LoadedUpTo(boot_mem, kernel_image, 1 - 1)
      BY DEF LoadedUpTo
    <2>5. BootHeader'
      BY <2>1, <2>2, <2>3, <2>4 DEF BootHeader, HeadersKept
    <2>6. BootImage' /\ BootMemory' /\ BootReads' /\ BootDisk' /\ BootPc'
      BY <2>1, <2>3
         DEF BootInv, BootImage, BootMemory, BootReads, BootDisk, BootPc, InReadseg
    <2> QED  BY <2>5, <2>6 DEF BootInv
  <1>6. CASE boot_segment
    BY <1>6, SegmentInv
  <1>7. CASE boot_enter
    <2>1. /\ boot_pc = "walk" /\ ph >= eph /\ kernel_rip' = e_entry /\ boot_pc' = "kernel"
          /\ UNCHANGED <<kernel_image, boot_mem, ph, eph>>
      BY <1>7 DEF boot_enter
    <2>2. /\ ph \in Nat /\ ph # 0 /\ eph = PAGESIZE + 1 + Len(kernel_image.ph) /\ HeadersKept
          /\ ph - PAGESIZE \in 1 .. Len(kernel_image.ph) + 1 /\ Len(kernel_image.ph) \in Nat
          /\ PAGESIZE \in Nat /\ PAGESIZE >= 4
      BY <2>1, BootFacts DEF BootInv, BootHeader, BootPc, BootImage, WellFormed
    <2>3. ph - PAGESIZE = Len(kernel_image.ph) + 1
      <3>1. PICK l \in Nat : l = Len(kernel_image.ph)
        BY <2>2
      <3>2. ph >= PAGESIZE + 1 + l /\ ph - PAGESIZE \in 1 .. l + 1 /\ ph \in Nat /\ PAGESIZE \in Nat
        BY <2>1, <2>2, <3>1
      <3>3. PICK d \in Int : d = ph - PAGESIZE
        BY <3>2
      <3>4. d = l + 1
        BY <3>2, <3>3
      <3> QED  BY <3>1, <3>3, <3>4
    <2>4. boot_mem[ELFHDR + 0] = 0 /\ ELFHDR + 0 = ELFHDR
      BY <2>2 DEF HeadersKept, ELFHDR
    <2>5. kernel_rip' = kernel_image.e_entry
      BY <2>1, <2>4 DEF e_entry
    <2>6. BootPc'
      BY <2>1, <2>2, <2>3, <2>5 DEF BootPc
    <2>7. BootImage' /\ BootMemory' /\ BootHeader' /\ BootReads' /\ BootDisk'
      BY <2>1
         DEF BootInv, BootImage, BootMemory, BootHeader, BootReads, BootDisk, HeadersKept, InReadseg
    <2> QED  BY <2>6, <2>7 DEF BootInv
  <1>8. CASE DiskReadies
    BY <1>8, DiskInv
  <1>9. CASE Spin \/ UNCHANGED bootVars
    <2>1. /\ UNCHANGED <<kernel_image, boot_mem, status, lba, buffer, boot_pc, ph, eph, kernel_rip>>
          /\ UNCHANGED <<ptr, end_ptr, memsz, src_sect>>
      BY <1>9 DEF Spin, bootVars
    <2>2. cur' = cur /\ \A n \in Nat : ReadsegLoop(n) => ReadsegLoop(n)'
      BY <2>1 DEF cur, ReadsegLoop
    <2>3. BootReads'
      BY <2>1, <2>2 DEF BootInv, BootReads, InReadseg
    <2>4. BootImage' /\ BootMemory' /\ BootHeader' /\ BootDisk' /\ BootPc'
      BY <2>1
         DEF BootInv, BootImage, BootMemory, BootHeader, BootDisk, BootPc, HeadersKept, InReadseg
    <2> QED  BY <2>3, <2>4 DEF BootInv
  <1> QED  BY <1>1, <1>2, <1>3, <1>4, <1>5, <1>6, <1>7, <1>8, <1>9 DEF BootNext, Boot

\* Whenever boot jumps to a kernel, every segment of it is in memory, .bss
\* cleared, and the jump leads to its entry point, though whole sectors are
\* read over the end of a segment and the disk answers when it likes; the
\* headers in the scratch page survive until they are used and the loader's
\* own page is never written: for every page and sector size and every size
\* of the segments.
THEOREM KernelAlwaysLoaded == ASSUME BootSizes PROVE BootSpec => []KernelLoaded
  <1>1. BootInit => BootInv
    BY BootInitInv
  <1>2. BootInv /\ [BootNext]_bootVars => BootInv'
    BY BootNextInv
  <1>3. BootInv => KernelLoaded
    <2> SUFFICES ASSUME BootInv  PROVE KernelLoaded
      OBVIOUS
    <2>1. ASSUME kernel_rip # Stale
          PROVE  /\ kernel_image.e_magic /\ kernel_rip = kernel_image.e_entry
                 /\ ImageLoaded(boot_mem, kernel_image)
      <3>1. boot_pc = "kernel"
        BY <2>1 DEF BootInv, BootPc
      <3>2. /\ ph # 0 /\ ph - PAGESIZE = Len(kernel_image.ph) + 1
            /\ kernel_rip = kernel_image.e_entry /\ Len(kernel_image.ph) \in Nat
            /\ DOMAIN kernel_image.ph = 1 .. Len(kernel_image.ph)
        BY <3>1 DEF BootInv, BootPc, BootImage, WellFormed
      <3>3. /\ kernel_image.e_magic
            /\ LoadedUpTo(boot_mem, kernel_image, (ph - PAGESIZE) - 1)
        BY <3>2 DEF BootInv, BootHeader
      <3>4. (ph - PAGESIZE) - 1 = Len(kernel_image.ph)
        BY <3>2
      <3> QED  BY <3>2, <3>3, <3>4 DEF ImageLoaded, LoadedUpTo
    <2>2. boot_pc \in {"magic", "walk"} => HeadersKept
      BY DEF BootInv, BootPc, BootHeader
    <2>3. \A a \in LoaderArea : boot_mem[a] = Stale
      BY DEF BootInv, BootMemory
    <2> QED  BY <2>1, <2>2, <2>3 DEF KernelLoaded, HeadersKept
  <1> QED  BY <1>1, <1>2, <1>3, PTL DEF BootSpec
=============================================================================
