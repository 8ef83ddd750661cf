-------------------------------- MODULE Lib --------------------------------
(***************************************************************************)
(* The memory and string routines of lib.c, which the kernel and the       *)
(* programs share.  A behaviour is one call on an arbitrary small memory.  *)
(* Each routine is translated loop by loop: an iteration is one value of a *)
(* recursive function.  A char is the byte it is stored as; it is negative *)
(* as a (signed) char when its top bit is set.                             *)
(***************************************************************************)
EXTENDS Integers, FiniteSets, FiniteSetsExt

CONSTANTS MEMORY,       \* bytes of memory
          BYTE          \* values of a byte: 256

VARIABLES mem,          \* memory
          before,       \* memory when the call was made
          call,         \* the routine and its arguments
          ret           \* what it returned

vars == <<mem, before, call, ret>>

Addr  == 0 .. MEMORY - 1
Byte  == 0 .. BYTE - 1
NUL   == 0
NULL  == -1
NoCall == [f |-> "none", a |-> 0, b |-> 0, n |-> 0]

\* (char) of an int that does not fit
Char(i) == i % BYTE

IsString(m, s) == \E e \in s .. MEMORY - 1 : m[e] = NUL
Fits(a, n)     == a + n <= MEMORY
Touches(dst, src, n) == src < dst /\ src + n > dst

-----------------------------------------------------------------------------
(* The loops.  m is memory; step k of a loop is the memory after it.       *)

CopyUp(m, dst, src, n) ==
    LET after[k \in 0 .. n] ==
          IF k = 0 THEN m
          ELSE [after[k - 1] EXCEPT ![dst + k - 1] = after[k - 1][src + k - 1]]
    IN  after[n]

CopyDown(m, dst, src, n) ==
    LET after[k \in 0 .. n] ==
          IF k = 0 THEN m
          ELSE [after[k - 1] EXCEPT ![dst + n - k] = after[k - 1][src + n - k]]
    IN  after[n]

memcpy(m, dst, src, n) == CopyUp(m, dst, src, n)

memmove_only_up(m, dst, src, n) == CopyUp(m, dst, src, n)
memmove(m, dst, src, n) ==
    IF Touches(dst, src, n) THEN CopyDown(m, dst, src, n)
    ELSE CopyUp(m, dst, src, n)

memset(m, v, c, n) ==
    LET after[k \in 0 .. n] ==
          IF k = 0 THEN m
          ELSE [after[k - 1] EXCEPT ![v + k - 1] = Char(c)]
    IN  after[n]

strlen(m, str) ==
    LET count[s \in str .. MEMORY - 1] ==
          IF m[s] # NUL THEN 1 + count[s + 1] ELSE 0
    IN  count[str]

\* n bytes were counted; the byte after the last one is not looked at.
strnlen(m, str, maxlen) ==
    LET count[n \in 0 .. maxlen] ==
          IF n # maxlen /\ m[str + n] # NUL THEN count[n + 1] ELSE n
    IN  count[0]

\* The loop ends with the NUL it copies, which is the source's: Strcpy leaves
\* out copies into the source, the only ones that overwrite bytes still to
\* be read.
strcpy(m, dst, src) == CopyUp(m, dst, src, strlen(m, src) + 1)

strcmp(m, a, b) ==
    LET same[k \in 0 .. MEMORY - 1] ==
          IF m[a + k] # NUL /\ m[b + k] # NUL /\ m[a + k] = m[b + k]
          THEN same[k + 1] ELSE k
        x == m[a + same[0]]
        y == m[b + same[0]]
    IN  (IF x > y THEN 1 ELSE 0) - (IF x < y THEN 1 ELSE 0)

strchr(m, str, c) ==
    LET find[s \in str .. MEMORY - 1] ==
          IF m[s] # NUL /\ m[s] # Char(c) THEN find[s + 1] ELSE s
    IN  IF m[find[str]] = Char(c) THEN find[str] ELSE NULL

-----------------------------------------------------------------------------
Init ==
    /\ mem \in [Addr -> Byte]
    /\ before = mem
    /\ call = NoCall
    /\ ret = 0

\* One call of routine f: memory becomes m, r is returned.
Call(f, a, b, n, m, r) ==
    /\ call = NoCall
    /\ call' = [f |-> f, a |-> a, b |-> b, n |-> n]
    /\ mem' = m
    /\ ret' = r
    /\ UNCHANGED before

Memcpy == \E dst, src \in Addr, n \in 0 .. MEMORY :
    /\ Fits(dst, n) /\ Fits(src, n)
    /\ Call("memcpy", dst, src, n, memcpy(mem, dst, src, n), dst)

Memmove == \E dst, src \in Addr, n \in 0 .. MEMORY :
    /\ Fits(dst, n) /\ Fits(src, n)
    /\ Call("memmove", dst, src, n, memmove(mem, dst, src, n), dst)

Memset == \E v \in Addr, c \in 0 .. BYTE, n \in 0 .. MEMORY :
    /\ Fits(v, n)
    /\ Call("memset", v, c, n, memset(mem, v, c, n), v)

Strlen == \E s \in Addr :
    /\ IsString(mem, s)
    /\ Call("strlen", s, 0, 0, mem, strlen(mem, s))

\* The bytes need no NUL when there are maxlen of them.
Strnlen == \E s \in Addr, maxlen \in 0 .. MEMORY :
    /\ IsString(mem, s) \/ Fits(s, maxlen)
    /\ Call("strnlen", s, 0, maxlen, mem, strnlen(mem, s, maxlen))

Strcpy == \E dst, src \in Addr :
    /\ IsString(mem, src)
    /\ Fits(dst, strlen(mem, src) + 1)
    /\ ~Touches(dst, src, strlen(mem, src) + 1)
    /\ Call("strcpy", dst, src, 0, strcpy(mem, dst, src), dst)

Strcmp == \E a, b \in Addr :
    /\ IsString(mem, a) /\ IsString(mem, b)
    /\ Call("strcmp", a, b, 0, mem, strcmp(mem, a, b))

Strchr == \E s \in Addr, c \in 0 .. BYTE + 1 :
    /\ IsString(mem, s)
    /\ Call("strchr", s, c, 0, mem, strchr(mem, s, c))

Next == Memcpy \/ Memmove \/ Memset \/ Strlen \/ Strnlen \/ Strcpy \/ Strcmp
        \/ Strchr
Spec == Init /\ [][Next]_vars

-----------------------------------------------------------------------------
(* Reference: what the C standard says of the same calls, without loops.   *)

Called(f) == call.f = f
TheString(s) == LET e == Min({x \in s .. MEMORY - 1 : before[x] = NUL})
                IN  {x \in Addr : s <= x /\ x < e}
Moved(dst, src, n) ==
    [x \in Addr |-> IF x \in dst .. dst + n - 1 THEN before[src + (x - dst)]
                    ELSE before[x]]

(* memmove copies the bytes as they were before the call however source    *)
(* and destination overlap, memcpy when the destination does not begin     *)
(* inside the source, and memset stores its argument as a byte; nothing    *)
(* outside the destination changes.                                        *)
BytesMoved ==
    /\ Called("memmove") => mem = Moved(call.a, call.b, call.n)
    /\ Called("memcpy") /\ ~Touches(call.a, call.b, call.n)
          => mem = Moved(call.a, call.b, call.n)
    /\ Called("memset")
          => \A x \in Addr :
                mem[x] = IF x \in call.a .. call.a + call.n - 1
                         THEN call.b % BYTE ELSE before[x]

(* strcpy makes an equal string with its NUL and changes nothing else.     *)
StringCopied ==
    Called("strcpy") =>
        mem = Moved(call.a, call.b, Cardinality(TheString(call.b)) + 1)

(* strlen and strnlen count the bytes before the NUL, at most maxlen, and  *)
(* strchr finds the first byte that equals its argument as a char, the NUL *)
(* included.                                                               *)
StringMeasured ==
    /\ Called("strlen") => ret = Cardinality(TheString(call.a))
    /\ Called("strnlen") =>
          /\ ret <= call.n
          /\ \A x \in call.a .. call.a + ret - 1 : before[x] # NUL
          /\ ret = call.n \/ before[call.a + ret] = NUL
    /\ Called("strchr") =>
          LET places == {x \in call.a .. call.a + Cardinality(TheString(call.a)) :
                            before[x] = call.b % BYTE}
          IN  ret = IF places = {} THEN NULL ELSE Min(places)

(* strcmp is the dictionary order of unsigned bytes: the sign is that of   *)
(* the first difference and 0 means the strings are equal.                 *)
StringsOrdered ==
    Called("strcmp") =>
        LET A == TheString(call.a)
            B == TheString(call.b)
            len == Min({Cardinality(A), Cardinality(B)})
            diff == {k \in 0 .. len : before[call.a + k] # before[call.b + k]}
        IN  IF diff = {} THEN ret = 0
            ELSE LET d == Min(diff)
                 IN  ret = IF before[call.a + d] < before[call.b + d] THEN -1
                           ELSE 1

(* All routines agree with what C says of them.                            *)
RoutinesCorrect == BytesMoved /\ StringCopied /\ StringMeasured /\ StringsOrdered
=============================================================================
