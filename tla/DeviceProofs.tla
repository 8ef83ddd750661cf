---------------------------- MODULE DeviceProofs ----------------------------
(***************************************************************************)
(* The devices the kernel talks to byte by byte, and the pictures it shows *)
(* and logs in time.                                                       *)
(*                                                                         *)
(* log.txt is complete but for the characters on which                     *)
(* parallel_port_putc gave up, whatever the host does and however many     *)
(* polls and characters there are.  The invariant follows one character:   *)
(* the strobe is low before its data is written, so that raising it is an  *)
(* edge; a character that was not given up on meets a host that is ready,  *)
(* because a ready host stays so until the next edge.                      *)
(*                                                                         *)
(* keyboard_readc reads every byte as it was typed and no modifier gets    *)
(* stuck, for every set of keys that are engraved as keymap has them and a *)
(* queue of any size.  The invariant replays the queue: reading it from    *)
(* the driver's state leads through states in which every byte is read as  *)
(* its note says, to the modifiers in force.                               *)
(*                                                                         *)
(* The display and the dumps keep time, for every timer rate, every number *)
(* of process slots and every modulus of the tick counter.  The picture:   *)
(* what was shown last is where the search starts, and the unsigned        *)
(* difference of ticks is at most the timer interrupts that were counted   *)
(* since the last switch, also across a wrap of the counter.  The dumps:   *)
(* ticks never goes beyond the limit, so that it counts every second once; *)
(* the log has a dump for each second that has begun.                      *)
(***************************************************************************)
EXTENDS LogPort, Keyboard, MemShow, SequenceTheorems, WellFoundedInduction, TLAPS

-----------------------------------------------------------------------------
(* parallel_port_putc *)

PortTypeOK ==
    /\ ready \in BOOLEAN /\ strobe \in BOOLEAN /\ initialized \in BOOLEAN
    /\ next \in Nat \ {0} /\ data \in Nat
    /\ log \in Seq(Nat)
    /\ tries \in 0 .. TRIES
    /\ port_pc \in {"call", "poll", "strobe", "release"}

\* The strobe is low until the data has been written.
StrobeLow ==
    /\ port_pc \in {"poll", "strobe"} => ~strobe
    /\ port_pc = "call" /\ initialized => ~strobe

\* Before the strobe the host is offered the character, and takes it unless
\* putc gave up waiting.
Offered == port_pc = "strobe" => data = next /\ (next \notin timeouts => ready)

Increasing == \A j, k \in DOMAIN log : j < k => log[j] < log[k]

\* The character putc is called with is in the log from the strobe on at most.
UpToNext ==
    \A k \in DOMAIN log : log[k] < next \/ (port_pc = "release" /\ log[k] = next)

Taken(c) == \E k \in DOMAIN log : log[k] = c
AllTaken ==
    /\ \A c \in 1 .. next - 1 : c \notin timeouts => Taken(c)
    /\ port_pc = "release" /\ next \notin timeouts => Taken(next)

LogInv == PortTypeOK /\ StrobeLow /\ Offered /\ Increasing /\ UpToNext /\ AllTaken

\* A step that leaves the log alone and the characters it is to have.
LEMMA LogKept ==
    ASSUME LogInv, UNCHANGED <<log, next>>, port_pc' # "release",
           port_pc # "release", timeouts \subseteq timeouts'
    PROVE  Increasing' /\ UpToNext' /\ AllTaken'
  BY DEF LogInv, Increasing, UpToNext, AllTaken, Taken

\* putc has not been called yet, whatever strobe the BIOS left.
LEMMA InitLog == TRIES \in Nat /\ LogInit => LogInv
  <1> SUFFICES ASSUME TRIES \in Nat, LogInit  PROVE LogInv
    OBVIOUS
  <1>1. log = <<>> /\ next = 1 /\ tries = 0 /\ port_pc = "call" /\ initialized = FALSE /\ data = 0
    BY DEF LogInit
  <1>2. DOMAIN log = {} /\ log \in Seq(Nat)
    BY <1>1
  <1>3. ready \in BOOLEAN /\ strobe \in BOOLEAN /\ initialized \in BOOLEAN
    BY Zenon, <1>1 DEF LogInit
  <1>4. PortTypeOK
    BY <1>1, <1>2, <1>3 DEF PortTypeOK
  <1>5. StrobeLow /\ Offered
    BY <1>1 DEF StrobeLow, Offered
  <1>6. Increasing /\ UpToNext
    BY <1>2 DEF Increasing, UpToNext
  <1>7. AllTaken
    BY <1>1 DEF AllTaken
  <1> QED  BY <1>4, <1>5, <1>6, <1>7 DEF LogInv

\* Every step of putc and of the host keeps the invariant.
LEMMA NextLog ==
    ASSUME TRIES \in Nat, LogInv, [LogNext]_logVars
    PROVE  LogInv'
  <1>0. PortTypeOK /\ StrobeLow /\ Offered /\ Increasing /\ UpToNext /\ AllTaken
    BY DEF LogInv
  <1>1. CASE HostReady
    <2>1. UNCHANGED <<data, strobe, log, next, tries, port_pc, initialized, timeouts>> /\ ready'
      BY <1>1 DEF HostReady
    <2>2. PortTypeOK' /\ StrobeLow' /\ Offered'
      BY <1>0, <2>1 DEF PortTypeOK, StrobeLow, Offered
    <2>3. Increasing' /\ UpToNext' /\ AllTaken'
      BY <1>0, <2>1 DEF Increasing, UpToNext, AllTaken, Taken
    <2> QED  BY <2>2, <2>3 DEF LogInv
  <1>2. CASE putc_call
    <2>1. /\ port_pc = "call" /\ port_pc' = "poll" /\ tries' = 0 /\ initialized' = TRUE
          /\ UNCHANGED <<data, next, timeouts, ready, log>>
          /\ strobe' = IF initialized THEN strobe ELSE FALSE
      BY <1>2 DEF putc_call, Strobe, host
    <2>4. strobe' \in BOOLEAN /\ initialized' \in BOOLEAN
      BY Zenon, <1>0, <2>1 DEF PortTypeOK
    <2>7. /\ tries' \in 0 .. TRIES /\ port_pc' \in {"call", "poll", "strobe", "release"}
          /\ UNCHANGED <<data, next, timeouts, ready, log>>
      BY <2>1
    <2>5. PortTypeOK'
      BY <1>0, <2>4, <2>7 DEF PortTypeOK
    <2>6. ~strobe'
      BY <1>0, <2>1 DEF StrobeLow
    <2>2. PortTypeOK' /\ StrobeLow' /\ Offered'
      BY <2>1, <2>5, <2>6 DEF StrobeLow, Offered
    <2>3. Increasing' /\ UpToNext' /\ AllTaken'
      BY <2>1, LogKept
    <2> QED  BY <2>2, <2>3 DEF LogInv
  <1>3. CASE putc_delay
    <2>1. /\ port_pc = "poll" /\ port_pc' = port_pc /\ tries < TRIES /\ tries' = tries + 1
          /\ UNCHANGED <<ready, log, data, strobe, next, initialized, timeouts>>
      BY <1>3 DEF putc_delay, keep_waiting, host
    <2>2. PortTypeOK' /\ StrobeLow' /\ Offered'
      BY <1>0, <2>1 DEF PortTypeOK, StrobeLow, Offered
    <2>3. Increasing' /\ UpToNext' /\ AllTaken'
      BY <2>1, LogKept
    <2> QED  BY <2>2, <2>3 DEF LogInv
  <1>4. CASE putc_data
    <2>1. /\ port_pc = "poll" /\ port_pc' = "strobe" /\ data' = next
          /\ tries = TRIES \/ ready
          /\ timeouts' = IF tries = TRIES THEN timeouts \cup {next} ELSE timeouts
          /\ UNCHANGED <<ready, log, strobe, next, tries, initialized>>
      BY <1>0, <1>4 DEF putc_data, keep_waiting, host, PortTypeOK
    <2>2. PortTypeOK' /\ StrobeLow' /\ Offered'
      BY <1>0, <2>1 DEF PortTypeOK, StrobeLow, Offered
    <2>3. Increasing' /\ UpToNext' /\ AllTaken'
      BY <2>1, LogKept
    <2> QED  BY <2>2, <2>3 DEF LogInv
  <1>5. CASE putc_strobe
    <2>1. /\ port_pc = "strobe" /\ port_pc' = "release" /\ strobe' = TRUE
          /\ UNCHANGED <<data, next, tries, initialized, timeouts>>
          /\ IF ready THEN log' = Append(log, next) /\ ready' = FALSE ELSE UNCHANGED <<log, ready>>
      BY <1>0, <1>5 DEF putc_strobe, Strobe, host, StrobeLow, Offered
    <2>2. CASE ~ready
      <3>1. log' = log /\ next \in timeouts
        BY <1>0, <2>1, <2>2 DEF Offered
      <3>2. PortTypeOK' /\ StrobeLow' /\ Offered'
        BY <1>0, <2>1, <2>2 DEF PortTypeOK, StrobeLow, Offered
      <3>3. Increasing' /\ UpToNext' /\ AllTaken'
        BY <1>0, <2>1, <3>1 DEF Increasing, UpToNext, AllTaken, Taken
      <3> QED  BY <3>2, <3>3 DEF LogInv
    <2>3. CASE ready
      <3> DEFINE n == Len(log)
      <3>1. n \in Nat /\ DOMAIN log = 1 .. n
        BY <1>0 DEF PortTypeOK
      <3>2. /\ log' \in Seq(Nat) /\ DOMAIN log' = 1 .. n + 1
            /\ log'[n + 1] = next
            /\ \A k \in 1 .. n : log'[k] = log[k]
        BY <1>0, <2>1, <2>3, SMTT(60) DEF PortTypeOK
      <3> HIDE DEF n
      <3>3. \A k \in 1 .. n : log[k] \in Nat /\ log[k] < next
        BY <1>0, <2>1, <3>1, SMTT(60) DEF PortTypeOK, UpToNext
      <3>8. strobe' \in BOOLEAN /\ ready' \in BOOLEAN
        BY Zenon, <2>1, <2>3
      <3>9. PortTypeOK'
        BY <1>0, <2>1, <3>2, <3>8 DEF PortTypeOK
      <3>4. PortTypeOK' /\ StrobeLow' /\ Offered'
        BY <2>1, <3>9 DEF StrobeLow, Offered
      <3>5. Increasing'
        <4> SUFFICES ASSUME NEW j \in 1 .. n + 1, NEW k \in 1 .. n + 1, j < k
                     PROVE  log'[j] < log'[k]
          BY <3>2 DEF Increasing
        <4>1. j \in 1 .. n
          BY <3>1
        <4>2. CASE k = n + 1
          BY <3>2, <3>3, <4>1, <4>2
        <4>3. CASE k # n + 1
          <5>1. k \in 1 .. n
            BY <3>1, <4>3
          <5> QED  BY <1>0, <3>1, <3>2, <4>1, <5>1 DEF Increasing
        <4> QED  BY <4>2, <4>3
      <3>6. UpToNext'
        <4> SUFFICES ASSUME NEW k \in 1 .. n + 1
                     PROVE  log'[k] < next \/ log'[k] = next
          BY <2>1, <3>2 DEF UpToNext
        <4>1. k \in 1 .. n \/ k = n + 1
          BY <3>1
        <4> QED  BY <3>2, <3>3, <4>1
      <3>7. AllTaken'
        <4>1. \A c : Taken(c) => Taken(c)'
          <5> SUFFICES ASSUME NEW c, NEW k \in 1 .. n, log[k] = c
                       PROVE  \E m \in DOMAIN log' : log'[m] = c
            BY <3>1 DEF Taken
          <5>1. k \in 1 .. n + 1
            BY <3>1
          <5> QED  BY <3>2, <5>1
        <4>2. Taken(next)'
          <5>1. n + 1 \in 1 .. n + 1
            BY <3>1
          <5> QED  BY <2>1, <3>2, <5>1 DEF Taken
        <4> QED  BY <1>0, <2>1, <4>1, <4>2 DEF AllTaken
      <3> QED  BY <3>4, <3>5, <3>6, <3>7 DEF LogInv
    <2> QED  BY <2>2, <2>3
  <1>6. CASE putc_release
    <2>1. /\ port_pc = "release" /\ port_pc' = "call" /\ strobe' = FALSE /\ next' = next + 1
          /\ UNCHANGED <<data, tries, initialized, timeouts, log, ready>>
      BY <1>6 DEF putc_release, Strobe, host
    <2>6. strobe' \in BOOLEAN
      BY Zenon, <2>1
    <2>7. PortTypeOK'
      BY <1>0, <2>1, <2>6 DEF PortTypeOK
    <2>2. PortTypeOK' /\ StrobeLow' /\ Offered'
      BY <2>1, <2>7 DEF StrobeLow, Offered
    <2>3. Increasing'
      BY <1>0, <2>1 DEF Increasing
    <2>4. UpToNext'
      BY <1>0, <2>1 DEF UpToNext, PortTypeOK
    <2>5. AllTaken'
      <3>1. \A c \in 1 .. next' - 1 : c \in 1 .. next - 1 \/ c = next
        BY <1>0, <2>1 DEF PortTypeOK
      <3>2. \A c : Taken(c) => Taken(c)'
        BY <2>1 DEF Taken
      <3> QED  BY <1>0, <2>1, <3>1, <3>2 DEF AllTaken
    <2> QED  BY <2>2, <2>3, <2>4, <2>5 DEF LogInv
  <1>7. CASE UNCHANGED logVars
    BY <1>0, <1>7 DEF logVars, LogInv, PortTypeOK, StrobeLow, Offered, Increasing, UpToNext,
                      AllTaken, Taken
  <1> QED  BY <1>1, <1>2, <1>3, <1>4, <1>5, <1>6, <1>7 DEF LogNext, putc

\* The log has every character the kernel printed, in order and once, but for
\* those that putc wrote after using up its tries: for any number of tries and
\* characters, and for a host that gets ready whenever it likes, or never.
THEOREM LogAlwaysComplete ==
    ASSUME TRIES \in Nat
    PROVE  LogSpec => []LogComplete
  <1>1. LogInit => LogInv
    BY InitLog
  <1>2. LogInv /\ [LogNext]_logVars => LogInv'
    BY NextLog
  <1>3. LogInv => LogComplete
    BY DEF LogInv, LogComplete, Increasing, AllTaken, Taken
  <1> QED  BY <1>1, <1>2, <1>3, PTL DEF LogSpec

-----------------------------------------------------------------------------
(* keyboard_readc: what one byte does *)

Modifiers == {"shift", "control", "alt", "caps"}

Bit(m) == CASE m = "shift"   -> MOD_SHIFT
            [] m = "control" -> MOD_CONTROL
            [] m = "alt"     -> KEY_ALT - KEY_SHIFT
            [] m = "caps"    -> MOD_CAPSLOCK
Bits(f) == {Bit(m) : m \in f}

Escape(k) == IF k.ext THEN \h80 ELSE 0

\* The modifiers in force after a key went down.
ForceAfter(k, f) ==
    CASE k.mod = NoMod  -> f
      [] k.mod = "caps" -> IF "caps" \in f THEN f \ {"caps"} ELSE f \cup {"caps"}
      [] OTHER          -> f \cup {k.mod}

\* The bits of modifiers are those of the set in force.
LEMMA BitsOf ==
    ASSUME NEW f \in SUBSET Modifiers
    PROVE  /\ MOD_SHIFT \in Bits(f) <=> "shift" \in f
           /\ MOD_CONTROL \in Bits(f) <=> "control" \in f
           /\ KEY_ALT - KEY_SHIFT \in Bits(f) <=> "alt" \in f
           /\ MOD_CAPSLOCK \in Bits(f) <=> "caps" \in f
           /\ Bits(f) \subseteq {0, 1, 2, 3}
  BY DEF Bits, Bit, Modifiers, MOD_SHIFT, MOD_CONTROL, MOD_CAPSLOCK, KEY_ALT, KEY_SHIFT

\* Different modifiers have different bits.
LEMMA BitsChange ==
    ASSUME NEW f \in SUBSET Modifiers, NEW m \in Modifiers
    PROVE  /\ Bits(f \cup {m}) = Bits(f) \cup {Bit(m)}
           /\ Bits(f \ {m}) = Bits(f) \ {Bit(m)}
  BY DEF Bits, Bit, Modifiers, MOD_SHIFT, MOD_CONTROL, MOD_CAPSLOCK, KEY_ALT, KEY_SHIFT

\* A key's entry of keymap, by its kind.
LEMMA KeyKinds ==
    ASSUME NEW k, EngravedAsMapped(k)
    PROVE  /\ k.code \in 0 .. 127 /\ k.code # 96 /\ k.ext \in BOOLEAN
           /\ k.mod \in Modifiers => Mapped(k) = 250 + Bit(k.mod)
           /\ k.mod \notin Modifiers => k.mod = NoMod /\ Mapped(k) \in 0 .. 201
  <1>1. k.code \in 0 .. 127 /\ k.code # 96 /\ k.ext \in BOOLEAN
    BY Zenon DEF EngravedAsMapped
  <1>2. DOMAIN ModifierKey = Modifiers
    BY DEF ModifierKey, Modifiers
  <1>3. NoMod \notin Modifiers
    BY DEF NoMod, Modifiers
  <1>4. ASSUME k.mod \in Modifiers  PROVE Mapped(k) = 250 + Bit(k.mod)
    <2>1. Mapped(k) = ModifierKey[k.mod]
      BY <1>2, <1>3, <1>4 DEF EngravedAsMapped
    <2>2. ModifierKey[k.mod] = 250 + Bit(k.mod)
      BY <1>4 DEF ModifierKey, Modifiers, Bit, KEY_SHIFT, KEY_CONTROL, KEY_ALT, KEY_CAPSLOCK,
                  MOD_SHIFT, MOD_CONTROL, MOD_CAPSLOCK
    <2> QED  BY <2>1, <2>2
  <1>5. ASSUME k.mod \notin Modifiers  PROVE k.mod = NoMod /\ Mapped(k) \in 0 .. 201
    BY <1>2, <1>5 DEF EngravedAsMapped, IsLetter, CKEY, SpecialKeys, KEY_UP, KEY_DELETE
  <1> QED  BY <1>1, <1>4, <1>5

\* A key that goes down is read as what is engraved on it, under the modifiers
\* in force.
LEMMA PressReads ==
    ASSUME NEW k, EngravedAsMapped(k), NEW f \in SUBSET Modifiers
    PROVE  ReadChar(k.code, Escape(k), Bits(f)) = Meaning(k, f)
  <1>1. k.code \in 0 .. 127 /\ ~IsRelease(k.code)
    BY KeyKinds DEF IsRelease
  <1>2. ReadChar(k.code, Escape(k), Bits(f)) = PressedChar(Mapped(k), Bits(f))
    BY <1>1 DEF ReadChar, Mapped, Escape
  <1>3. PICK ch : ch = Mapped(k)
    OBVIOUS
  <1>4. PICK mods : mods = Bits(f)
    OBVIOUS
  <1>5. /\ MOD_SHIFT \in mods <=> "shift" \in f
        /\ MOD_CONTROL \in mods <=> "control" \in f
        /\ MOD_CAPSLOCK \in mods <=> "caps" \in f
    BY <1>4, BitsOf
  <1>6. CASE k.mod \in Modifiers
    <2>1. ch \in 250 .. 253
      BY <1>3, <1>6, KeyKinds DEF Bit, Modifiers, MOD_SHIFT, MOD_CONTROL, MOD_CAPSLOCK, KEY_ALT, KEY_SHIFT
    <2>2. PressedChar(ch, mods) = 0
      BY <2>1 DEF PressedChar, KEY_SHIFT, CKEY
    <2>3. Meaning(k, f) = 0
      BY <1>6 DEF Meaning, NoMod, Modifiers
    <2> QED  BY <1>2, <1>3, <1>4, <2>2, <2>3
  <1>7. CASE k.mod \notin Modifiers
    <2>0. k.mod = NoMod /\ NoMod \notin DOMAIN ModifierKey
      BY <1>7, KeyKinds DEF ModifierKey, NoMod
    <2>1. CASE IsLetter(k) /\ ch = k.plain /\ k.shifted = k.plain - 32
      <3>1. ch \in 97 .. 122
        BY <2>1 DEF IsLetter
      <3>2. PressedChar(ch, mods) = IF MOD_CONTROL \in mods THEN ch - 96
                                    ELSE IF Uppercase(mods) THEN ch - 32 ELSE ch
        BY <3>1 DEF PressedChar, Uppercase, KEY_SHIFT, CKEY
      <3>3. ch \notin SpecialKeys
        BY <3>1 DEF SpecialKeys, KEY_UP, KEY_DELETE
      <3>4. Engraved(k, f) = IF Uppercase(mods) THEN ch - 32 ELSE ch
        BY <1>5, <2>1 DEF Engraved, Uppercase
      <3>5. ControlChar(ch) = ch - 96 /\ ControlChar(ch - 32) = ch - 96
        BY <3>1 DEF ControlChar
      <3>6. Meaning(k, f) = IF "control" \in f THEN ControlChar(Engraved(k, f)) ELSE Engraved(k, f)
        BY <2>0, <2>1, <3>3 DEF Meaning
      <3> QED  BY <1>2, <1>3, <1>4, <1>5, <3>2, <3>4, <3>5, <3>6
    <2>2. CASE /\ k.plain \in 0 .. 127 /\ ~IsLetter(k) /\ k.shifted \in 0 .. 127
               /\ ch \in CKEY(0) .. CKEY(21)
               /\ complex_keymap[ch - CKEY(0) + 1] =
                    <<k.plain, k.shifted, ControlChar(k.plain), ControlChar(k.shifted)>>
      <3>1. ch \in 128 .. 149
        BY <2>2 DEF CKEY
      <3>2. PressedChar(ch, mods) = complex_keymap[ch - CKEY(0) + 1][Column(mods) + 1]
        BY <2>2, <3>1 DEF PressedChar, KEY_SHIFT
      <3>3. k.plain \notin SpecialKeys
        BY <2>2 DEF SpecialKeys, KEY_UP, KEY_DELETE
      <3>4. Meaning(k, f) = IF "control" \in f THEN ControlChar(Engraved(k, f)) ELSE Engraved(k, f)
        BY <2>0, <3>3 DEF Meaning
      <3>5. Engraved(k, f) = IF "shift" \in f THEN k.shifted ELSE k.plain
        BY <2>2 DEF Engraved
      <3>6. Column(mods) + 1 = IF "control" \in f THEN IF "shift" \in f THEN 4 ELSE 3
                               ELSE IF "shift" \in f THEN 2 ELSE 1
        BY <1>5 DEF Column
      <3>7. PICK c1, c2 : c1 = ControlChar(k.plain) /\ c2 = ControlChar(k.shifted)
        OBVIOUS
      <3>8. PressedChar(ch, mods) = <<k.plain, k.shifted, c1, c2>>[Column(mods) + 1]
        BY <2>2, <3>2, <3>7
      <3>9. PressedChar(ch, mods) = IF "control" \in f THEN IF "shift" \in f THEN c2 ELSE c1
                                    ELSE IF "shift" \in f THEN k.shifted ELSE k.plain
        BY <3>6, <3>8
      <3> QED  BY <1>2, <1>3, <1>4, <3>4, <3>5, <3>7, <3>9
    <2>3. CASE k.plain = k.shifted /\ ch = k.plain /\ k.plain \in SpecialKeys
      <3>1. ch \in 192 .. 201
        BY <2>3 DEF SpecialKeys, KEY_UP, KEY_DELETE
      <3>2. PressedChar(ch, mods) = ch
        BY <3>1 DEF PressedChar, KEY_SHIFT, CKEY
      <3>3. Meaning(k, f) = ch
        BY <2>0, <2>3 DEF Meaning
      <3> QED  BY <1>2, <1>3, <1>4, <3>2, <3>3
    <2>4. CASE k.plain = k.shifted /\ ch = k.plain /\ k.plain \in 0 .. 127
               /\ ~IsLetter(k) /\ ControlChar(k.plain) = 0
      <3>1. ch \in 0 .. 127 /\ ch \notin 97 .. 122
        BY <2>4 DEF IsLetter
      <3>2. PressedChar(ch, mods) = IF MOD_CONTROL \in mods THEN 0 ELSE ch
        BY <3>1 DEF PressedChar, KEY_SHIFT, CKEY
      <3>3. k.plain \notin SpecialKeys
        BY <2>4 DEF SpecialKeys, KEY_UP, KEY_DELETE
      <3>4. Engraved(k, f) = ch
        BY <2>4 DEF Engraved
      <3>5. Meaning(k, f) = IF "control" \in f THEN ControlChar(ch) ELSE ch
        BY <2>0, <3>3, <3>4 DEF Meaning
      <3> QED  BY <1>2, <1>3, <1>4, <1>5, <2>4, <3>2, <3>5
    <2> QED  BY <1>3, <2>0, <2>1, <2>2, <2>3, <2>4 DEF EngravedAsMapped
  <1> QED  BY <1>6, <1>7

\* It changes the modifiers as the user expects.
LEMMA PressModifies ==
    ASSUME NEW k, EngravedAsMapped(k), NEW f \in SUBSET Modifiers
    PROVE  ReadModifiers(k.code, Escape(k), Bits(f)) = Bits(ForceAfter(k, f))
  <1>1. k.code \in 0 .. 127 /\ ~IsRelease(k.code) /\ k.code # 224
    BY KeyKinds DEF IsRelease
  <1>2. ReadModifiers(k.code, Escape(k), Bits(f)) = Pressed(Mapped(k), Bits(f))
    BY <1>1 DEF ReadModifiers, Mapped, Escape
  <1>3. PICK ch : ch = Mapped(k)
    OBVIOUS
  <1>4. CASE k.mod \notin Modifiers
    <2>1. k.mod = NoMod /\ ch \in 0 .. 201
      BY <1>3, <1>4, KeyKinds
    <2>2. Pressed(ch, Bits(f)) = Bits(f)
      BY <2>1 DEF Pressed, KEY_CAPSLOCK, KEY_SHIFT
    <2>3. ForceAfter(k, f) = f
      BY <2>1 DEF ForceAfter, NoMod
    <2> QED  BY <1>2, <1>3, <2>2, <2>3
  <1>5. CASE k.mod \in Modifiers
    <2>1. ch = 250 + Bit(k.mod) /\ NoMod \notin Modifiers
      BY <1>3, <1>5, KeyKinds DEF NoMod, Modifiers
    <2>2. CASE k.mod = "caps"
      <3>1. Bit(k.mod) = 3 /\ ch = 253
        BY <2>1, <2>2 DEF Bit, MOD_CAPSLOCK
      <3>2. 3 \in Bits(f) <=> "caps" \in f
        BY BitsOf DEF MOD_CAPSLOCK
      <3>3. Pressed(ch, Bits(f)) = IF 3 \in Bits(f) THEN Bits(f) \ {3} ELSE Bits(f) \cup {3}
        BY <3>1 DEF Pressed, KEY_CAPSLOCK, KEY_SHIFT
      <3>4. ForceAfter(k, f) = IF "caps" \in f THEN f \ {"caps"} ELSE f \cup {"caps"}
        BY <2>2 DEF ForceAfter, NoMod
      <3>5. /\ Bits(f \ {"caps"}) = Bits(f) \ {3}
            /\ Bits(f \cup {"caps"}) = Bits(f) \cup {3}
        BY <1>5, <2>2, <3>1, BitsChange
      <3> QED  BY <1>2, <1>3, <3>2, <3>3, <3>4, <3>5
    <2>3. CASE k.mod # "caps"
      <3>1. Bit(k.mod) \in 0 .. 2 /\ ch \in 250 .. 252
        BY <1>5, <2>1, <2>3
           DEF Bit, Modifiers, MOD_SHIFT, MOD_CONTROL, MOD_CAPSLOCK, KEY_ALT, KEY_SHIFT
      <3>2. ch - 250 = Bit(k.mod)
        BY <2>1, <3>1
      <3>3. Pressed(ch, Bits(f)) = Bits(f) \cup {ch - 250}
        BY <3>1 DEF Pressed, KEY_CAPSLOCK, KEY_SHIFT
      <3>4. ForceAfter(k, f) = f \cup {k.mod}
        BY <1>5, <2>1, <2>3 DEF ForceAfter
      <3>5. Bits(f \cup {k.mod}) = Bits(f) \cup {Bit(k.mod)}
        BY <1>5, BitsChange
      <3> QED  BY <1>2, <1>3, <3>2, <3>3, <3>4, <3>5
    <2> QED  BY <2>2, <2>3
  <1> QED  BY <1>4, <1>5

\* A key that goes up is no character, and ends what a shift, control or alt
\* key had begun; caps lock stays.
LEMMA ReleaseReads ==
    ASSUME NEW k, EngravedAsMapped(k), NEW f \in SUBSET Modifiers
    PROVE  /\ ReadChar(k.code + 128, Escape(k), Bits(f)) = 0
           /\ ReadEscape(k.code + 128) = 0
           /\ ReadModifiers(k.code + 128, Escape(k), Bits(f)) =
                Bits(IF k.mod = "caps" THEN f ELSE f \ {k.mod})
  <1>1. PICK c \in 0 .. 127 : c = k.code /\ c # 96
    BY KeyKinds
  <1>2. IsRelease(c + 128) /\ c + 128 # 224 /\ (c + 128) % 128 = c /\ c % 128 = c
    BY <1>1 DEF IsRelease
  <1>3. ReadChar(k.code + 128, Escape(k), Bits(f)) = 0 /\ ReadEscape(k.code + 128) = 0
    BY <1>1, <1>2 DEF ReadChar, ReadEscape
  <1>4. Index(c + 128, Escape(k)) = Index(c, Escape(k))
    BY <1>2 DEF Index
  <1>5. ReadModifiers(k.code + 128, Escape(k), Bits(f)) = Released(Mapped(k), Bits(f))
    BY <1>1, <1>2, <1>4 DEF ReadModifiers, Mapped, Escape
  <1>6. PICK ch : ch = Mapped(k)
    OBVIOUS
  <1>7. CASE k.mod \notin Modifiers
    <2>1. k.mod = NoMod /\ ch \in 0 .. 201
      BY <1>6, <1>7, KeyKinds
    <2>2. Released(ch, Bits(f)) = Bits(f)
      BY <2>1 DEF Released, KEY_CAPSLOCK, KEY_SHIFT
    <2>3. f \ {k.mod} = f
      BY <1>7
    <2> QED  BY <1>3, <1>5, <1>6, <2>2, <2>3
  <1>8. CASE k.mod \in Modifiers
    <2>1. ch = 250 + Bit(k.mod)
      BY <1>6, <1>8, KeyKinds
    <2>2. CASE k.mod = "caps"
      <3>1. ch = 253
        BY <2>1, <2>2 DEF Bit, MOD_CAPSLOCK
      <3>2. Released(ch, Bits(f)) = Bits(f)
        BY <3>1 DEF Released, KEY_CAPSLOCK, KEY_SHIFT
      <3> QED  BY <1>3, <1>5, <1>6, <2>2, <3>2
    <2>3. CASE k.mod # "caps"
      <3>1. Bit(k.mod) \in 0 .. 2 /\ ch \in 250 .. 252
        BY <1>8, <2>1, <2>3
           DEF Bit, Modifiers, MOD_SHIFT, MOD_CONTROL, MOD_CAPSLOCK, KEY_ALT, KEY_SHIFT
      <3>2. ch - 250 = Bit(k.mod)
        BY <2>1, <3>1
      <3>3. Released(ch, Bits(f)) = Bits(f) \ {ch - 250}
        BY <3>1 DEF Released, KEY_CAPSLOCK, KEY_SHIFT
      <3> QED  BY <1>3, <1>5, <1>6, <1>8, <2>3, <3>2, <3>3, BitsChange, ZenonT(60)
    <2> QED  BY <2>2, <2>3
  <1> QED  BY <1>7, <1>8

\* The prefix is no character and changes no modifier.
LEMMA PrefixReads ==
    ASSUME NEW e, NEW mods
    PROVE  /\ ReadChar(\hE0, e, mods) = 0 /\ ReadEscape(\hE0) = 128
           /\ ReadModifiers(\hE0, e, mods) = mods
  BY DEF ReadChar, ReadEscape, ReadModifiers, IsRelease

-----------------------------------------------------------------------------
(* keyboard_readc: the queue *)

Entries == [byte : Nat, note : Int]

\* Reading q from escape e0 and modifiers m0 gives the notes and ends with e1
\* and m1; ms and es are the modifiers and escapes after each byte.
Replay(q, ms, es) ==
    \A j \in 1 .. Len(q) :
        /\ ms[j] = ReadModifiers(q[j].byte, es[j - 1], ms[j - 1])
        /\ es[j] = ReadEscape(q[j].byte)
        /\ q[j].note = ReadChar(q[j].byte, es[j - 1], ms[j - 1])

Reads(q, e0, m0, e1, m1) ==
    \E ms, es : /\ ms[0] = m0 /\ es[0] = e0
                /\ ms[Len(q)] = m1 /\ es[Len(q)] = e1
                /\ Replay(q, ms, es)

\* Nothing to read.
LEMMA ReadsNothing ==
    ASSUME NEW e, NEW m
    PROVE  Reads(<<>>, e, m, e, m)
  <1> DEFINE ms == [j \in {0} |-> m]
             es == [j \in {0} |-> e]
  <1>1. ms[0] = m /\ es[0] = e /\ Len(<<>>) = 0
    OBVIOUS
  <1>2. Replay(<<>>, ms, es)
    BY DEF Replay
  <1> QED  BY <1>1, <1>2 DEF Reads

\* The first byte is read as its note says, and the others after it.
LEMMA ReadsHead ==
    ASSUME NEW q \in Seq(Entries), q # <<>>, NEW e0, NEW m0, NEW e1, NEW m1,
           Reads(q, e0, m0, e1, m1)
    PROVE  /\ q[1].note = ReadChar(q[1].byte, e0, m0)
           /\ Reads(Tail(q), ReadEscape(q[1].byte), ReadModifiers(q[1].byte, e0, m0), e1, m1)
  <1>1. PICK ms, es : /\ ms[0] = m0 /\ es[0] = e0
                      /\ ms[Len(q)] = m1 /\ es[Len(q)] = e1
                      /\ Replay(q, ms, es)
    BY DEF Reads
  <1>2. PICK n \in Nat : n + 1 = Len(q)
    <2>1. Len(q) \in Nat /\ Len(q) # 0
      BY EmptySeq
    <2> QED  BY <2>1
  <1>3. /\ Len(Tail(q)) = n
        /\ \A j \in 1 .. n : Tail(q)[j] = q[j + 1]
    BY <1>2
  <1>4. 1 \in 1 .. Len(q) /\ 1 - 1 = 0
    BY <1>2
  <1>5. /\ ms[1] = ReadModifiers(q[1].byte, e0, m0)
        /\ es[1] = ReadEscape(q[1].byte)
        /\ q[1].note = ReadChar(q[1].byte, e0, m0)
    BY <1>1, <1>4 DEF Replay
  <1> DEFINE mt == [j \in 0 .. n |-> ms[j + 1]]
             et == [j \in 0 .. n |-> es[j + 1]]
  <1>6. mt[0] = ms[1] /\ et[0] = es[1] /\ mt[n] = m1 /\ et[n] = e1
    BY <1>1, <1>2
  <1>7. ASSUME NEW j \in 1 .. n
        PROVE  /\ mt[j] = ReadModifiers(Tail(q)[j].byte, et[j - 1], mt[j - 1])
               /\ et[j] = ReadEscape(Tail(q)[j].byte)
               /\ Tail(q)[j].note = ReadChar(Tail(q)[j].byte, et[j - 1], mt[j - 1])
    <2>1. /\ j + 1 \in 1 .. Len(q) /\ j \in 0 .. n /\ j - 1 \in 0 .. n
          /\ (j + 1) - 1 = j /\ (j - 1) + 1 = j
      BY <1>2
    <2>2. mt[j] = ms[j + 1] /\ et[j] = es[j + 1] /\ mt[j - 1] = ms[j] /\ et[j - 1] = es[j]
      BY <2>1
    <2>3. /\ ms[j + 1] = ReadModifiers(q[j + 1].byte, es[j], ms[j])
          /\ es[j + 1] = ReadEscape(q[j + 1].byte)
          /\ q[j + 1].note = ReadChar(q[j + 1].byte, es[j], ms[j])
      BY <1>1, <2>1 DEF Replay
    <2>4. Tail(q)[j] = q[j + 1]
      BY <1>3
    <2> QED  BY <2>2, <2>3, <2>4
  <1> HIDE DEF mt, et
  <1>8. Replay(Tail(q), mt, et)
    BY <1>3, <1>7 DEF Replay
  <1> QED  BY <1>3, <1>5, <1>6, <1>8 DEF Reads

\* A byte whose note says how it will be read.
LEMMA ReadsMore ==
    ASSUME NEW q \in Seq(Entries), NEW r \in Entries, NEW e0, NEW m0, NEW e1, NEW m1,
           Reads(q, e0, m0, e1, m1), r.note = ReadChar(r.byte, e1, m1)
    PROVE  /\ Append(q, r) \in Seq(Entries)
           /\ Reads(Append(q, r), e0, m0, ReadEscape(r.byte), ReadModifiers(r.byte, e1, m1))
  <1>1. PICK ms, es : /\ ms[0] = m0 /\ es[0] = e0
                      /\ ms[Len(q)] = m1 /\ es[Len(q)] = e1
                      /\ Replay(q, ms, es)
    BY DEF Reads
  <1>2. PICK n \in Nat : n = Len(q)
    OBVIOUS
  <1>3. PICK a : a = Append(q, r)
    OBVIOUS
  <1>4. a \in Seq(Entries) /\ Len(a) = n + 1 /\ a[n + 1] = r /\ \A j \in 1 .. n : a[j] = q[j]
    BY <1>2, <1>3, AppendProperties
  <1> DEFINE mt == [j \in 0 .. n + 1 |-> IF j = n + 1 THEN ReadModifiers(r.byte, e1, m1) ELSE ms[j]]
             et == [j \in 0 .. n + 1 |-> IF j = n + 1 THEN ReadEscape(r.byte) ELSE es[j]]
  <1>5. /\ mt[0] = m0 /\ et[0] = e0 /\ mt[n] = m1 /\ et[n] = e1
        /\ mt[n + 1] = ReadModifiers(r.byte, e1, m1) /\ et[n + 1] = ReadEscape(r.byte)
    BY <1>1, <1>2
  <1>6. \A j \in 0 .. n : mt[j] = ms[j] /\ et[j] = es[j]
    BY <1>2
  <1> HIDE DEF mt, et
  <1>7. ASSUME NEW j \in 1 .. n + 1
        PROVE  /\ mt[j] = ReadModifiers(a[j].byte, et[j - 1], mt[j - 1])
               /\ et[j] = ReadEscape(a[j].byte)
               /\ a[j].note = ReadChar(a[j].byte, et[j - 1], mt[j - 1])
    <2>1. CASE j = n + 1
      <3>1. j - 1 = n
        BY <1>2, <2>1
      <3> QED  BY <1>4, <1>5, <2>1, <3>1
    <2>2. CASE j # n + 1
      <3>1. j \in 1 .. n /\ j \in 0 .. n /\ j - 1 \in 0 .. n
        BY <2>2
      <3>2. /\ ms[j] = ReadModifiers(q[j].byte, es[j - 1], ms[j - 1])
            /\ es[j] = ReadEscape(q[j].byte)
            /\ q[j].note = ReadChar(q[j].byte, es[j - 1], ms[j - 1])
        BY <1>1, <1>2, <3>1 DEF Replay
      <3> QED  BY <1>4, <1>6, <3>1, <3>2
    <2> QED  BY <2>1, <2>2
  <1>8. Replay(a, mt, et)
    BY <1>4, <1>7 DEF Replay
  <1>9. Reads(a, e0, m0, ReadEscape(r.byte), ReadModifiers(r.byte, e1, m1))
    BY <1>4, <1>5, <1>8 DEF Reads
  <1> QED  BY <1>3, <1>4, <1>9

KeyInv ==
    /\ queue \in Seq(Entries)
    /\ down \subseteq Keys
    /\ force \in SUBSET Modifiers
    /\ Reads(queue, last_escape, modifiers, 0, Bits(force))
    \* A modifier other than caps lock is in force while its key is held.
    /\ \A m \in force : m = "caps" \/ \E k \in down : k.mod = m

\* The bytes of a key are a prefix, perhaps, and the last one.
LEMMA BytesAppended ==
    ASSUME NEW q \in Seq(Entries), NEW k, k.ext \in BOOLEAN, NEW b \in Nat, NEW n \in Int
    PROVE  q \o Bytes(k, b, n) =
             IF k.ext THEN Append(Append(q, [byte |-> \hE0, note |-> 0]), [byte |-> b, note |-> n])
             ELSE Append(q, [byte |-> b, note |-> n])
  <1>1. PICK r \in Entries : r = [byte |-> b, note |-> n]
    BY DEF Entries
  <1>2. PICK p \in Entries : p = [byte |-> \hE0, note |-> 0]
    <2>1. PICK e \in Nat, z \in Int : e = \hE0 /\ z = 0
      OBVIOUS
    <2>2. [byte |-> e, note |-> z] \in Entries
      BY DEF Entries
    <2> QED  BY <2>1, <2>2
  <1>3. q \o <<r>> = Append(q, r) /\ q \o <<p, r>> = Append(Append(q, p), r)
    OBVIOUS
  <1>4. Bytes(k, b, n) = IF k.ext THEN <<p, r>> ELSE <<r>>
    BY <1>1, <1>2 DEF Bytes
  <1> QED  BY <1>1, <1>2, <1>3, <1>4

\* A key's bytes are queued behind what is to be read before them.
LEMMA KeyQueued ==
    ASSUME NEW q \in Seq(Entries), NEW k, k.ext \in BOOLEAN, NEW b \in Nat, NEW n \in Int,
           NEW e0, NEW m0, NEW m1, Reads(q, e0, m0, 0, m1),
           n = ReadChar(b, Escape(k), m1), ReadEscape(b) = 0
    PROVE  /\ q \o Bytes(k, b, n) \in Seq(Entries)
           /\ Reads(q \o Bytes(k, b, n), e0, m0, 0, ReadModifiers(b, Escape(k), m1))
  <1>1. PICK r \in Entries : r = [byte |-> b, note |-> n]
    BY DEF Entries
  <1>2. PICK p \in Entries : p = [byte |-> \hE0, note |-> 0]
    <2>1. PICK e \in Nat, z \in Int : e = \hE0 /\ z = 0
      OBVIOUS
    <2>2. [byte |-> e, note |-> z] \in Entries
      BY DEF Entries
    <2> QED  BY <2>1, <2>2
  <1>3. q \o Bytes(k, b, n) = IF k.ext THEN Append(Append(q, p), r) ELSE Append(q, r)
    BY <1>1, <1>2, BytesAppended
  <1>4. r.byte = b /\ r.note = n /\ p.byte = \hE0 /\ p.note = 0
    BY <1>1, <1>2
  <1>5. CASE k.ext
    <2>1. Escape(k) = 128
      BY <1>5 DEF Escape
    <2>2. /\ Append(q, p) \in Seq(Entries)
          /\ Reads(Append(q, p), e0, m0, 128, m1)
      <3>1. p.note = ReadChar(p.byte, 0, m1) /\ ReadEscape(p.byte) = 128
            /\ ReadModifiers(p.byte, 0, m1) = m1
        BY <1>4, PrefixReads
      <3>2. /\ Append(q, p) \in Seq(Entries)
            /\ Reads(Append(q, p), e0, m0, ReadEscape(p.byte), ReadModifiers(p.byte, 0, m1))
        BY <3>1, ReadsMore
      <3> QED  BY <3>1, <3>2
    <2>3. r.note = ReadChar(r.byte, 128, m1)
      BY <1>4, <2>1
    <2>4. /\ Append(Append(q, p), r) \in Seq(Entries)
          /\ Reads(Append(Append(q, p), r), e0, m0, ReadEscape(r.byte), ReadModifiers(r.byte, 128, m1))
      BY <2>2, <2>3, ReadsMore, ZenonT(60)
    <2> QED  BY <1>3, <1>4, <1>5, <2>1, <2>4
  <1>6. CASE ~k.ext
    <2>1. Escape(k) = 0
      BY <1>6 DEF Escape
    <2>2. r.note = ReadChar(r.byte, 0, m1)
      BY <1>4, <2>1
    <2>3. /\ Append(q, r) \in Seq(Entries)
          /\ Reads(Append(q, r), e0, m0, ReadEscape(r.byte), ReadModifiers(r.byte, 0, m1))
      BY <2>2, ReadsMore
    <2> QED  BY <1>3, <1>4, <1>6, <2>1, <2>3
  <1> QED  BY <1>5, <1>6

\* What a key means is a number.
LEMMA MeaningType ==
    ASSUME NEW k, EngravedAsMapped(k), NEW f
    PROVE  Meaning(k, f) \in Int
  <1>1. CASE k.mod # NoMod
    BY <1>1 DEF Meaning
  <1>2. CASE k.mod = NoMod
    <2>1. NoMod \notin DOMAIN ModifierKey
      BY DEF ModifierKey, NoMod
    <2>2. k.plain \in Int /\ k.shifted \in Int
      BY <1>2, <2>1 DEF EngravedAsMapped, IsLetter, SpecialKeys, KEY_UP, KEY_DELETE
    <2>3. Engraved(k, f) \in Int
      BY <2>2 DEF Engraved
    <2>4. \A c \in Int : ControlChar(c) \in Int
      BY DEF ControlChar
    <2> QED  BY <1>2, <2>2, <2>3, <2>4 DEF Meaning
  <1> QED  BY <1>1, <1>2

\* A poll reads one byte.
LEMMA PollInv ==
    ASSUME KeyInv, check_keyboard
    PROVE  KeyInv' /\ ret' = Head(queue).note
  <1>1. /\ queue # <<>> /\ queue' = Tail(queue)
        /\ modifiers' = ReadModifiers(Head(queue).byte, last_escape, modifiers)
        /\ ret' = ReadChar(Head(queue).byte, last_escape, modifiers)
        /\ last_escape' = ReadEscape(Head(queue).byte)
        /\ UNCHANGED <<down, force>>
    BY DEF check_keyboard
  <1>2. queue \in Seq(Entries) /\ Head(queue) = queue[1] /\ Tail(queue) \in Seq(Entries)
    BY <1>1 DEF KeyInv
  <1>3. /\ queue[1].note = ReadChar(queue[1].byte, last_escape, modifiers)
        /\ Reads(Tail(queue), ReadEscape(queue[1].byte),
                 ReadModifiers(queue[1].byte, last_escape, modifiers), 0, Bits(force))
    BY <1>1, <1>2, ReadsHead DEF KeyInv
  <1>4. Reads(queue', last_escape', modifiers', 0, Bits(force))
    BY <1>1, <1>2, <1>3
  <1>5. KeyInv'
    BY <1>1, <1>2, <1>4 DEF KeyInv
  <1> QED  BY <1>1, <1>2, <1>3, <1>5

\* A key goes down, or repeats.
LEMMA PressInv ==
    ASSUME KeyInv, NEW k \in Keys, Press(k)
    PROVE  KeyInv'
  <1>1. /\ queue' = queue \o Bytes(k, k.code, Meaning(k, force))
        /\ down' = down \cup {k} /\ force' = ForceAfter(k, force)
        /\ UNCHANGED <<last_escape, modifiers>>
    BY DEF Press, Queue, ForceAfter, driver
  <1>2. EngravedAsMapped(k)
    BY KeysAssumption
  <1>3. /\ queue \in Seq(Entries) /\ force \in SUBSET Modifiers
        /\ Reads(queue, last_escape, modifiers, 0, Bits(force))
    BY DEF KeyInv
  <1>4. k.code \in Nat /\ k.code \in 0 .. 127 /\ k.ext \in BOOLEAN
    BY <1>2, KeyKinds
  <1>5. ReadEscape(k.code) = 0
    BY <1>4 DEF ReadEscape
  <1>6. PICK n \in Int : n = Meaning(k, force)
    BY <1>2, MeaningType
  <1>7. n = ReadChar(k.code, Escape(k), Bits(force))
    BY <1>2, <1>3, <1>6, PressReads
  <1>8. /\ queue' \in Seq(Entries)
        /\ Reads(queue', last_escape, modifiers, 0, ReadModifiers(k.code, Escape(k), Bits(force)))
    <2>1. queue' = queue \o Bytes(k, k.code, n)
      BY <1>1, <1>6
    <2>2. /\ queue \o Bytes(k, k.code, n) \in Seq(Entries)
          /\ Reads(queue \o Bytes(k, k.code, n), last_escape, modifiers, 0,
                   ReadModifiers(k.code, Escape(k), Bits(force)))
      BY <1>3, <1>4, <1>5, <1>7, KeyQueued
    <2> QED  BY <2>1, <2>2
  <1>9. ReadModifiers(k.code, Escape(k), Bits(force)) = Bits(force')
    BY <1>1, <1>2, <1>3, PressModifies
  <1>10. force' \in SUBSET Modifiers /\ \A m \in force' : m \in force \/ m = "caps" \/ m = k.mod
    <2>1. k.mod \in Modifiers \/ k.mod = NoMod
      BY <1>2, KeyKinds
    <2>2. CASE k.mod = NoMod
      BY <1>1, <1>3, <2>2 DEF ForceAfter, NoMod
    <2>3. CASE k.mod \in Modifiers
      <3>1. k.mod # NoMod /\ "caps" \in Modifiers
        BY <2>3 DEF Modifiers, NoMod
      <3> QED  BY <1>1, <1>3, <2>3, <3>1 DEF ForceAfter
    <2> QED  BY <2>1, <2>2, <2>3
  <1>11. \A m \in force' : m = "caps" \/ \E x \in down' : x.mod = m
    BY <1>1, <1>10 DEF KeyInv
  <1>12. Reads(queue', last_escape', modifiers', 0, Bits(force'))
    BY <1>1, <1>8, <1>9
  <1> QED  BY <1>1, <1>8, <1>10, <1>11, <1>12 DEF KeyInv

\* A key goes up.
LEMMA ReleaseInv ==
    ASSUME KeyInv, NEW k \in Keys, Release(k)
    PROVE  KeyInv'
  <1>1. /\ queue' = queue \o Bytes(k, k.code + 128, 0)
        /\ down' = down \ {k} /\ force' = (IF k.mod = "caps" THEN force ELSE force \ {k.mod})
        /\ UNCHANGED <<last_escape, modifiers>>
    BY DEF Release, Queue, driver
  <1>2. EngravedAsMapped(k)
    BY KeysAssumption
  <1>3. /\ queue \in Seq(Entries) /\ force \in SUBSET Modifiers
        /\ Reads(queue, last_escape, modifiers, 0, Bits(force))
    BY DEF KeyInv
  <1>4. PICK b \in Nat : b = k.code + 128 /\ k.ext \in BOOLEAN
    BY <1>2, KeyKinds
  <1>5. /\ ReadChar(b, Escape(k), Bits(force)) = 0 /\ ReadEscape(b) = 0
        /\ ReadModifiers(b, Escape(k), Bits(force)) = Bits(force')
    BY <1>1, <1>2, <1>3, <1>4, ReleaseReads
  <1>6. /\ queue' \in Seq(Entries)
        /\ Reads(queue', last_escape, modifiers, 0, ReadModifiers(b, Escape(k), Bits(force)))
    <2>1. PICK n \in Int : n = 0
      OBVIOUS
    <2> QED  BY <1>1, <1>3, <1>4, <1>5, <2>1, KeyQueued
  <1>7. force' \in SUBSET Modifiers
    BY <1>1, <1>3
  <1>8. \A m \in force' : m = "caps" \/ \E x \in down' : x.mod = m
    BY <1>1 DEF KeyInv
  <1>9. Reads(queue', last_escape', modifiers', 0, Bits(force'))
    BY <1>1, <1>5, <1>6
  <1> QED  BY <1>1, <1>6, <1>7, <1>8, <1>9 DEF KeyInv

LEMMA KeyInitInv == KeyboardInit => KeyInv
  <1> SUFFICES ASSUME KeyboardInit  PROVE KeyInv
    OBVIOUS
  <1>1. Bits({}) = {}
    BY DEF Bits
  <1>2. Reads(<<>>, 0, {}, 0, {})
    BY ReadsNothing
  <1>3. queue = <<>> /\ last_escape = 0 /\ modifiers = {} /\ force = {} /\ down = {}
    BY DEF KeyboardInit
  <1>4. Reads(queue, last_escape, modifiers, 0, Bits(force))
    BY <1>1, <1>2, <1>3
  <1>5. queue \in Seq(Entries)
    BY <1>3
  <1> QED  BY <1>3, <1>4, <1>5 DEF KeyInv

LEMMA KeyNextInv ==
    ASSUME KeyInv, [KeyboardNext]_keyboardVars
    PROVE  KeyInv'
  <1>1. CASE check_keyboard
    BY <1>1, PollInv
  <1>2. CASE check_keyboard_empty \/ UNCHANGED keyboardVars
    <2>1. UNCHANGED <<queue, down, force, modifiers, last_escape>>
      BY <1>2 DEF check_keyboard_empty, keyboardVars
    <2> QED  BY <2>1 DEF KeyInv
  <1>3. ASSUME NEW k \in Keys, Press(k)  PROVE KeyInv'
    BY <1>3, PressInv
  <1>4. ASSUME NEW k \in Keys, Release(k)  PROVE KeyInv'
    BY <1>4, ReleaseInv
  <1> QED  BY <1>1, <1>2, <1>3, <1>4 DEF KeyboardNext

\* With everything read the driver's modifiers are the ones in force.
LEMMA NothingLeft == KeyInv => NothingStuck
  <1> SUFFICES ASSUME KeyInv, queue = <<>>
               PROVE  /\ modifiers = ModifierBits /\ last_escape = 0
                      /\ down = {} => modifiers \subseteq {MOD_CAPSLOCK}
    BY DEF NothingStuck
  <1>1. PICK ms, es : /\ ms[0] = modifiers /\ es[0] = last_escape
                      /\ ms[Len(queue)] = Bits(force) /\ es[Len(queue)] = 0
    BY DEF KeyInv, Reads
  <1>2. modifiers = Bits(force) /\ last_escape = 0
    BY <1>1
  <1>3. Bits(force) = ModifierBits
    BY DEF Bits, Bit, ModifierBits
  <1>4. ASSUME down = {}  PROVE Bits(force) \subseteq {MOD_CAPSLOCK}
    <2>1. \A m \in force : m = "caps"
      BY <1>4 DEF KeyInv
    <2>2. Bit("caps") = MOD_CAPSLOCK
      BY DEF Bit
    <2> QED  BY <2>1, <2>2 DEF Bits
  <1> QED  BY <1>2, <1>3, <1>4

\* Once everything typed is read, the driver's modifiers are the ones in
\* force, no prefix is left over, and with no key held only caps lock is on:
\* for every keyboard engraved as keymap has it and every queue.
THEOREM NothingEverStuck == KeyboardSpec => []NothingStuck
  <1>1. KeyboardInit => KeyInv
    BY KeyInitInv
  <1>2. KeyInv /\ [KeyboardNext]_keyboardVars => KeyInv'
    BY KeyNextInv
  <1>3. KeyInv => NothingStuck
    BY NothingLeft
  <1> QED  BY <1>1, <1>2, <1>3, PTL DEF KeyboardSpec

\* keyboard_readc returns for every byte what the key that sent it was meant
\* as when it was typed, however long ago that was and whatever was typed
\* since: prefixes, repeats, releases and modifiers included.
THEOREM AlwaysReadsAsTyped == KeyboardSpec => ReadsAsTyped
  <1>1. KeyboardInit => KeyInv
    BY KeyInitInv
  <1>2. KeyInv /\ [KeyboardNext]_keyboardVars => KeyInv'
    BY KeyNextInv
  <1>3. KeyInv /\ [KeyboardNext]_keyboardVars =>
          [check_keyboard => ret' = Head(queue).note]_keyboardVars
    BY PollInv
  <1> QED  BY <1>1, <1>2, <1>3, PTL DEF KeyboardSpec, ReadsAsTyped

-----------------------------------------------------------------------------
(* The memory display and the dumps *)

\* NPROC is 16, HZ 100, the modulus 2^32, a command starts 1 or 4 processes.
Sizes ==
    /\ NPROC \in Nat \ {0, 1}
    /\ ClockHZ \in Nat \ {0}
    /\ TicksModulus \in Nat \ {0, 1}
    /\ TICK_LIMIT \in Nat
    /\ Commands \subseteq 1 .. NPROC - 1

\* The limit of a grading build (10 seconds in the code) is reached before
\* ticks wraps around, and the log has room for the dumps until then.
LimitFits ==
    /\ TICK_LIMIT # 0 /\ TICK_LIMIT < TicksModulus
    /\ LogRoom \in Nat /\ TICK_LIMIT =< LogRoom * ClockHZ

-----------------------------------------------------------------------------
(* The pictures *)

ShowTypeOK ==
    /\ ticks \in 0 .. TicksModulus - 1 /\ last_ticks \in 0 .. TicksModulus - 1
    /\ showing \in Slots
    /\ used \subseteq Slots \ {0} /\ used # {}
    /\ held \in 0 .. ClockHZ

\* The search starts at the picture that is shown.
ShownIsShowing == shown \in {-1, showing}

\* The counter has not gone further than the interrupts counted.
HeldCounts == last_ticks # 0 => Minus(ticks, last_ticks) =< held

ShowInv == ShowTypeOK /\ ShownIsShowing /\ HeldCounts

\* Unsigned subtraction.
LEMMA MinusIs ==
    ASSUME Sizes, NEW a \in 0 .. TicksModulus - 1, NEW b \in 0 .. TicksModulus - 1
    PROVE  Minus(a, b) = IF b =< a THEN a - b ELSE a - b + TicksModulus
  BY DEF Sizes, Minus

\* The tick counter wraps around.
LEMMA TickIs ==
    ASSUME Sizes, NEW a \in 0 .. TicksModulus - 1
    PROVE  (a + 1) % TicksModulus = IF a + 1 = TicksModulus THEN 0 ELSE a + 1
  BY DEF Sizes

\* The loop of memshow_virtual_animate stops at the first used slot, and there
\* is one between any slot and the end of the search.
LEMMA FoundUsed ==
    ASSUME Sizes, ShowTypeOK, NEW from \in 0 .. NPROC
    PROVE  /\ Found(from) \in from .. SearchEnd
           /\ NextShown(from) \in used
           /\ from \in used => Found(from) = from
  <1> DEFINE seen == {s \in from .. SearchEnd : s % NPROC \in used}
  <1>0. NPROC \in Nat /\ NPROC > 1 /\ SearchEnd = 2 * NPROC
    BY DEF Sizes, SearchEnd
  <1>1. seen # {} /\ seen \subseteq Nat
    <2>4. PICK p \in used : TRUE
      BY DEF ShowTypeOK
    <2>1. p \in used /\ p \in 1 .. NPROC - 1
      BY <1>0, <2>4 DEF ShowTypeOK, Slots
    <2>2. (p + NPROC) % NPROC = p /\ p + NPROC \in from .. 2 * NPROC
      BY <1>0, <2>1
    <2>3. p + NPROC \in seen
      BY <1>0, <2>1, <2>2
    <2> QED  BY <1>0, <2>3
  <1>2. PICK d \in seen : \A e \in seen : ~(<<e, d>> \in OpToRel(<, Nat))
    BY <1>1, NatLessThanWellFounded, WFMin
  <1>3. \A e \in seen : d =< e
    <2> SUFFICES ASSUME NEW e \in seen, e < d  PROVE FALSE
      BY <1>1
    <2>1. <<e, d>> \in OpToRel(<, Nat)
      BY <1>1 DEF OpToRel
    <2> QED  BY <1>2, <2>1
  <1>4. Found(from) = CHOOSE s \in seen : \A t \in seen : s =< t
    BY <1>1 DEF Found
  <1>5. Found(from) \in seen /\ \A t \in seen : Found(from) =< t
    BY <1>3, <1>4
  <1>6. from \in used => from \in seen
    <2> SUFFICES ASSUME from \in used  PROVE from \in seen
      OBVIOUS
    <2>1. from \in 1 .. NPROC - 1
      BY DEF ShowTypeOK, Slots
    <2> QED  BY <1>0, <2>1
  <1>7. Found(from) \in from .. SearchEnd /\ Found(from) % NPROC \in used
    BY <1>5
  <1>8. from \in used => Found(from) = from
    BY <1>0, <1>5, <1>6, <1>7
  <1> QED  BY <1>7, <1>8 DEF NextShown

\* Entering an exception: the search, from the slot showing or the next.
LEMMA Animate ==
    ASSUME Sizes, ShowTypeOK, memshow_virtual_animate
    PROVE  /\ showing' \in used /\ shown' = showing'
           /\ ~SwitchDue /\ showing \in used => showing' = showing
           /\ last_ticks' = IF SwitchDue THEN ticks ELSE last_ticks
  <1> DEFINE from == IF SwitchDue THEN showing + 1 ELSE showing
  <1>1. showing \in 0 .. NPROC - 1 /\ NPROC \in Nat
    BY DEF ShowTypeOK, Slots, Sizes
  <1>2. from \in 0 .. NPROC
    BY <1>1
  <1>3. /\ last_ticks' = IF SwitchDue THEN ticks ELSE last_ticks
        /\ showing' = NextShown(from)
        /\ shown' = IF NextShown(from) \in used THEN NextShown(from) ELSE shown
    BY DEF memshow_virtual_animate
  <1>4. ~SwitchDue => from = showing
    OBVIOUS
  <1> HIDE DEF from
  <1>5. NextShown(from) \in used /\ (from \in used => Found(from) = from)
    BY <1>2, FoundUsed
  <1>6. ~SwitchDue /\ showing \in used => showing' = showing
    BY <1>1, <1>3, <1>4, <1>5 DEF NextShown
  <1> QED  BY <1>3, <1>5, <1>6

\* The timer interrupts counted are enough for the ticks that passed.
LEMMA HeldEnough ==
    ASSUME Sizes, ShowInv, NEW n \in {0, 1}, Hold(n),
           last_ticks' = IF SwitchDue THEN ticks ELSE last_ticks,
           ticks' = ticks \/ (n = 1 /\ ticks' = (ticks + 1) % TicksModulus)
    PROVE  /\ ticks' \in 0 .. TicksModulus - 1 /\ last_ticks' \in 0 .. TicksModulus - 1
           /\ held' \in 0 .. ClockHZ
           /\ HeldCounts'
  <1>1. /\ ticks \in 0 .. TicksModulus - 1 /\ last_ticks \in 0 .. TicksModulus - 1
        /\ held \in 0 .. ClockHZ /\ TicksModulus \in Nat \ {0, 1} /\ ClockHZ \in Nat \ {0}
    BY DEF Sizes, ShowInv, ShowTypeOK
  <1>2. /\ ticks' \in 0 .. TicksModulus - 1
        /\ ticks' # ticks => n = 1 /\ ticks' = IF ticks + 1 = TicksModulus THEN 0 ELSE ticks + 1
    BY <1>1, TickIs
  <1>3. last_ticks' \in 0 .. TicksModulus - 1
    BY <1>1
  <1>4. held' \in 0 .. ClockHZ
    BY <1>1 DEF Hold
  <1> DEFINE d == Minus(ticks, last_ticks)
             e == Minus(ticks', last_ticks')
  <1>5. /\ d = IF last_ticks =< ticks THEN ticks - last_ticks
               ELSE ticks - last_ticks + TicksModulus
        /\ e = IF last_ticks' =< ticks' THEN ticks' - last_ticks'
               ELSE ticks' - last_ticks' + TicksModulus
    BY <1>1, <1>2, <1>3, MinusIs
  <1>6. SwitchDue <=> (last_ticks = 0 \/ d >= ClockHZ \div 2)
    BY DEF SwitchDue
  <1>7. last_ticks # 0 => d =< held
    BY DEF ShowInv, HeldCounts
  <1> HIDE DEF d, e
  <1>8. CASE SwitchDue
    <2>1. last_ticks' = ticks /\ held' = n
      BY <1>8 DEF Hold
    <2>2. e =< n
      <3>1. CASE ticks' = ticks
        BY <1>1, <1>5, <2>1, <3>1
      <3>2. CASE ticks' # ticks /\ ticks + 1 = TicksModulus
        BY <1>1, <1>2, <1>5, <2>1, <3>2
      <3>3. CASE ticks' # ticks /\ ticks + 1 # TicksModulus
        BY <1>1, <1>2, <1>5, <2>1, <3>3
      <3> QED  BY <3>1, <3>2, <3>3
    <2> QED  BY <1>2, <1>3, <1>4, <2>1, <2>2 DEF HeldCounts, e
  <1>9. CASE ~SwitchDue
    <2>1. last_ticks' = last_ticks /\ held' = IF held < ClockHZ THEN held + n ELSE held
      BY <1>9 DEF Hold
    <2>2. d < ClockHZ /\ d =< held
      BY <1>1, <1>5, <1>6, <1>7, <1>9
    <2>3. e = d \/ (n = 1 /\ e =< d + 1)
      <3>1. CASE ticks' = ticks
        BY <1>5, <2>1, <3>1
      <3>2. CASE ticks' # ticks /\ ticks + 1 = TicksModulus
        BY <1>1, <1>2, <1>5, <2>1, <3>2
      <3>3. CASE ticks' # ticks /\ ticks + 1 # TicksModulus
        BY <1>1, <1>2, <1>5, <2>1, <3>3
      <3> QED  BY <3>1, <3>2, <3>3
    <2>4. e =< held'
      BY <1>1, <1>5, <2>1, <2>2, <2>3
    <2> QED  BY <1>2, <1>3, <1>4, <2>4 DEF HeldCounts, e
  <1> QED  BY <1>8, <1>9

\* The picture a step draws, and what the display knows after it.
ShowStep ==
    /\ ShowInv'
    /\ showing' \in Slots
    /\ shown' \in used
    /\ shown' # shown /\ shown \in used =>
          held >= ClockHZ \div 2 \/ ticks = 0 \/ last_ticks = 0

\* Every exception.
LEMMA ExceptionShows ==
    ASSUME Sizes, ShowInv, NEW n \in {0, 1}, memshow_virtual_animate, Hold(n),
           ticks' = ticks \/ (n = 1 /\ ticks' = (ticks + 1) % TicksModulus),
           used' \subseteq Slots \ {0}, used' # {}
    PROVE  ShowStep
  <1>1. /\ showing' \in used /\ shown' = showing'
        /\ ~SwitchDue /\ showing \in used => showing' = showing
        /\ last_ticks' = IF SwitchDue THEN ticks ELSE last_ticks
    BY Animate DEF ShowInv
  <1>2. /\ ticks' \in 0 .. TicksModulus - 1 /\ last_ticks' \in 0 .. TicksModulus - 1
        /\ held' \in 0 .. ClockHZ /\ HeldCounts'
    BY <1>1, HeldEnough
  <1>3. showing' \in Slots
    BY <1>1 DEF ShowInv, ShowTypeOK
  <1>4. ShowInv'
    BY <1>1, <1>2, <1>3 DEF ShowInv, ShowTypeOK, ShownIsShowing
  <1>5. ASSUME shown' # shown, shown \in used, last_ticks # 0
        PROVE  held >= ClockHZ \div 2
    <2>1. shown = showing
      BY <1>5 DEF ShowInv, ShownIsShowing, ShowTypeOK, Slots
    <2>2. SwitchDue
      BY <1>1, <1>5, <2>1
    <2>3. Minus(ticks, last_ticks) >= ClockHZ \div 2 /\ Minus(ticks, last_ticks) =< held
      BY <1>5, <2>2 DEF SwitchDue, ShowInv, HeldCounts
    <2>4. Minus(ticks, last_ticks) \in Int /\ held \in Int /\ ClockHZ \div 2 \in Int
      <3>1. ticks \in 0 .. TicksModulus - 1 /\ last_ticks \in 0 .. TicksModulus - 1
        BY DEF ShowInv, ShowTypeOK
      <3>2. Minus(ticks, last_ticks) \in Int
        BY <3>1, MinusIs DEF Sizes
      <3> QED  BY <3>2 DEF ShowInv, ShowTypeOK, Sizes
    <2> QED  BY <2>3, <2>4
  <1> QED  BY <1>1, <1>3, <1>4, <1>5 DEF ShowStep

\* A command starts a process or more.
LEMMA CommandUses ==
    ASSUME Sizes, NEW n \in Commands
    PROVE  1 .. n \subseteq Slots \ {0} /\ 1 .. n # {}
  <1>1. n \in 1 .. NPROC - 1 /\ NPROC \in Nat
    BY DEF Sizes
  <1>2. 1 \in 1 .. n
    BY <1>1
  <1> QED  BY <1>1, <1>2 DEF Slots

\* The display before the first exception.
LEMMA InitShows == Sizes /\ ShowInit => ShowInv
  <1> SUFFICES ASSUME Sizes, ShowInit  PROVE ShowInv
    OBVIOUS
  <1>1. PICK n \in Commands : used = 1 .. n
    BY DEF ShowInit
  <1>2. used \subseteq Slots \ {0} /\ used # {}
    BY <1>1, CommandUses
  <1> QED  BY <1>2 DEF ShowInit, ShowInv, ShowTypeOK, ShownIsShowing, HeldCounts, Slots, Sizes

\* Every step draws the right picture.
LEMMA NextShows ==
    ASSUME Sizes, ShowInv, ShowNext
    PROVE  ShowStep
  <1>0. used \subseteq Slots \ {0} /\ used # {} /\ 0 \in {0, 1} /\ 1 \in {0, 1}
    BY DEF ShowInv, ShowTypeOK
  <1>1. CASE Timer
    <2>1. /\ memshow_virtual_animate /\ Hold(1) /\ used' = used
          /\ ticks' = ticks \/ (1 = 1 /\ ticks' = (ticks + 1) % TicksModulus)
      BY <1>1 DEF Timer, EnterException
    <2> QED  BY <1>0, <2>1, ExceptionShows
  <1>2. CASE Other
    <2>1. memshow_virtual_animate /\ Hold(0) /\ used' = used /\ ticks' = ticks
      BY <1>2 DEF Other, EnterException
    <2> QED  BY <1>0, <2>1, ExceptionShows
  <1>3. CASE Fork
    <2>1. memshow_virtual_animate /\ Hold(0) /\ ticks' = ticks
      BY <1>3 DEF Fork, EnterException
    <2>2. used' \subseteq Slots \ {0} /\ used' # {}
      BY <1>0, <1>3 DEF Fork
    <2> QED  BY <1>0, <2>1, <2>2, ExceptionShows
  <1>4. CASE Restart
    <2>1. memshow_virtual_animate /\ Hold(0) /\ ticks' = ticks
      BY <1>4 DEF Restart, EnterException
    <2>2. PICK n \in Commands : used' = 1 .. n
      BY <1>4 DEF Restart
    <2>3. used' \subseteq Slots \ {0} /\ used' # {}
      BY <2>2, CommandUses
    <2> QED  BY <1>0, <2>1, <2>3, ExceptionShows
  <1> QED  BY <1>1, <1>2, <1>3, <1>4 DEF ShowNext

\* The picture an exception draws is of a process in use, and a picture of a
\* process in use stays for HZ / 2 timer interrupts, whatever happens, also
\* across restarts and when the tick counter wraps around.
THEOREM PicturesAlwaysRight == ASSUME Sizes PROVE ShowSpec => PicturesRight
  <1>1. ShowInit => ShowInv
    BY InitShows
  <1>2. ShowInv /\ [ShowNext]_showVars => ShowInv'
    <2>1. ShowInv /\ ShowNext => ShowInv'
      BY NextShows DEF ShowStep
    <2>2. ShowInv /\ UNCHANGED showVars => ShowInv'
      BY DEF showVars, ShowInv, ShowTypeOK, ShownIsShowing, HeldCounts, Minus
    <2> QED  BY <2>1, <2>2
  <1>3. ShowInv /\ [ShowNext]_showVars =>
          [ /\ showing' \in Slots
            /\ power = "on" => shown' \in used
            /\ shown' # shown /\ shown \in used =>
                  held >= ClockHZ \div 2 \/ ticks = 0 \/ last_ticks = 0 ]_showVars
    BY NextShows DEF ShowStep
  <1> QED  BY <1>1, <1>2, <1>3, PTL DEF ShowSpec, PicturesRight

-----------------------------------------------------------------------------
(* The dumps *)

\* The seconds that have begun, and their first ticks.
Seconds(t) == (t + ClockHZ - 1) \div ClockHZ
Log(k) == [i \in 1 .. k |-> (i - 1) * ClockHZ]

GradeInv == (grading => ticks \in 0 .. TICK_LIMIT) /\ OneDumpPerSecond

\* A second begins at a multiple of HZ.
LEMMA SecondsAt ==
    ASSUME Sizes, NEW t \in Nat
    PROVE  /\ Seconds(t) \in Nat
           /\ t % ClockHZ = 0 => Seconds(t + 1) = Seconds(t) + 1 /\ t = Seconds(t) * ClockHZ
           /\ t % ClockHZ # 0 => Seconds(t + 1) = Seconds(t)
  <1>0. ClockHZ \in Nat \ {0}
    BY DEF Sizes
  <1> DEFINE q == t \div ClockHZ
             r == t % ClockHZ
  <1>1. q \in Nat /\ r \in 0 .. ClockHZ - 1 /\ t = ClockHZ * q + r
    BY <1>0
  <1> HIDE DEF q, r
  <1>2. CASE r = 0
    <2>1. (t + ClockHZ - 1) \div ClockHZ = q /\ (t + 1 + ClockHZ - 1) \div ClockHZ = q + 1
      BY <1>0, <1>1, <1>2
    <2> QED  BY <1>0, <1>1, <1>2, <2>1 DEF Seconds, r
  <1>3. CASE r # 0
    <2>1. (t + ClockHZ - 1) \div ClockHZ = q + 1
      <3>1. t + ClockHZ - 1 = ClockHZ * (q + 1) + (r - 1) /\ r - 1 \in 0 .. ClockHZ - 1
        BY <1>0, <1>1, <1>3
      <3> QED  BY <1>0, <1>1, <3>1
    <2>2. (t + 1 + ClockHZ - 1) \div ClockHZ = q + 1
      <3>1. t + 1 + ClockHZ - 1 = ClockHZ * (q + 1) + r
        BY <1>0, <1>1, <1>3
      <3> QED  BY <1>0, <1>1, <3>1
    <2> QED  BY <1>0, <1>1, <1>3, <2>1, <2>2 DEF Seconds, r
  <1> QED  BY <1>2, <1>3

\* The dump of the next second.
LEMMA LogGrows ==
    ASSUME Sizes, NEW k \in Nat
    PROVE  Len(Log(k)) = k /\ Append(Log(k), k * ClockHZ) = Log(k + 1)
  <1>0. ClockHZ \in Nat
    BY DEF Sizes
  <1>1. Log(k) \in Seq(Int) /\ Len(Log(k)) = k
    BY <1>0 DEF Log
  <1>2. \A i \in 1 .. k : Log(k)[i] = (i - 1) * ClockHZ
    BY DEF Log
  <1> DEFINE a == Append(Log(k), k * ClockHZ)
  <1>3. /\ a \in Seq(Int) /\ Len(a) = k + 1
        /\ a[k + 1] = k * ClockHZ
        /\ \A i \in 1 .. k : a[i] = Log(k)[i]
    BY <1>0, <1>1
  <1> HIDE DEF a
  <1>4. DOMAIN a = 1 .. k + 1 /\ a = [i \in 1 .. k + 1 |-> a[i]]
    BY <1>3
  <1>5. \A i \in 1 .. k + 1 : a[i] = (i - 1) * ClockHZ
    <2> SUFFICES ASSUME NEW i \in 1 .. k + 1  PROVE a[i] = (i - 1) * ClockHZ
      OBVIOUS
    <2>1. CASE i = k + 1
      BY <1>3, <2>1
    <2>2. CASE i # k + 1
      <3>1. i \in 1 .. k
        BY <2>2
      <3> QED  BY <1>2, <1>3, <3>1
    <2> QED  BY <2>1, <2>2
  <1>6. a = Log(k + 1)
    BY <1>4, <1>5 DEF Log
  <1> QED  BY <1>1, <1>6 DEF a

\* Until the limit there is room in the log.
LEMMA RoomLeft ==
    ASSUME Sizes, LimitFits, NEW t \in 0 .. TICK_LIMIT - 1, t % ClockHZ = 0
    PROVE  Seconds(t) < LogRoom
  <1>1. /\ ClockHZ \in Nat \ {0} /\ LogRoom \in Nat /\ t \in Nat /\ TICK_LIMIT \in Nat
        /\ t < LogRoom * ClockHZ
    BY DEF Sizes, LimitFits
  <1>2. Seconds(t) \in Nat /\ t = Seconds(t) * ClockHZ
    BY <1>1, SecondsAt
  <1> HIDE DEF Seconds
  <1>3. PICK s \in Nat : s = Seconds(t)
    BY <1>2
  <1>4. s * ClockHZ < LogRoom * ClockHZ
    BY <1>1, <1>2, <1>3
  <1>5. s < LogRoom
    BY <1>1, <1>4
  <1> QED  BY <1>3, <1>5

\* How the kernel was built does not change.
LEMMA BuildKept == [ShowNext]_showVars => grading' = grading
  BY DEF ShowNext, showVars, Timer, Other, Fork, Restart, EnterException

\* Every step of a kernel built for grading.
LEMMA NextDumps ==
    ASSUME Sizes, LimitFits, GradeInv, [ShowNext]_showVars
    PROVE  GradeInv'
  <1> SUFFICES ASSUME grading, grading'  PROVE GradeInv'
    BY BuildKept DEF GradeInv, OneDumpPerSecond
  <1>0. /\ ticks \in 0 .. TICK_LIMIT /\ TICK_LIMIT \in Nat /\ TICK_LIMIT < TicksModulus
        /\ TicksModulus \in Nat /\ ClockHZ \in Nat \ {0}
        /\ dumps = Log(Seconds(ticks)) /\ Seconds(ticks) \in Nat
    <2>1. /\ ticks \in 0 .. TICK_LIMIT /\ TICK_LIMIT \in Nat /\ TICK_LIMIT < TicksModulus
          /\ TicksModulus \in Nat /\ ClockHZ \in Nat \ {0}
      BY DEF GradeInv, Sizes, LimitFits
    <2>2. dumps = Log(Seconds(ticks))
      BY DEF GradeInv, OneDumpPerSecond, Log, Seconds
    <2>3. Seconds(ticks) \in Nat
      BY <2>1, SecondsAt
    <2> QED  BY <2>1, <2>2, <2>3
  <1>1. ASSUME ticks' = ticks, dumps' = dumps  PROVE GradeInv'
    BY <1>1 DEF GradeInv, OneDumpPerSecond
  <1>2. CASE Timer /\ ticks # TICK_LIMIT
    <2>1. ~LimitReached /\ ticks \in 0 .. TICK_LIMIT - 1
      BY <1>0, <1>2 DEF LimitReached
    <2>2. ticks' = ticks + 1
      BY <1>0, <1>2, <2>1 DEF Timer
    <2>3. dumps' = IF ticks % ClockHZ = 0 /\ Len(dumps) < LogRoom THEN Append(dumps, ticks)
                   ELSE dumps
      BY <1>2, <2>1 DEF Timer, EnterException, Dumps, LimitFits
    <2>4. dumps' = Log(Seconds(ticks + 1))
      <3>1. CASE ticks % ClockHZ = 0
        <4>1. Len(dumps) = Seconds(ticks) /\ Append(dumps, Seconds(ticks) * ClockHZ) = Log(Seconds(ticks) + 1)
          BY <1>0, LogGrows
        <4>2. Seconds(ticks) < LogRoom
          BY <2>1, <3>1, RoomLeft
        <4>3. ticks = Seconds(ticks) * ClockHZ /\ Seconds(ticks + 1) = Seconds(ticks) + 1
          BY <1>0, <3>1, SecondsAt
        <4> HIDE DEF Seconds, Log
        <4>4. dumps' = Append(dumps, ticks)
          BY <2>3, <3>1, <4>1, <4>2
        <4> QED  BY <4>1, <4>3, <4>4
      <3>2. CASE ticks % ClockHZ # 0
        BY <1>0, <2>3, <3>2, SecondsAt
      <3> QED  BY <3>1, <3>2
    <2>5. ticks' \in 0 .. TICK_LIMIT
      BY <1>0, <2>1, <2>2
    <2> QED  BY <2>2, <2>4, <2>5 DEF GradeInv, OneDumpPerSecond, Log, Seconds
  <1>3. CASE Timer /\ ticks = TICK_LIMIT
    BY <1>1, <1>3 DEF Timer, EnterException, LimitReached, LimitFits
  <1>4. CASE Other
    BY <1>1, <1>4 DEF Other, EnterException, Dumps
  <1>5. CASE Fork
    BY <1>1, <1>5 DEF Fork, EnterException, Dumps
  <1>6. CASE Restart
    BY <1>6 DEF Restart
  <1>7. CASE UNCHANGED showVars
    BY <1>1, <1>7 DEF showVars
  <1> QED  BY <1>2, <1>3, <1>4, <1>5, <1>6, <1>7 DEF ShowNext

\* The log of a kernel built for grading has one dump for each second, taken
\* in its first tick, for every timer rate and limit and whatever other
\* exceptions come between the timer's.
THEOREM OneDumpEachSecond == ASSUME Sizes, LimitFits PROVE ShowSpec => []OneDumpPerSecond
  <1>1. ShowInit => GradeInv
    <2> SUFFICES ASSUME ShowInit  PROVE GradeInv
      OBVIOUS
    <2>1. ticks = 0 /\ dumps = <<>> /\ ClockHZ \in Nat \ {0} /\ TICK_LIMIT \in Nat
      BY DEF ShowInit, Sizes
    <2>2. (0 + ClockHZ - 1) \div ClockHZ = 0
      BY <2>1
    <2>3. <<>> = [i \in 1 .. 0 |-> (i - 1) * ClockHZ]
      OBVIOUS
    <2> QED  BY <2>1, <2>2, <2>3 DEF GradeInv, OneDumpPerSecond
  <1>2. GradeInv /\ [ShowNext]_showVars => GradeInv'
    BY NextDumps
  <1>3. GradeInv => OneDumpPerSecond
    BY DEF GradeInv
  <1> QED  BY <1>1, <1>2, <1>3, PTL DEF ShowSpec
=============================================================================
