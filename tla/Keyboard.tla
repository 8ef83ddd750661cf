------------------------------ MODULE Keyboard ------------------------------
(***************************************************************************)
(* The keyboard driver of k-hardware.c: keyboard_readc turns the scan      *)
(* codes of the controller's queue into characters, check_keyboard obeys   *)
(* the command keys.  A user presses and releases physical keys; a key is  *)
(* a record with the byte it sends (code), whether 0xE0 comes first (ext), *)
(* and what is engraved on it: the characters without and with shift, or   *)
(* the name of a modifier (mod, NoMod for the others).                     *)
(*                                                                         *)
(* Each queued byte carries a note of what it should be read as.  The      *)
(* notes are the specification of the driver: they are made from engraved  *)
(* characters and the modifiers in force, and the driver never sees them.  *)
(***************************************************************************)
EXTENDS Integers, Sequences, FiniteSets, TLC

CONSTANTS Keys,      \* the physical keys
          QueueSize, \* bytes the controller can hold
          MaxDown    \* keys a user holds down at a time

VARIABLES
    queue,        \* bytes not read yet: [byte, note] (the controller)
    down,         \* keys held down (the user)
    force,        \* modifiers in force (the user): pressed last, not released
    modifiers,    \* static uint8_t modifiers, as the set of its bits
    last_escape,  \* static uint8_t last_escape
    ret,          \* what keyboard_readc returned last
    argument,     \* the last command the kernel was rebooted with
    machine       \* "on" or "off"

keyboardVars == <<queue, down, force, modifiers, last_escape, ret, argument, machine>>
driver == <<modifiers, last_escape, ret, argument, machine>>

NoMod == "none"

-----------------------------------------------------------------------------
(* The key codes of k-hardware.c and kernel.h.  Bit ch - KEY_SHIFT of      *)
(* `modifiers' belongs to modifier key ch.                                 *)

KEY_SHIFT      == 250
KEY_CONTROL    == 251
KEY_ALT        == 252
KEY_CAPSLOCK   == 253
KEY_NUMLOCK    == 254
KEY_SCROLLLOCK == 255

MOD_SHIFT    == 0
MOD_CONTROL  == 1
MOD_CAPSLOCK == 3

CKEY(cn) == 128 + cn
CKeys(a, b) == [i \in 1 .. b - a + 1 |-> CKEY(a + i - 1)]

KEY_UP == 192
KEY_RIGHT == 193
KEY_DOWN == 194
KEY_LEFT == 195
KEY_HOME == 196
KEY_END == 197
KEY_PAGEUP == 198
KEY_PAGEDOWN == 199
KEY_INSERT == 200
KEY_DELETE == 201
SpecialKeys == KEY_UP .. KEY_DELETE

\* Some consecutive entries of keymap, the first at index c.
Row(c, entries) == [i \in c .. c + Len(entries) - 1 |-> entries[i - c + 1]]

\* The entries that are not zero; letters are their ASCII codes.
KeymapRows ==
    Row(1, <<27>> \o CKeys(0, 11) \o <<8, 9,
             113, 119, 101, 114, 116, 121, 117, 105, 111, 112>>  \* q..p
           \o CKeys(12, 14) \o
           <<KEY_CONTROL, 97, 115, 100, 102, 103, 104, 106, 107, 108>> \* a..l
           \o CKeys(15, 17) \o <<KEY_SHIFT, CKEY(18),
             122, 120, 99, 118, 98, 110, 109>>                   \* z..m
           \o CKeys(19, 21) \o <<KEY_SHIFT, 42, KEY_ALT, 32, KEY_CAPSLOCK>>)
    @@ Row(\h45, <<KEY_NUMLOCK, KEY_SCROLLLOCK, 55, 56, 57, 45,
                   52, 53, 54, 43, 49, 50, 51, 48, 46>>)
    @@ Row(\h9C, <<CKEY(14), KEY_CONTROL>>)
    @@ (\hB5 :> 47) @@ (\hB8 :> KEY_ALT)
    @@ Row(\hC7, <<KEY_HOME, KEY_UP, KEY_PAGEUP, 0, KEY_LEFT, 0, KEY_RIGHT,
                   0, KEY_END, KEY_DOWN, KEY_PAGEDOWN, KEY_INSERT, KEY_DELETE>>)

keymap == KeymapRows @@ [c \in 0 .. 255 |-> 0]

\* Plain, with shift, with control, with both.
complex_keymap ==
    <<<<49, 33, 0, 0>>, <<50, 64, 0, 0>>, <<51, 35, 0, 0>>, <<52, 36, 0, 0>>,
      <<53, 37, 0, 0>>, <<54, 94, 0, 30>>, <<55, 38, 0, 0>>, <<56, 42, 0, 0>>,
      <<57, 40, 0, 0>>, <<48, 41, 0, 0>>, <<45, 95, 0, 31>>, <<61, 43, 0, 0>>,
      <<91, 123, 27, 0>>, <<93, 125, 29, 0>>, <<10, 10, 13, 13>>,
      <<59, 58, 0, 0>>, <<39, 34, 0, 0>>, <<96, 126, 0, 0>>,
      <<92, 124, 28, 0>>, <<44, 60, 0, 0>>, <<46, 62, 0, 0>>,
      <<47, 63, 0, 0>>>>

-----------------------------------------------------------------------------
(* keyboard_readc *)

IsRelease(data) == data >= \h80
Index(data, escape) == (data % \h80) + escape   \* (data & 0x7F) | escape

\* modifiers & 3, as an index of complex_keymap's entries.
Column(mods) == (IF MOD_SHIFT \in mods THEN 1 ELSE 0)
              + (IF MOD_CONTROL \in mods THEN 2 ELSE 0)

\* A release matters only for shift, control and alt.
ReleasedButAlt(ch, mods) ==
    IF ch \in KEY_SHIFT .. KEY_CONTROL THEN mods \ {ch - KEY_SHIFT} ELSE mods

Released(ch, mods) ==
    IF ch \in KEY_SHIFT .. KEY_CAPSLOCK - 1
    THEN mods \ {ch - KEY_SHIFT} ELSE mods

\* A press sets these three, and toggles the locks.
Pressed(ch, mods) ==
    CASE ch >= KEY_CAPSLOCK /\ ch - KEY_SHIFT \in mods -> mods \ {ch - KEY_SHIFT}
      [] ch >= KEY_SHIFT /\ ~(ch >= KEY_CAPSLOCK /\ ch - KEY_SHIFT \in mods) ->
           mods \cup {ch - KEY_SHIFT}
      [] OTHER -> mods

\* The modifiers after byte `data'.
ReadModifiers(data, escape, mods) ==
    CASE data = \hE0 -> mods
      [] data # \hE0 /\ IsRelease(data) ->
           Released(keymap[Index(data, escape)], mods)
      [] OTHER -> Pressed(keymap[Index(data, escape)], mods)

\* Shift and caps lock cancel each other, on letters.
UppercaseEither(mods) == MOD_SHIFT \in mods \/ MOD_CAPSLOCK \in mods
Uppercase(mods) == (MOD_SHIFT \in mods) # (MOD_CAPSLOCK \in mods)

\* The character a key press stands for.
PressedChar(ch, mods) ==
    CASE ch \in 97 .. 122 ->
           IF MOD_CONTROL \in mods THEN ch - 96
           ELSE IF Uppercase(mods) THEN ch - 32 ELSE ch
      [] ch >= KEY_SHIFT -> 0
      [] ch \in CKEY(0) .. CKEY(21) ->
           complex_keymap[ch - CKEY(0) + 1][Column(mods) + 1]
      [] ch \notin 97 .. 122 /\ ch < 128 /\ MOD_CONTROL \in mods -> 0
      [] OTHER -> ch

ReadChar(data, escape, mods) ==
    IF IsRelease(data) THEN 0
    ELSE PressedChar(keymap[Index(data, escape)], mods)

ReadEscape(data) == IF data = \hE0 THEN \h80 ELSE 0

\* check_keyboard after keyboard_readc returned c.
Reboot(c) == c \in {97, 102, 101}
QuitKeyOnlyQ(c) == c = 113
QuitKey(c) == c \in {3, 113}

Argument(c) == CASE c = 97  -> "allocator"
                 [] c = 101 -> "forkexit"
                 [] OTHER   -> "fork"

Command(c) ==
    /\ argument' = IF Reboot(c) THEN Argument(c) ELSE argument
    /\ machine' = IF QuitKey(c) THEN "off" ELSE machine

\* One poll.  The statics survive a reboot: nothing clears the kernel's data.
check_keyboard ==
    /\ machine = "on"
    /\ queue # <<>>
    /\ LET data == Head(queue).byte
       IN  /\ modifiers' = ReadModifiers(data, last_escape, modifiers)
           /\ ret' = ReadChar(data, last_escape, modifiers)
           /\ last_escape' = ReadEscape(data)
    /\ queue' = Tail(queue)
    /\ Command(ret')
    /\ UNCHANGED <<down, force>>

\* A poll of an empty queue.
check_keyboard_empty ==
    /\ machine = "on"
    /\ queue = <<>>
    /\ ret' = -1
    /\ UNCHANGED <<queue, down, force, modifiers, last_escape, argument,
                   machine>>

-----------------------------------------------------------------------------
(* The user and the keyboard (external).                                   *)

\* What a key should be read as, given the modifiers in force.
ControlChar(c) == CASE c \in 97 .. 122 -> c - 96
                    [] c \in 64 .. 95  -> c - 64
                    [] c = 10          -> 13
                    [] OTHER           -> 0

IsLetter(k) == k.plain \in 97 .. 122

\* A key is engraved with what keymap has for it: a modifier; a letter; two
\* characters, with their control characters; or one for both, without any.
Mapped(k) == keymap[Index(k.code, IF k.ext THEN \h80 ELSE 0)]
ModifierKey == [shift |-> KEY_SHIFT, control |-> KEY_CONTROL, alt |-> KEY_ALT,
                caps |-> KEY_CAPSLOCK]

EngravedAsMapped(k) ==
    /\ k.code \in 0 .. \h7F /\ k.code # \h60 /\ k.ext \in BOOLEAN
    /\ \/ k.mod \in DOMAIN ModifierKey /\ Mapped(k) = ModifierKey[k.mod]
       \/ /\ k.mod = NoMod
          /\ \/ IsLetter(k) /\ Mapped(k) = k.plain /\ k.shifted = k.plain - 32
             \/ /\ k.plain \in 0 .. 127 /\ ~IsLetter(k) /\ k.shifted \in 0 .. 127
                /\ Mapped(k) \in CKEY(0) .. CKEY(21)
                /\ complex_keymap[Mapped(k) - CKEY(0) + 1] =
                     <<k.plain, k.shifted, ControlChar(k.plain), ControlChar(k.shifted)>>
             \/ /\ k.plain = k.shifted /\ Mapped(k) = k.plain
                /\ \/ k.plain \in SpecialKeys
                   \/ k.plain \in 0 .. 127 /\ ~IsLetter(k) /\ ControlChar(k.plain) = 0

ASSUME KeysAssumption == \A k \in Keys : EngravedAsMapped(k)

Engraved(k, mods) ==
    IF ("shift" \in mods) # (IsLetter(k) /\ "caps" \in mods)
    THEN k.shifted ELSE k.plain

Meaning(k, mods) ==
    CASE k.mod # NoMod           -> 0
      [] k.mod = NoMod /\ k.plain \in SpecialKeys -> k.plain
      [] k.mod = NoMod /\ k.plain \notin SpecialKeys /\ "control" \in mods ->
           ControlChar(Engraved(k, mods))
      [] OTHER                   -> Engraved(k, mods)

\* The bytes of a key, the last one with the note n.
Bytes(k, byte, n) ==
    IF k.ext THEN <<[byte |-> \hE0, note |-> 0], [byte |-> byte, note |-> n]>>
             ELSE <<[byte |-> byte, note |-> n]>>

\* The controller takes all bytes of a key: it is polled more often than
\* keys can be typed.
Queue(bytes) == /\ Len(queue) + Len(bytes) <= QueueSize
                /\ queue' = queue \o bytes

\* A key goes down, or repeats.
Press(k) ==
    /\ k \in down \/ Cardinality(down) < MaxDown
    /\ Queue(Bytes(k, k.code, Meaning(k, force)))
    /\ down' = down \cup {k}
    /\ force' = CASE k.mod = NoMod  -> force
                  [] k.mod = "caps" -> IF "caps" \in force
                                       THEN force \ {"caps"}
                                       ELSE force \cup {"caps"}
                  [] OTHER          -> force \cup {k.mod}
    /\ UNCHANGED driver

Release(k) ==
    /\ k \in down
    /\ Queue(Bytes(k, k.code + \h80, 0))
    /\ down' = down \ {k}
    /\ force' = IF k.mod = "caps" THEN force ELSE force \ {k.mod}
    /\ UNCHANGED driver

-----------------------------------------------------------------------------
KeyboardInit ==
    /\ queue = <<>>
    /\ down = {}
    /\ force = {}
    /\ modifiers = {}
    /\ last_escape = 0
    /\ ret = -1
    /\ argument = "none"
    /\ machine = "on"

KeyboardNext ==
    \/ check_keyboard
    \/ check_keyboard_empty
    \/ \E k \in Keys : Press(k) \/ Release(k)

KeyboardSpec == KeyboardInit /\ [][KeyboardNext]_keyboardVars

\* Every exception polls, the timer's included, and so do the loops of
\* schedule and fail.
KeyboardFairSpec == KeyboardSpec /\ WF_keyboardVars(check_keyboard)

-----------------------------------------------------------------------------
(* Properties *)

\* keyboard_readc reads every byte as the key that sent it was meant:
\* prefixes, repeats, releases and modifiers included.
ReadsAsTyped ==
    [][check_keyboard => ret' = Head(queue).note]_keyboardVars

\* No modifier is stuck, and no prefix is left over: once everything typed is
\* read the driver's modifiers are the ones in force, so with no key held
\* neither shift nor control is on.
ModifierBits == {CASE m = "shift"   -> MOD_SHIFT
                   [] m = "control" -> MOD_CONTROL
                   [] m = "alt"     -> KEY_ALT - KEY_SHIFT
                   [] m = "caps"    -> MOD_CAPSLOCK : m \in force}

NothingStuck ==
    queue = <<>> => /\ modifiers = ModifierBits
                    /\ last_escape = 0
                    /\ down = {} => modifiers \subseteq {MOD_CAPSLOCK}

\* "Control-C or 'q' exit the virtual machine": a quit that was typed is
\* obeyed, whatever is typed before it and however often the machine is
\* rebooted in between.
QuitObeyed ==
    (\E i \in DOMAIN queue : queue[i].note \in {3, 113}) ~> machine = "off"
=============================================================================
