----------------------------- MODULE MCHardware -----------------------------
(***************************************************************************)
(* Everything the kernel and its loaders do to hardware or in time with    *)
(* it, in one model: a behaviour is one of the parts below, chosen at the  *)
(* start, while the variables of the others keep their initial values.     *)
(*                                                                         *)
(*   "interrupts"  Interrupts      "poweroff"  Pci                         *)
(*   "keyboard"    Keyboard        "show"      MemShow, both builds        *)
(*   "log"         LogPort         "boot"      BootLoader                  *)
(*   "load"        ProgramLoader                                           *)
(***************************************************************************)
EXTENDS Interrupts, Keyboard, LogPort, MemShow, BootLoader, ProgramLoader

CONSTANTS BUSES, SLOTS, FUNCS, MaxFunctions         \* Pci

VARIABLES
    part,
    present, bus, slot, func, search_pc, pm, switch

Poweroff == INSTANCE Pci WITH pc <- search_pc, machine <- switch

poweroffVars == <<present, bus, slot, func, search_pc, pm, switch>>
hardwareVars == <<part, vars, keyboardVars, logVars, poweroffVars,
                  showVars, bootVars, loadVars>>

(* A keyboard with keys of every kind the driver treats differently:       *)
(* command letters, the letter of Control-C, a digit with a control        *)
(* character on its shifted side, the extended enter and arrow keys, a key *)
(* with one character, both shifts, control, an extended alt and caps lock. *)

CharKey(c, e, p, s) == [code |-> c, ext |-> e, plain |-> p, shifted |-> s,
                        mod |-> NoMod]
ModKey(c, e, m) == [code |-> c, ext |-> e, plain |-> 0, shifted |-> 0,
                    mod |-> m]

MCKeys == {CharKey(\h10, FALSE, 113, 81),       \* q Q
           CharKey(\h1E, FALSE, 97, 65),        \* a A
           CharKey(\h2E, FALSE, 99, 67),        \* c C
           CharKey(\h07, FALSE, 54, 94),        \* 6 ^
           CharKey(\h1C, TRUE, 10, 10),         \* keypad enter
           CharKey(\h48, TRUE, KEY_UP, KEY_UP),
           CharKey(\h39, FALSE, 32, 32),        \* space
           ModKey(\h2A, FALSE, "shift"), ModKey(\h36, FALSE, "shift"),
           ModKey(\h1D, FALSE, "control"),
           ModKey(\h38, TRUE, "alt"), ModKey(\h3A, FALSE, "caps")}

-----------------------------------------------------------------------------
(* The parts that do not run are in one of their initial states.           *)

InterruptsIdle == Init /\ \A c \in 1 .. 2 : pic[c].base = 8 /\ pic[c].mask = {}
LogIdle == LogInit /\ ready /\ ~strobe
PoweroffIdle == Poweroff!Init /\ \A x \in DOMAIN present : present[x] = "none"
ShowIdle == ShowInit /\ used = {1} /\ ~grading
Smallest(im) == /\ im.e_magic /\ Len(im.ph) = 2
                /\ im.ph[1].p_memsz = 1
                /\ im.ph[2].p_memsz = 1 /\ im.ph[2].p_filesz = 0
BootIdle == BootInit /\ Smallest(kernel_image) /\ status = {}
LoadIdle == LoadInit /\ Smallest(image)

HardwareInit ==
    /\ part \in {"interrupts", "keyboard", "log", "poweroff", "show", "boot",
                 "load"}
    /\ KeyboardInit
    /\ IF part = "interrupts" THEN TRUE ELSE InterruptsIdle
    /\ IF part = "log" THEN TRUE ELSE LogIdle
    /\ IF part = "poweroff" THEN TRUE ELSE PoweroffIdle
    /\ IF part = "show" THEN TRUE ELSE ShowIdle
    /\ IF part = "boot" THEN TRUE ELSE BootIdle
    /\ IF part = "load" THEN TRUE ELSE LoadIdle
    /\ CASE part = "interrupts" -> Init
         [] part = "log" -> LogInit
         [] part = "poweroff" -> Poweroff!Init
         [] part = "show" -> ShowInit
         [] part = "boot" -> BootInit
         [] part = "load" -> LoadInit
         [] OTHER -> TRUE

HardwareNext ==
    /\ UNCHANGED part
    /\ \/ /\ part = "interrupts" /\ Next
          /\ UNCHANGED <<keyboardVars, logVars, poweroffVars, showVars,
                         bootVars, loadVars>>
       \/ /\ part = "keyboard" /\ KeyboardNext
          /\ UNCHANGED <<vars, logVars, poweroffVars, showVars, bootVars,
                         loadVars>>
       \/ /\ part = "log" /\ LogNext
          /\ UNCHANGED <<vars, keyboardVars, poweroffVars, showVars,
                         bootVars, loadVars>>
       \/ /\ part = "poweroff" /\ Poweroff!Next
          /\ UNCHANGED <<vars, keyboardVars, logVars, showVars, bootVars,
                         loadVars>>
       \/ /\ part = "show" /\ ShowNext
          /\ UNCHANGED <<vars, keyboardVars, logVars, poweroffVars,
                         bootVars, loadVars>>
       \/ /\ part = "boot" /\ BootNext
          /\ UNCHANGED <<vars, keyboardVars, logVars, poweroffVars,
                         showVars, loadVars>>
       \/ /\ part = "load" /\ LoadNext
          /\ UNCHANGED <<vars, keyboardVars, logVars, poweroffVars,
                         showVars, bootVars>>

(* The fairness of each part, while it runs.                               *)
HardwareFairness ==
    /\ WF_vars(part = "interrupts" /\ Outb)
    /\ WF_vars(part = "interrupts" /\ Run)
    /\ WF_vars(part = "interrupts" /\ Fail)
    /\ WF_vars(part = "interrupts" /\ TimerFires)
    /\ SF_vars(part = "interrupts" /\ Deliver)
    /\ WF_keyboardVars(part = "keyboard" /\ check_keyboard)
    /\ WF_logVars(part = "log" /\ putc)
    /\ WF_poweroffVars(part = "poweroff" /\ Poweroff!Next)
    /\ WF_showVars(part = "show" /\ Timer)
    /\ WF_bootVars(part = "boot" /\ Boot)
    /\ WF_bootVars(part = "boot" /\ DiskReadies)

HardwareSpec == HardwareInit /\ [][HardwareNext]_hardwareVars /\ HardwareFairness

-----------------------------------------------------------------------------
(* Properties.  Those of the modules that are extended are as they are; a  *)
(* part that does not run stays in an initial state.  What is to happen    *)
(* finally is asked of the part that runs.                                 *)

\* A process that stays in use is displayed again and again
\* (memshow_virtual_animate), until a grading build switches itself off.
ShownWhileAnimated == part = "show" => EveryProcessShown

\* What is to end ends, whatever the device does: parallel_port_putc with a
\* host that is never ready, the search for a PIIX4, which switches off every
\* machine that has one, the grading build at its limit, and boot, which
\* enters a kernel that is on the disk.
EndsWell ==
    /\ part = "log" => LogEnds
    /\ part = "poweroff" => Poweroff!PowersOff
    /\ part = "show" => LimitEnds
    /\ part = "boot" => KernelEntered
=============================================================================
