-------------------------------- MODULE Pci --------------------------------
(***************************************************************************)
(* poweroff and pci_find_device of k-hardware.c: the kernel searches the   *)
(* PCI configuration space for the power management controller of a PIIX4  *)
(* and asks it to switch the machine off.  A configuration address packs   *)
(* bus, slot and function, here with fewer bits each; the low 8 bits of    *)
(* the code's address, which select a register, are left out.              *)
(***************************************************************************)
EXTENDS Integers, FiniteSets, FiniteSetsExt

CONSTANTS BUSES,        \* 256
          SLOTS,        \* 32
          FUNCS,        \* 8
          MaxFunctions  \* functions present in the machine

VARIABLES
    present,    \* what is at each place: "none", "other" or "PIIX4"
    bus, slot, func,
    pc,         \* "search", "found", "missing", "message"
    pm,         \* configaddr that pci_find_device returned
    machine     \* "on", "off", or "wrong" after a write to another device

vars == <<present, bus, slot, func, pc, pm, machine>>

Places == (0 .. BUSES - 1) \X (0 .. SLOTS - 1) \X (0 .. FUNCS - 1)

\* At most MaxFunctions answer; a device has a function 0.
Machines ==
    LET present_sets == UNION {kSubset(k, Places) : k \in 0 .. MaxFunctions}
        devices == {P \in present_sets : \A x \in P : <<x[1], x[2], 0>> \in P}
    IN  UNION { { [x \in Places |-> IF x \in S THEN "PIIX4"
                                   ELSE IF x \in P THEN "other" ELSE "none"] :
                  S \in SUBSET P } : P \in devices }

pci_make_configaddr(b, s, f) == b * SLOTS * FUNCS + s * FUNCS + f

\* The host bridge: what answers at a configuration address.
Decode(a) == << a \div (SLOTS * FUNCS), (a \div FUNCS) % SLOTS, a % FUNCS >>
pci_config_readl(a) == present[Decode(a)]

Init ==
    /\ present \in Machines
    /\ bus = 0 /\ slot = 0 /\ func = 0
    /\ pc = "search"
    /\ pm = -1
    /\ machine = "on"

\* The search goes on with function f of this slot, of the next slot when
\* f = FUNCS, and so on.
Continue(f) ==
    /\ func' = f % FUNCS
    /\ slot' = IF f < FUNCS THEN slot ELSE (slot + 1) % SLOTS
    /\ bus' = IF f < FUNCS \/ slot + 1 < SLOTS THEN bus ELSE bus + 1
    /\ pc' = IF bus' = BUSES THEN "missing" ELSE "search"
    /\ UNCHANGED <<present, pm, machine>>

skip_slot_any_function(id) == id = "none"
skip_slot(id) == id = "none" /\ func = 0

Probe ==
    /\ pc = "search"
    /\ LET a == pci_make_configaddr(bus, slot, func)
           id == pci_config_readl(a)
       IN  IF id = "PIIX4"
           THEN /\ pc' = "found" /\ pm' = a
                /\ UNCHANGED <<present, bus, slot, func, machine>>
           ELSE Continue(IF skip_slot(id) THEN FUNCS ELSE func + 1)

\* The write to the power management register at the device's I/O base.
Suspend ==
    /\ pc = "found"
    /\ machine' = IF pci_config_readl(pm) = "PIIX4" THEN "off" ELSE "wrong"
    /\ pc' = "message"
    /\ UNCHANGED <<present, bus, slot, func, pm>>

\* "Cannot power off!", then an endless loop.
CannotPowerOff ==
    /\ pc = "missing"
    /\ pc' = "message"
    /\ UNCHANGED <<present, bus, slot, func, pm, machine>>

Next == Probe \/ Suspend \/ CannotPowerOff
Spec == Init /\ [][Next]_vars /\ WF_vars(Next)

-----------------------------------------------------------------------------
(* A machine with a PIIX4 anywhere is switched off: a function after one   *)
(* that is absent is not overlooked; without a PIIX4 the search ends, the  *)
(* kernel says so and the machine stays on.                                *)
PowersOff ==
    <>(pc = "message" /\ machine = IF \E x \in Places : present[x] = "PIIX4"
                                   THEN "off" ELSE "on")
=============================================================================
