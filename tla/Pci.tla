-------------------------------- MODULE Pci ---------------------------------
(***************************************************************************)
(* kernel/drivers/pci.c: looking for a device and reading and setting its  *)
(* registers.  The devices are external: every one is at a bus and a       *)
(* device number, has base address registers of which some bits are wired, *)
(* a command and status register, and the register with its interrupt      *)
(* line.  Registers have BarValues values instead of 2^32, and bus, device *)
(* and slot numbers fewer bits; as in the code the slot has more bits than *)
(* a device number, so that the upper ones fall on the bus number.         *)
(***************************************************************************)
EXTENDS Integers, FiniteSets

CONSTANTS
  Buses,      \* bus numbers, values of the u8 bus: a power of two
  Devs,       \* device numbers of a bus: a power of two
  SlotValues, \* values of the u8 slot: a power of two
  BarValues,  \* values of a register
  Devices,    \* what devices there may be
  MaxDevices, \* how many there are (bound)
  Keys,       \* what is searched: [by, key], by "class" or "id"
  BitOr(_, _) \* the or of the bits of two bus numbers

IntDisable == 10   \* bits of the command and status register
ParityError == 31

NoKey == [by |-> "none"]
NoBar == [ok |-> FALSE]
NoDevice == [class |-> <<255, 255>>, id |-> <<65535, 65535>>]

\* A region, if any, is aligned to its size, and a memory region has 16 bytes
\* or more.
Region(b) ==
  /\ {b.io, b.prefetch} \subseteq BOOLEAN /\ {b.base, b.size} \subseteq 0..BarValues - 1
  /\ b.size = 0 => b.base = 0
  /\ b.size # 0 => /\ BarValues % b.size = 0 /\ b.base % b.size = 0
                   /\ b.size % (IF b.io THEN 4 ELSE 16) = 0

\* Nobody looks for what is read where no device is.
PciAssumption ==
  /\ {Buses, Devs, SlotValues, BarValues, MaxDevices} \subseteq Nat \ {0}
  /\ Buses % 2 = 0 /\ 2 * Devs < SlotValues /\ (SlotValues - 1) \div Devs < Buses
  /\ BarValues > 16 /\ BarValues % 16 = 0
  /\ \A d \in Devices : {0, 5} \subseteq DOMAIN d.bars /\ \A i \in DOMAIN d.bars : Region(d.bars[i])
  /\ \A k \in Keys : k.by \in {"class", "id"} /\ k.key # NoDevice[k.by]
  /\ \A x \in 0..Buses - 1 : BitOr(x, 0) = x /\ (x % 2 = 0 => BitOr(x, 1) = x + 1)

VARIABLES
  space,     \* the devices there are, by address
  bars,      \* their base address registers
  command,   \* their command and status registers, as sets of bits
  line,      \* the register with the interrupt line
  pc, key,   \* the search: where it is and for what
  bus, slot, \* the struct pci_device that is filled in
  index, original, bar   \* pci_get_bar: its argument, original_bar and its result

regs == <<bars, command, line>>
result == <<index, original, bar>>
vars == <<space, regs, pc, key, bus, slot, result>>

\* The address made of bus and slot, without function, offset and top bit.
Address(b, s) == BitOr(b, s \div Devs) * Devs + (s % Devs)

Here == Address(bus, slot)

Info(b) == IF b.size = 0 THEN 0 ELSE IF b.io THEN 1 ELSE IF b.prefetch THEN 8 ELSE 0

\* What a base address register holds once v was written to it.
Wired(b, v) == IF b.size = 0 THEN 0 ELSE v - (v % b.size) + Info(b)

Factory(d) == [i \in DOMAIN d.bars |-> Wired(d.bars[i], d.bars[i].base)]

Lines == 2   \* values of the low byte of the register at 0x3C

Init ==
  /\ \E where \in SUBSET (0..Buses * Devs - 1) :
       Cardinality(where) <= MaxDevices /\ space \in [where -> Devices]
  /\ bars = [a \in DOMAIN space |-> Factory(space[a])]
  /\ \E c \in {{ParityError}, {IntDisable}} : command = [a \in DOMAIN space |-> c]
  /\ line = [a \in DOMAIN space |-> 1 * Lines]
  /\ pc = "idle" /\ key = NoKey /\ bus = 0 /\ slot = 0
  /\ index = 0 /\ original = 0 /\ bar = NoBar

-----------------------------------------------------------------------------
(* pci_devices_by_id and pci_populate_device_struct.                       *)

Search(k) ==
  /\ pc = "idle"
  /\ key' = k /\ bus' = 0 /\ slot' = 0 /\ pc' = "scan"
  /\ UNCHANGED <<space, regs, result>>

At(a) == IF a \in DOMAIN space THEN space[a] ELSE NoDevice

Matches(a) == At(a)[key.by] = key.key

\* Mutated: the loop over a bus ends with its last device.
LastSlot_devs == Devs - 1

\* pci_devices_by_id counts with u8 to below 255, the other with int to 256.
LastSlot == IF key.by = "class" THEN SlotValues - 2 ELSE SlotValues - 1

LastBus == IF key.by = "class" THEN Buses - 2 ELSE Buses - 1

Advance ==
  /\ pc = "scan" /\ ~Matches(Here)
  /\ IF slot < LastSlot THEN slot' = slot + 1 /\ UNCHANGED <<bus, pc>>
     ELSE IF bus < LastBus THEN slot' = 0 /\ bus' = bus + 1 /\ UNCHANGED pc
     ELSE pc' = "absent" /\ UNCHANGED <<bus, slot>>
  /\ UNCHANGED <<space, regs, key, result>>

\* pci_populate_device_struct asserts that the first register is I/O.
Found ==
  /\ pc = "scan" /\ Matches(Here)
  /\ pc' = IF key.by = "id" /\ bars[Here][0] % 2 = 0 THEN "panic" ELSE "found"
  /\ UNCHANGED <<space, regs, key, bus, slot, result>>

\* The caller has a struct pci_device and may call any of the functions below;
\* "enabled" if pci_enable_interrupts was the last that touched a register.
Held == pc \in {"found", "enabled"}

\* The caller's structs are gone.
Forget ==
  /\ pc = "absent" \/ Held
  /\ pc' = "idle" /\ key' = NoKey /\ bus' = 0 /\ slot' = 0
  /\ index' = 0 /\ original' = 0 /\ bar' = NoBar
  /\ UNCHANGED <<space, regs>>

-----------------------------------------------------------------------------
(* The device that was found.                                              *)

Masked(v) == v - (v % 16)

pci_config_write32(i, v) == bars' = [bars EXCEPT ![Here][i] = Wired(space[Here].bars[i], v)]

\* A wrong index is refused; else the register is read and ones are written.
pci_get_bar(i) ==
  /\ Held
  /\ \/ /\ i > 5
        /\ bar' = NoBar
        /\ UNCHANGED <<bars, pc, index, original>>
     \/ /\ i <= 5
        /\ index' = i /\ original' = bars[Here][i]
        /\ pci_config_write32(i, BarValues - 1)
        /\ pc' = "sizing"
        /\ UNCHANGED bar
  /\ UNCHANGED <<space, command, line, key, bus, slot>>

Size(r) == ((BarValues - 1) - Masked(r) + 1) % BarValues

\* Mutated: the masked value is written back.
Restored_masked == Masked(original)

Restored == original

\* What was wired is read back and the register is restored.
ReadBack ==
  /\ pc = "sizing"
  /\ bar' = [ok |-> TRUE, address |-> Masked(original), size |-> Size(bars[Here][index]),
             io |-> original % 2 = 1]
  /\ pci_config_write32(index, Restored)
  /\ pc' = "found"
  /\ UNCHANGED <<space, command, line, key, bus, slot, index, original>>

\* Writing the register back clears the status bits that were set in it.
pci_enable_interrupts ==
  /\ Held /\ IntDisable \notin command[Here]
  /\ command' = [command EXCEPT ![Here] = {IntDisable}]
  /\ pc' = "enabled"
  /\ UNCHANGED <<space, bars, line, key, bus, slot, result>>

AlreadyEnabled ==
  /\ Held /\ IntDisable \in command[Here]
  /\ pc' = "enabled"
  /\ UNCHANGED <<space, regs, key, bus, slot, result>>

pci_set_interrupt_line(l) ==
  /\ Held
  /\ line' = [line EXCEPT ![Here] = @ - (@ % Lines) + l]
  /\ pc' = "found"
  /\ UNCHANGED <<space, bars, command, key, bus, slot, result>>

Next ==
  \/ \E k \in Keys : Search(k)
  \/ Advance \/ Found \/ Forget
  \/ \E i \in {0, 5, 6} : pci_get_bar(i)
  \/ ReadBack \/ pci_enable_interrupts \/ AlreadyEnabled
  \/ \E l \in 0..Lines - 1 : pci_set_interrupt_line(l)

\* A search goes on until it ends.
Spec == Init /\ [][Next]_vars /\ WF_vars(Advance \/ Found)

-----------------------------------------------------------------------------
(* Properties.                                                             *)

\* The type of every variable.
TypeOK ==
  /\ \A a \in DOMAIN space :
       bars[a] \in [DOMAIN space[a].bars -> 0..BarValues - 1] /\ line[a] \in 0..2 * Lines - 1
  /\ bus \in 0..Buses - 1 /\ slot \in 0..SlotValues - 1
  /\ pc \in {"idle", "scan", "absent", "found", "sizing", "enabled", "panic"}

\* Although pci_devices_by_id never looks at bus 255, nor at slot 255, a
\* search that ends without a device missed none: slots of 32 and more are
\* devices of the buses with the next numbers.  Bus and slot of a device that
\* is found lead to one with the class or the number that was asked for.
ScanComplete ==
  /\ pc = "absent" => \A a \in DOMAIN space : ~(space[a][key.by] = key.key)
  /\ Held \/ pc = "sizing" =>
       Here \in DOMAIN space /\ space[Here][key.by] = key.key

Right(b) ==
  bar.ok => /\ bar.address = b.base /\ bar.size = b.size
            /\ bar.io = (b.io /\ b.size # 0)

\* pci_get_bar returns address, size and type of a memory region, and gives
\* the register back: except for one whose size is being found, the base
\* addresses of all devices and the bytes beside the interrupt line are what
\* they were.
ConfigKept ==
  /\ (Held /\ ~space[Here].bars[index].io) => Right(space[Here].bars[index])
  /\ \A a \in DOMAIN space :
       /\ line[a] \div Lines = 1
       /\ \A i \in DOMAIN space[a].bars :
            (pc = "sizing" /\ a = Here /\ i = index) \/ bars[a][i] = Factory(space[a])[i]

\* Every search ends.
SearchEnds == pc = "scan" ~> pc \in {"absent", "found", "panic"}

\* pci_get_bar returns address, size and type of every region.  It does not for
\* an I/O region of fewer than 16 ports, of which it masks two bits too many.
BarRight == Held => Right(space[Here].bars[index])

\* After pci_enable_interrupts the device may interrupt.  It may not: the bit
\* that is set is the one that disables.
InterruptsOn == pc = "enabled" => IntDisable \notin command[Here]

\* pci_devices_by_id returns the number of devices, as its comment says.  It
\* returns 1 at the first one.
ReturnsCount ==
  (Held /\ key.by = "class") => Cardinality({a \in DOMAIN space : space[a][key.by] = key.key}) = 1
=============================================================================
