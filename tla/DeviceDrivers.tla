--------------------------- MODULE DeviceDrivers ----------------------------
(***************************************************************************)
(* The drivers: the disk controller (Ahci), PCI configuration and the      *)
(* serial port.  They share no state: a behaviour is about one of them,    *)
(* which it chooses first, and the others stay in an initial state.        *)
(***************************************************************************)
EXTENDS Ahci

CONSTANTS
  Buses, Devs, SlotValues, BarValues, Devices, MaxDevices, Keys, BitOr(_, _),   \* of Pci
  Depth, MaxChars, MaxMessages                                                  \* of Serial

VARIABLES
  space, bars, command, line, pci_pc, key, bus, pci_slot, index, original, bar,   \* of Pci
  fcr, loopback, serial_pc, fifo, wire, printed, messages,                        \* of Serial
  driver    \* the driver this behaviour is about

Config == INSTANCE Pci WITH pc <- pci_pc, slot <- pci_slot
Uart == INSTANCE Serial WITH pc <- serial_pc

ASSUME DriversAssumption == Config!PciAssumption /\ Uart!SerialAssumption

pci == <<space, bars, command, line, pci_pc, key, bus, pci_slot, index, original, bar>>
serial == <<fcr, loopback, serial_pc, fifo, wire, printed, messages>>
all == <<vars, pci, serial, driver>>

AhciStep(A) == driver = "ahci" /\ A /\ UNCHANGED <<pci, serial, driver>>
PciStep(A) == driver = "pci" /\ A /\ UNCHANGED <<vars, serial, driver>>
SerialStep(A) == driver = "serial" /\ A /\ UNCHANGED <<vars, pci, driver>>

DevicesInit ==
  /\ driver \in {"ahci", "pci", "serial"}
  /\ driver # "ahci" => ncs = 1 /\ kind = [p \in Ports |-> "other"] /\ cmd = [p \in Ports |-> {}]
  /\ driver # "pci" => space = << >>
  /\ Init /\ Config!Init /\ Uart!Init

DevicesNext == AhciStep(Next) \/ PciStep(Config!Next) \/ SerialStep(Uart!Next)

\* The fairness of the three modules.
DevicesFairness ==
  /\ WF_all(AhciStep(Driver))
  /\ \A p \in Ports : WF_all(AhciStep(Engine(p))) /\ WF_all(AhciStep(Answer(p)))
  /\ WF_all(PciStep(Config!Advance \/ Config!Found))
  /\ WF_all(SerialStep(Uart!Transmit)) /\ WF_all(SerialStep(Uart!Step)) /\ WF_all(SerialStep(Uart!Return))

DevicesSpec == DevicesInit /\ [][DevicesNext]_all /\ DevicesFairness

\* A PCI search that ends without a device missed none, although some slots
\* are never looked at, and one that is found is the one asked for.
ScanComplete == driver = "pci" => Config!ScanComplete

\* pci_get_bar finds a memory region's size and leaves all registers as they
\* were, whatever devices there are.
ConfigKept == driver = "pci" => Config!ConfigKept

\* No character is lost although an interrupt prints between the kernel's look
\* at the transmitter and its write.
NothingLost == driver = "serial" => Uart!NothingLost

\* The drivers' loops, of which none has a limit, end: a command for a port
\* that did not fail before, a PCI search, and the wait for the transmitter.
DriversReturn == CommandReturns /\ Config!SearchEnds /\ Uart!PrintReturns
=============================================================================
