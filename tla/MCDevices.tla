----------------------------- MODULE MCDevices ------------------------------
(***************************************************************************)
(* DeviceDrivers for TLC.  Disks: two ports, commands of one sector, a     *)
(* page and more than a page.  PCI: 4 buses of 2 devices, slots of 3 bits, *)
(* up to two devices of three kinds.  Serial: a transmitter of four        *)
(* characters and three messages.                                          *)
(***************************************************************************)
EXTENDS DeviceDrivers, TLC, Bitwise

BitsOr(x, y) == x | y

Mem(base, size, prefetch) == [io |-> FALSE, base |-> base, size |-> size, prefetch |-> prefetch]
Io(base, size) == [io |-> TRUE, base |-> base, size |-> size, prefetch |-> FALSE]
Bars(b0, b5) == (0 :> b0) @@ (5 :> b5)

PciDevices ==
  {[class |-> <<1, 6>>, id |-> <<1, 1>>, bars |-> Bars(Mem(64, 16, TRUE), Mem(128, 64, FALSE))],
   [class |-> <<1, 1>>, id |-> <<2, 1>>, bars |-> Bars(Io(40, 8), Mem(0, 0, FALSE))],
   [class |-> <<2, 6>>, id |-> <<2, 2>>, bars |-> Bars(Mem(32, 32, FALSE), Io(48, 16))]}

PciKeys ==
  {[by |-> "class", key |-> <<1, 6>>], [by |-> "class", key |-> <<2, 6>>],
   [by |-> "id", key |-> <<2, 1>>], [by |-> "id", key |-> <<2, 2>>]}
=============================================================================
