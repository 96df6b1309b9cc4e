--------------------------- MODULE DevicesProofs ----------------------------
(***************************************************************************)
(* The safety of the drivers in drivers/.  First the disks, for every      *)
(* number of ports and of command slots, every buffer and size, and every  *)
(* order in which ports start, stop, complete and fail; at the end the     *)
(* serial port and PCI configuration.                                      *)
(***************************************************************************)
EXTENDS DeviceDrivers, WellFoundedInduction, TLAPS

\* A search upwards that can end does: some number of the set is its first.
LEMMA LeastOf ==
  ASSUME NEW S \in SUBSET Nat, S # {}
  PROVE  \E s \in S : \A t \in S : s <= t
  <1> DEFINE Less == OpToRel(<, Nat)
  <1>1. IsWellFoundedOn(Less, Nat)
    BY NatLessThanWellFounded, Zenon
  <1>2. \A t, s \in Nat : t < s => <<t, s>> \in Less
    BY DEF OpToRel
  <1> HIDE DEF Less
  <1>3. PICK s \in S : \A t \in S : ~(<<t, s>> \in Less)
    BY <1>1, WFMin, Zenon
  <1>4. \A t \in S : ~(t < s)
    BY <1>2, <1>3
  <1> QED BY <1>4

\* A buffer in one page is as contiguous in its frame.
LEMMA PageIsContiguous ==
  ASSUME NEW v \in Nat, NEW u \in Nat, v <= u, (v % 8) + (u - v) < 8
  PROVE  virtual_to_physical(u) = virtual_to_physical(v) + (u - v)
  <1>1. u \div 8 = v \div 8 /\ u % 8 = (v % 8) + (u - v)
    OBVIOUS
  <1> QED BY <1>1 DEF virtual_to_physical, PageSectors

\* The command table of at most 8 sectors has one entry, and both counts are
\* the caller's.
LEMMA OneEntry ==
  ASSUME NEW v \in Nat, NEW n \in 1..num_prdt
  PROVE  Table(v, n) = [prdt |-> [i \in 1..1 |-> Entry(v, n)], count |-> n]
  <1>1. prdtl(n) = 1
    BY DEF prdtl, EntrySectors, num_prdt
  <1>2. n - (1 - 1) * EntrySectors = n
    BY DEF EntrySectors, num_prdt
  <1>3. \A i \in 1..1 : /\ v + (i - 1) * EntrySectors = v
                        /\ ~(i < 1)
    BY DEF EntrySectors
  <1> QED BY <1>1, <1>2, <1>3 DEF Table

\* What CountFits lets through is transferred to the buffer's own frames, if
\* the buffer lies in one page.
LEMMA TableIsBuffer ==
  ASSUME NEW v \in Nat, NEW n \in 1..num_prdt, Sound(v, n)
  PROVE  /\ Table(v, n).count = n
         /\ Transferred(Table(v, n)) = Sectors(v, n)
  <1> DEFINE a == virtual_to_physical(v)
  <1>1. Table(v, n).count = n /\ Table(v, n).prdt = [i \in 1..1 |-> Entry(v, n)]
    BY OneEntry
  <1>2. Transferred(Table(v, n)) = a..a + n - 1
    <2> DEFINE f == [i \in 1..1 |-> Entry(v, n)]
    <2>1. {f[i] : i \in DOMAIN f} = {Entry(v, n)}
      <3>1. DOMAIN f = 1..1 /\ 1 \in 1..1 /\ \A i \in 1..1 : f[i] = Entry(v, n)
        OBVIOUS
      <3> HIDE DEF f
      <3> QED BY <3>1
    <2>2. UNION {e.dba..e.dba + e.sectors - 1 : e \in {Entry(v, n)}} = a..a + n - 1
      <3>1. Entry(v, n).dba = a /\ Entry(v, n).sectors = n
        BY DEF Entry
      <3> QED BY <3>1
    <2> HIDE DEF f
    <2> QED BY <1>1, <2>1, <2>2 DEF Transferred, f
  <1>3. (v % 8) + n <= 8 /\ a \in Nat
    BY DEF Sound, PageSectors, num_prdt, virtual_to_physical
  <1>4. \A u \in v..v + n - 1 : virtual_to_physical(u) = a + (u - v)
    BY <1>3, PageIsContiguous DEF num_prdt
  <1>5. {a + (u - v) : u \in v..v + n - 1} = a..a + n - 1
    <2> HIDE DEF a
    <2>1. ASSUME NEW x \in a..a + n - 1
          PROVE  \E u \in v..v + n - 1 : x = a + (u - v)
      <3>1. v + (x - a) \in v..v + n - 1 /\ x = a + ((v + (x - a)) - v)
        BY <1>3, <2>1 DEF num_prdt
      <3> QED BY <3>1
    <2>2. \A u \in v..v + n - 1 : a + (u - v) \in a..a + n - 1
      BY <1>3 DEF num_prdt
    <2> QED BY <2>1, <2>2
  <1>6. Sectors(v, n) = {a + (u - v) : u \in v..v + n - 1}
    BY <1>4 DEF Sectors
  <1> QED BY <1>1, <1>2, <1>5, <1>6

-----------------------------------------------------------------------------
(* The inductive invariant.                                                *)

Commands == [id : Nat, buffer : Nat, count : Nat]
Booting == pc \in {"probe", "stop", "base", "start"}
Underway == pc \in {"wait", "poll", "status", "again"}

\* The types that TypeOK leaves open.
Types ==
  /\ ncs \in 0..31
  /\ tfes \in [Ports -> BOOLEAN] /\ halted \in [Ports -> BOOLEAN]
  /\ table = [p \in Ports |-> [s \in Slots |-> table[p][s]]]
  /\ owner \in [Ports -> [Slots -> Commands]]
  /\ want \in Commands

\* No command is given before ahci_init ends.
NoneAtBoot == Booting => rc = 2 /\ \A p \in Ports : ci[p] = {}

\* From the choice of the slot to the verdict its table is the command's,
\* which passed the assertion on its count.
TableIsWanted ==
  /\ pc \in {"slot", "none"} \/ Underway => want.count \in 1..num_prdt
  /\ Underway => table[port][slot] = Table(want.buffer, want.count)

Carried == \E d \in done : d.id = want.id /\ d.table = Table(want.buffer, want.count)

\* The command polled for is issued, carried out or failed, and no longer
\* issued once the poll has seen its slot clear.
Outcome ==
  /\ pc \in {"poll", "status", "again"} =>
       \/ slot \in ci[port] /\ owner[port][slot] = want
       \/ Carried
       \/ tfes[port]
  /\ pc = "again" => slot \notin ci[port]

IInv ==
  /\ TypeOK /\ Types /\ NoneAtBoot /\ TableIsWanted /\ Outcome
  /\ SlotsApart /\ SuccessIsDone

\* The machine before ahci_init.
LEMMA InitIInv == Init => IInv
  <1> SUFFICES ASSUME Init PROVE IInv
    OBVIOUS
  <1>0. ncs \in 0..31
    BY AhciAssumption, Zenon DEF Init
  <1>1. 0 \in Ports /\ 0 \in Slots
    BY <1>0, AhciAssumption DEF Ports, Slots
  <1> USE AhciAssumption DEF Init
  <1>2. TypeOK
    BY <1>1 DEF TypeOK
  <1>3. Types
    BY <1>0, <1>1 DEF Types, NoCommand, Commands
  <1>4. NoneAtBoot /\ TableIsWanted /\ Outcome /\ SlotsApart /\ SuccessIsDone
    BY DEF NoneAtBoot, Booting, TableIsWanted, Underway, Outcome, SlotsApart, SuccessIsDone
  <1> QED BY <1>2, <1>3, <1>4 DEF IInv

-----------------------------------------------------------------------------
(* Initialisation.                                                         *)

\* The steps of ahci_init that leave commands and their slots alone.
LEMMA BootSteps ==
  ASSUME IInv, Booting, Booting' \/ pc' = "idle", port' \in Ports, drives' \subseteq Ports,
         cmd' \in [Ports -> SUBSET {ST, POD, FRE, FR, CR}],
         UNCHANGED <<ncs, kind, ci, tfes, halted, slot, want, log>>,
         table' = [p \in Ports |-> [s \in Slots |-> table'[p][s]]]
  PROVE  IInv'
  <1> USE DEF IInv, log
  <1>1. TypeOK' /\ Types'
    BY DEF TypeOK, Types, Slots, Booting
  <1>2. NoneAtBoot'
    BY DEF NoneAtBoot, Booting
  <1>3. TableIsWanted' /\ Outcome' /\ SlotsApart' /\ SuccessIsDone'
    BY DEF TableIsWanted, Underway, Outcome, SlotsApart, SuccessIsDone, NoneAtBoot, Booting
  <1> QED BY <1>1, <1>2, <1>3

\* ahci_init's loop stays inside the ports.
LEMMA PortLoop ==
  ASSUME TypeOK, NextPort
  PROVE  port' \in Ports /\ (pc' = "probe" \/ pc' = "idle")
  BY DEF TypeOK, NextPort

\* The steps of ahci_init before a port takes commands.
LEMMA BootIInv ==
  ASSUME IInv,
         Skip \/ ahci_sata_setup \/ ahci_stop_command_execution \/ ahci_set_base
           \/ ahci_start_command_execution
  PROVE  IInv'
  <1> USE DEF IInv, Booting, hw
  <1>1. port \in Ports /\ drives \subseteq Ports
        /\ cmd \in [Ports -> SUBSET {ST, POD, FRE, FR, CR}]
        /\ table = [p \in Ports |-> [s \in Slots |-> table[p][s]]]
    BY DEF TypeOK, Types
  <1>2. CASE Skip
    BY <1>1, <1>2, PortLoop, BootSteps DEF Skip
  <1>3. CASE ahci_sata_setup
    <2>1. cmd' \in [Ports -> SUBSET {ST, POD, FRE, FR, CR}]
      BY <1>1, <1>3 DEF ahci_sata_setup
    <2> QED BY <1>1, <1>3, <2>1, BootSteps DEF ahci_sata_setup
  <1>4. CASE ahci_stop_command_execution
    BY <1>1, <1>4, BootSteps DEF ahci_stop_command_execution
  <1>5. CASE ahci_set_base
    <2>1. table' = [p \in Ports |-> [s \in Slots |-> table'[p][s]]]
      BY <1>1, <1>5 DEF ahci_set_base
    <2> QED BY <1>1, <1>5, <2>1, BootSteps DEF ahci_set_base
  <1>6. CASE ahci_start_command_execution
    <2>1. cmd' \in [Ports -> SUBSET {ST, POD, FRE, FR, CR}] /\ drives' \subseteq Ports
      BY <1>1, <1>6 DEF ahci_start_command_execution
    <2> QED BY <1>1, <1>6, <2>1, PortLoop, BootSteps DEF ahci_start_command_execution
  <1> QED BY <1>2, <1>3, <1>4, <1>5, <1>6

-----------------------------------------------------------------------------
(* Commands.                                                               *)

\* A new command: the last one's verdict no longer matters.
LEMMA ahci_perform_commandIInv ==
  ASSUME IInv, NEW p \in Ports, NEW buffer \in Buffers, NEW count \in Counts,
         ahci_perform_command(p, buffer, count)
  PROVE  IInv'
  <1> USE AhciAssumption DEF IInv, ahci_perform_command
  <1>1. cmds' \in 0..MaxCmds /\ want' \in Commands
    BY DEF TypeOK, Commands
  <1>2. TypeOK' /\ Types'
    BY <1>1 DEF TypeOK, Types, Slots
  <1>3. NoneAtBoot' /\ SuccessIsDone'
    BY DEF NoneAtBoot, Booting, SuccessIsDone
  <1>4. TableIsWanted'
    <2>1. pc' = "slot" => want'.count \in 1..num_prdt
      BY DEF CountFits, num_prdt
    <2> QED BY <2>1 DEF TableIsWanted, Underway
  <1>5. Outcome' /\ SlotsApart'
    BY DEF Outcome, SlotsApart
  <1> QED BY <1>2, <1>3, <1>4, <1>5

\* The slot found is one that is not issued, so its table is free to be
\* written.
LEMMA get_free_command_slotIInv == IInv /\ get_free_command_slot => IInv'
  <1> SUFFICES ASSUME IInv, get_free_command_slot PROVE IInv'
    OBVIOUS
  <1> USE DEF IInv, get_free_command_slot, hw, log
  <1>1. slot' \in FreeSlots(port)
    <2>1. FreeSlots(port) \in SUBSET Nat /\ FreeSlots(port) # {}
      BY DEF FreeSlots, Types
    <2>2. \E s \in FreeSlots(port) : \A t \in FreeSlots(port) : s <= t
      BY <2>1, LeastOf
    <2> QED BY <2>2
  <1>2. slot' \in Slots /\ slot' \notin ci[port] /\ port \in Ports
    <2>1. slot' \in 0..ncs - 1 /\ slot' \notin ci[port]
      BY <1>1, Zenon DEF FreeSlots
    <2>2. ncs \in 0..31 /\ port \in Ports
      BY DEF Types, TypeOK
    <2> HIDE DEF get_free_command_slot
    <2> QED BY <2>1, <2>2 DEF Slots
  <1>3. /\ table' = [p \in Ports |-> [s \in Slots |-> table'[p][s]]]
        /\ table'[port][slot'] = Table(want.buffer, want.count)
        /\ \A p \in Ports : \A s \in Slots :
             p # port \/ s # slot' => table'[p][s] = table[p][s]
    BY <1>2 DEF Types
  <1>4. TypeOK' /\ Types'
    BY <1>2, <1>3 DEF TypeOK, Types, Slots
  <1>5. NoneAtBoot' /\ SuccessIsDone' /\ Outcome'
    BY DEF NoneAtBoot, Booting, SuccessIsDone, Outcome
  <1>6. TableIsWanted'
    BY <1>3 DEF TableIsWanted, Underway
  <1>7. SlotsApart'
    <2> SUFFICES ASSUME NEW q \in Ports, NEW s \in ci[q]
                 PROVE  table'[q][s] = Table(owner[q][s].buffer, owner[q][s].count)
      BY DEF SlotsApart
    <2>1. s \in Slots /\ table[q][s] = Table(owner[q][s].buffer, owner[q][s].count)
      BY DEF SlotsApart, TypeOK
    <2>2. q # port \/ s # slot'
      BY <1>2
    <2> QED BY <1>3, <2>1, <2>2
  <1> QED BY <1>4, <1>5, <1>6, <1>7

\* The command is issued with the table that was written for it.
LEMMA IssueIInv == IInv /\ Issue => IInv'
  <1> SUFFICES ASSUME IInv, Issue PROVE IInv'
    OBVIOUS
  <1> USE DEF IInv, Issue
  <1>1. port \in Ports /\ slot \in Slots
    BY DEF TypeOK
  <1>2. /\ owner' \in [Ports -> [Slots -> Commands]]
        /\ owner'[port][slot] = want
        /\ \A p \in Ports : \A s \in Slots :
             p # port \/ s # slot => owner'[p][s] = owner[p][s]
    BY <1>1 DEF Types
  <1>3. /\ ci' \in [Ports -> SUBSET Slots]
        /\ ci'[port] = ci[port] \cup {slot}
        /\ \A p \in Ports : p # port => ci'[p] = ci[p]
    BY <1>1 DEF TypeOK
  <1>4. TypeOK' /\ Types'
    BY <1>2, <1>3 DEF TypeOK, Types, Slots
  <1>5. NoneAtBoot' /\ SuccessIsDone' /\ TableIsWanted'
    BY DEF NoneAtBoot, Booting, SuccessIsDone, TableIsWanted, Underway
  <1>6. Outcome'
    BY <1>2, <1>3 DEF Outcome
  <1>7. SlotsApart'
    <2> SUFFICES ASSUME NEW p \in Ports, NEW s \in ci'[p]
                 PROVE  table[p][s] = Table(owner'[p][s].buffer, owner'[p][s].count)
      BY DEF SlotsApart
    <2>1. CASE p = port /\ s = slot
      BY <1>2, <2>1 DEF TableIsWanted, Underway
    <2>2. CASE ~(p = port /\ s = slot)
      <3>1. s \in ci[p] /\ s \in Slots
        BY <1>3, <2>2 DEF TypeOK
      <3> QED BY <1>2, <2>2, <3>1 DEF SlotsApart
    <2> QED BY <2>1, <2>2
  <1> QED BY <1>4, <1>5, <1>6, <1>7

\* The other steps of ahci_perform_command: they only look.
LEMMA PollIInv ==
  ASSUME IInv, NoFreeSlot \/ Again \/ Hung \/ PollCi \/ PollIs \/ CheckAgain
  PROVE  IInv'
  <1> USE DEF IInv, NoFreeSlot, Again, Hung, PollCi, PollIs, CheckAgain, hw, log
  <1>1. TypeOK'
    BY DEF TypeOK, Slots, Verdict
  <1>2. Types'
    BY DEF Types, Slots
  <1>3. NoneAtBoot' /\ SlotsApart'
    BY DEF NoneAtBoot, Booting, SlotsApart
  <1>4. TableIsWanted'
    BY DEF TableIsWanted, Underway
  <1>5. Outcome'
    BY DEF Outcome, Carried
  <1>6. SuccessIsDone'
    BY DEF SuccessIsDone, Outcome, Carried, Verdict
  <1> QED BY <1>1, <1>2, <1>3, <1>4, <1>5, <1>6

-----------------------------------------------------------------------------
(* The ports.                                                              *)

\* A port's engine starts or stops: no command changes.
LEMMA EngineIInv ==
  ASSUME IInv, NEW p \in Ports, Engine(p)
  PROVE  IInv'
  <1> USE DEF IInv, Engine, log
  <1>1. cmd' \in [Ports -> SUBSET {ST, POD, FRE, FR, CR}]
    BY DEF TypeOK
  <1>2. TypeOK' /\ Types'
    BY <1>1 DEF TypeOK, Types, Slots
  <1>3. NoneAtBoot' /\ SlotsApart' /\ TableIsWanted' /\ Outcome' /\ SuccessIsDone'
    BY DEF NoneAtBoot, Booting, SlotsApart, TableIsWanted, Underway, Outcome, Carried,
           SuccessIsDone
  <1> QED BY <1>2, <1>3

\* A port carries out the table of the command the slot was issued for.
LEMMA CompleteIInv ==
  ASSUME IInv, NEW p \in Ports, NEW s \in Slots, Complete(p, s)
  PROVE  IInv'
  <1> USE DEF IInv, Complete
  <1>1. /\ ci' \in [Ports -> SUBSET Slots]
        /\ \A q \in Ports : ci'[q] = IF q = p THEN ci[q] \ {s} ELSE ci[q]
    BY DEF TypeOK
  <1>2. done \subseteq done'
    OBVIOUS
  <1>3. TypeOK' /\ Types'
    BY <1>1 DEF TypeOK, Types, Slots
  <1>4. NoneAtBoot' /\ SlotsApart' /\ TableIsWanted'
    BY <1>1 DEF NoneAtBoot, Booting, SlotsApart, TableIsWanted, Underway
  <1>5. Outcome'
    <2>1. CASE pc \in {"poll", "status"} /\ port = p /\ slot = s /\ owner[p][s] = want
      <3> DEFINE d == [id |-> owner[p][s].id, table |-> table[p][s]]
      <3>1. d \in done' /\ d.id = want.id /\ d.table = Table(want.buffer, want.count)
        BY <2>1 DEF TableIsWanted, Underway
      <3>2. Carried'
        BY <3>1 DEF Carried
      <3> QED BY <2>1, <3>2 DEF Outcome
    <2>2. CASE ~(pc \in {"poll", "status"} /\ port = p /\ slot = s /\ owner[p][s] = want)
      <3>1. Carried => Carried'
        BY <1>2 DEF Carried
      <3>2. port \in Ports
        BY DEF TypeOK
      <3> QED BY <1>1, <2>2, <3>1, <3>2 DEF Outcome
    <2> QED BY <2>1, <2>2
  <1>6. SuccessIsDone'
    BY <1>2 DEF SuccessIsDone
  <1> QED BY <1>3, <1>4, <1>5, <1>6

\* A failure is seen in PxIS by whoever polls on that port.
LEMMA FailIInv ==
  ASSUME IInv, NEW p \in Ports, NEW s \in Slots, Fail(p, s)
  PROVE  IInv'
  <1> USE DEF IInv, Fail, log
  <1>1. /\ ci' \in [Ports -> SUBSET Slots]
        /\ \A q \in Ports : ci'[q] \subseteq ci[q] /\ (q # p => ci'[q] = ci[q])
    BY DEF TypeOK
  <1>2. TypeOK' /\ Types'
    BY <1>1 DEF TypeOK, Types, Slots
  <1>3. NoneAtBoot' /\ SlotsApart' /\ TableIsWanted'
    BY <1>1 DEF NoneAtBoot, Booting, SlotsApart, TableIsWanted, Underway
  <1>4. Outcome'
    <2>1. port \in Ports /\ tfes'[p] = TRUE /\ (port # p => tfes'[port] = tfes[port])
      BY DEF TypeOK, Types
    <2> QED BY <1>1, <2>1 DEF Outcome, Carried
  <1>5. SuccessIsDone'
    BY DEF SuccessIsDone
  <1> QED BY <1>2, <1>3, <1>4, <1>5

\* Every step of driver and ports preserves the invariant.
LEMMA StepIInv == IInv /\ [Next]_vars => IInv'
  <1> SUFFICES ASSUME IInv, [Next]_vars PROVE IInv'
    OBVIOUS
  <1>1. CASE UNCHANGED vars
    <2> USE <1>1 DEF vars, hw, log
    <2>1. TypeOK'
      <3>1. TypeOK /\ UNCHANGED <<cmd, ci, drives, port, slot, pc, rc, cmds>>
        BY DEF IInv
      <3> QED BY <3>1 DEF TypeOK, Ports, Slots
    <2>2. Types'
      BY DEF IInv, Types, Slots
    <2>3. NoneAtBoot'
      BY DEF IInv, NoneAtBoot, Booting
    <2>4. TableIsWanted'
      BY DEF IInv, TableIsWanted, Underway
    <2>5. Outcome'
      BY DEF IInv, Outcome, Carried
    <2>6. SlotsApart' /\ SuccessIsDone'
      BY DEF IInv, SlotsApart, SuccessIsDone
    <2> QED BY <2>1, <2>2, <2>3, <2>4, <2>5, <2>6 DEF IInv
  <1> QED
    BY <1>1, BootIInv, ahci_perform_commandIInv, get_free_command_slotIInv, IssueIInv,
       PollIInv, EngineIInv, CompleteIInv, FailIInv
    DEF Next, Driver, Answer

-----------------------------------------------------------------------------
(* Theorems.                                                               *)

\* The inductive invariant holds of every run of driver and ports.
THEOREM Invariance == Spec => []IInv
  BY InitIInv, StepIInv, PTL DEF Spec

\* The ports' registers and the driver's state keep their types; the slot of a
\* command is one the controller has.
THEOREM TypeCorrect == Spec => []TypeOK
  <1>1. IInv => TypeOK
    BY DEF IInv
  <1> QED BY <1>1, Invariance, PTL

\* No command table is rewritten while its slot is issued, however many
\* commands were given up on and still have theirs.
THEOREM SlotsAreApart == Spec => []SlotsApart
  <1>1. IInv => SlotsApart
    BY DEF IInv
  <1> QED BY <1>1, Invariance, PTL

\* ahci_perform_command returns 1 only for a command its port carried out.
THEOREM SuccessWasDone == Spec => []SuccessIsDone
  <1>1. IInv => SuccessIsDone
    BY DEF IInv
  <1> QED BY <1>1, Invariance, PTL

\* For every buffer that starts a page or lies in one, what is issued transfers
\* that buffer's sectors, by the PRDT and by the FIS.
THEOREM TransfersBuffer == Spec => []TransferIsBuffer
  <1>1. IInv => TransferIsBuffer
    <2> SUFFICES ASSUME IInv, pc \in {"wait", "poll", "status"},
                        Sound(want.buffer, want.count)
                 PROVE  /\ table[port][slot].count = want.count
                        /\ Transferred(table[port][slot]) = Sectors(want.buffer, want.count)
      BY DEF TransferIsBuffer
    <2>1. /\ want.buffer \in Nat /\ want.count \in 1..num_prdt
          /\ table[port][slot] = Table(want.buffer, want.count)
      BY DEF IInv, Types, Commands, TableIsWanted, Underway
    <2> QED BY <2>1, TableIsBuffer
  <1> QED BY <1>1, Invariance, PTL
-----------------------------------------------------------------------------
(* The serial port: a caller that saw the transmitter empty writes into one *)
(* that holds at most the last character of an interrupt's message, since  *)
(* the handler itself waits for an empty one before each of its own.       *)

\* The transmitter's FIFO is off only before serial_init, when nothing was
\* printed.
FifoOn ==
  IF serial_pc.kernel = "init"
    THEN serial_pc.interrupt = "off" /\ printed = <<>> /\ wire = <<>> /\ fifo = <<>>
    ELSE fcr = TRUE

\* What a caller about to write finds: the handler an empty transmitter, the
\* kernel at most one character, and of its own it adds one.
RoomToWrite ==
  /\ Len(fifo) <= 2
  /\ serial_pc.kernel = "write" => Len(fifo) <= 1
  /\ serial_pc.interrupt = "write" => fifo = <<>>

\* The types of the state of the serial port.
SerialTypes ==
  /\ fcr \in BOOLEAN /\ loopback \in BOOLEAN
  /\ serial_pc \in [kernel : {"init", "idle", "wait", "write"},
                    interrupt : {"off", "idle", "wait", "write"}]
  /\ fifo \in Seq(Uart!Callers) /\ wire \in Seq(Uart!Callers) /\ printed \in Seq(Uart!Callers)

SerialIInv == SerialTypes /\ FifoOn /\ RoomToWrite /\ Uart!NothingLost

\* Moving the first character from the transmitter to the wire keeps what is
\* read off both.
LEMMA SentIsOrdered ==
  ASSUME NEW T, NEW s \in Seq(T), NEW q \in Seq(T), q # <<>>
  PROVE  /\ Append(s, Head(q)) \in Seq(T) /\ Tail(q) \in Seq(T)
         /\ Append(s, Head(q)) \o Tail(q) = s \o q
         /\ Len(Tail(q)) = Len(q) - 1
  <1>1. Head(q) \in T /\ Tail(q) \in Seq(T) /\ Len(Tail(q)) = Len(q) - 1 /\ Len(q) \in Nat \ {0}
    OBVIOUS
  <1>2. Append(s, Head(q)) \in Seq(T) /\ Len(Append(s, Head(q))) = Len(s) + 1
    BY <1>1
  <1> DEFINE a == Append(s, Head(q)) \o Tail(q)
             b == s \o q
  <1>3. a \in Seq(T) /\ b \in Seq(T) /\ Len(a) = Len(s) + Len(q) /\ Len(b) = Len(s) + Len(q)
    BY <1>1, <1>2
  <1>4. ASSUME NEW i \in 1..(Len(s) + Len(q)) PROVE a[i] = b[i]
    <2>1. CASE i <= Len(s)
      BY <2>1, <1>1, <1>2
    <2>2. CASE i = Len(s) + 1
      BY <2>2, <1>1, <1>2
    <2>3. CASE i > Len(s) + 1
      BY <2>3, <1>1, <1>2
    <2> QED BY <2>1, <2>2, <2>3
  <1>5. a = b
    <2> HIDE DEF a, b
    <2> QED BY <1>3, <1>4
  <1> QED BY <1>1, <1>2, <1>5

\* Appending to the transmitter appends to what is read off both.
LEMMA WrittenIsLast ==
  ASSUME NEW T, NEW s \in Seq(T), NEW q \in Seq(T), NEW e \in T
  PROVE  s \o Append(q, e) = Append(s \o q, e)
  <1> DEFINE a == s \o Append(q, e)
             b == Append(s \o q, e)
  <1>1. a \in Seq(T) /\ b \in Seq(T) /\ Len(a) = Len(s) + Len(q) + 1 /\ Len(b) = Len(a)
    OBVIOUS
  <1>2. ASSUME NEW i \in 1..(Len(s) + Len(q) + 1) PROVE a[i] = b[i]
    <2>1. CASE i <= Len(s)
      BY <2>1
    <2>2. CASE i > Len(s) /\ i <= Len(s) + Len(q)
      BY <2>2
    <2>3. CASE i = Len(s) + Len(q) + 1
      BY <2>3
    <2> QED BY <2>1, <2>2, <2>3
  <1> HIDE DEF a, b
  <1>3. a = b
    BY <1>1, <1>2
  <1> QED BY <1>3 DEF a, b

\* Every step of the two callers and of the transmitter preserves the
\* invariant, if the transmitter holds two characters.
LEMMA SerialStepIInv ==
  ASSUME Depth \in Nat, Depth >= 2, SerialIInv, [Uart!Next]_(Uart!vars)
  PROVE  SerialIInv'
  <1> USE DEF SerialIInv, Uart!NothingLost
  <1>1. CASE UNCHANGED Uart!vars
    BY <1>1 DEF Uart!vars, SerialTypes, FifoOn, RoomToWrite
  <1>2. CASE Uart!serial_init
    <2>1. printed = <<>> /\ wire = <<>>
      BY <1>2 DEF Uart!serial_init, FifoOn
    <2>2. /\ fcr' = TRUE /\ fifo' = <<>> /\ loopback' \in BOOLEAN
          /\ serial_pc' = [serial_pc EXCEPT !.kernel = "idle"]
          /\ wire' = <<>> /\ printed' = <<>>
      BY <1>2, <2>1 DEF Uart!serial_init, Uart!EnableFifo
    <2>3. serial_pc'.kernel = "idle" /\ serial_pc'.interrupt = "off"
      BY <1>2, <2>2 DEF SerialTypes, FifoOn, Uart!serial_init
    <2> QED BY <2>2, <2>3 DEF SerialTypes, FifoOn, RoomToWrite
  <1>3. ASSUME NEW c \in Uart!Callers, Uart!Call(c) PROVE SerialIInv'
    BY <1>3 DEF Uart!Call, Uart!Turn, Uart!Callers, SerialTypes, FifoOn, RoomToWrite
  <1>4. ASSUME NEW c \in Uart!Callers, Uart!Wait(c) PROVE SerialIInv'
    <2>1. fifo = <<>> /\ Len(fifo) = 0
      BY <1>4 DEF Uart!Wait, Uart!is_transmit_empty
    <2> QED BY <1>4, <2>1 DEF Uart!Wait, Uart!Turn, Uart!Callers, SerialTypes, FifoOn, RoomToWrite
  <1>5. ASSUME NEW c \in Uart!Callers, Uart!Write(c) PROVE SerialIInv'
    <2>1. serial_pc[c] = "write" /\ serial_pc.kernel # "init" /\ fcr = TRUE /\ Len(fifo) <= 1
      BY <1>5 DEF Uart!Write, Uart!Turn, Uart!Callers, SerialTypes, FifoOn, RoomToWrite
    <2>2. fifo' = Append(fifo, c) /\ printed' = Append(printed, c)
      BY <1>5, <2>1 DEF Uart!Write, Uart!Capacity, SerialTypes
    <2>3. /\ fifo' \in Seq(Uart!Callers) /\ printed' \in Seq(Uart!Callers)
          /\ Len(fifo') = Len(fifo) + 1 /\ wire' = wire /\ loopback' = loopback /\ fcr' = fcr
          /\ serial_pc' = [serial_pc EXCEPT ![c] = "idle"]
      BY <1>5, <2>2 DEF Uart!Write, SerialTypes
    <2>4. wire \o fifo' = Append(wire \o fifo, c)
      BY <2>2, WrittenIsLast DEF SerialTypes
    <2>5. RoomToWrite'
      <3>1. CASE c = "kernel"
        BY <3>1, <2>1, <2>3, <1>5 DEF RoomToWrite, Uart!Write, Uart!Turn, SerialTypes
      <3>2. CASE c = "interrupt"
        <4>1. fifo = <<>> /\ Len(fifo') = 1
          BY <3>2, <2>1, <2>3 DEF RoomToWrite
        <4> QED BY <3>2, <4>1, <2>3 DEF RoomToWrite, SerialTypes
      <3> QED BY <3>1, <3>2 DEF Uart!Callers
    <2>6. SerialTypes' /\ FifoOn'
      BY <2>1, <2>3 DEF SerialTypes, FifoOn, Uart!Callers
    <2> QED BY <2>2, <2>3, <2>4, <2>5, <2>6
  <1>6. CASE Uart!Interrupt \/ Uart!Return
    BY <1>6 DEF Uart!Interrupt, Uart!Return, SerialTypes, FifoOn, RoomToWrite
  <1>7. CASE Uart!Transmit
    <2>1. /\ fifo # <<>> /\ fifo' = Tail(fifo) /\ UNCHANGED <<fcr, loopback, serial_pc, printed>>
          /\ wire' = IF loopback THEN wire ELSE Append(wire, Head(fifo))
      BY <1>7 DEF Uart!Transmit
    <2>2. /\ Append(wire, Head(fifo)) \in Seq(Uart!Callers) /\ fifo' \in Seq(Uart!Callers)
          /\ Append(wire, Head(fifo)) \o fifo' = wire \o fifo
          /\ Len(fifo') = Len(fifo) - 1 /\ Len(fifo) \in Nat
      BY <2>1, SentIsOrdered DEF SerialTypes
    <2>3. SerialTypes' /\ FifoOn' /\ RoomToWrite'
      BY <2>1, <2>2 DEF SerialTypes, FifoOn, RoomToWrite
    <2> QED BY <2>1, <2>2, <2>3
  <1> QED BY <1>1, <1>2, <1>3, <1>4, <1>5, <1>6, <1>7 DEF Uart!Next, Uart!Step

\* The transmitter is empty at first.
LEMMA SerialInit ==
  ASSUME Depth \in Nat, Depth >= 2, Uart!Init
  PROVE  SerialIInv
  <1>1. /\ fcr = FALSE /\ loopback = FALSE /\ fifo = <<>> /\ wire = <<>> /\ printed = <<>>
        /\ serial_pc = [kernel |-> "init", interrupt |-> "off"]
    BY DEF Uart!Init
  <1>2. <<>> \in Seq(Uart!Callers) /\ <<>> \o <<>> = <<>> /\ Len(<<>>) = 0
    OBVIOUS
  <1>3. SerialTypes
    BY <1>1, <1>2 DEF SerialTypes
  <1>4. FifoOn /\ RoomToWrite
    BY <1>1, <1>2 DEF FifoOn, RoomToWrite
  <1> QED BY <1>1, <1>2, <1>3, <1>4 DEF SerialIInv, Uart!NothingLost

\* For every transmitter that holds two characters or more, and whenever
\* interrupts print, every character of kernel and handlers goes out once and
\* in the order printed: one poll before each write is enough.
THEOREM PrintedGoesOut ==
  ASSUME Depth \in Nat, Depth >= 2
  PROVE  Uart!Init /\ [][Uart!Next]_(Uart!vars) => []Uart!NothingLost
  <1>1. Uart!Init => SerialIInv
    BY SerialInit
  <1>2. SerialIInv /\ [Uart!Next]_(Uart!vars) => SerialIInv'
    BY SerialStepIInv
  <1>3. SerialIInv => Uart!NothingLost
    BY DEF SerialIInv
  <1> QED BY <1>1, <1>2, <1>3, PTL

-----------------------------------------------------------------------------
(* Configuration space.  First the arithmetic of addresses and registers.  *)

\* Division takes an address apart into the bus and the device it is made of.
LEMMA AddressParts ==
  ASSUME NEW n \in Nat \ {0}, NEW m \in Nat, NEW a \in 0..m * n - 1
  PROVE  /\ a \div n \in 0..m - 1 /\ a % n \in 0..n - 1
         /\ a = (a \div n) * n + (a % n)
  <1>1. /\ a \in Nat /\ a \div n \in Nat /\ a % n \in 0..n - 1
        /\ a = (a \div n) * n + (a % n)
    BY SMT
  <1> DEFINE q == a \div n
  <1>2. ASSUME q >= m PROVE FALSE
    <2>1. q * n >= m * n
      BY <1>1, <1>2, SMT
    <2> QED BY <1>1, <2>1, SMT
  <1> QED BY <1>1, <1>2

\* The slot with the number of devices added is on the next bus.
LEMMA SlotParts ==
  ASSUME NEW n \in Nat \ {0}, NEW d \in 0..n - 1
  PROVE  /\ d \div n = 0 /\ d % n = d
         /\ (n + d) \div n = 1 /\ (n + d) % n = d
  BY SMT

\* No remainder means a multiple.
LEMMA Quotient ==
  ASSUME NEW n \in Nat \ {0}, NEW x \in Nat, x % n = 0
  PROVE  \E q \in Nat : x = n * q
  BY SMT

\* What is added to a multiple below the next one is the remainder.
LEMMA Remainder ==
  ASSUME NEW n \in Nat \ {0}, NEW x \in Nat, x % n = 0, NEW r \in 0..n - 1
  PROVE  (x + r) % n = r
  <1>1. PICK q \in Nat : x = n * q
    BY Quotient
  <1>2. (n * q + r) % n = r
    BY SMT
  <1> QED BY <1>1, <1>2

\* The last value before a multiple is one less than the next.
LEMMA LastRemainder ==
  ASSUME NEW n \in Nat \ {0}, NEW x \in Nat \ {0}, x % n = 0
  PROVE  (x - 1) % n = n - 1
  <1>1. PICK q \in Nat : x = n * q
    BY Quotient
  <1>2. q - 1 \in Nat
    BY <1>1, SMT
  <1>3. (n * (q - 1) + (n - 1)) % n = n - 1
    BY <1>2, SMT
  <1>4. n * (q - 1) + (n - 1) = x - 1
    BY <1>1, <1>2, SMT
  <1> QED BY <1>3, <1>4

\* A multiple of a multiple of 16 is one of 16.
LEMMA MultipleOf16 ==
  ASSUME NEW n \in Nat \ {0}, n % 16 = 0, NEW x \in Nat, x % n = 0
  PROVE  x % 16 = 0
  <1>1. PICK k \in Nat : n = 16 * k
    BY Quotient
  <1>2. PICK q \in Nat : x = n * q
    BY Quotient
  <1>3. x = 16 * (k * q) /\ k * q \in Nat
    BY <1>1, <1>2, SMT
  <1> QED BY <1>3, SMT

\* The mask takes away the information bits of a memory region, none of which
\* is the one of an I/O region.
LEMMA MaskTakesInfo ==
  ASSUME NEW x \in Nat, x % 16 = 0, NEW i \in {0, 8}
  PROVE  Config!Masked(x + i) = x /\ (x + i) % 2 # 1
  BY DEF Config!Masked

-----------------------------------------------------------------------------
\* A region's information bits do not reach its base address.
LEMMA InfoFits ==
  ASSUME Config!PciAssumption, NEW b, Config!Region(b), b.size # 0
  PROVE  /\ b.size \in Nat \ {0} /\ b.base \in Nat /\ b.base % b.size = 0
         /\ Config!Info(b) \in 0..b.size - 1
  <1>1. /\ b.size \in 0..BarValues - 1 /\ b.base \in 0..BarValues - 1 /\ BarValues \in Nat
        /\ b.io \in BOOLEAN
        /\ b.base % b.size = 0 /\ b.size % (IF b.io THEN 4 ELSE 16) = 0
    BY DEF Config!Region, Config!PciAssumption
  <1>2. b.io => b.size >= 4
    BY <1>1
  <1>3. ~b.io => b.size >= 16
    BY <1>1
  <1> QED BY <1>1, <1>2, <1>3 DEF Config!Info

\* What the firmware left is what is read once it is written back.
LEMMA FactoryIsFixed ==
  ASSUME Config!PciAssumption, NEW b, Config!Region(b)
  PROVE  Config!Wired(b, Config!Wired(b, b.base)) = Config!Wired(b, b.base)
  <1>1. CASE b.size = 0
    BY <1>1 DEF Config!Wired
  <1>2. CASE b.size # 0
    <2> DEFINE v == b.base + Config!Info(b)
    <2>1. /\ b.size \in Nat \ {0} /\ b.base \in Nat /\ b.base % b.size = 0
          /\ Config!Info(b) \in 0..b.size - 1
      BY <1>2, InfoFits
    <2>2. Config!Wired(b, b.base) = v /\ v \in Nat
      BY <1>2, <2>1 DEF Config!Wired
    <2>3. v % b.size = Config!Info(b)
      BY <2>1, Remainder
    <2>4. Config!Wired(b, v) = v - (v % b.size) + Config!Info(b)
      BY <1>2 DEF Config!Wired
    <2> QED BY <2>1, <2>2, <2>3, <2>4
  <1> QED BY <1>1, <1>2

\* pci_get_bar's result for a memory region, from the register as it was and
\* as it is once ones were written to it.
LEMMA MemoryRead ==
  ASSUME Config!PciAssumption, NEW b, Config!Region(b), ~b.io
  PROVE  /\ Config!Masked(Config!Wired(b, b.base)) = b.base
         /\ Config!Size(Config!Wired(b, BarValues - 1)) = b.size
         /\ Config!Wired(b, b.base) % 2 # 1
  <1>0. BarValues \in Nat \ {0} /\ BarValues % 16 = 0
    BY DEF Config!PciAssumption
  <1>1. CASE b.size = 0
    <2>1. b.base = 0 /\ Config!Wired(b, b.base) = 0 /\ Config!Wired(b, BarValues - 1) = 0
      BY <1>1 DEF Config!Wired, Config!Region
    <2>2. BarValues % BarValues = 0
      BY <1>0, SMT
    <2>3. Config!Masked(0) = 0 /\ Config!Size(0) = 0
      BY <1>0, <2>2 DEF Config!Masked, Config!Size
    <2> QED BY <1>1, <2>1, <2>3
  <1>2. CASE b.size # 0
    <2> DEFINE i == Config!Info(b)
               top == BarValues - b.size
    <2>1. /\ b.size \in Nat \ {0} /\ b.base \in Nat /\ b.base % b.size = 0 /\ i \in 0..b.size - 1
      BY <1>2, InfoFits
    <2>2. /\ b.size % 16 = 0 /\ BarValues % b.size = 0 /\ b.size < BarValues /\ i \in {0, 8}
      BY <1>0, <1>2 DEF Config!Region, Config!Info
    <2>3. b.base % 16 = 0
      BY <2>1, <2>2, MultipleOf16
    <2>4. Config!Wired(b, b.base) = b.base + i
      BY <1>2, <2>1 DEF Config!Wired
    <2>5. (BarValues - 1) % b.size = b.size - 1
      BY <1>0, <2>1, <2>2, LastRemainder
    <2>6. Config!Wired(b, BarValues - 1) = top + i
      BY <1>0, <1>2, <2>1, <2>2, <2>5 DEF Config!Wired
    <2>7. top \in Nat /\ top % 16 = 0 /\ BarValues - top = b.size
      BY <1>0, <2>1, <2>2
    <2> HIDE DEF i, top
    <2>8. Config!Masked(b.base + i) = b.base /\ (b.base + i) % 2 # 1
      BY <2>1, <2>2, <2>3, MaskTakesInfo
    <2>9. Config!Masked(top + i) = top
      BY <2>2, <2>7, MaskTakesInfo
    <2>10. b.size % BarValues = b.size
      BY <1>0, <2>1, <2>2, SMT
    <2>11. (BarValues - 1) - top + 1 = b.size
      BY <1>0, <2>7, <2>1
    <2>12. Config!Size(top + i) = b.size
      BY <2>9, <2>10, <2>11 DEF Config!Size
    <2> QED BY <2>4, <2>6, <2>8, <2>12
  <1> QED BY <1>1, <1>2

-----------------------------------------------------------------------------
(* The invariant of configuration space.                                   *)

\* The types the search needs: devices are on the buses there are, and what is
\* looked for is one of the keys.
PciTypes ==
  /\ DOMAIN space \subseteq 0..Buses * Devs - 1 /\ \A a \in DOMAIN space : space[a] \in Devices
  /\ bus \in Nat /\ pci_slot \in Nat /\ index \in {0, 5}
  /\ pci_pc \in {"idle", "scan", "absent", "found", "sizing", "enabled", "panic"}
  /\ pci_pc # "idle" => key \in Keys

\* A bus and slot the loops come to before where they are.
Passed(b, s) == b < bus \/ (b = bus /\ s < pci_slot)

\* What the loops passed does not match, and what was found does.
Scanned ==
  /\ pci_pc = "scan" => bus <= Config!LastBus /\ pci_slot <= Config!LastSlot
  /\ \A b \in 0..Config!LastBus, s \in 0..Config!LastSlot :
       (pci_pc = "absent" \/ (pci_pc = "scan" /\ Passed(b, s))) =>
         ~Config!Matches(Config!Address(b, s))
  /\ pci_pc \in {"found", "sizing", "enabled"} => Config!Matches(Config!Here)

\* The registers as the firmware left them.
Left == [a \in DOMAIN space |-> Config!Factory(space[a])]

\* All registers hold that, but for the one being sized, whose old value is
\* kept.
Registers ==
  /\ bars = IF pci_pc = "sizing"
            THEN [Left EXCEPT ![Config!Here][index] =
                    Config!Wired(space[Config!Here].bars[index], BarValues - 1)]
            ELSE Left
  /\ pci_pc = "sizing" => original = Left[Config!Here][index]
  /\ line \in [DOMAIN space -> Config!Lines..2 * Config!Lines - 1]

\* A result is about the register that was asked for last.
Answered ==
  /\ pci_pc \in {"idle", "scan", "absent"} => bar = Config!NoBar
  /\ pci_pc \in {"found", "enabled"} =>
       LET b == space[Config!Here].bars[index] IN ~b.io => Config!Right(b)

PciIInv == PciTypes /\ Scanned /\ Registers /\ Answered

\* What is found is a device: nobody looks for what is read where none is.
LEMMA MatchIsDevice ==
  ASSUME Config!PciAssumption, key \in Keys, NEW a, Config!Matches(a)
  PROVE  a \in DOMAIN space /\ space[a][key.by] = key.key
  <1>1. key.key # Config!NoDevice[key.by]
    BY DEF Config!PciAssumption
  <1> QED BY <1>1 DEF Config!Matches, Config!At

\* Every address is one of a bus and a slot that the loops come to: the
\* devices of the last bus, which pci_devices_by_id does not reach, are slots
\* of the bus before it.
LEMMA AddressIsReached ==
  ASSUME Config!PciAssumption, key \in Keys, NEW a \in 0..Buses * Devs - 1
  PROVE  \E b \in 0..Config!LastBus, s \in 0..Config!LastSlot : Config!Address(b, s) = a
  <1> DEFINE q == a \div Devs
             d == a % Devs
  <1>1. /\ Buses \in Nat \ {0} /\ Devs \in Nat \ {0} /\ SlotValues \in Nat
        /\ Buses % 2 = 0 /\ 2 * Devs < SlotValues
    BY DEF Config!PciAssumption
  <1>2. /\ q \in 0..Buses - 1 /\ d \in 0..Devs - 1 /\ a = q * Devs + d
    BY <1>1, AddressParts
  <1>3. d \div Devs = 0 /\ d % Devs = d /\ (Devs + d) \div Devs = 1 /\ (Devs + d) % Devs = d
    BY <1>1, <1>2, SlotParts
  <1> HIDE DEF q, d
  <1>4. CASE q <= Config!LastBus
    <2>1. BitOr(q, 0) = q
      BY <1>2 DEF Config!PciAssumption
    <2>2. Config!Address(q, d) = a
      BY <1>2, <1>3, <2>1 DEF Config!Address
    <2>3. d \in 0..Config!LastSlot /\ q \in 0..Config!LastBus
      BY <1>1, <1>2, <1>4 DEF Config!LastSlot, Config!LastBus
    <2> QED BY <2>2, <2>3
  <1>5. CASE ~(q <= Config!LastBus)
    <2>1. q = Buses - 1 /\ Config!LastBus = Buses - 2 /\ Config!LastSlot = SlotValues - 2
      BY <1>1, <1>2, <1>5 DEF Config!LastSlot, Config!LastBus
    <2>2. Buses - 2 \in 0..Buses - 1 /\ (Buses - 2) % 2 = 0
      BY <1>1
    <2>3. BitOr(Buses - 2, 1) = q
      <3>1. BitOr(Buses - 2, 1) = (Buses - 2) + 1
        BY <2>2 DEF Config!PciAssumption
      <3> QED BY <1>1, <2>1, <3>1
    <2>4. Config!Address(Buses - 2, Devs + d) = a
      BY <1>2, <1>3, <2>3 DEF Config!Address
    <2>5. Devs + d \in 0..Config!LastSlot /\ Buses - 2 \in 0..Config!LastBus
      BY <1>1, <1>2, <2>1, <2>2
    <2> QED BY <2>4, <2>5
  <1> QED BY <1>4, <1>5

\* The invariant is the property of searches.
LEMMA ScanFromInvariant ==
  ASSUME Config!PciAssumption, PciTypes, Scanned
  PROVE  Config!ScanComplete
  <1>1. ASSUME pci_pc = "absent", NEW a \in DOMAIN space PROVE ~(space[a][key.by] = key.key)
    <2>1. key \in Keys /\ a \in 0..Buses * Devs - 1
      BY <1>1 DEF PciTypes
    <2>2. PICK b \in 0..Config!LastBus, s \in 0..Config!LastSlot : Config!Address(b, s) = a
      BY <2>1, AddressIsReached
    <2>3. ~Config!Matches(a)
      BY <1>1, <2>2 DEF Scanned
    <2> QED BY <1>1, <2>3 DEF Config!Matches, Config!At
  <1>2. ASSUME pci_pc \in {"found", "sizing", "enabled"}
        PROVE  Config!Here \in DOMAIN space /\ space[Config!Here][key.by] = key.key
    <2>1. key \in Keys /\ Config!Matches(Config!Here)
      BY <1>2 DEF PciTypes, Scanned
    <2> QED BY <2>1, MatchIsDevice
  <1> QED BY <1>1, <1>2 DEF Config!ScanComplete, Config!Held

\* The invariant is the property of registers.
LEMMA RegistersFromInvariant ==
  ASSUME Config!PciAssumption, PciTypes, Scanned, Registers, Answered
  PROVE  Config!ConfigKept
  <1>1. (Config!Held /\ ~space[Config!Here].bars[index].io) =>
          Config!Right(space[Config!Here].bars[index])
    BY DEF Answered, Config!Held
  <1>2. ASSUME NEW a \in DOMAIN space
        PROVE  /\ line[a] \div Config!Lines = 1
               /\ \A i \in DOMAIN space[a].bars :
                    \/ pci_pc = "sizing" /\ a = Config!Here /\ i = index
                    \/ bars[a][i] = Config!Factory(space[a])[i]
    <2>1. line[a] \in 2..3
      BY DEF Registers, Config!Lines
    <2>2. line[a] \div Config!Lines = 1
      BY <2>1 DEF Config!Lines
    <2>3. ASSUME NEW i \in DOMAIN space[a].bars, ~(pci_pc = "sizing" /\ a = Config!Here /\ i = index)
          PROVE  bars[a][i] = Left[a][i]
      BY <2>3 DEF Registers, Left, Config!Factory
    <2>4. Left[a] = Config!Factory(space[a])
      BY DEF Left
    <2> QED BY <2>2, <2>3, <2>4
  <1> QED BY <1>1, <1>2 DEF Config!ConfigKept

\* Steps that neither search nor size, and stay with the device there is.
LEMMA QuietPciStep ==
  ASSUME PciIInv, PciTypes', pci_pc # "sizing", pci_pc' # "sizing", pci_pc' # "scan",
         pci_pc' \in {"found", "enabled"} => pci_pc \in {"found", "enabled"},
         pci_pc' = "absent" => pci_pc = "absent",
         pci_pc' # "idle",
         UNCHANGED <<space, bars, key, bus, pci_slot, index, bar>>,
         line' \in [DOMAIN space -> Config!Lines..2 * Config!Lines - 1]
  PROVE  PciIInv'
  <1>1. Config!Here' = Config!Here
    BY DEF Config!Here, Config!Address
  <1>2. \A a : Config!Matches(a)' = Config!Matches(a)
    BY DEF Config!Matches, Config!At
  <1>3. Config!LastBus' = Config!LastBus /\ Config!LastSlot' = Config!LastSlot
    BY DEF Config!LastBus, Config!LastSlot
  <1>4. Scanned'
    BY <1>1, <1>2, <1>3 DEF PciIInv, Scanned, PciTypes
  <1>5. Registers'
    BY <1>1 DEF PciIInv, Registers, Left, Config!Lines
  <1>6. Answered'
    BY <1>1 DEF PciIInv, Answered, Config!Right, PciTypes
  <1> QED BY <1>4, <1>5, <1>6 DEF PciIInv

\* A search begins with nothing passed.
LEMMA SearchKeeps ==
  ASSUME Config!PciAssumption, PciIInv, NEW k \in Keys, Config!Search(k)
  PROVE  PciIInv'
  <1>1. /\ pci_pc = "idle" /\ pci_pc' = "scan" /\ key' = k /\ bus' = 0 /\ pci_slot' = 0
        /\ UNCHANGED <<space, bars, line, index, original, bar>>
    BY DEF Config!Search, Config!regs, Config!result
  <1>2. PciTypes'
    BY <1>1 DEF PciIInv, PciTypes
  <1>3. Buses >= 2 /\ SlotValues >= 2 /\ Buses \in Nat /\ SlotValues \in Nat
    BY DEF Config!PciAssumption
  <1>4. bus' <= Config!LastBus' /\ pci_slot' <= Config!LastSlot'
    BY <1>1, <1>3 DEF Config!LastBus, Config!LastSlot
  <1>5. \A b \in 0..Config!LastBus', s \in 0..Config!LastSlot' : ~Passed(b, s)'
    BY <1>1 DEF Passed
  <1>6. Scanned'
    BY <1>1, <1>4, <1>5 DEF Scanned
  <1>7. Registers'
    BY <1>1 DEF PciIInv, Registers, Left
  <1>8. Answered'
    BY <1>1 DEF PciIInv, Answered
  <1> QED BY <1>2, <1>6, <1>7, <1>8 DEF PciIInv

\* The next slot, the next bus or the end: one more address is passed.
LEMMA AdvanceKeeps ==
  ASSUME Config!PciAssumption, PciIInv, Config!Advance
  PROVE  PciIInv'
  <1>1. /\ pci_pc = "scan" /\ ~Config!Matches(Config!Here)
        /\ UNCHANGED <<space, bars, line, key, index, original, bar>>
        /\ \/ pci_slot < Config!LastSlot /\ pci_slot' = pci_slot + 1 /\ bus' = bus /\ pci_pc' = "scan"
           \/ /\ ~(pci_slot < Config!LastSlot) /\ bus < Config!LastBus
              /\ pci_slot' = 0 /\ bus' = bus + 1 /\ pci_pc' = "scan"
           \/ /\ ~(pci_slot < Config!LastSlot) /\ ~(bus < Config!LastBus)
              /\ pci_pc' = "absent" /\ bus' = bus /\ pci_slot' = pci_slot
    BY DEF Config!Advance, Config!regs, Config!result
  <1>2. /\ bus \in Nat /\ pci_slot \in Nat /\ key \in Keys
        /\ bus <= Config!LastBus /\ pci_slot <= Config!LastSlot
    BY <1>1 DEF PciIInv, PciTypes, Scanned
  <1>3. Config!LastBus' = Config!LastBus /\ Config!LastSlot' = Config!LastSlot
    BY <1>1 DEF Config!LastBus, Config!LastSlot
  <1>4. Config!LastBus \in Nat /\ Config!LastSlot \in Nat
    BY DEF Config!PciAssumption, Config!LastBus, Config!LastSlot
  <1>5. \A a : Config!Matches(a)' = Config!Matches(a)
    BY <1>1 DEF Config!Matches, Config!At
  <1>6. PciTypes'
    BY <1>1, <1>2 DEF PciIInv, PciTypes
  <1>7. ASSUME NEW b \in 0..Config!LastBus, NEW s \in 0..Config!LastSlot,
               pci_pc' = "absent" \/ Passed(b, s)'
        PROVE  ~Config!Matches(Config!Address(b, s))
    <2>1. Passed(b, s) \/ (b = bus /\ s = pci_slot)
      BY <1>1, <1>2, <1>4, <1>7 DEF Passed
    <2> QED BY <1>1, <2>1 DEF PciIInv, Scanned, Config!Here
  <1>8. pci_pc' = "scan" => bus' <= Config!LastBus /\ pci_slot' <= Config!LastSlot
    BY <1>1, <1>2, <1>4
  <1>9. \A b, s : Config!Address(b, s)' = Config!Address(b, s)
    BY DEF Config!Address
  <1>10. Scanned'
    BY <1>1, <1>3, <1>5, <1>7, <1>8, <1>9 DEF Scanned
  <1>11. Registers'
    BY <1>1 DEF PciIInv, Registers, Left
  <1>12. Answered'
    BY <1>1 DEF PciIInv, Answered
  <1> QED BY <1>6, <1>10, <1>11, <1>12 DEF PciIInv

\* The search ends at a device that matches.
LEMMA FoundKeeps ==
  ASSUME Config!PciAssumption, PciIInv, Config!Found
  PROVE  PciIInv'
  <1>1. /\ pci_pc = "scan" /\ Config!Matches(Config!Here) /\ pci_pc' \in {"panic", "found"}
        /\ UNCHANGED <<space, bars, line, key, bus, pci_slot, index, original, bar>>
    BY DEF Config!Found, Config!regs, Config!result
  <1>2. PciTypes'
    BY <1>1 DEF PciIInv, PciTypes
  <1>3. Config!Matches(Config!Here)'
    BY <1>1 DEF Config!Matches, Config!At, Config!Here, Config!Address
  <1>4. Scanned'
    BY <1>1, <1>3 DEF Scanned
  <1>5. Registers'
    BY <1>1 DEF PciIInv, Registers, Left
  <1>6. bar' = Config!NoBar /\ ~Config!NoBar.ok
    BY <1>1 DEF PciIInv, Answered, Config!NoBar
  <1>7. Answered'
    BY <1>1, <1>6 DEF Answered, Config!Right
  <1> QED BY <1>2, <1>4, <1>5, <1>7 DEF PciIInv

\* Nothing is left of a search that is forgotten.
LEMMA ForgetKeeps ==
  ASSUME Config!PciAssumption, PciIInv, Config!Forget
  PROVE  PciIInv'
  <1>1. /\ pci_pc \in {"absent", "found", "enabled"} /\ pci_pc' = "idle" /\ bus' = 0 /\ pci_slot' = 0
        /\ index' = 0 /\ bar' = Config!NoBar /\ UNCHANGED <<space, bars, line>>
    BY DEF Config!Forget, Config!Held, Config!regs
  <1>2. PciTypes'
    BY <1>1 DEF PciIInv, PciTypes
  <1>3. Scanned'
    BY <1>1 DEF Scanned
  <1>4. Registers'
    BY <1>1 DEF PciIInv, Registers, Left
  <1>5. Answered'
    BY <1>1 DEF Answered
  <1> QED BY <1>2, <1>3, <1>4, <1>5 DEF PciIInv

\* Where the device that was found is and what it has.
LEMMA FoundDevice ==
  ASSUME Config!PciAssumption, PciIInv, pci_pc \in {"found", "sizing", "enabled"}
  PROVE  /\ Config!Here \in DOMAIN space /\ {0, 5} \subseteq DOMAIN space[Config!Here].bars
         /\ \A i \in {0, 5} : Config!Region(space[Config!Here].bars[i])
  <1>1. Config!Here \in DOMAIN space
    BY MatchIsDevice DEF PciIInv, PciTypes, Scanned
  <1>2. space[Config!Here] \in Devices
    BY <1>1 DEF PciIInv, PciTypes
  <1> QED BY <1>1, <1>2 DEF Config!PciAssumption

\* Ones are written to the register that was read, or nothing happens.
LEMMA GetBarKeeps ==
  ASSUME Config!PciAssumption, PciIInv, NEW i \in {0, 5, 6}, Config!pci_get_bar(i)
  PROVE  PciIInv'
  <1>1. /\ pci_pc \in {"found", "enabled"} /\ UNCHANGED <<space, line, key, bus, pci_slot>>
    BY DEF Config!pci_get_bar, Config!Held
  <1>2. Config!Here' = Config!Here
    BY <1>1 DEF Config!Here, Config!Address
  <1>3. Config!Matches(Config!Here)'
    BY <1>1, <1>2 DEF PciIInv, Scanned, Config!Matches, Config!At
  <1>4. CASE i > 5
    <2>1. bar' = Config!NoBar /\ UNCHANGED <<bars, pci_pc, index, original>> /\ ~Config!NoBar.ok
      BY <1>4 DEF Config!pci_get_bar, Config!NoBar
    <2>2. PciTypes'
      BY <1>1, <2>1 DEF PciIInv, PciTypes
    <2>3. Scanned'
      BY <1>1, <1>3, <2>1 DEF Scanned
    <2>4. Registers'
      BY <1>1, <2>1 DEF PciIInv, Registers, Left
    <2>5. Answered'
      BY <1>1, <2>1 DEF Answered, Config!Right
    <2> QED BY <2>2, <2>3, <2>4, <2>5 DEF PciIInv
  <1>5. CASE i <= 5
    <2>1. /\ index' = i /\ original' = bars[Config!Here][i] /\ pci_pc' = "sizing" /\ i \in {0, 5}
          /\ bars' = [bars EXCEPT ![Config!Here][i] =
                        Config!Wired(space[Config!Here].bars[i], BarValues - 1)]
      BY <1>5 DEF Config!pci_get_bar, Config!pci_config_write32
    <2>2. PciTypes'
      BY <1>1, <2>1 DEF PciIInv, PciTypes
    <2>3. Scanned'
      BY <1>1, <1>3, <2>1 DEF Scanned
    <2>4. bars = Left /\ Left' = Left
      BY <1>1 DEF PciIInv, Registers, Left
    <2>5. line' \in [DOMAIN space' -> Config!Lines..2 * Config!Lines - 1]
      BY <1>1 DEF PciIInv, Registers
    <2>6. Config!Wired(space[Config!Here].bars[i], BarValues - 1)' =
            Config!Wired(space[Config!Here].bars[i], BarValues - 1)
      BY <1>1, <1>2 DEF Config!Wired, Config!Info
    <2>7. Registers'
      BY <1>1, <1>2, <2>1, <2>4, <2>5, <2>6 DEF Registers
    <2>8. Answered'
      BY <2>1 DEF Answered
    <2> QED BY <2>2, <2>3, <2>7, <2>8 DEF PciIInv
  <1> QED BY <1>4, <1>5

\* The result is right and the register is what it was.
LEMMA ReadBackKeeps ==
  ASSUME Config!PciAssumption, PciIInv, Config!ReadBack
  PROVE  PciIInv'
  <1> DEFINE h == Config!Here
             b == space[h].bars[index]
  <1>1. /\ pci_pc = "sizing" /\ pci_pc' = "found" /\ index \in {0, 5}
        /\ UNCHANGED <<space, line, key, bus, pci_slot, index>>
        /\ bars' = [bars EXCEPT ![h][index] = Config!Wired(b, original)]
    BY DEF Config!ReadBack, Config!pci_config_write32, Config!Restored, PciIInv, PciTypes
  <1>2. h \in DOMAIN space /\ index \in DOMAIN space[h].bars /\ Config!Region(b)
    BY <1>1, FoundDevice
  <1>3. /\ original = Left[h][index]
        /\ bars = [Left EXCEPT ![h][index] = Config!Wired(b, BarValues - 1)]
    BY <1>1 DEF PciIInv, Registers
  <1>4. /\ Left[h] = Config!Factory(space[h]) /\ h \in DOMAIN Left
        /\ Left[h][index] = Config!Wired(b, b.base) /\ index \in DOMAIN Left[h]
    BY <1>2 DEF Left, Config!Factory
  <1>5. Config!Wired(b, original) = original
    BY <1>2, <1>3, <1>4, FactoryIsFixed
  <1>6. Config!Here' = h
    BY <1>1 DEF Config!Here, Config!Address
  <1>7. bars' = Left
    <2>1. Left = [a \in DOMAIN Left |-> Left[a]] /\ Left[h] = [i \in DOMAIN Left[h] |-> Left[h][i]]
      BY <1>4 DEF Left, Config!Factory
    <2> DEFINE w == Config!Wired(b, BarValues - 1)
    <2>2. bars[h] = [Left[h] EXCEPT ![index] = w] /\ DOMAIN bars = DOMAIN Left
      BY <1>3, <1>4
    <2>3. bars' = [bars EXCEPT ![h] = [bars[h] EXCEPT ![index] = Left[h][index]]]
      BY <1>1, <1>3, <1>5, <2>2, <1>4
    <2>4. [bars[h] EXCEPT ![index] = Left[h][index]] = Left[h]
      BY <1>4, <2>1, <2>2
    <2>5. \A a \in DOMAIN Left : bars'[a] = Left[a]
      BY <1>3, <1>4, <2>2, <2>3, <2>4
    <2>6. bars' = [a \in DOMAIN Left |-> bars'[a]]
      BY <2>2, <2>3
    <2> QED BY <2>1, <2>5, <2>6
  <1>8. PciTypes'
    BY <1>1 DEF PciIInv, PciTypes
  <1>9. Scanned'
    <2>1. Config!Matches(Config!Here)'
      BY <1>1, <1>6 DEF PciIInv, Scanned, Config!Matches, Config!At
    <2> QED BY <1>1, <2>1 DEF Scanned
  <1>10. Registers'
    <2>1. Left' = Left
      BY <1>1 DEF Left
    <2> QED BY <1>1, <1>7, <2>1 DEF PciIInv, Registers
  <1>11. Answered'
    <2>1. ASSUME ~b.io PROVE Config!Right(b)'
      <3>1. /\ bar'.address = Config!Masked(Config!Wired(b, b.base))
            /\ bar'.size = Config!Size(bars[h][index])
            /\ bar'.io = (Config!Wired(b, b.base) % 2 = 1)
        BY <1>3, <1>4 DEF Config!ReadBack
      <3>2. bars[h][index] = Config!Wired(b, BarValues - 1)
        BY <1>3, <1>4
      <3>3. bar'.address = b.base /\ bar'.size = b.size /\ bar'.io = FALSE
        BY <1>2, <2>1, <3>1, <3>2, MemoryRead
      <3>4. b' = b
        BY <1>1, <1>6
      <3> HIDE DEF b
      <3> QED BY <2>1, <3>3, <3>4 DEF Config!Right
    <2> QED BY <1>1, <1>6, <2>1 DEF Answered
  <1> QED BY <1>8, <1>9, <1>10, <1>11 DEF PciIInv

\* Every step keeps the invariant.
LEMMA PciStepIInv ==
  ASSUME Config!PciAssumption
  PROVE  PciIInv /\ [Config!Next]_(Config!vars) => PciIInv'
  <1> SUFFICES ASSUME PciIInv, [Config!Next]_(Config!vars) PROVE PciIInv'
    OBVIOUS
  <1>1. CASE UNCHANGED Config!vars
    <2>1. UNCHANGED <<space, bars, line, pci_pc, key, bus, pci_slot, index, original, bar>>
      BY <1>1 DEF Config!vars, Config!regs, Config!result
    <2> QED BY <2>1 DEF PciIInv, PciTypes, Scanned, Passed, Registers, Answered, Left, Config!Here, Config!Address,
                        Config!Matches, Config!At, Config!LastBus, Config!LastSlot, Config!Right
  <1>2. ASSUME NEW k \in Keys, Config!Search(k) PROVE PciIInv'
    BY <1>2, SearchKeeps
  <1>3. CASE Config!Advance
    BY <1>3, AdvanceKeeps
  <1>4. CASE Config!Found
    BY <1>4, FoundKeeps
  <1>5. CASE Config!Forget
    BY <1>5, ForgetKeeps
  <1>6. ASSUME NEW i \in {0, 5, 6}, Config!pci_get_bar(i) PROVE PciIInv'
    BY <1>6, GetBarKeeps
  <1>7. CASE Config!ReadBack
    BY <1>7, ReadBackKeeps
  <1>8. CASE Config!pci_enable_interrupts \/ Config!AlreadyEnabled
    <2>1. /\ pci_pc \in {"found", "enabled"} /\ pci_pc' = "enabled"
          /\ UNCHANGED <<space, bars, line, key, bus, pci_slot, index, bar>>
      BY <1>8 DEF Config!pci_enable_interrupts, Config!AlreadyEnabled, Config!Held, Config!regs, Config!result
    <2>2. PciTypes'
      BY <2>1 DEF PciIInv, PciTypes
    <2>3. line' \in [DOMAIN space -> Config!Lines..2 * Config!Lines - 1]
      BY <2>1 DEF PciIInv, Registers
    <2> QED BY <2>1, <2>2, <2>3, QuietPciStep
  <1>9. ASSUME NEW l \in 0..Config!Lines - 1, Config!pci_set_interrupt_line(l) PROVE PciIInv'
    <2>1. /\ pci_pc \in {"found", "enabled"} /\ pci_pc' = "found"
          /\ line' = [line EXCEPT ![Config!Here] = @ - (@ % Config!Lines) + l]
          /\ UNCHANGED <<space, bars, key, bus, pci_slot, index, bar>>
      BY <1>9 DEF Config!pci_set_interrupt_line, Config!Held, Config!result
    <2>2. PciTypes'
      BY <2>1 DEF PciIInv, PciTypes
    <2>3. line \in [DOMAIN space -> 2..3] /\ l \in 0..1
      BY DEF PciIInv, Registers, Config!Lines
    <2>4. \A x \in 2..3 : x - (x % 2) + l \in 2..3
      BY <2>3
    <2>5. line' \in [DOMAIN space -> 2..3]
      BY <2>1, <2>3, <2>4 DEF Config!Lines
    <2>6. line' \in [DOMAIN space -> Config!Lines..2 * Config!Lines - 1]
      BY <2>5 DEF Config!Lines
    <2> QED BY <2>1, <2>2, <2>6, QuietPciStep
  <1> QED BY <1>1, <1>2, <1>3, <1>4, <1>5, <1>6, <1>7, <1>8, <1>9 DEF Config!Next

\* It holds of what the firmware leaves.
LEMMA PciInitIInv ==
  ASSUME Config!PciAssumption
  PROVE  Config!Init => PciIInv
  <1> SUFFICES ASSUME Config!Init PROVE PciIInv
    OBVIOUS
  <1>1. PICK where \in SUBSET (0..Buses * Devs - 1) : space \in [where -> Devices]
    BY DEF Config!Init
  <1>2. /\ bars = [a \in DOMAIN space |-> Config!Factory(space[a])]
        /\ line = [a \in DOMAIN space |-> 1 * Config!Lines]
        /\ pci_pc = "idle" /\ bus = 0 /\ pci_slot = 0 /\ index = 0 /\ bar = Config!NoBar
    BY DEF Config!Init
  <1>3. PciTypes
    BY <1>1, <1>2 DEF PciTypes
  <1>4. Scanned
    BY <1>2 DEF Scanned
  <1>5. Registers
    BY <1>2 DEF Registers, Left, Config!Lines
  <1>6. Answered
    BY <1>2 DEF Answered
  <1> QED BY <1>3, <1>4, <1>5, <1>6 DEF PciIInv

\* For all devices at all addresses a search that ends without one missed
\* none, although pci_devices_by_id never looks at the last bus, and what is
\* found is what was asked for.
THEOREM SearchesAreComplete ==
  ASSUME Config!PciAssumption
  PROVE  Config!Init /\ [][Config!Next]_(Config!vars) => []Config!ScanComplete
  <1>1. Config!Init => PciIInv
    BY PciInitIInv
  <1>2. PciIInv /\ [Config!Next]_(Config!vars) => PciIInv'
    BY PciStepIInv
  <1>3. PciIInv => Config!ScanComplete
    BY ScanFromInvariant DEF PciIInv
  <1> QED BY <1>1, <1>2, <1>3, PTL

\* For memory regions of every base, size and kind pci_get_bar returns what
\* they are, and all registers of all devices keep their values, whatever the
\* order of calls.
THEOREM RegistersAreKept ==
  ASSUME Config!PciAssumption
  PROVE  Config!Init /\ [][Config!Next]_(Config!vars) => []Config!ConfigKept
  <1>1. Config!Init => PciIInv
    BY PciInitIInv
  <1>2. PciIInv /\ [Config!Next]_(Config!vars) => PciIInv'
    BY PciStepIInv
  <1>3. PciIInv => Config!ConfigKept
    BY RegistersFromInvariant DEF PciIInv
  <1> QED BY <1>1, <1>2, <1>3, PTL

-----------------------------------------------------------------------------
(* The same of the composed drivers.                                       *)

\* A behaviour that is about configuration space is one of Pci's.
LEMMA ConfigIsPart ==
  DevicesSpec => []~(driver = "pci") \/ (Config!Init /\ [][Config!Next]_(Config!vars))
  <1>1. DevicesInit => Config!Init
    BY DEF DevicesInit
  <1>2. [DevicesNext]_all =>
          /\ driver = "pci" => [Config!Next]_(Config!vars)
          /\ driver = "pci" <=> (driver = "pci")'
    BY Zenon DEF DevicesNext, AhciStep, PciStep, SerialStep, all, pci, Config!vars, Config!regs,
                 Config!result
  <1> QED BY <1>1, <1>2, PTL DEF DevicesSpec

\* In every behaviour of the drivers a search that ends without a device missed
\* none, and one that is found is the one asked for.
THEOREM SearchesOfDrivers == DevicesSpec => []ScanComplete
  <1>1. ~(driver = "pci") => ScanComplete
    BY DEF ScanComplete
  <1>2. Config!ScanComplete => ScanComplete
    BY DEF ScanComplete
  <1>3. Config!Init /\ [][Config!Next]_(Config!vars) => []Config!ScanComplete
    BY DriversAssumption, SearchesAreComplete
  <1> QED BY <1>1, <1>2, <1>3, ConfigIsPart, PTL

\* In every behaviour of the drivers pci_get_bar returns what a memory region is
\* and leaves all registers as they were.
THEOREM RegistersOfDrivers == DevicesSpec => []ConfigKept
  <1>1. ~(driver = "pci") => ConfigKept
    BY DEF ConfigKept
  <1>2. Config!ConfigKept => ConfigKept
    BY DEF ConfigKept
  <1>3. Config!Init /\ [][Config!Next]_(Config!vars) => []Config!ConfigKept
    BY DriversAssumption, RegistersAreKept
  <1> QED BY <1>1, <1>2, <1>3, ConfigIsPart, PTL

\* A behaviour that is about the serial port is one of Serial's.
LEMMA UartIsPart ==
  DevicesSpec => []~(driver = "serial") \/ (Uart!Init /\ [][Uart!Next]_(Uart!vars))
  <1>1. DevicesInit => Uart!Init
    BY DEF DevicesInit
  <1>2. [DevicesNext]_all =>
          /\ driver = "serial" => [Uart!Next]_(Uart!vars)
          /\ driver = "serial" <=> (driver = "serial")'
    BY Zenon DEF DevicesNext, AhciStep, PciStep, SerialStep, all, serial, Uart!vars
  <1> QED BY <1>1, <1>2, PTL DEF DevicesSpec

\* In every behaviour of the drivers, with a transmitter that holds two
\* characters or more, every character printed goes out, in order.
THEOREM OutputOfDrivers ==
  ASSUME Depth >= 2
  PROVE  DevicesSpec => []NothingLost
  <1>1. ~(driver = "serial") => NothingLost
    BY DEF NothingLost
  <1>2. Uart!NothingLost => NothingLost
    BY DEF NothingLost
  <1>3. Uart!Init /\ [][Uart!Next]_(Uart!vars) => []Uart!NothingLost
    <2>1. Depth \in Nat
      BY DriversAssumption DEF Uart!SerialAssumption
    <2> QED BY <2>1, PrintedGoesOut
  <1> QED BY <1>1, <1>2, <1>3, UartIsPart, PTL
=============================================================================
