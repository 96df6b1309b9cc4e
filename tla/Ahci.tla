-------------------------------- MODULE Ahci --------------------------------
(***************************************************************************)
(* kernel/drivers/ahci.c: the driver sets up the ports that have a SATA    *)
(* drive and gives commands to them, one at a time; each port runs beside  *)
(* it.  The ports are external: they start and stop their two engines when *)
(* told, complete commands that were issued to them, or fail one, after    *)
(* which they stop processing.  Addresses are counted in sectors and a     *)
(* command's table is what a port needs of it: what it transfers where.    *)
(***************************************************************************)
EXTENDS Integers, Sequences, FiniteSets

CONSTANTS
  NumPorts,  \* ports of the controller
  CapSlots,  \* values of the field NCS of hba->cap, one less than the slots
  Counts,    \* sectors callers ask for
  Buffers,   \* where their buffers begin
  MaxCmds    \* commands (bound)

ASSUME AhciAssumption ==
  /\ NumPorts \in Nat \ {0} /\ MaxCmds \in Nat
  /\ CapSlots \subseteq 0..31 /\ CapSlots # {}
  /\ Counts \subseteq Nat \ {0} /\ Buffers \subseteq Nat

\* Bits of PxCMD.
ST == 0
POD == 2
FRE == 4
FR == 14
CR == 15

num_prdt == 8
PageSectors == 8     \* a page, and
EntrySectors == 16   \* the 8 KiB of a full PRDT entry, in sectors

Ports == 0..NumPorts - 1

VARIABLES
  ncs,     \* the field NCS of hba->cap
  kind,    \* what check_type finds at each port
  cmd,     \* PxCMD, as the set of its bits
  ci,      \* PxCI: the slots issued
  tfes,    \* PxIS.TFES: a command failed
  halted,  \* a command failed and the port no longer processes any
  table,   \* the command table of each slot
  drives,  \* ports that were set up
  pc, port, slot,   \* the driver: where it is, on which port, with which slot
  want,    \* the arguments of ahci_perform_command
  rc,      \* its last result: 0, 1, or 2 before the first
  owner,   \* the commands issued last, by port and slot
  done,    \* the commands a port carried out
  cmds     \* commands begun

hw == <<ncs, kind, cmd, ci, tfes, halted>>
log == <<rc, owner, done, cmds>>
vars == <<hw, table, drives, pc, port, slot, want, log>>

\* The slots a port has.
Slots == 0..ncs

-----------------------------------------------------------------------------
(* Initialisation.                                                         *)

\* What the loop of ahci_init tells apart: no bit in hba->pi, a drive whose
\* signature is none of the others', or anything else check_type returns.
Kinds == {"unimplemented", "SATA", "other"}

NoCommand == [id |-> 0, buffer |-> 0, count |-> 0]
NoTable == [prdt |-> <<>>, count |-> 0]

Init ==
  /\ ncs \in CapSlots /\ kind \in [Ports -> Kinds]
  /\ cmd \in [Ports -> {{}, {FRE}, {ST, FRE, FR, CR}}]
  /\ ci = [p \in Ports |-> {}] /\ tfes = [p \in Ports |-> FALSE]
  /\ halted = [p \in Ports |-> FALSE]
  /\ table = [p \in Ports |-> [s \in Slots |-> NoTable]]
  /\ drives = {} /\ pc = "probe" /\ port = 0 /\ slot = 0
  /\ want = NoCommand
  /\ rc = 2 /\ owner = [p \in Ports |-> [s \in Slots |-> NoCommand]] /\ done = {} /\ cmds = 0

\* The loop of ahci_init goes on with the next port, or ends.
NextPort ==
  IF port + 1 \in Ports THEN port' = port + 1 /\ pc' = "probe"
                       ELSE pc' = "idle" /\ UNCHANGED port

\* A port that is not set up.
Skip ==
  /\ pc = "probe" /\ kind[port] # "SATA"
  /\ NextPort
  /\ UNCHANGED <<hw, table, drives, slot, want, log>>

\* A SATA drive: ahci_sata_setup, ahci_set_base, and what
\* ahci_stop_command_execution does before it waits.
ahci_sata_setup ==
  /\ pc = "probe" /\ kind[port] = "SATA"
  /\ cmd' = [cmd EXCEPT ![port] = @ \ {ST, FRE}]
  /\ pc' = "stop"
  /\ UNCHANGED <<ncs, kind, ci, tfes, halted, table, drives, port, slot, want, log>>

Stopped(p) == {FR, CR} \cap cmd[p] = {}

ahci_stop_command_execution ==
  /\ pc = "stop" /\ Stopped(port)
  /\ pc' = "base"
  /\ UNCHANGED <<hw, table, drives, port, slot, want, log>>

\* Command list, FIS area and tables are cleared and made the port's.
ahci_set_base ==
  /\ pc = "base"
  /\ table' = [table EXCEPT ![port] = [s \in Slots |-> NoTable]]
  /\ pc' = "start"
  /\ UNCHANGED <<hw, drives, port, slot, want, log>>

\* The bit 4 << 0 is PxCMD's bit 2.
ahci_start_command_execution ==
  /\ pc = "start" /\ FR \notin cmd[port]
  /\ cmd' = [cmd EXCEPT ![port] = @ \cup {POD, ST}]
  /\ drives' = drives \cup {port}
  /\ NextPort
  /\ UNCHANGED <<ncs, kind, ci, tfes, halted, table, slot, want, log>>

-----------------------------------------------------------------------------
(* Building a command.                                                     *)

\* Mutated: the count may be what two entries hold.
CountFits_wide(count) == count <= 2 * EntrySectors

CountFits(count) == count <= num_prdt

\* Pages that follow each other have frames that do not.
virtual_to_physical(v) == 2 * PageSectors * (v \div PageSectors) + (v % PageSectors)

Entry(v, sectors) == [dba |-> virtual_to_physical(v), sectors |-> sectors]

prdtl(count) == (count - 1) \div EntrySectors + 1

\* The loop over full entries takes their sectors off count, and what is left
\* is both the last entry's size and the count in the FIS.
Table(buffer, count) ==
  LET n == prdtl(count)
      left == count - (n - 1) * EntrySectors
  IN [prdt |-> [i \in 1..n |-> Entry(buffer + (i - 1) * EntrySectors,
                                     IF i < n THEN EntrySectors ELSE left)],
      count |-> left]

-----------------------------------------------------------------------------
(* ahci_perform_command.                                                   *)

\* The assertion fails or pending interrupts are cleared.
ahci_perform_command(p, buffer, count) ==
  /\ pc = "idle" /\ p \in drives /\ cmds < MaxCmds
  /\ cmds' = cmds + 1
  /\ port' = p
  /\ want' = [id |-> cmds', buffer |-> buffer, count |-> count]
  /\ \/ /\ CountFits(count)
        /\ tfes' = [tfes EXCEPT ![p] = FALSE]
        /\ pc' = "slot"
     \/ /\ ~CountFits(count)
        /\ pc' = "panic"
        /\ UNCHANGED tfes
  /\ UNCHANGED <<ncs, kind, cmd, ci, halted, table, drives, slot, rc, owner, done>>

\* Mutated: whether a slot is in use is not looked at.
FreeSlots_any(p) == 0..ncs - 1

\* The slots get_free_command_slot looks at; it takes the first.
FreeSlots(p) == {s \in 0..ncs - 1 : s \notin ci[p]}

\* A slot is found, and header, table and FIS of it are written.
get_free_command_slot ==
  /\ pc = "slot" /\ FreeSlots(port) # {}
  /\ slot' = CHOOSE s \in FreeSlots(port) : \A t \in FreeSlots(port) : s <= t
  /\ table' = [table EXCEPT ![port][slot'] = Table(want.buffer, want.count)]
  /\ pc' = "wait"
  /\ UNCHANGED <<hw, drives, port, want, log>>

\* None is found; the search is repeated.
NoFreeSlot ==
  /\ pc = "slot" /\ FreeSlots(port) = {}
  /\ pc' = "none"
  /\ UNCHANGED <<hw, table, drives, port, slot, want, log>>

Again ==
  /\ pc = "none"
  /\ pc' = "slot"
  /\ UNCHANGED <<hw, table, drives, port, slot, want, log>>

\* PxTFD shows a port that is not busy, and the command is issued.
Issue ==
  /\ pc = "wait"
  /\ ci' = [ci EXCEPT ![port] = @ \cup {slot}]
  /\ owner' = [owner EXCEPT ![port][slot] = want]
  /\ pc' = "poll"
  /\ UNCHANGED <<ncs, kind, cmd, tfes, halted, table, drives, port, slot, want, rc, done, cmds>>

\* It showed a busy port 10000 times.
Hung ==
  /\ pc = "wait"
  /\ rc' = 0 /\ pc' = "idle"
  /\ UNCHANGED <<hw, table, drives, port, slot, want, owner, done, cmds>>

\* One look at PxCI and one at PxIS per turn of the loop.
PollCi ==
  /\ pc = "poll"
  /\ pc' = IF slot \in ci[port] THEN "status" ELSE "again"
  /\ UNCHANGED <<hw, table, drives, port, slot, want, log>>

PollIs ==
  /\ pc = "status"
  /\ \/ tfes[port] /\ rc' = 0 /\ pc' = "idle"
     \/ ~tfes[port] /\ pc' = "poll" /\ UNCHANGED rc
  /\ UNCHANGED <<hw, table, drives, port, slot, want, owner, done, cmds>>

\* Mutated: the status is not looked at again.
Verdict_done == 1

Verdict == IF tfes[port] THEN 0 ELSE 1

CheckAgain ==
  /\ pc = "again"
  /\ rc' = Verdict /\ pc' = "idle"
  /\ UNCHANGED <<hw, table, drives, port, slot, want, owner, done, cmds>>

-----------------------------------------------------------------------------
(* The ports (external).                                                   *)

\* Each engine follows its switch: <<ST, CR>> and <<FRE, FR>>.
Engine(p) ==
  /\ \E e \in {<<ST, CR>>, <<FRE, FR>>} :
       \/ e[1] \in cmd[p] /\ e[2] \notin cmd[p] /\ cmd' = [cmd EXCEPT ![p] = @ \cup {e[2]}]
       \/ e[1] \notin cmd[p] /\ e[2] \in cmd[p] /\ cmd' = [cmd EXCEPT ![p] = @ \ {e[2]}]
  /\ UNCHANGED <<ncs, kind, ci, tfes, halted, table, drives, pc, port, slot, want, log>>

Works(p) == CR \in cmd[p] /\ ~halted[p]

Complete(p, s) ==
  /\ Works(p) /\ s \in ci[p]
  /\ ci' = [ci EXCEPT ![p] = @ \ {s}]
  /\ done' = done \cup {[id |-> owner[p][s].id, table |-> table[p][s]]}
  /\ UNCHANGED <<ncs, kind, cmd, tfes, halted, table, drives, pc, port, slot, want, rc, owner, cmds>>

\* Whether the slot stays issued is the port's choice.
Fail(p, s) ==
  /\ Works(p) /\ s \in ci[p]
  /\ tfes' = [tfes EXCEPT ![p] = TRUE]
  /\ halted' = [halted EXCEPT ![p] = TRUE]
  /\ ci' \in {ci, [ci EXCEPT ![p] = @ \ {s}]}
  /\ UNCHANGED <<ncs, kind, cmd, table, drives, pc, port, slot, want, log>>

Driver ==
  \/ Skip \/ ahci_sata_setup \/ ahci_stop_command_execution \/ ahci_set_base \/ ahci_start_command_execution
  \/ get_free_command_slot \/ NoFreeSlot \/ Again \/ Issue \/ Hung
  \/ PollCi \/ PollIs \/ CheckAgain

Answer(p) == \E s \in Slots : Complete(p, s) \/ Fail(p, s)

Next ==
  \/ \E p \in Ports, buffer \in Buffers, count \in Counts : ahci_perform_command(p, buffer, count)
  \/ Driver
  \/ \E p \in Ports : Engine(p) \/ Answer(p)

\* The driver goes on, engines follow, and a port that works answers.
Fairness ==
  /\ WF_vars(Driver)
  /\ \A p \in Ports : WF_vars(Engine(p)) /\ WF_vars(Answer(p))

Spec == Init /\ [][Next]_vars /\ Fairness

-----------------------------------------------------------------------------
(* Properties.                                                             *)

\* The type of every variable.
TypeOK ==
  /\ cmd \in [Ports -> SUBSET {ST, POD, FRE, FR, CR}]
  /\ ci \in [Ports -> SUBSET Slots]
  /\ drives \subseteq Ports /\ port \in Ports /\ slot \in Slots
  /\ pc \in {"idle", "probe", "stop", "base", "start", "slot", "none", "wait", "poll",
             "status", "again", "panic"}
  /\ rc \in 0..2 /\ cmds \in 0..MaxCmds

Sectors(v, n) == {virtual_to_physical(u) : u \in v..v + n - 1}
Transferred(t) == UNION {e.dba..e.dba + e.sectors - 1 : e \in {t.prdt[i] : i \in DOMAIN t.prdt}}

\* Buffers that begin with a page, or that do not go past its end.
Sound(v, n) == v % PageSectors = 0 \/ (v % PageSectors) + n <= PageSectors

\* A command being issued transfers the sectors asked for, by the FIS and by
\* the PRDT alike, and to frames of the buffer only, although pages that
\* follow each other have frames that do not.
TransferIsBuffer ==
  (pc \in {"wait", "poll", "status"} /\ Sound(want.buffer, want.count)) =>
    /\ table[port][slot].count = want.count
    /\ Transferred(table[port][slot]) = Sectors(want.buffer, want.count)

\* While a slot is issued the port may read its table: it stays the one of
\* the command the slot was issued for, also when that command was given up.
SlotsApart ==
  \A p \in Ports : \A s \in ci[p] :
    table[p][s] = Table(owner[p][s].buffer, owner[p][s].count)

\* What the driver reports as done was done, with the table of that command.
SuccessIsDone ==
  (pc = "idle" /\ rc = 1) =>
    \E d \in done : d.id = want.id /\ d.table = Table(want.buffer, want.count)

\* A command for a port that did not fail before returns, done or failed,
\* on a controller that has more than one slot.
CommandReturns ==
  \A p \in Ports :
    (ncs > 0 /\ port = p /\ ~halted[p] /\ pc = "slot") ~> (pc = "idle")

\* A port set up for commands receives FISes.  It does not: the bit that was
\* cleared is not the one that is set.
ReceivesFis == \A p \in drives : FRE \in cmd[p]

\* get_free_command_slot sets err only if no slot is free.  It does so when
\* only the last slot is.
ErrMeansFull == pc = "none" => ci[port] = Slots
=============================================================================
