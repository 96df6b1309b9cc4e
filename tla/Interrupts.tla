----------------------------- MODULE Interrupts -----------------------------
(***************************************************************************)
(* kernel/arch/amd64/idt.c and idt_asm.s: the kernel thread that sets up   *)
(* the interrupt controllers and installs handlers, and the interrupts     *)
(* that arrive between any two of its steps.  The two 8259 controllers     *)
(* and the devices are external: a request is latched while its line is    *)
(* masked, the controllers' nested priorities and their non-specific end   *)
(* of interrupt are the ones the code programs.                            *)
(***************************************************************************)
EXTENDS Integers, FiniteSets

CONSTANTS
  Lines,    \* the IRQ lines that have a device, 0..15
  Drivers   \* the IRQ numbers for which a driver calls handler_install

Kb == 1       \* the keyboard's line
Cascade == 2  \* the master's line of the slave controller

ASSUME LinesAssumption ==
  /\ Lines \subseteq (0..15) \ {Cascade}
  /\ Drivers \subseteq 0..15

PICs == {"master", "slave"}

VARIABLES
  mask, isr,   \* each controller's mask and in-service registers
  irr,         \* the lines whose request is latched
  full,        \* the devices that wait for their handler
  gates,       \* the IRQ numbers whose idt[] entry is set
  list_of_handlers,  \* the IRQ numbers that have a handler
  enabled,     \* the CPU's interrupt flag
  cpu,         \* "kernel", "dispatch", "handler", "eoi", "iret" or "reset"
  vec,         \* the line of the interrupt that runs
  kpc,         \* the kernel thread: "boot", "idle", "gate" or "store"
  num,         \* handler_install's argument
  noted,       \* the lines whose interrupt was dispatched without a handler
  forgotten    \* the devices whose request pic_remap dropped

pic == <<mask, isr, irr>>
idt == <<gates, list_of_handlers>>
vars == <<pic, full, idt, enabled, cpu, vec, kpc, num, noted, forgotten>>

-----------------------------------------------------------------------------
(* The controllers.                                                        *)

\* Which controller a line is on: port = (irq_line < 8) ? master : slave.
Pic(l) == IF l < 8 THEN "master" ELSE "slave"

AllMasked == [p \in PICs |-> 0..7]

irq_clear_mask(l) == [mask EXCEPT ![Pic(l)] = @ \ {l % 8}]

Unmasked(l) ==
  /\ l % 8 \notin mask[Pic(l)]
  /\ l >= 8 => Cascade \notin mask["master"]

\* The line's priority on the master.
Group(l) == IF l < 8 THEN l ELSE Cascade

\* A service in progress holds back requests that are not of higher priority.
Requested(l) ==
  /\ l \in irr /\ Unmasked(l)
  /\ \A m \in isr["master"] : Group(l) < m
  /\ l >= 8 => \A m \in isr["slave"] : l % 8 < m

Before(l, m) == Group(l) < Group(m) \/ (Group(l) = Group(m) /\ l < m)

Winner(l) == Requested(l) /\ \A m \in Lines : Requested(m) => ~Before(m, l)

\* What the acknowledge cycle sets for line l.
InService(l) ==
  [p \in PICs |-> IF p = Pic(l) THEN {l % 8}
                  ELSE IF p = "master" THEN {Cascade} ELSE {}]

\* The non-specific end of interrupt: the highest priority in service ends.
EndHighest(s) == s \ {b \in s : \A m \in s : b <= m}

\* Mutated: the slave is never told.
eoi_master(l) == [isr EXCEPT !["master"] = EndHighest(@)]

eoi(l) ==
  [p \in PICs |-> IF p = "master" \/ l > 7 THEN EndHighest(isr[p]) ELSE isr[p]]

-----------------------------------------------------------------------------
(* The kernel thread.                                                      *)

\* The machine as the boot loader leaves it: interrupts off, any mask.
Init ==
  /\ mask \in [PICs -> {{}, 0..7}]
  /\ isr = [p \in PICs |-> {}]
  /\ irr = {} /\ full = {}
  /\ gates = {} /\ list_of_handlers = {}
  /\ enabled = FALSE
  /\ cpu = "kernel" /\ vec = Kb
  /\ kpc = "boot" /\ num = Kb
  /\ noted = {} /\ forgotten = {}

\* The initialisation words reset both controllers and the old masks are put
\* back: what was latched is gone.
pic_remap ==
  /\ isr' = [p \in PICs |-> {}]
  /\ irr' = {}
  /\ forgotten' = full

\* Mutated: the mask found by pic_remap stays.
idt_init_unmasked ==
  /\ cpu = "kernel" /\ kpc = "boot"
  /\ pic_remap
  /\ list_of_handlers' = {}
  /\ enabled' = TRUE
  /\ kpc' = "idle"
  /\ UNCHANGED <<mask, full, gates, cpu, vec, num, noted>>

\* The controllers are remapped and every line is masked; interrupts are off
\* up to the last step.
idt_init ==
  /\ cpu = "kernel" /\ kpc = "boot"
  /\ pic_remap
  /\ mask' = AllMasked
  /\ list_of_handlers' = {}
  /\ enabled' = TRUE
  /\ kpc' = "idle"
  /\ UNCHANGED <<full, gates, cpu, vec, num, noted>>

\* Mutated: the controllers are initialised again for every handler.
HandlerInstallRemap(l) ==
  /\ cpu = "kernel" /\ kpc = "idle" /\ l \notin list_of_handlers
  /\ mask' = irq_clear_mask(l)
  /\ irr' = {}
  /\ num' = l
  /\ kpc' = "gate"
  /\ UNCHANGED <<isr, full, idt, enabled, cpu, vec, noted, forgotten>>

\* handler_install(0x20 + l, handler), in the order of its three effects.
HandlerInstall(l) ==
  /\ cpu = "kernel" /\ kpc = "idle" /\ l \notin list_of_handlers
  /\ mask' = irq_clear_mask(l)
  /\ num' = l
  /\ kpc' = "gate"
  /\ UNCHANGED <<isr, irr, full, idt, enabled, cpu, vec, noted, forgotten>>

set_idt_entry ==
  /\ cpu = "kernel" /\ kpc = "gate"
  /\ gates' = gates \cup {num}
  /\ kpc' = "store"
  /\ UNCHANGED <<pic, full, list_of_handlers, enabled, cpu, vec, num, noted, forgotten>>

StoreHandler ==
  /\ cpu = "kernel" /\ kpc = "store"
  /\ list_of_handlers' = list_of_handlers \cup {num}
  /\ kpc' = "idle"
  /\ UNCHANGED <<pic, full, gates, enabled, cpu, vec, num, noted, forgotten>>

-----------------------------------------------------------------------------
(* Interrupts.                                                             *)

\* A device has something for its handler; it waits until that is taken.
Raise(l) ==
  /\ cpu # "reset" /\ l \notin full
  /\ full' = full \cup {l}
  /\ irr' = irr \cup {l}
  /\ UNCHANGED <<mask, isr, idt, enabled, cpu, vec, kpc, num, noted, forgotten>>

\* The CPU takes the winning request.  Without a gate it faults, the fault has
\* no gate either, nor has the double fault: the machine resets.  With one,
\* the stub isr<n> calls interrupt_dispatch with interrupts off.
Deliver(l) ==
  /\ cpu = "kernel" /\ enabled
  /\ Winner(l)
  /\ irr' = irr \ {l}
  /\ isr' = [p \in PICs |-> isr[p] \cup InService(l)[p]]
  /\ enabled' = FALSE
  /\ vec' = l
  /\ cpu' = IF l \in gates THEN "dispatch" ELSE "reset"
  /\ UNCHANGED <<mask, full, idt, kpc, num, noted, forgotten>>

\* Without a handler a note is printed and the stub returns.
interrupt_dispatch ==
  /\ cpu = "dispatch"
  /\ \/ /\ vec \in list_of_handlers
        /\ cpu' = "handler"
        /\ UNCHANGED <<enabled, noted>>
     \/ /\ vec \notin list_of_handlers
        /\ noted' = noted \cup {vec}
        /\ cpu' = "kernel" /\ enabled' = TRUE
  /\ UNCHANGED <<pic, full, idt, vec, kpc, num, forgotten>>

\* A handler first takes what its device has, then ends the interrupt.
TakeData ==
  /\ cpu = "handler"
  /\ full' = full \ {vec}
  /\ cpu' = "eoi"
  /\ UNCHANGED <<pic, idt, enabled, vec, kpc, num, noted, forgotten>>

\* Mutated: the handler returns without ending the interrupt.
NoEoi ==
  /\ cpu = "eoi"
  /\ cpu' = "iret"
  /\ UNCHANGED <<pic, full, idt, enabled, vec, kpc, num, noted, forgotten>>

Eoi ==
  /\ cpu = "eoi"
  /\ isr' = eoi(vec)
  /\ cpu' = "iret"
  /\ UNCHANGED <<mask, irr, full, idt, enabled, vec, kpc, num, noted, forgotten>>

Iret ==
  /\ cpu = "iret"
  /\ cpu' = "kernel" /\ enabled' = TRUE
  /\ UNCHANGED <<pic, full, idt, vec, kpc, num, noted, forgotten>>

Handler == interrupt_dispatch \/ TakeData \/ Eoi \/ Iret

Next ==
  \/ idt_init \/ set_idt_entry \/ StoreHandler
  \/ \E l \in Drivers : HandlerInstall(l)
  \/ \E l \in Lines : Raise(l)
  \/ \E l \in Lines : Deliver(l)
  \/ Handler

\* The CPU takes a request that stays and goes on executing a handler.
Fairness == WF_vars(\E l \in Lines : Deliver(l)) /\ WF_vars(Handler)

Spec == Init /\ [][Next]_vars /\ Fairness

-----------------------------------------------------------------------------
(* Properties.                                                             *)

\* The type of every variable.
TypeOK ==
  /\ mask \in [PICs -> SUBSET (0..7)] /\ isr \in [PICs -> SUBSET (0..7)]
  /\ irr \subseteq Lines /\ full \subseteq Lines
  /\ gates \subseteq Drivers /\ list_of_handlers \subseteq Drivers
  /\ enabled \in BOOLEAN
  /\ cpu \in {"kernel", "dispatch", "handler", "eoi", "iret", "reset"}
  /\ vec \in Lines \cup {Kb} /\ num \in Drivers \cup {Kb}
  /\ kpc \in {"boot", "idle", "gate", "store"}
  /\ noted \subseteq Lines /\ forgotten \subseteq Lines

Installing(l) == kpc \in {"gate", "store"} /\ num = l

\* Once interrupts are on, a line that can interrupt has its gate and its
\* handler, but for the line handler_install is working on.
UnmaskedIsReady ==
  kpc # "boot" =>
    \A l \in Lines : Unmasked(l) =>
      Installing(l) \/ (l \in gates /\ l \in list_of_handlers)

Bits(ls) == [p \in PICs |-> UNION {InService(l)[p] : l \in ls}]

\* Each interrupt that has a handler ends exactly its own service on both
\* controllers: outside handlers only interrupts dispatched without one are
\* left in service.
ServiceEnds == cpu = "kernel" => isr = Bits(noted)

Handling == IF cpu \in {"dispatch", "handler", "reset"} THEN {vec} ELSE {}

\* No request is lost or made up: a device waits exactly when its request is
\* latched or being handled, unless pic_remap dropped the request or it was
\* dispatched without a handler.
RequestsKept ==
  /\ irr \subseteq full
  /\ full \subseteq irr \cup Handling \cup noted \cup forgotten

\* What the keyboard has is taken, once its handler is installed and unless an
\* interrupt hit the window of an installation.
KeyTaken ==
  (Kb \in irr /\ Kb \in list_of_handlers)
    ~> (Kb \notin full \/ noted # {} \/ cpu = "reset")

\* An interrupt always finds a gate, so that one without a handler is noted by
\* interrupt_dispatch rather than fatal.
HasGate == cpu # "reset"
=============================================================================
