-------------------------- MODULE InterruptsProofs --------------------------
(***************************************************************************)
(* The safety of the interrupt controllers' bookkeeping, for every set of  *)
(* devices and of drivers, and for interrupts between any two steps of the *)
(* kernel thread; and at the end that of the keyboard's events.            *)
(***************************************************************************)
EXTENDS Machine, TLAPS

\* What irq_clear_mask relies on: controller and bit name one line.
LEMMA BitNamesLine ==
  ASSUME NEW l \in 0..15, NEW m \in 0..15, Pic(l) = Pic(m), l % 8 = m % 8
  PROVE  l = m
  BY DEF Pic

\* What the lines and controllers of the model are.
LEMMA LineTypes ==
  ASSUME NEW l \in 0..15
  PROVE  /\ Pic(l) \in PICs /\ l % 8 \in 0..7
         /\ InService(l) \in [PICs -> SUBSET (0..7)]
  BY DEF Pic, PICs, InService, Cascade

\* The service bits of some lines are those of each of them.
LEMMA BitsOfLines ==
  ASSUME NEW S \in SUBSET (0..15)
  PROVE  /\ Bits(S) \in [PICs -> SUBSET (0..7)]
         /\ \A p \in PICs : Bits(S)[p] = UNION {InService(l)[p] : l \in S}
  <1>1. \A p \in PICs : UNION {InService(l)[p] : l \in S} \subseteq 0..7
    BY LineTypes
  <1> QED BY <1>1 DEF Bits

\* A line that comes into service adds its own bit.
LEMMA BitsOfOneMore ==
  ASSUME NEW S \in SUBSET (0..15), NEW v \in 0..15, NEW p \in PICs
  PROVE  Bits(S \cup {v})[p] = Bits(S)[p] \cup InService(v)[p]
  <1>1. S \cup {v} \in SUBSET (0..15)
    OBVIOUS
  <1>2. /\ Bits(S)[p] = UNION {InService(l)[p] : l \in S}
        /\ Bits(S \cup {v})[p] = UNION {InService(l)[p] : l \in S \cup {v}}
    BY <1>1, BitsOfLines
  <1> QED BY <1>2, Zenon

\* A non-specific end of interrupt ends the one service above all others.
LEMMA EndOfHighest ==
  ASSUME NEW s \in SUBSET (0..7), NEW b \in 0..7, \A m \in s : b < m
  PROVE  EndHighest(s \cup {b}) = s
  <1>1. ASSUME NEW d \in s \cup {b}
        PROVE  (\A m \in s \cup {b} : d <= m) <=> d = b
    OBVIOUS
  <1>2. b \notin s
    OBVIOUS
  <1> QED BY <1>1, <1>2 DEF EndHighest

-----------------------------------------------------------------------------
(* The inductive invariant.                                                *)

\* The bit of a line is cleared by the installation of that line's handler
\* only, whether or not the line has a device and whatever the cascade's mask.
ClearIsInstalled ==
  kpc # "boot" =>
    \A d \in 0..15 : d % 8 \notin mask[Pic(d)] =>
      Installing(d) \/ (d \in gates /\ d \in list_of_handlers)

\* handler_install stores the handler after it set the gate.
GateFirst ==
  /\ kpc = "store" => num \in gates
  /\ kpc \in {"gate", "store"} => num \in Drivers

\* The interrupt that runs is in service above all those left in service.
Above(l) ==
  /\ \A m \in Bits(noted)["master"] : Group(l) < m
  /\ l >= 8 => \A m \in Bits(noted)["slave"] : l % 8 < m

\* Up to the last step of idt_init no interrupt is taken.
BootQuiet == kpc = "boot" => ~enabled /\ cpu = "kernel" /\ noted = {}

\* What is in service, at every step of an interrupt.
Service ==
  /\ cpu \in {"kernel", "iret"} => isr = Bits(noted)
  /\ cpu \in {"dispatch", "handler", "eoi"} =>
       /\ vec \in Lines /\ Above(vec)
       /\ isr = [p \in PICs |-> Bits(noted)[p] \cup InService(vec)[p]]

\* While a device waits for the handler that runs it does not request again.
RunningOnce ==
  cpu \in {"dispatch", "handler"} => vec \in Lines /\ vec \in full /\ vec \notin irr

IInv ==
  /\ TypeOK /\ BootQuiet /\ ClearIsInstalled /\ GateFirst /\ Service /\ RunningOnce
  /\ RequestsKept

\* The machine before idt_init.
LEMMA InitIInv == Init => IInv
  <1> SUFFICES ASSUME Init PROVE IInv
    OBVIOUS
  <1>1. TypeOK
    BY LinesAssumption DEF Init, TypeOK, PICs
  <1>2. Bits({}) = [p \in PICs |-> {}]
    BY DEF Bits
  <1>3. BootQuiet /\ ClearIsInstalled /\ GateFirst /\ Service /\ RunningOnce /\ RequestsKept
    BY <1>2
    DEF Init, BootQuiet, ClearIsInstalled, GateFirst, Service, RunningOnce, RequestsKept
  <1> QED BY <1>1, <1>3 DEF IInv

-----------------------------------------------------------------------------
(* The steps of the kernel thread.                                         *)

\* idt_init: all lines are masked, nothing is in service or latched.
LEMMA idt_initIInv == IInv /\ idt_init => IInv'
  <1> SUFFICES ASSUME IInv, idt_init PROVE IInv'
    OBVIOUS
  <1> USE DEF IInv, idt_init, pic_remap
  <1>1. TypeOK'
    BY DEF TypeOK, AllMasked, PICs
  <1>2. ClearIsInstalled'
    <2>1. \A d \in 0..15 : d % 8 \in mask'[Pic(d)]
      BY LineTypes DEF AllMasked
    <2> QED BY <2>1 DEF ClearIsInstalled
  <1>3. Service'
    <2>1. Bits({}) = [p \in PICs |-> {}]
      BY DEF Bits
    <2> QED BY <2>1 DEF Service, BootQuiet
  <1>4. BootQuiet' /\ GateFirst' /\ RunningOnce' /\ RequestsKept'
    BY DEF BootQuiet, GateFirst, RunningOnce, RequestsKept, Handling
  <1> QED BY <1>1, <1>2, <1>3, <1>4

\* Only the bit of the driver's own line is cleared.
LEMMA HandlerInstallIInv ==
  ASSUME IInv, NEW l \in Drivers, HandlerInstall(l)
  PROVE  IInv'
  <1> USE DEF IInv, HandlerInstall, idt
  <1>1. l \in 0..15
    BY LinesAssumption
  <1>2. TypeOK'
    BY <1>1, LineTypes DEF TypeOK, irq_clear_mask
  <1>3. ClearIsInstalled'
    <2>1. SUFFICES ASSUME kpc # "boot", NEW d \in 0..15, d # l,
                          d % 8 \notin mask'[Pic(d)]
                   PROVE  d \in gates /\ d \in list_of_handlers
      BY DEF ClearIsInstalled, Installing
    <2>2. d % 8 \notin mask[Pic(d)]
      <3>1. Pic(d) # Pic(l) \/ d % 8 # l % 8
        BY <1>1, <2>1, BitNamesLine
      <3> QED BY <1>1, <2>1, <3>1, LineTypes DEF irq_clear_mask, TypeOK
    <2> QED BY <2>1, <2>2 DEF ClearIsInstalled, Installing
  <1>4. Service'
    BY DEF Service, Above
  <1>5. BootQuiet' /\ GateFirst' /\ RunningOnce' /\ RequestsKept'
    BY DEF BootQuiet, GateFirst, RunningOnce, RequestsKept, Handling
  <1> QED BY <1>2, <1>3, <1>4, <1>5

\* handler_install writes the gate of the line whose mask it cleared.
LEMMA set_idt_entryIInv == IInv /\ set_idt_entry => IInv'
  <1> SUFFICES ASSUME IInv, set_idt_entry PROVE IInv'
    OBVIOUS
  <1> USE DEF IInv, set_idt_entry, pic
  <1>1. TypeOK'
    BY DEF TypeOK, GateFirst
  <1>2. ClearIsInstalled'
    BY DEF ClearIsInstalled, Installing
  <1>3. Service'
    BY DEF Service, Above
  <1>4. BootQuiet' /\ GateFirst' /\ RunningOnce' /\ RequestsKept'
    BY DEF BootQuiet, GateFirst, RunningOnce, RequestsKept, Handling
  <1> QED BY <1>1, <1>2, <1>3, <1>4

\* handler_install stores the handler, after the gate.
LEMMA StoreHandlerIInv == IInv /\ StoreHandler => IInv'
  <1> SUFFICES ASSUME IInv, StoreHandler PROVE IInv'
    OBVIOUS
  <1> USE DEF IInv, StoreHandler, pic
  <1>1. TypeOK'
    BY DEF TypeOK, GateFirst
  <1>2. ClearIsInstalled'
    BY DEF ClearIsInstalled, Installing, GateFirst
  <1>3. Service'
    BY DEF Service, Above
  <1>4. BootQuiet' /\ GateFirst' /\ RunningOnce' /\ RequestsKept'
    BY DEF BootQuiet, GateFirst, RunningOnce, RequestsKept, Handling
  <1> QED BY <1>1, <1>2, <1>3, <1>4

-----------------------------------------------------------------------------
(* The steps of devices and interrupts.                                    *)

\* A device raises its line: the request is latched.
LEMMA RaiseIInv ==
  ASSUME IInv, NEW l \in Lines, Raise(l)
  PROVE  IInv'
  <1> USE DEF IInv, Raise, idt
  <1>1. TypeOK'
    BY DEF TypeOK
  <1>2. ClearIsInstalled' /\ GateFirst' /\ BootQuiet'
    BY DEF ClearIsInstalled, Installing, GateFirst, BootQuiet
  <1>3. Service'
    BY DEF Service, Above
  <1>4. RunningOnce' /\ RequestsKept'
    BY DEF RunningOnce, RequestsKept, Handling
  <1> QED BY <1>1, <1>2, <1>3, <1>4

\* The winning request is of higher priority than all that is in service.
LEMMA DeliverIInv ==
  ASSUME IInv, NEW l \in Lines, Deliver(l)
  PROVE  IInv'
  <1> USE DEF IInv, Deliver, idt
  <1>1. l \in 0..15 /\ l \in irr
    BY LinesAssumption DEF Winner, Requested
  <1>2. TypeOK'
    BY <1>1, LineTypes DEF TypeOK
  <1>3. ClearIsInstalled' /\ GateFirst' /\ BootQuiet'
    BY DEF ClearIsInstalled, Installing, GateFirst, BootQuiet
  <1>4. Service'
    <2>1. isr = Bits(noted)
      BY DEF Service
    <2>2. Above(l)
      BY <2>1 DEF Winner, Requested, Above
    <2> QED BY <2>1, <2>2 DEF Service, Above
  <1>5. RunningOnce' /\ RequestsKept'
    BY <1>1 DEF RunningOnce, RequestsKept, Handling
  <1> QED BY <1>2, <1>3, <1>4, <1>5

\* An interrupt without a handler stays in service and is noted.
LEMMA interrupt_dispatchIInv == IInv /\ interrupt_dispatch => IInv'
  <1> SUFFICES ASSUME IInv, interrupt_dispatch PROVE IInv'
    OBVIOUS
  <1> USE DEF IInv, interrupt_dispatch, idt, pic
  <1>1. vec \in Lines /\ vec \in 0..15 /\ noted \in SUBSET (0..15)
    BY LinesAssumption DEF Service, TypeOK
  <1>2. TypeOK'
    BY <1>1 DEF TypeOK
  <1>3. ClearIsInstalled' /\ GateFirst' /\ BootQuiet'
    BY DEF ClearIsInstalled, Installing, GateFirst, BootQuiet
  <1>4. Service'
    <2>1. CASE vec \in list_of_handlers
      BY <2>1 DEF Service, Above
    <2>2. CASE vec \notin list_of_handlers
      <3>1. isr = [p \in PICs |-> Bits(noted \cup {vec})[p]]
        BY <1>1, BitsOfOneMore DEF Service
      <3>2. isr = Bits(noted \cup {vec})
        BY <3>1 DEF Bits
      <3> QED BY <2>2, <3>2 DEF Service
    <2> QED BY <2>1, <2>2
  <1>5. RunningOnce' /\ RequestsKept'
    BY DEF RunningOnce, RequestsKept, Handling
  <1> QED BY <1>2, <1>3, <1>4, <1>5

\* A handler takes its device's data; no service changes.
LEMMA TakeDataIInv == IInv /\ TakeData => IInv'
  <1> SUFFICES ASSUME IInv, TakeData PROVE IInv'
    OBVIOUS
  <1> USE DEF IInv, TakeData, idt, pic
  <1>1. TypeOK'
    BY DEF TypeOK
  <1>2. ClearIsInstalled' /\ GateFirst' /\ BootQuiet'
    BY DEF ClearIsInstalled, Installing, GateFirst, BootQuiet
  <1>3. Service'
    BY DEF Service, Above
  <1>4. RunningOnce' /\ RequestsKept'
    BY DEF RunningOnce, RequestsKept, Handling
  <1> QED BY <1>1, <1>2, <1>3, <1>4

\* The end of interrupt ends the running one on its controllers and no other.
LEMMA EoiIInv == IInv /\ Eoi => IInv'
  <1> SUFFICES ASSUME IInv, Eoi PROVE IInv'
    OBVIOUS
  <1> USE DEF IInv, Eoi, idt
  <1>1. vec \in Lines /\ vec \in 0..15 /\ noted \in SUBSET (0..15)
    BY LinesAssumption DEF Service, TypeOK
  <1> DEFINE left == Bits(noted)
  <1>2. left \in [PICs -> SUBSET (0..7)] /\ Above(vec)
    BY <1>1, BitsOfLines DEF Service
  <1>3. isr = [p \in PICs |-> left[p] \cup InService(vec)[p]]
    BY DEF Service
  <1>4. "master" \in PICs /\ "slave" \in PICs
    BY DEF PICs
  <1> HIDE DEF left
  <1>5. EndHighest(isr["master"]) = left["master"]
    <2>1. InService(vec)["master"] = {Group(vec)} /\ Group(vec) \in 0..7
      BY <1>1 DEF InService, Group, Pic, PICs, Cascade
    <2>2. \A m \in left["master"] : Group(vec) < m
      BY <1>2 DEF Above, left
    <2> QED BY <1>2, <1>3, <1>4, <2>1, <2>2, EndOfHighest
  <1>6. EndHighest(isr["slave"]) = left["slave"] \/ vec <= 7
    <2>1. SUFFICES ASSUME vec > 7 PROVE EndHighest(isr["slave"]) = left["slave"]
      BY <1>1
    <2>2. InService(vec)["slave"] = {vec % 8} /\ vec % 8 \in 0..7
      BY <1>1, <2>1 DEF InService, Pic, PICs
    <2>3. \A m \in left["slave"] : vec % 8 < m
      BY <1>1, <1>2, <2>1 DEF Above, left
    <2> QED BY <1>2, <1>3, <1>4, <2>2, <2>3, EndOfHighest
  <1>7. vec <= 7 => isr["slave"] = left["slave"]
    <2>1. vec <= 7 => InService(vec)["slave"] = {}
      BY <1>1 DEF InService, Pic, PICs
    <2> QED BY <1>3, <1>4, <2>1
  <1>8. isr' = left
    <2>1. \A p \in PICs : isr'[p] = left[p]
      BY <1>1, <1>5, <1>6, <1>7 DEF eoi, PICs
    <2>2. isr' = [p \in PICs |-> isr'[p]]
      BY DEF eoi
    <2> QED BY <1>2, <2>1, <2>2
  <1>9. TypeOK'
    BY <1>2, <1>8 DEF TypeOK
  <1>10. ClearIsInstalled' /\ GateFirst' /\ BootQuiet'
    BY DEF ClearIsInstalled, Installing, GateFirst, BootQuiet
  <1>11. Service'
    BY <1>8 DEF Service, left
  <1>12. RunningOnce' /\ RequestsKept'
    BY DEF RunningOnce, RequestsKept, Handling
  <1> QED BY <1>9, <1>10, <1>11, <1>12

\* iretq: the kernel goes on with interrupts enabled.
LEMMA IretIInv == IInv /\ Iret => IInv'
  <1> SUFFICES ASSUME IInv, Iret PROVE IInv'
    OBVIOUS
  <1> USE DEF IInv, Iret, idt, pic
  <1>1. TypeOK'
    BY DEF TypeOK
  <1>2. ClearIsInstalled' /\ GateFirst' /\ BootQuiet'
    BY DEF ClearIsInstalled, Installing, GateFirst, BootQuiet
  <1>3. Service'
    BY DEF Service
  <1>4. RunningOnce' /\ RequestsKept'
    BY DEF RunningOnce, RequestsKept, Handling
  <1> QED BY <1>1, <1>2, <1>3, <1>4

\* Every step of the machine preserves the invariant.
LEMMA StepIInv == IInv /\ [Next]_vars => IInv'
  <1> SUFFICES ASSUME IInv, [Next]_vars PROVE IInv'
    OBVIOUS
  <1>1. CASE UNCHANGED vars
    BY <1>1
    DEF vars, pic, idt, IInv, TypeOK, BootQuiet, ClearIsInstalled, Installing,
        GateFirst, Service, Above, RunningOnce, RequestsKept, Handling
  <1> QED
    BY <1>1, idt_initIInv, HandlerInstallIInv, set_idt_entryIInv, StoreHandlerIInv,
       RaiseIInv, DeliverIInv, interrupt_dispatchIInv, TakeDataIInv, EoiIInv, IretIInv
    DEF Next, Handler

-----------------------------------------------------------------------------
(* Theorems.                                                               *)

\* The inductive invariant holds whichever devices raise their lines and when.
THEOREM Invariance == Spec => []IInv
  BY InitIInv, StepIInv, PTL DEF Spec

\* The registers of both controllers, the kernel's tables and the CPU keep
\* their types, whichever lines have devices and whichever have drivers.
THEOREM TypeCorrect == Spec => []TypeOK
  <1>1. IInv => TypeOK
    BY DEF IInv
  <1> QED BY <1>1, Invariance, PTL

\* Whatever order drivers are installed in, a line that can interrupt after
\* idt_init has its gate and its entry of list_of_handlers, but for the one
\* line handler_install is working on.
THEOREM UnmaskedReady == Spec => []UnmaskedIsReady
  <1>1. IInv => UnmaskedIsReady
    <2> SUFFICES ASSUME IInv, kpc # "boot", NEW l \in Lines, Unmasked(l)
                 PROVE  Installing(l) \/ (l \in gates /\ l \in list_of_handlers)
      BY DEF UnmaskedIsReady
    <2> QED BY LinesAssumption DEF IInv, ClearIsInstalled, Unmasked
  <1> QED BY <1>1, Invariance, PTL

\* The handlers' non-specific ends of interrupt end, on both controllers, the
\* service of their own line and of no other, however interrupts nest with
\* those that were dispatched without a handler and never ended.
THEOREM ServicesEnd == Spec => []ServiceEnds
  <1>1. IInv => ServiceEnds
    BY DEF IInv, Service, ServiceEnds
  <1> QED BY <1>1, Invariance, PTL

\* A device waits for its handler exactly while its request is latched or its
\* interrupt runs, but for requests dropped by pic_remap or dispatched while
\* there was no handler.
THEOREM RequestsAreKept == Spec => []RequestsKept
  <1>1. IInv => RequestsKept
    BY DEF IInv
  <1> QED BY <1>1, Invariance, PTL
-----------------------------------------------------------------------------
(* The keyboard: an event is put together from the flags of the handler    *)
(* long after the key was typed, and meanwhile the next code may come.     *)
(* What relates the two is the set of modifiers that were down before the  *)
(* codes still on their way.                                               *)

\* The modifiers that were down before a code.
Undo(S, code) ==
  IF code.key \notin K!Modifiers THEN S
  ELSE IF code.released = 1 THEN S \cup {code.key} ELSE S \ {code.key}

Waiting == 1 \in full
Taken == cpu \in {"eoi", "iret"}

\* The modifiers down before the code in the data port, and before the code
\* that the handler works on.
HeldC == IF Waiting THEN Undo(held, data) ELSE held
HeldQ == IF Taken THEN Undo(HeldC, c) ELSE HeldC

\* The bytes of events, with the fields they belong to.
EventByte ==
  ({"c"} \X [at : Int, capital : BOOLEAN]) \cup ({"mode"} \X (0..7)) \cup ({"release"} \X {0, 1})

\* The types of what the keyboard's actions change.
KeyboardTypes ==
  /\ full \subseteq {1} /\ irr \subseteq full /\ list_of_handlers \subseteq {1}
  /\ vec = 1 /\ num = 1
  /\ held \subseteq K!Modifiers
  /\ Waiting => data \in K!Codes
  /\ Taken => c \in K!Codes
  /\ is_shift_down \in BOOLEAN /\ is_alt_down \in BOOLEAN /\ is_ctrl_down \in BOOLEAN
  /\ torn \in BOOLEAN
  /\ q \in Seq(EventByte) /\ Len(q) <= Room
  /\ typed \in Seq([code : K!Codes, held : SUBSET K!Modifiers])

\* The handler runs for a code in the data port and once there is a ring.
HandlerReady ==
  /\ cpu \in {"dispatch", "handler"} => Waiting /\ irr = {}
  /\ kpc \in {"gate", "store"} \/ list_of_handlers # {} \/ cpu = "handler" \/ Taken
       => driver = "ring"

\* A code on its way is of a modifier that went the way it says.
CodesExact ==
  /\ Waiting /\ data.key \in K!Modifiers => (data.key \in held) = (data.released = 0)
  /\ Taken /\ c.key \in K!Modifiers => (c.key \in HeldC) = (c.released = 0)

\* The flags are those of the codes handled.
Flags ==
  /\ is_alt_down = (K!Alt \in HeldQ)
  /\ is_ctrl_down = (K!Ctrl \in HeldQ)
  /\ is_shift_down => HeldQ \cap K!Shifts # {}

KeyWaiting == IF Waiting /\ data.key \in Keys THEN 1 ELSE 0
KeyTakenNow == IF Taken /\ c.key \in Keys THEN 1 ELSE 0

\* The keys on their way are the last ones typed.
LastTyped ==
  /\ KeyWaiting = 1 => typed[Len(typed)] = [code |-> data, held |-> held]
  /\ KeyTakenNow = 1 => typed[Len(typed) - KeyWaiting] = [code |-> c, held |-> HeldC]

\* The others are in the ring.
Events ==
  /\ Len(q) = 3 * (Len(typed) - (KeyWaiting + KeyTakenNow))
  /\ \A n \in 1..(Len(typed) - (KeyWaiting + KeyTakenNow)) :
       K!Says(<<q[3 * n - 2], q[3 * n - 1], q[3 * n]>>, typed[n])

KeyboardIInv ==
  KeyboardTypes /\ HandlerReady /\ CodesExact /\ Flags /\ (~torn => LastTyped /\ Events)

\* A code that goes the way it says is undone exactly, and is redone by it.
LEMMA UndoOne ==
  ASSUME NEW S \in SUBSET K!Modifiers, NEW code \in K!Codes
  PROVE  /\ Undo(S, code) \subseteq K!Modifiers
         /\ code.key \notin K!Modifiers => Undo(S, code) = S
         /\ code.key \in K!Modifiers /\ (code.key \in S) = (code.released = 1) =>
              Undo(IF code.released = 1 THEN S \ {code.key} ELSE S \cup {code.key}, code) = S
         /\ \A k \in K!Modifiers : k # code.key => (k \in Undo(S, code)) = (k \in S)
  BY DEF Undo, K!Codes

\* The sets of modifiers that the invariant speaks of.
LEMMA HeldTypes ==
  ASSUME KeyboardTypes
  PROVE  HeldC \subseteq K!Modifiers /\ HeldQ \subseteq K!Modifiers
  <1>1. HeldC \subseteq K!Modifiers
    BY UndoOne DEF KeyboardTypes, HeldC
  <1> QED BY <1>1, UndoOne DEF KeyboardTypes, HeldQ

\* The steps that only move the thread or the interrupt along.
LEMMA MovesAlong ==
  ASSUME KeyboardIInv, KeyboardTypes', HandlerReady', Taken' = Taken, full' = full,
         UNCHANGED <<held, data, c, is_shift_down, is_alt_down, is_ctrl_down, q, typed, torn>>
  PROVE  KeyboardIInv'
  <1>1. /\ Waiting' = Waiting /\ HeldC' = HeldC /\ HeldQ' = HeldQ
        /\ KeyWaiting' = KeyWaiting /\ KeyTakenNow' = KeyTakenNow
    BY DEF Waiting, HeldC, HeldQ, KeyWaiting, KeyTakenNow, Undo
  <1>2. CodesExact' /\ Flags'
    BY <1>1 DEF KeyboardIInv, CodesExact, Flags
  <1>3. ~torn => LastTyped' /\ Events'
    BY <1>1 DEF KeyboardIInv, LastTyped, Events
  <1> QED BY <1>2, <1>3 DEF KeyboardIInv

\* The driver's initialisation and the rest of the kernel thread.
LEMMA KernelKeeps ==
  ASSUME KeyboardIInv, K!ps2_keyboard_init \/ K!Kernel
  PROVE  KeyboardIInv'
  <1> USE DEF K!device, K!handlerState, K!ring
  <1>1. CASE K!ps2_keyboard_init
    <2> USE <1>1 DEF K!ps2_keyboard_init
    <2>1. CASE driver = "none" /\ driver' \in {"ring", "failed"} /\ UNCHANGED K!interrupts
      <3>1. KeyboardTypes' /\ HandlerReady' /\ Taken' = Taken /\ full' = full
        BY <2>1 DEF KeyboardIInv, KeyboardTypes, HandlerReady, Taken, Waiting, K!interrupts
      <3> QED BY <3>1, MovesAlong
    <2>2. CASE driver = "ring" /\ K!Irq!HandlerInstall(K!Kb) /\ UNCHANGED driver
      <3>1. KeyboardTypes' /\ HandlerReady' /\ Taken' = Taken /\ full' = full
        BY <2>2 DEF KeyboardIInv, KeyboardTypes, HandlerReady, Taken, Waiting,
                    K!Irq!HandlerInstall, K!Kb, K!Irq!Kb, K!Irq!idt
      <3> QED BY <3>1, MovesAlong
    <2> QED BY <2>1, <2>2
  <1>2. CASE K!Kernel
    <2>1. KeyboardTypes' /\ HandlerReady' /\ Taken' = Taken /\ full' = full
      <3> USE <1>2 DEF K!Kernel, KeyboardIInv, KeyboardTypes, HandlerReady, Taken, Waiting
      <3>1. CASE K!Irq!idt_init
        BY <3>1 DEF K!Irq!idt_init, K!Irq!pic_remap
      <3>2. CASE K!Irq!set_idt_entry
        BY <3>2 DEF K!Irq!set_idt_entry, K!Irq!pic
      <3>3. CASE K!Irq!StoreHandler
        BY <3>3 DEF K!Irq!StoreHandler, K!Irq!pic
      <3> QED BY <3>1, <3>2, <3>3
    <2> QED BY <1>2, <2>1, MovesAlong DEF K!Kernel
  <1> QED BY <1>1, <1>2

\* An interrupt up to its handler, and its end at the controllers.
LEMMA InterruptKeeps ==
  ASSUME KeyboardIInv, K!Deliver \/ K!interrupt_dispatch \/ K!EndInterrupt
  PROVE  KeyboardIInv'
  <1> USE DEF K!device, K!handlerState, K!ring
  <1>1. KeyboardTypes' /\ HandlerReady' /\ Taken' = Taken /\ full' = full
    <2> USE DEF KeyboardIInv, KeyboardTypes, HandlerReady, Taken, Waiting
    <2>1. CASE K!Deliver
      <3>1. 1 \in irr
        BY <2>1 DEF K!Deliver, K!Irq!Deliver, K!Irq!Winner, K!Irq!Requested, K!Kb, K!Irq!Kb
      <3> QED BY <2>1, <3>1 DEF K!Deliver, K!Irq!Deliver, K!Kb, K!Irq!Kb, K!Irq!idt
    <2>2. CASE K!interrupt_dispatch
      BY <2>2 DEF K!interrupt_dispatch, K!Irq!interrupt_dispatch, K!Irq!pic, K!Irq!idt
    <2>3. CASE K!EndInterrupt
      BY <2>3 DEF K!EndInterrupt, K!Irq!Eoi, K!Irq!idt
    <2> QED BY <2>1, <2>2, <2>3
  <1> QED BY <1>1, MovesAlong DEF K!Deliver, K!interrupt_dispatch, K!EndInterrupt

\* A code that is typed comes after those the handler works on.
LEMMA TypeKeeps ==
  ASSUME K!KeyboardAssumption, KeyboardIInv, NEW code \in K!Codes, K!Type(code)
  PROVE  KeyboardIInv'
  <1> USE DEF K!handlerState, K!ring
  <1>1. /\ full = {} /\ full' = {1} /\ irr' \subseteq {1} /\ data' = code
        /\ UNCHANGED <<list_of_handlers, cpu, vec, kpc, num>>
        /\ UNCHANGED <<c, is_shift_down, is_alt_down, is_ctrl_down, driver, q, torn>>
    BY DEF K!Type, K!Irq!Raise, K!Kb, K!Irq!Kb, K!Irq!idt, KeyboardIInv, KeyboardTypes
  <1>2. \/ /\ code.key \in K!Modifiers /\ (code.key \in held) = (code.released = 1)
           /\ held' = IF code.released = 1 THEN held \ {code.key} ELSE held \cup {code.key}
           /\ typed' = typed
        \/ /\ code.key \in Keys /\ held' = held
           /\ typed' = Append(typed, [code |-> code, held |-> held])
    BY DEF K!Type
  <1>3. code.released \in {0, 1} /\ Keys \cap K!Modifiers = {} /\ held \subseteq K!Modifiers
    BY DEF K!Codes, K!KeyboardAssumption, KeyboardIInv, KeyboardTypes
  <1>4. Undo(held', code) = held
    BY <1>2, <1>3, UndoOne DEF Undo
  <1>5. ~Waiting /\ Waiting' /\ Taken' = Taken /\ HeldC = held /\ HeldC' = held
    BY <1>1, <1>4 DEF Waiting, Taken, HeldC
  <1>6. HeldQ' = HeldQ
    BY <1>1, <1>5 DEF HeldQ, Undo
  <1>7. KeyboardTypes'
    <2>1. held' \subseteq K!Modifiers
      BY <1>2, <1>3
    <2>2. typed' \in Seq([code : K!Codes, held : SUBSET K!Modifiers])
      <3> DEFINE T == [code : K!Codes, held : SUBSET K!Modifiers]
      <3>1. [code |-> code, held |-> held] \in T /\ typed \in Seq(T)
        BY <1>3 DEF KeyboardIInv, KeyboardTypes
      <3> HIDE DEF T
      <3>2. Append(typed, [code |-> code, held |-> held]) \in Seq(T)
        BY <3>1
      <3> QED BY <1>2, <3>1, <3>2 DEF T
    <2> QED BY <1>1, <1>5, <2>1, <2>2 DEF KeyboardIInv, KeyboardTypes, Waiting
  <1>8. HandlerReady' /\ Flags'
    BY <1>1, <1>5, <1>6 DEF KeyboardIInv, HandlerReady, Flags
  <1>9. CodesExact'
    BY <1>1, <1>2, <1>3, <1>5 DEF KeyboardIInv, CodesExact
  <1>10. ASSUME ~torn PROVE LastTyped' /\ Events'
    <2>1. /\ KeyWaiting = 0 /\ KeyTakenNow' = KeyTakenNow /\ KeyTakenNow \in {0, 1}
          /\ KeyWaiting' = IF code.key \in Keys THEN 1 ELSE 0
      BY <1>1, <1>5 DEF KeyWaiting, KeyTakenNow
    <2>2. /\ typed \in Seq([code : K!Codes, held : SUBSET K!Modifiers])
          /\ Len(typed) \in Nat /\ Len(q) \in Nat /\ q' = q
      BY <1>1 DEF KeyboardIInv, KeyboardTypes
    <2>3. Len(q) = 3 * (Len(typed) - KeyTakenNow) /\ Len(typed) >= KeyTakenNow
      BY <1>10, <2>1, <2>2 DEF KeyboardIInv, Events
    <2>4. KeyTakenNow = 1 => typed[Len(typed)] = [code |-> c, held |-> held]
      BY <1>10, <2>1, <2>2, <1>5 DEF KeyboardIInv, LastTyped
    <2>5. \A n \in 1..(Len(typed) - KeyTakenNow) :
            K!Says(<<q[3 * n - 2], q[3 * n - 1], q[3 * n]>>, typed[n])
      BY <1>10, <2>1, <2>2 DEF KeyboardIInv, Events
    <2>6. CASE code.key \in K!Modifiers
      <3>1. typed' = typed /\ KeyWaiting' = 0
        BY <2>6, <1>2, <1>3, <2>1
      <3>2. LastTyped'
        BY <3>1, <2>1, <2>2, <2>4, <1>1, <1>5 DEF LastTyped
      <3> QED BY <3>1, <3>2, <2>1, <2>2, <2>3, <2>5 DEF Events
    <2>7. CASE code.key \in Keys
      <3>1. /\ typed' = Append(typed, [code |-> code, held |-> held]) /\ held' = held
            /\ KeyWaiting' = 1
        BY <2>7, <1>2, <1>3, <2>1
      <3>2. /\ Len(typed') = Len(typed) + 1 /\ typed'[Len(typed) + 1] = [code |-> code, held |-> held]
            /\ \A n \in 1..Len(typed) : typed'[n] = typed[n]
        BY <3>1, <2>2
      <3>3. LastTyped'
        BY <3>1, <3>2, <2>1, <2>2, <2>3, <2>4, <1>1, <1>5 DEF LastTyped
      <3>4. Len(typed') - (KeyWaiting' + KeyTakenNow') = Len(typed) - KeyTakenNow
        BY <3>1, <3>2, <2>1, <2>2
      <3>5. \A n \in 1..(Len(typed) - KeyTakenNow) : typed'[n] = typed[n]
        BY <3>2, <2>1, <2>2
      <3>6. Events'
        BY <3>4, <3>5, <2>2, <2>3, <2>5 DEF Events
      <3> QED BY <3>3, <3>6
    <2> QED BY <2>6, <2>7, <1>2
  <1> QED BY <1>1, <1>7, <1>8, <1>9, <1>10 DEF KeyboardIInv

\* The handler takes over the code with what was typed before it.
LEMMA ReadCodeKeeps ==
  ASSUME KeyboardIInv, K!ReadCode
  PROVE  KeyboardIInv'
  <1>1. /\ cpu = "handler" /\ cpu' = "eoi" /\ full = {1} /\ full' = {} /\ c' = data
        /\ irr' = irr /\ irr = {}
        /\ UNCHANGED <<list_of_handlers, vec, kpc, num, held, typed>>
        /\ UNCHANGED <<is_shift_down, is_alt_down, is_ctrl_down, driver, q, torn>>
    BY DEF K!ReadCode, K!Irq!TakeData, K!Irq!pic, K!Irq!idt, K!ring, KeyboardIInv, KeyboardTypes,
           HandlerReady, Waiting
  <1>2. Waiting /\ ~Waiting' /\ ~Taken /\ Taken' /\ HeldC' = held /\ HeldQ' = HeldQ
    BY <1>1 DEF Waiting, Taken, HeldC, HeldQ
  <1>3. data \in K!Codes
    BY <1>2 DEF KeyboardIInv, KeyboardTypes
  <1>4. KeyboardTypes' /\ HandlerReady'
    BY <1>1, <1>2, <1>3 DEF KeyboardIInv, KeyboardTypes, HandlerReady
  <1>5. CodesExact' /\ Flags'
    BY <1>1, <1>2 DEF KeyboardIInv, CodesExact, Flags
  <1>6. ASSUME ~torn PROVE LastTyped' /\ Events'
    <2>1. /\ KeyTakenNow' = KeyWaiting /\ KeyWaiting' = 0 /\ KeyTakenNow = 0
          /\ KeyWaiting \in {0, 1} /\ Len(typed) \in Nat
      BY <1>1, <1>2 DEF KeyWaiting, KeyTakenNow, KeyboardIInv, KeyboardTypes
    <2>2. LastTyped'
      BY <1>1, <1>2, <1>6, <2>1 DEF KeyboardIInv, LastTyped
    <2>3. Events'
      BY <1>1, <1>6, <2>1 DEF KeyboardIInv, Events
    <2> QED BY <2>2, <2>3
  <1> QED BY <1>1, <1>4, <1>5, <1>6 DEF KeyboardIInv

\* What the return from the handler leaves alone.
LEMMA IretLeaves ==
  ASSUME KeyboardIInv, K!Irq!Iret, UNCHANGED <<held, data, typed, driver>>
  PROVE  /\ cpu = "iret" /\ cpu' = "kernel" /\ driver = "ring" /\ c \in K!Codes
         /\ UNCHANGED <<irr, full, list_of_handlers, vec, kpc, num>>
         /\ Waiting' = Waiting /\ Taken /\ ~Taken'
         /\ HeldC' = HeldC /\ HeldQ' = HeldC /\ HeldQ = Undo(HeldC, c)
         /\ KeyWaiting' = KeyWaiting /\ KeyWaiting \in {0, 1} /\ KeyTakenNow' = 0
         /\ KeyTakenNow = IF c.key \in Keys THEN 1 ELSE 0
  <1>1. /\ cpu = "iret" /\ cpu' = "kernel"
        /\ UNCHANGED <<irr, full, list_of_handlers, vec, kpc, num>>
    BY DEF K!Irq!Iret, K!Irq!pic, K!Irq!idt
  <1>2. Waiting' = Waiting /\ Taken /\ ~Taken'
    BY <1>1 DEF Waiting, Taken
  <1>3. HeldC' = HeldC /\ HeldQ' = HeldC /\ HeldQ = Undo(HeldC, c)
    BY <1>2 DEF HeldC, HeldQ, Undo
  <1>4. driver = "ring" /\ c \in K!Codes
    BY <1>2 DEF KeyboardIInv, KeyboardTypes, HandlerReady
  <1>5. /\ KeyWaiting' = KeyWaiting /\ KeyWaiting \in {0, 1} /\ KeyTakenNow' = 0
        /\ KeyTakenNow = IF c.key \in Keys THEN 1 ELSE 0
    BY <1>2 DEF KeyWaiting, KeyTakenNow
  <1> QED BY <1>1, <1>2, <1>3, <1>4, <1>5

\* A modifier's code brings the flags up to the modifiers that are down.
LEMMA ModifierKeeps ==
  ASSUME K!KeyboardAssumption, KeyboardIInv, K!Modifier
  PROVE  KeyboardIInv'
  <1>1. /\ K!Irq!Iret /\ c.key \in K!Modifiers
        /\ is_shift_down' = IF c.key \in K!Shifts THEN c.released = 0 ELSE is_shift_down
        /\ is_alt_down' = IF c.key = K!Alt THEN c.released = 0 ELSE is_alt_down
        /\ is_ctrl_down' = IF c.key = K!Ctrl THEN c.released = 0 ELSE is_ctrl_down
        /\ UNCHANGED <<held, data, typed, driver, q, torn>>
    BY DEF K!Modifier, K!device, K!ring
  <1>2. /\ cpu = "iret" /\ cpu' = "kernel" /\ driver = "ring" /\ c \in K!Codes
        /\ UNCHANGED <<irr, full, list_of_handlers, vec, kpc, num>>
        /\ Waiting' = Waiting /\ Taken /\ ~Taken'
        /\ HeldC' = HeldC /\ HeldQ' = HeldC /\ HeldQ = Undo(HeldC, c)
        /\ KeyWaiting' = KeyWaiting /\ KeyWaiting \in {0, 1} /\ KeyTakenNow' = 0
        /\ KeyTakenNow = IF c.key \in Keys THEN 1 ELSE 0
    BY <1>1, IretLeaves
  <1>3. KeyTakenNow = 0
    BY <1>1, <1>2 DEF K!KeyboardAssumption
  <1>4. KeyboardTypes' /\ HandlerReady'
    BY <1>1, <1>2 DEF KeyboardIInv, KeyboardTypes, HandlerReady
  <1>5. CodesExact'
    BY <1>1, <1>2 DEF KeyboardIInv, CodesExact
  <1>6. Flags'
    <2>1. /\ (c.key \in HeldC) = (c.released = 0)
          /\ \A k \in K!Modifiers : k # c.key => (k \in HeldQ) = (k \in HeldC)
      <3>1. (c.key \in HeldC) = (c.released = 0)
        BY <1>1, <1>2 DEF KeyboardIInv, CodesExact
      <3>2. HeldC \in SUBSET K!Modifiers
        BY HeldTypes DEF KeyboardIInv
      <3>3. \A k \in K!Modifiers : k # c.key => (k \in Undo(HeldC, c)) = (k \in HeldC)
        BY <3>2, <1>2, UndoOne, Zenon
      <3>4. HeldQ = Undo(HeldC, c)
        BY <1>2
      <3> QED BY <3>1, <3>3, <3>4
    <2>2. /\ is_alt_down = (K!Alt \in HeldQ) /\ is_ctrl_down = (K!Ctrl \in HeldQ)
          /\ is_shift_down => HeldQ \cap K!Shifts # {}
      BY DEF KeyboardIInv, Flags
    <2>3. K!Alt \in K!Modifiers /\ K!Ctrl \in K!Modifiers /\ K!Shifts \subseteq K!Modifiers
      BY DEF K!Modifiers
    <2>4. is_alt_down' = (K!Alt \in HeldC) /\ is_ctrl_down' = (K!Ctrl \in HeldC)
      BY <1>1, <2>1, <2>2, <2>3
    <2>5. is_shift_down' => HeldC \cap K!Shifts # {}
      BY <1>1, <2>1, <2>2, <2>3
    <2> QED BY <1>2, <2>4, <2>5 DEF Flags
  <1>7. ASSUME ~torn PROVE LastTyped' /\ Events'
    BY <1>1, <1>2, <1>3, <1>7 DEF KeyboardIInv, LastTyped, Events
  <1> QED BY <1>1, <1>4, <1>5, <1>6, <1>7 DEF KeyboardIInv

\* A part of a sequence, after its first n.
LEMMA PartOf ==
  ASSUME NEW T, NEW s \in Seq(T), NEW n \in Nat, NEW m \in n..Len(s)
  PROVE  /\ SubSeq(s, n + 1, m) \in Seq(T) /\ Len(SubSeq(s, n + 1, m)) = m - n
         /\ \A i \in 1..(m - n) : SubSeq(s, n + 1, m)[i] = s[i + n]
  OBVIOUS

\* A read takes the first event with the first key typed.
LEMMA ReadEventKeeps ==
  ASSUME K!KeyboardAssumption, KeyboardIInv, K!ReadEvent
  PROVE  KeyboardIInv'
  <1> DEFINE T == [code : K!Codes, held : SUBSET K!Modifiers]
             n == IF Len(q) < 3 THEN Len(q) ELSE 3
  <1>1. /\ cpu = "kernel" /\ q # <<>> /\ q' = SubSeq(q, n + 1, Len(q))
        /\ typed' = IF typed = <<>> THEN typed ELSE Tail(typed)
        /\ UNCHANGED <<irr, full, list_of_handlers, cpu, vec, kpc, num, held, data>>
        /\ UNCHANGED <<c, is_shift_down, is_alt_down, is_ctrl_down, driver, torn>>
    BY DEF K!ReadEvent, K!interrupts, K!handlerState
  <1>2. /\ q \in Seq(EventByte) /\ typed \in Seq(T) /\ Len(q) \in Nat \ {0} /\ Len(typed) \in Nat
    BY <1>1 DEF KeyboardIInv, KeyboardTypes
  <1>3. /\ Waiting' = Waiting /\ ~Taken /\ ~Taken' /\ HeldC' = HeldC /\ HeldQ' = HeldQ
        /\ KeyWaiting' = KeyWaiting /\ KeyWaiting \in {0, 1} /\ KeyTakenNow' = 0 /\ KeyTakenNow = 0
    BY <1>1 DEF Waiting, Taken, HeldC, HeldQ, KeyWaiting, KeyTakenNow, Undo
  <1>4. /\ q' \in Seq(EventByte) /\ Len(q') = Len(q) - n
        /\ \A i \in 1..(Len(q) - n) : q'[i] = q[i + n]
    <2>1. n \in Nat /\ Len(q) \in n..Len(q)
      BY <1>2
    <2> HIDE DEF n
    <2> QED BY <1>1, <1>2, <2>1, PartOf
  <1>5. typed' \in Seq(T)
    <2> HIDE DEF T
    <2> QED BY <1>1, <1>2
  <1>6. KeyboardTypes' /\ HandlerReady' /\ CodesExact' /\ Flags'
    <2>1. Len(q') <= Len(q)
      BY <1>2, <1>4
    <2>2. Len(q') <= Room
      BY <1>2, <1>4, <2>1 DEF K!KeyboardAssumption, KeyboardIInv, KeyboardTypes
    <2> QED BY <1>1, <1>3, <1>4, <1>5, <2>2
    DEF KeyboardIInv, KeyboardTypes, HandlerReady, CodesExact, Flags
  <1>7. ASSUME ~torn PROVE LastTyped' /\ Events'
    <2> DEFINE t == Len(typed)
               k == t - KeyWaiting
    <2>1. /\ Len(q) = 3 * k
          /\ \A i \in 1..k : K!Says(<<q[3 * i - 2], q[3 * i - 1], q[3 * i]>>, typed[i])
          /\ KeyWaiting = 1 => typed[t] = [code |-> data, held |-> held]
      <3>1. LastTyped /\ Events
        BY <1>7 DEF KeyboardIInv
      <3>2. t - (KeyWaiting + KeyTakenNow) = k /\ k \in Int
        BY <1>2, <1>3
      <3> QED BY <3>1, <3>2 DEF Events, LastTyped
    <2>2. k \in Nat /\ k >= 1 /\ t \in Nat /\ t >= 1 /\ n = 3
      BY <1>2, <1>3, <2>1
    <2> HIDE DEF n
    <2>3. typed' = Tail(typed)
      BY <1>1, <1>2, <2>2
    <2>4. Len(typed') = t - 1 /\ \A i \in 1..(t - 1) : typed'[i] = typed[i + 1]
      <3> HIDE DEF T
      <3> QED BY <1>2, <2>2, <2>3
    <2>5. LastTyped'
      BY <1>1, <1>2, <1>3, <2>1, <2>2, <2>4 DEF LastTyped
    <2>6. Len(q') = 3 * (k - 1) /\ Len(typed') - (KeyWaiting' + KeyTakenNow') = k - 1
      BY <1>2, <1>3, <1>4, <2>1, <2>2, <2>4
    <2>7. ASSUME NEW i \in 1..(k - 1)
          PROVE  K!Says(<<q'[3 * i - 2], q'[3 * i - 1], q'[3 * i]>>, typed'[i])
      <3>1. k - 1 <= t - 1
        BY <1>2, <1>3
      <3> HIDE DEF k, t
      <3>2. i + 1 \in 1..k /\ i \in 1..(t - 1) /\ Len(q) - n = 3 * k - 3
        BY <2>1, <2>2, <3>1
      <3>3. K!Says(<<q[3 * (i + 1) - 2], q[3 * (i + 1) - 1], q[3 * (i + 1)]>>, typed[i + 1])
        BY <2>1, <3>2
      <3>4. {3 * i - 2, 3 * i - 1, 3 * i} \subseteq 1..(3 * k - 3)
        BY <2>2
      <3>5. /\ 3 * i - 2 + 3 = 3 * (i + 1) - 2 /\ 3 * i - 1 + 3 = 3 * (i + 1) - 1
            /\ 3 * i + 3 = 3 * (i + 1)
        BY <2>2
      <3>6. /\ q'[3 * i - 2] = q[3 * (i + 1) - 2] /\ q'[3 * i - 1] = q[3 * (i + 1) - 1]
            /\ q'[3 * i] = q[3 * (i + 1)]
        BY <1>4, <2>2, <3>2, <3>4, <3>5
      <3>7. typed'[i] = typed[i + 1]
        BY <2>4, <3>2
      <3> QED BY <3>3, <3>6, <3>7
    <2>8. Events'
      BY <2>6, <2>7 DEF Events
    <2> QED BY <2>5, <2>8
  <1> QED BY <1>1, <1>6, <1>7 DEF KeyboardIInv

\* The three bits of a struct key_event's mode are read back one by one.
LEMMA ModeBits ==
  ASSUME is_shift_down \in BOOLEAN, is_alt_down \in BOOLEAN, is_ctrl_down \in BOOLEAN
  PROVE  /\ K!mode \in 0..7
         /\ (K!mode % 2 = 1) = is_shift_down
         /\ ((K!mode \div 2) % 2 = 1) = is_alt_down
         /\ (K!mode \div 4 = 1) = is_ctrl_down
  <1> DEFINE s == K!Bit(is_shift_down)
             a == K!Bit(is_alt_down)
             d == K!Bit(is_ctrl_down)
  <1>1. /\ s \in {0, 1} /\ a \in {0, 1} /\ d \in {0, 1} /\ K!mode = s + 2 * a + 4 * d
        /\ is_shift_down <=> s = 1
        /\ is_alt_down <=> a = 1
        /\ is_ctrl_down <=> d = 1
    BY DEF K!Bit, K!mode
  <1> HIDE DEF s, a, d
  <1>2. /\ K!mode \in 0..7 /\ (K!mode % 2 = 1 <=> s = 1)
        /\ ((K!mode \div 2) % 2 = 1 <=> a = 1) /\ (K!mode \div 4 = 1 <=> d = 1)
    BY <1>1
  <1> QED BY <1>1, <1>2

\* The character looked up is a table's entry or the one for no entry.
LEMMA CharacterType ==
  ASSUME K!KeyboardAssumption, NEW key \in 0..127, NEW capital \in BOOLEAN,
         NEW a \in K!keyboard_to_ascii(key, capital)
  PROVE  a \in [at : Int, capital : BOOLEAN]
  <1>1. Table \in Nat
    BY DEF K!KeyboardAssumption
  <1>2. K!Unknown \in [at : Int, capital : BOOLEAN]
    BY DEF K!Unknown, K!Entry
  <1>3. \A i \in 0..127, b \in BOOLEAN : K!Entry(i, b) \in [at : Int, capital : BOOLEAN]
    BY DEF K!Entry
  <1>4. CASE key > Table
    <2>1. K!keyboard_to_ascii(key, capital) = {K!Unknown}
      <3>1. key # Table /\ ~(key < Table)
        BY <1>1, <1>4
      <3> QED BY <1>4, <3>1, Zenon DEF K!keyboard_to_ascii
    <2> QED BY <1>2, <2>1
  <1>5. CASE key = Table
    <2>1. K!keyboard_to_ascii(key, capital) = {K!Unknown, K!Entry(0, FALSE)}
      <3>1. ~(key > Table) /\ ~(key < Table)
        BY <1>1, <1>5
      <3> QED BY <1>5, <3>1, Zenon DEF K!keyboard_to_ascii
    <2>2. K!Entry(0, FALSE) \in [at : Int, capital : BOOLEAN]
      BY DEF K!Entry
    <2> QED BY <1>2, <2>1, <2>2
  <1>6. CASE key < Table
    <2>1. K!keyboard_to_ascii(key, capital) = {K!Entry(key, capital)}
      <3>1. ~(key > Table) /\ key # Table
        BY <1>1, <1>6
      <3> QED BY <1>6, <3>1, Zenon DEF K!keyboard_to_ascii
    <2> QED BY <1>3, <2>1
  <1> QED BY <1>1, <1>4, <1>5, <1>6

\* The event that the handler writes says what was typed, with the modifiers
\* that its flags stand for.
LEMMA EventSays ==
  ASSUME K!KeyboardAssumption, c \in K!Codes, NEW S \in SUBSET K!Modifiers,
         is_shift_down \in BOOLEAN, is_alt_down \in BOOLEAN, is_ctrl_down \in BOOLEAN,
         is_alt_down = (K!Alt \in S), is_ctrl_down = (K!Ctrl \in S),
         is_shift_down => S \cap K!Shifts # {},
         NEW a \in K!keyboard_to_ascii(c.key, is_shift_down)
  PROVE  /\ K!Says(K!EventBytes(a), [code |-> c, held |-> S])
         /\ K!EventBytes(a) \in Seq(EventByte) /\ Len(K!EventBytes(a)) = 3
  <1> DEFINE e == K!EventBytes(a)
             t == [code |-> c, held |-> S]
  <1>1. /\ e = << <<"c", a>>, <<"mode", K!mode>>, <<"release", c.released>> >>
        /\ Len(e) = 3 /\ e[1] = <<"c", a>> /\ e[2] = <<"mode", K!mode>>
        /\ e[3] = <<"release", c.released>>
    BY DEF K!EventBytes
  <1>2. t.code = c /\ t.held = S
    OBVIOUS
  <1>3. c.released \in {0, 1} /\ c.key \in 0..127
    <2>1. K!Modifiers \subseteq 0..127
      BY DEF K!Modifiers, K!Shifts, K!LeftShift, K!RightShift, K!Alt, K!Ctrl
    <2> QED BY <2>1 DEF K!Codes, K!KeyboardAssumption
  <1>4. <<"c", a>> \in EventByte
    BY <1>3, CharacterType DEF EventByte
  <1>5. <<"mode", K!mode>> \in EventByte /\ <<"release", c.released>> \in EventByte
    BY <1>3, ModeBits DEF EventByte
  <1>6. e \in Seq(EventByte)
    <2> HIDE DEF e
    <2> QED BY <1>1, <1>4, <1>5
  <1>7. K!Says(e, t)
    <2> HIDE DEF e, t
    <2>1. e[2][2] = K!mode
      BY <1>1
    <2> QED BY <1>1, <1>2, <2>1, ModeBits DEF K!Says
  <1> QED BY <1>1, <1>6, <1>7

\* What a sequence is followed by.
LEMMA FollowedBy ==
  ASSUME NEW T, NEW s \in Seq(T), NEW e \in Seq(T)
  PROVE  /\ s \o e \in Seq(T) /\ Len(s \o e) = Len(s) + Len(e)
         /\ \A i \in 1..Len(s) : (s \o e)[i] = s[i]
         /\ \A i \in 1..Len(e) : (s \o e)[Len(s) + i] = e[i]
  OBVIOUS

\* The handler writes the event of the key it works on, which was typed next
\* after those in the ring.
LEMMA KeyEventKeeps ==
  ASSUME K!KeyboardAssumption, KeyboardIInv, K!KeyEvent
  PROVE  KeyboardIInv'
  <1> DEFINE room == K!capacity - Len(q)
             n == IF room < 3 THEN room ELSE 3
  <1>1. PICK a \in K!keyboard_to_ascii(c.key, is_shift_down) :
          /\ q' = q \o SubSeq(K!EventBytes(a), 1, n)
          /\ torn' = (torn \/ (n < 3 /\ driver = "ring"))
    BY DEF K!KeyEvent
  <1>2. /\ K!Irq!Iret /\ c.key \notin K!Modifiers
        /\ UNCHANGED <<held, data, typed, driver, is_shift_down, is_alt_down, is_ctrl_down>>
    BY DEF K!KeyEvent, K!device
  <1>3. /\ cpu = "iret" /\ cpu' = "kernel" /\ driver = "ring" /\ c \in K!Codes
        /\ UNCHANGED <<irr, full, list_of_handlers, vec, kpc, num>>
        /\ Waiting' = Waiting /\ Taken /\ ~Taken'
        /\ HeldC' = HeldC /\ HeldQ' = HeldC /\ HeldQ = Undo(HeldC, c)
        /\ KeyWaiting' = KeyWaiting /\ KeyWaiting \in {0, 1} /\ KeyTakenNow' = 0
        /\ KeyTakenNow = IF c.key \in Keys THEN 1 ELSE 0
    BY <1>2, IretLeaves
  <1>4. c.key \in Keys /\ KeyTakenNow = 1
    BY <1>2, <1>3 DEF K!Codes
  <1>5. HeldQ = HeldC /\ HeldC \in SUBSET K!Modifiers
    BY <1>2, <1>3, HeldTypes DEF Undo, KeyboardIInv
  <1>6. /\ is_shift_down \in BOOLEAN /\ is_alt_down \in BOOLEAN /\ is_ctrl_down \in BOOLEAN
        /\ is_alt_down = (K!Alt \in HeldC) /\ is_ctrl_down = (K!Ctrl \in HeldC)
        /\ is_shift_down => HeldC \cap K!Shifts # {}
    BY <1>5 DEF KeyboardIInv, KeyboardTypes, Flags
  <1> DEFINE e == K!EventBytes(a)
  <1>7. /\ K!Says(e, [code |-> c, held |-> HeldC]) /\ e \in Seq(EventByte) /\ Len(e) = 3
    BY <1>3, <1>5, <1>6, EventSays
  <1>8. /\ q \in Seq(EventByte) /\ Len(q) \in Nat /\ room \in Nat /\ n \in 0..3 /\ n <= room
        /\ room = Room - Len(q) /\ Room \in Nat
    BY <1>3 DEF KeyboardIInv, KeyboardTypes, K!capacity, K!KeyboardAssumption
  <1>9. q' \in Seq(EventByte) /\ Len(q') <= Room /\ torn' \in BOOLEAN
    <2>1. q' = q \o SubSeq(e, 0 + 1, n)
      BY <1>1
    <2>2. torn' \in BOOLEAN
      BY <1>1 DEF KeyboardIInv, KeyboardTypes
    <2> HIDE DEF e, n, room
    <2>3. SubSeq(e, 0 + 1, n) \in Seq(EventByte) /\ Len(SubSeq(e, 0 + 1, n)) = n - 0
      <3>1. n \in 0..Len(e) /\ 0 \in Nat
        BY <1>7, <1>8
      <3>2. e \in Seq(EventByte)
        BY <1>7
      <3> QED BY <3>1, <3>2, PartOf
    <2>4. q' \in Seq(EventByte) /\ Len(q') = Len(q) + n
      BY <1>8, <2>1, <2>3, FollowedBy
    <2> QED BY <1>8, <2>2, <2>4
  <1>10. KeyboardTypes' /\ HandlerReady' /\ CodesExact' /\ Flags'
    BY <1>2, <1>3, <1>5, <1>6, <1>9
    DEF KeyboardIInv, KeyboardTypes, HandlerReady, CodesExact, Flags
  <1>11. ASSUME ~torn' PROVE LastTyped' /\ Events'
    <2>1. ~torn /\ n = 3
      BY <1>1, <1>3, <1>8, <1>11 DEF KeyboardIInv, KeyboardTypes
    <2> DEFINE t == Len(typed)
               k == t - KeyWaiting - 1
    <2>2. /\ t \in Nat /\ k \in Int /\ Len(q) = 3 * k /\ k >= 0
          /\ \A i \in 1..k : K!Says(<<q[3 * i - 2], q[3 * i - 1], q[3 * i]>>, typed[i])
          /\ KeyWaiting = 1 => typed[t] = [code |-> data, held |-> held]
          /\ typed[k + 1] = [code |-> c, held |-> HeldC]
      <3>1. t \in Nat /\ Len(q) \in Nat
        BY DEF KeyboardIInv, KeyboardTypes
      <3>2. /\ t - (KeyWaiting + KeyTakenNow) = k /\ t - KeyWaiting = k + 1 /\ k \in Int
        BY <1>3, <1>4, <3>1
      <3>3. LastTyped /\ Events
        BY <2>1 DEF KeyboardIInv
      <3>4. Len(q) = 3 * k /\ k >= 0
        BY <3>1, <3>2, <3>3 DEF Events
      <3> HIDE DEF k, t
      <3>5. \A i \in 1..k : K!Says(<<q[3 * i - 2], q[3 * i - 1], q[3 * i]>>, typed[i])
        BY <3>2, <3>3 DEF Events, t
      <3>6. /\ KeyWaiting = 1 => typed[t] = [code |-> data, held |-> held]
            /\ typed[k + 1] = [code |-> c, held |-> HeldC]
        BY <1>4, <3>2, <3>3 DEF LastTyped, t
      <3> QED BY <3>1, <3>2, <3>4, <3>5, <3>6
    <2>3. LastTyped'
      BY <1>2, <1>3, <2>2 DEF LastTyped
    <2>4. t - (KeyWaiting + 0) = k + 1
      BY <1>3, <2>2
    <2> HIDE DEF e, k, t
    <2>5. SubSeq(e, 1, 3) = e
      BY <1>7
    <2>6. /\ Len(q') = 3 * (k + 1)
          /\ \A i \in 1..(3 * k) : q'[i] = q[i]
          /\ q'[3 * k + 1] = e[1] /\ q'[3 * k + 2] = e[2] /\ q'[3 * k + 3] = e[3]
      <3>1. q' = q \o e
        BY <1>1, <2>1, <2>5 DEF e
      <3>2. /\ Len(q') = Len(q) + Len(e) /\ \A i \in 1..Len(q) : q'[i] = q[i]
            /\ \A i \in 1..Len(e) : q'[Len(q) + i] = e[i]
        <4>1. e \in Seq(EventByte) /\ q \in Seq(EventByte)
          BY <1>7, <1>8
        <4> QED BY <3>1, <4>1, FollowedBy
      <3> QED BY <3>2, <1>7, <2>2
    <2>7. ASSUME NEW i \in 1..(k + 1)
          PROVE  K!Says(<<q'[3 * i - 2], q'[3 * i - 1], q'[3 * i]>>, typed[i])
      <3>1. CASE i <= k
        <4>1. i \in 1..k /\ {3 * i - 2, 3 * i - 1, 3 * i} \subseteq 1..(3 * k)
          BY <3>1, <2>2
        <4>2. /\ q'[3 * i - 2] = q[3 * i - 2] /\ q'[3 * i - 1] = q[3 * i - 1]
              /\ q'[3 * i] = q[3 * i]
          BY <4>1, <2>6
        <4> QED BY <4>1, <4>2, <2>2
      <3>2. CASE i = k + 1
        <4>1. 3 * i - 2 = 3 * k + 1 /\ 3 * i - 1 = 3 * k + 2 /\ 3 * i = 3 * k + 3
          BY <3>2, <2>2
        <4>2. <<q'[3 * i - 2], q'[3 * i - 1], q'[3 * i]>> = <<e[1], e[2], e[3]>>
          BY <4>1, <2>6
        <4>3. e = <<e[1], e[2], e[3]>>
          BY <1>7
        <4> QED BY <3>2, <4>2, <4>3, <1>7, <2>2
      <3> QED BY <3>1, <3>2, <2>2
    <2>8. Events'
      BY <1>2, <1>3, <2>2, <2>4, <2>6, <2>7 DEF Events, t
    <2> QED BY <2>3, <2>8
  <1> QED BY <1>10, <1>11 DEF KeyboardIInv

\* Every step of keyboard, kernel thread, handler and reader preserves the
\* invariant.
LEMMA KeyboardStep ==
  ASSUME K!KeyboardAssumption, KeyboardIInv, [K!Next]_(K!vars)
  PROVE  KeyboardIInv'
  <1>1. CASE UNCHANGED K!vars
    <2>1. /\ UNCHANGED <<irr, full, list_of_handlers, cpu, vec, kpc, num, driver>>
          /\ UNCHANGED <<held, data, c, is_shift_down, is_alt_down, is_ctrl_down, q, typed, torn>>
      BY <1>1 DEF K!vars, K!interrupts, K!device, K!handlerState, K!ring
    <2>2. KeyboardTypes' /\ HandlerReady' /\ Taken' = Taken
      BY <2>1 DEF KeyboardIInv, KeyboardTypes, HandlerReady, Taken, Waiting
    <2> QED BY <2>1, <2>2, MovesAlong
  <1> QED
    BY <1>1, KernelKeeps, InterruptKeeps, TypeKeeps, ReadCodeKeeps, ModifierKeeps, KeyEventKeeps,
       ReadEventKeeps
    DEF K!Next, K!Handler

\* No key is down at first.
LEMMA KeyboardInit ==
  ASSUME K!KeyboardAssumption, K!Init
  PROVE  KeyboardIInv
  <1>1. /\ irr = {} /\ full = {} /\ list_of_handlers = {} /\ cpu = "kernel" /\ vec = 1
        /\ kpc = "boot" /\ num = 1 /\ held = {} /\ q = <<>> /\ typed = <<>> /\ torn = FALSE
        /\ is_shift_down = FALSE /\ is_alt_down = FALSE /\ is_ctrl_down = FALSE
    BY DEF K!Init, K!Irq!Init, K!Irq!Kb
  <1>2. ~Waiting /\ ~Taken /\ HeldQ = {} /\ KeyWaiting = 0 /\ KeyTakenNow = 0
    BY <1>1 DEF Waiting, Taken, HeldQ, HeldC, KeyWaiting, KeyTakenNow
  <1>3. KeyboardTypes
    <2>1. /\ <<>> \in Seq(EventByte) /\ Len(<<>>) = 0
          /\ <<>> \in Seq([code : K!Codes, held : SUBSET K!Modifiers])
      OBVIOUS
    <2>2. q \in Seq(EventByte) /\ Len(q) <= Room
      BY <1>1, <2>1 DEF K!KeyboardAssumption
    <2>3. /\ is_shift_down \in BOOLEAN /\ is_alt_down \in BOOLEAN /\ is_ctrl_down \in BOOLEAN
          /\ torn \in BOOLEAN
      BY <1>1
    <2> QED BY <1>1, <1>2, <2>1, <2>2, <2>3, Zenon DEF KeyboardTypes
  <1>5. HandlerReady /\ CodesExact
    BY <1>1, <1>2 DEF HandlerReady, CodesExact
  <1>6. Flags
    <2>1. (K!Alt \in HeldQ) = FALSE /\ (K!Ctrl \in HeldQ) = FALSE /\ ~is_shift_down
      BY <1>1, <1>2
    <2>2. is_alt_down = (K!Alt \in HeldQ) /\ is_ctrl_down = (K!Ctrl \in HeldQ)
      BY <1>1, <2>1, Zenon
    <2> QED BY <2>1, <2>2 DEF Flags
  <1>4. LastTyped /\ Events
    BY <1>1, <1>2 DEF LastTyped, Events
  <1> QED BY <1>3, <1>4, <1>5, <1>6 DEF KeyboardIInv

\* For every set of keys, size of the ring and interleaving of codes, handler
\* and reads: up to the first event that does not fit, the ring holds the
\* events of the keys typed and not read, in order, each with the modifiers
\* that were down when its key was typed.
THEOREM EventsAreTyped ==
  ASSUME K!KeyboardAssumption
  PROVE  K!Init /\ [][K!Next]_(K!vars) => []K!TypedIsBuffered
  <1>1. K!Init => KeyboardIInv
    BY KeyboardInit
  <1>2. KeyboardIInv /\ [K!Next]_(K!vars) => KeyboardIInv'
    BY KeyboardStep
  <1>3. KeyboardIInv => K!TypedIsBuffered
    <2> SUFFICES ASSUME KeyboardIInv, ~torn
                 PROVE  /\ Len(q) = 3 * (Len(typed) - K!InFlight)
                        /\ \A n \in 1..(Len(q) \div 3) :
                             K!Says(SubSeq(q, 3 * n - 2, 3 * n), typed[n])
      BY DEF K!TypedIsBuffered
    <2>1. K!InFlight = KeyWaiting + KeyTakenNow
      BY DEF K!InFlight, KeyWaiting, KeyTakenNow, Waiting, Taken, K!Kb, K!Irq!Kb
    <2> DEFINE k == Len(typed) - (KeyWaiting + KeyTakenNow)
    <2>2. /\ Len(q) = 3 * k /\ k \in Int /\ q \in Seq(EventByte)
          /\ \A n \in 1..k : K!Says(<<q[3 * n - 2], q[3 * n - 1], q[3 * n]>>, typed[n])
      <3>1. KeyWaiting \in {0, 1} /\ KeyTakenNow \in {0, 1}
        BY DEF KeyWaiting, KeyTakenNow
      <3>2. Len(typed) \in Nat /\ q \in Seq(EventByte)
        BY DEF KeyboardIInv, KeyboardTypes
      <3> QED BY <3>1, <3>2 DEF KeyboardIInv, Events
    <2> HIDE DEF k
    <2>3. Len(q) \div 3 = k /\ k >= 0
      BY <2>2
    <2>4. ASSUME NEW n \in 1..k
          PROVE  SubSeq(q, 3 * n - 2, 3 * n) = <<q[3 * n - 2], q[3 * n - 1], q[3 * n]>>
      <3> DEFINE s == SubSeq(q, 3 * n - 2, 3 * n)
      <3>1. 3 * n - 2 >= 1 /\ 3 * n <= Len(q)
        BY <2>2
      <3>2. /\ s \in Seq(EventByte) /\ Len(s) = 3 /\ s[1] = q[3 * n - 2] /\ s[2] = q[3 * n - 1]
            /\ s[3] = q[3 * n]
        <4>1. 3 * n - 3 \in Nat /\ 3 * n \in (3 * n - 3)..Len(q) /\ 3 * n - 3 + 1 = 3 * n - 2
          BY <2>2, <3>1
        <4>2. /\ s \in Seq(EventByte) /\ Len(s) = 3 * n - (3 * n - 3)
              /\ \A i \in 1..(3 * n - (3 * n - 3)) : s[i] = q[i + (3 * n - 3)]
          BY <2>2, <4>1, PartOf
        <4> HIDE DEF s
        <4>3. /\ 3 * n - (3 * n - 3) = 3 /\ 1 + (3 * n - 3) = 3 * n - 2
              /\ 2 + (3 * n - 3) = 3 * n - 1 /\ 3 + (3 * n - 3) = 3 * n
          BY <2>2
        <4> QED BY <4>2, <4>3
      <3> HIDE DEF s
      <3>3. s = <<s[1], s[2], s[3]>>
        BY <3>2
      <3> QED BY <3>2, <3>3 DEF s
    <2> QED BY <2>1, <2>2, <2>3, <2>4 DEF k
  <1> QED BY <1>1, <1>2, <1>3, PTL

\* A behaviour with the keyboard driver is one of Keyboard's.
LEMMA KeyboardIsPart ==
  MachineSpec => []~(setting = "keyboard") \/ (K!Init /\ [][K!Next]_(K!vars))
  <1>1. MachineInit => K!Init
    BY DEF MachineInit
  <1>2. [MachineNext]_all =>
          /\ setting = "keyboard" => [K!Next]_(K!vars)
          /\ setting = "keyboard" <=> (setting = "keyboard")'
    BY Zenon DEF MachineNext, Lone, Whole, all, vars, pic, idt, keyboard, K!vars, K!interrupts, K!device,
                 K!handlerState, K!ring
  <1> QED BY <1>1, <1>2, PTL DEF MachineSpec

\* In every behaviour of the machine with the keyboard driver the ring holds
\* the events of the keys typed, up to the first that does not fit.
THEOREM EventsOfMachine == MachineSpec => []TypedIsBuffered
  <1>1. ~(setting = "keyboard") => TypedIsBuffered
    BY DEF TypedIsBuffered
  <1>2. K!TypedIsBuffered => TypedIsBuffered
    BY DEF TypedIsBuffered
  <1>3. K!Init /\ [][K!Next]_(K!vars) => []K!TypedIsBuffered
    BY KeyboardsAssumption, EventsAreTyped
  <1> QED BY <1>1, <1>2, <1>3, KeyboardIsPart, PTL
=============================================================================
