------------------------------- MODULE Serial -------------------------------
(***************************************************************************)
(* kernel/drivers/serial.c: one caller of serial_print_char is kernel code,*)
(* which an interrupt may stop anywhere, the other the handler's kprintf,  *)
(* which then prints a whole message.  The transmitter is external.        *)
(***************************************************************************)
EXTENDS Naturals, Sequences

CONSTANTS
  Depth,      \* characters the transmitter holds with its FIFO on
  MaxChars,   \* characters printed (bound)
  MaxMessages \* interrupts that print (bound)

SerialAssumption == Depth \in Nat \ {0} /\ MaxChars \in Nat /\ MaxMessages \in Nat

VARIABLES
  fcr,       \* the FIFO is on
  loopback,  \* nothing goes out
  pc,        \* where each of the two callers is
  fifo,      \* characters in the transmitter
  wire,      \* characters that went out
  printed,   \* characters that serial_print_char was done with
  messages   \* interrupts so far

vars == <<fcr, loopback, pc, fifo, wire, printed, messages>>

Callers == {"kernel", "interrupt"}

Init ==
  /\ fcr = FALSE /\ loopback = FALSE /\ pc = [kernel |-> "init", interrupt |-> "off"]
  /\ fifo = <<>> /\ wire = <<>> /\ printed = <<>> /\ messages = 0

\* Mutated: the FIFO control register is not written.
EnableFifo_off == UNCHANGED fcr

EnableFifo == fcr' = TRUE

\* The FIFO is cleared and the chip tested; if the byte does not come back
\* loopback mode stays.
serial_init ==
  /\ pc.kernel = "init"
  /\ EnableFifo
  /\ fifo' = <<>>
  /\ loopback' \in BOOLEAN
  /\ pc' = [pc EXCEPT !.kernel = "idle"]
  /\ UNCHANGED <<wire, printed, messages>>

\* Whose turn it is: the handler's while it runs.
Turn(c) == c = "interrupt" \/ pc.interrupt = "off"

Call(c) ==
  /\ Turn(c) /\ pc[c] = "idle" /\ Len(printed) < MaxChars
  /\ pc' = [pc EXCEPT ![c] = "wait"]
  /\ UNCHANGED <<fcr, loopback, fifo, wire, printed, messages>>

\* Mutated: the bit is tested the wrong way round.
is_transmit_empty_busy == fifo # <<>>

is_transmit_empty == fifo = <<>>

Wait(c) ==
  /\ Turn(c) /\ pc[c] = "wait" /\ is_transmit_empty
  /\ pc' = [pc EXCEPT ![c] = "write"]
  /\ UNCHANGED <<fcr, loopback, fifo, wire, printed, messages>>

Capacity == IF fcr THEN Depth ELSE 1

\* A character that does not fit is dropped by the transmitter.
Write(c) ==
  /\ Turn(c) /\ pc[c] = "write"
  /\ fifo' = IF Len(fifo) < Capacity THEN Append(fifo, c) ELSE fifo
  /\ printed' = Append(printed, c)
  /\ pc' = [pc EXCEPT ![c] = "idle"]
  /\ UNCHANGED <<fcr, loopback, wire, messages>>

\* An interrupt that prints, such as one without a handler; interrupts are
\* enabled after serial_init.
Interrupt ==
  /\ pc.interrupt = "off" /\ pc.kernel # "init" /\ messages < MaxMessages
  /\ pc' = [pc EXCEPT !.interrupt = "idle"]
  /\ messages' = messages + 1
  /\ UNCHANGED <<fcr, loopback, fifo, wire, printed>>

Return ==
  /\ pc.interrupt = "idle"
  /\ pc' = [pc EXCEPT !.interrupt = "off"]
  /\ UNCHANGED <<fcr, loopback, fifo, wire, printed, messages>>

Transmit ==
  /\ fifo # <<>>
  /\ fifo' = Tail(fifo)
  /\ wire' = IF loopback THEN wire ELSE Append(wire, Head(fifo))
  /\ UNCHANGED <<fcr, loopback, pc, printed, messages>>

Step == \E c \in Callers : Call(c) \/ Wait(c) \/ Write(c)

Next == serial_init \/ Step \/ Interrupt \/ Return \/ Transmit

\* The transmitter sends, the caller whose turn it is goes on, and a handler
\* ends.
Spec == Init /\ [][Next]_vars /\ WF_vars(Transmit) /\ WF_vars(Step) /\ WF_vars(Return)

-----------------------------------------------------------------------------
(* Properties.                                                             *)

\* The type of every variable.
TypeOK ==
  /\ fcr \in BOOLEAN /\ loopback \in BOOLEAN
  /\ pc.kernel \in {"init", "idle", "wait", "write"}
  /\ pc.interrupt \in {"off", "idle", "wait", "write"}
  /\ fifo \in Seq(Callers) /\ Len(fifo) <= 2

\* Every character goes out, in the order in which they were printed, also
\* one that an interrupt's message came before, between the kernel's look at
\* the transmitter and its write: the FIFO has room for one more.
NothingLost == ~loopback => wire \o fifo = printed

\* serial_print_char returns although others print.
PrintReturns == \A c \in Callers : pc[c] = "wait" ~> pc[c] = "idle"
=============================================================================
