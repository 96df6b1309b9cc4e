------------------------------ MODULE Keyboard ------------------------------
(***************************************************************************)
(* kernel/drivers/ps2_keyboard.c on top of Interrupts and of the ring      *)
(* buffer: scan codes become three-byte events in keyboard_buffer.  The    *)
(* ring is the queue of BoundedFifo, which RingBuffer is proved to         *)
(* implement: a write by the handler, which cannot be interrupted, appends *)
(* what fits.  Nothing in the repository reads the events yet; the reader  *)
(* is external and takes them one struct key_event at a time.              *)
(***************************************************************************)
EXTENDS Integers, Sequences

CONSTANTS
  Keys,      \* scan codes that are not modifiers, below 0x80
  Table,     \* 58: the length of ascii_table and capital_ascii_table
  Room,      \* 383: the capacity of keyboard_buffer in bytes
  MaxTyped   \* keys typed and not yet read (bound)

LeftShift == 42
RightShift == 54
Alt == 56
Ctrl == 29
Shifts == {LeftShift, RightShift}
Modifiers == Shifts \cup {Alt, Ctrl}

KeyboardAssumption ==
  /\ Keys \subseteq 0..127 /\ Keys \cap Modifiers = {}
  /\ Table \in Nat /\ Room \in Nat /\ MaxTyped \in Nat

Codes == [key : Keys \cup Modifiers, released : {0, 1}]
NoCode == [key |-> 0, released |-> 0]

VARIABLES
  mask, isr, irr, full, gates, list_of_handlers, enabled, cpu, vec, kpc, num,
  noted, forgotten,   \* of Interrupts
  held,     \* device: the modifiers that are down
  data,     \* device: the code in the data port that was not read yet
  c,        \* the code the handler read
  is_shift_down, is_alt_down, is_ctrl_down,
  driver,   \* ps2_keyboard_init: "none", "ring" or "failed"
  q,        \* the bytes in keyboard_buffer
  misread,  \* reader: a release field was something else
  typed,    \* the keys typed and not read, with the modifiers then held
  torn      \* an event did not fit

Irq == INSTANCE Interrupts WITH Lines <- {1}, Drivers <- {1}
Kb == Irq!Kb

interrupts == <<mask, isr, irr, full, gates, list_of_handlers, enabled, cpu, vec,
                kpc, num, noted, forgotten>>
device == <<held, data, typed>>
handlerState == <<c, is_shift_down, is_alt_down, is_ctrl_down>>
ring == <<driver, q, misread, torn>>
vars == <<interrupts, device, handlerState, ring>>

Init ==
  /\ Irq!Init
  /\ held = {} /\ data = NoCode /\ c = NoCode
  /\ is_shift_down = FALSE /\ is_alt_down = FALSE /\ is_ctrl_down = FALSE
  /\ driver = "none" /\ q = << >> /\ misread = FALSE
  /\ typed = << >> /\ torn = FALSE

-----------------------------------------------------------------------------
(* The device and the kernel thread.                                       *)

\* A code reaches the data port, which asks for an interrupt.
Type(code) ==
  /\ Irq!Raise(Kb)
  /\ data' = code
  /\ \/ /\ code.key \in Modifiers
        /\ (code.key \in held) = (code.released = 1)
        /\ held' = IF code.released = 1 THEN held \ {code.key}
                                        ELSE held \cup {code.key}
        /\ UNCHANGED typed
     \/ /\ code.key \in Keys
        /\ Len(typed) < MaxTyped
        /\ typed' = Append(typed, [code |-> code, held |-> held])
        /\ UNCHANGED held
  /\ UNCHANGED <<handlerState, ring>>

\* The ring first; when there is no memory for it the driver gives up.
ps2_keyboard_init ==
  /\ \/ /\ cpu = "kernel" /\ kpc = "idle" /\ driver = "none"
        /\ driver' \in {"ring", "failed"}
        /\ UNCHANGED interrupts
     \/ driver = "ring" /\ Irq!HandlerInstall(Kb) /\ UNCHANGED driver
  /\ UNCHANGED <<device, handlerState, q, misread, torn>>

Kernel ==
  /\ Irq!idt_init \/ Irq!set_idt_entry \/ Irq!StoreHandler
  /\ UNCHANGED <<device, handlerState, ring>>

Deliver == Irq!Deliver(Kb) /\ UNCHANGED <<device, handlerState, ring>>

interrupt_dispatch == Irq!interrupt_dispatch /\ UNCHANGED <<device, handlerState, ring>>

-----------------------------------------------------------------------------
(* keyboard_handler.                                                       *)

ReadCode ==
  /\ Irq!TakeData
  /\ c' = data /\ data' = NoCode
  /\ UNCHANGED <<held, typed, is_shift_down, is_alt_down, is_ctrl_down, ring>>

EndInterrupt ==
  /\ Irq!Eoi
  /\ UNCHANGED <<device, handlerState, ring>>

\* Mutated: a release does not clear the flag.
ModifierSticky ==
  /\ Irq!Iret
  /\ c.key \in Modifiers
  /\ is_shift_down' = (is_shift_down \/ c.key \in Shifts)
  /\ is_alt_down' = (is_alt_down \/ c.key = Alt)
  /\ is_ctrl_down' = (is_ctrl_down \/ c.key = Ctrl)
  /\ c' = NoCode
  /\ UNCHANGED <<device, ring>>

\* A modifier's code changes its flag and the handler returns.
Modifier ==
  /\ Irq!Iret
  /\ c.key \in Modifiers
  /\ LET down == c.released = 0
     IN /\ is_shift_down' = IF c.key \in Shifts THEN down ELSE is_shift_down
        /\ is_alt_down' = IF c.key = Alt THEN down ELSE is_alt_down
        /\ is_ctrl_down' = IF c.key = Ctrl THEN down ELSE is_ctrl_down
  /\ c' = NoCode
  /\ UNCHANGED <<device, ring>>

\* The character of a key: 'U' past the tables.  The test lets the first index
\* past the end through, and then the byte read may be any.
Entry(i, capital) == [at |-> i, capital |-> capital]
Unknown == Entry(-1, FALSE)

keyboard_to_ascii(key, capital) ==
  CASE key > Table -> {Unknown}
    [] key = Table -> {Unknown, Entry(0, FALSE)}
    [] key < Table -> {Entry(key, capital)}

Bit(flag) == IF flag THEN 1 ELSE 0
mode == Bit(is_shift_down) + 2 * Bit(is_alt_down) + 4 * Bit(is_ctrl_down)

\* The bytes of a struct key_event, each with the field it belongs to.
EventBytes(a) ==
  << <<"c", a>>, <<"mode", mode>>, <<"release", c.released>> >>

capacity == IF driver = "ring" THEN Room ELSE 0

\* ringbuffer_write of an event: the bytes that fit.
KeyEvent ==
  /\ Irq!Iret
  /\ c.key \notin Modifiers
  /\ \E a \in keyboard_to_ascii(c.key, is_shift_down) :
       LET room == capacity - Len(q)
           n == IF room < 3 THEN room ELSE 3
       IN /\ q' = q \o SubSeq(EventBytes(a), 1, n)
          /\ torn' = (torn \/ (n < 3 /\ driver = "ring"))
  /\ c' = NoCode
  /\ UNCHANGED <<device, is_shift_down, is_alt_down, is_ctrl_down, driver, misread>>

\* The reader takes one event's worth of bytes.
ReadEvent ==
  /\ cpu = "kernel" /\ q # << >>
  /\ LET n == IF Len(q) < 3 THEN Len(q) ELSE 3
     IN /\ q' = SubSeq(q, n + 1, Len(q))
        /\ misread' = (misread \/ (n = 3 /\ q[3][1] # "release"))
  /\ typed' = IF typed = << >> THEN typed ELSE Tail(typed)
  /\ UNCHANGED <<interrupts, held, data, handlerState, driver, torn>>

Handler == interrupt_dispatch \/ ReadCode \/ EndInterrupt \/ Modifier \/ KeyEvent

Next ==
  \/ \E code \in Codes : Type(code)
  \/ ps2_keyboard_init \/ Kernel
  \/ Deliver \/ Handler
  \/ ReadEvent

\* The CPU takes a request that stays and goes on executing the handler.
Spec == Init /\ [][Next]_vars /\ WF_vars(Deliver) /\ WF_vars(Handler)

-----------------------------------------------------------------------------
(* Properties.                                                             *)

Bytes == {"c", "mode", "release"}

\* The type of every variable.
TypeOK ==
  /\ Irq!TypeOK
  /\ held \subseteq Modifiers
  /\ data \in Codes \cup {NoCode} /\ c \in Codes \cup {NoCode}
  /\ is_shift_down \in BOOLEAN /\ is_alt_down \in BOOLEAN /\ is_ctrl_down \in BOOLEAN
  /\ driver \in {"none", "ring", "failed"}
  /\ Len(q) <= Room /\ \A n \in 1..Len(q) : q[n][1] \in Bytes
  /\ misread \in BOOLEAN /\ Len(typed) <= MaxTyped /\ torn \in BOOLEAN

\* The keys whose code is in the data port or in the handler's hands.
InFlight ==
  (IF Kb \in full /\ data.key \in Keys THEN 1 ELSE 0)
    + (IF cpu \in {"eoi", "iret"} /\ c.key \in Keys THEN 1 ELSE 0)

\* The event says which key went which way with which modifiers.  The shift
\* bit is only ever set while a shift key is down: one flag stands for two
\* keys, so it may be clear while the other one is still held.
Says(ev, t) ==
  LET m == ev[2][2]
      shift == m % 2 = 1
  IN /\ shift => t.held \cap Shifts # {}
     /\ ((m \div 2) % 2 = 1) = (Alt \in t.held)
     /\ (m \div 4 = 1) = (Ctrl \in t.held)
     /\ ev[3] = <<"release", t.code.released>>
     /\ \E a \in keyboard_to_ascii(t.code.key, shift) : ev[1] = <<"c", a>>

\* Until an event does not fit, the ring holds exactly the events of the keys
\* typed and not read, in the order typed, each with the modifiers that were
\* down when the key was typed, whatever interrupts and reads interleave.
TypedIsBuffered ==
  ~torn =>
    /\ Len(q) = 3 * (Len(typed) - InFlight)
    /\ \A n \in 1..Len(q) \div 3 : Says(SubSeq(q, 3 * n - 2, 3 * n), typed[n])

\* A reader of whole events finds in the release field what keyboard_handler
\* stored there, 0 or 1, as the comment on struct key_event says.
ReleaseIsBit == ~misread
=============================================================================
