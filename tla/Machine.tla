------------------------------ MODULE Machine -------------------------------
(***************************************************************************)
(* Interrupts in two settings, of which a behaviour chooses one first.     *)
(* "lines": devices and drivers on any lines.  "keyboard": the machine     *)
(* with the keyboard driver, as Keyboard composes them.  What Interrupts   *)
(* promises it promises in both.                                           *)
(***************************************************************************)
EXTENDS Interrupts, Sequences

CONSTANTS Keys, Table, Room, MaxTyped   \* of Keyboard

VARIABLES
  held, data, c, is_shift_down, is_alt_down, is_ctrl_down, driver, q, misread, typed, torn,
  setting

K == INSTANCE Keyboard

ASSUME KeyboardsAssumption == K!KeyboardAssumption

keyboard == <<held, data, c, is_shift_down, is_alt_down, is_ctrl_down, driver, q, misread, typed, torn>>
all == <<vars, keyboard, setting>>

Lone(A) == setting = "lines" /\ A /\ UNCHANGED <<keyboard, setting>>
Whole(A) == setting = "keyboard" /\ A /\ UNCHANGED setting

MachineInit == setting \in {"lines", "keyboard"} /\ K!Init

MachineNext == Lone(Next) \/ Whole(K!Next)

\* The fairness of the two modules.
MachineFairness ==
  /\ WF_all(Lone(\E l \in Lines : Deliver(l))) /\ WF_all(Lone(Handler))
  /\ WF_all(Whole(K!Deliver)) /\ WF_all(Whole(K!Handler))

MachineSpec == MachineInit /\ [][MachineNext]_all /\ MachineFairness

\* Until an event does not fit, keyboard_buffer holds the events of the keys
\* typed and not read, in order and with the modifiers that were down.
TypedIsBuffered == setting = "keyboard" => K!TypedIsBuffered

\* A reader of whole events finds 0 or 1 in the release field.
ReleaseIsBit == K!ReleaseIsBit
=============================================================================
