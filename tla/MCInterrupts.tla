---------------------------- MODULE MCInterrupts ----------------------------
(***************************************************************************)
(* Machine for TLC.  "lines": the keyboard, a second device on the master, *)
(* one on the slave, and drivers for all of them and for the cascade line. *)
(* "keyboard": a ring with room for two events and two bytes, as the       *)
(* code's 383 bytes are 127 events and two bytes.  MCKeyboardTorn.cfg has  *)
(* room for one, and a key inside the tables and one past them.            *)
(***************************************************************************)
EXTENDS Machine

\* What follows an event that did not fit is the subject of MCKeyboardTorn.
Untorn == ~torn

\* Two modifiers at once, both shifts among them.
FewHeld == Cardinality(held) <= 2
=============================================================================
