---------------------------- MODULE MCRingBuffer ----------------------------
(***************************************************************************)
(* RingBuffer for TLC.  Two byte values tell a lost, repeated or reordered *)
(* byte apart; requests may be longer than the capacity.                   *)
(***************************************************************************)
EXTENDS RingBuffer
=============================================================================
