---------------------------- MODULE BoundedFifo ----------------------------
(***************************************************************************)
(* What kernel/ringbuffer.h promises one writer and one reader: a queue of *)
(* at most cap bytes.  A write appends a prefix of the caller's bytes and  *)
(* may stop short only when the queue is full; a read removes a prefix of  *)
(* the queue and may stop short only when the queue is empty.              *)
(***************************************************************************)
EXTENDS Integers, Sequences

CONSTANTS Data, Capacity

VARIABLES
  cap,   \* bytes the queue can hold: Capacity, or 0 when there is no buffer
  q,     \* the bytes written and not yet read
  pend,  \* the bytes of the current write that are not in the queue yet
  want,  \* how many bytes the current read still asks for
  out,   \* the bytes the current read has been given
  drop   \* TRUE when the current read throws its bytes away

vars == <<cap, q, pend, want, out, drop>>

Init ==
  /\ cap = 0
  /\ q = << >>
  /\ pend = << >>
  /\ want = 0
  /\ out = << >>
  /\ drop = FALSE

BeginWrite ==
  /\ pend = << >>
  /\ pend' \in Seq(Data)
  /\ UNCHANGED <<cap, q, want, out, drop>>

Put ==
  /\ \E n \in 1..Len(pend) :
       /\ Len(q) + n <= cap
       /\ q' = q \o SubSeq(pend, 1, n)
       /\ pend' = SubSeq(pend, n + 1, Len(pend))
  /\ UNCHANGED <<cap, want, out, drop>>

\* The writer gives up on the rest of its bytes.
EndWrite ==
  /\ Len(q) = cap
  /\ pend' = << >>
  /\ UNCHANGED <<cap, q, want, out, drop>>

BeginRead ==
  /\ want = 0
  /\ want' \in Nat
  /\ out' = << >>
  /\ drop' \in BOOLEAN
  /\ UNCHANGED <<cap, q, pend>>

Take ==
  /\ \E n \in 1..want :
       /\ n <= Len(q)
       /\ out' = IF drop THEN out ELSE out \o SubSeq(q, 1, n)
       /\ q' = SubSeq(q, n + 1, Len(q))
       /\ want' = want - n
  /\ UNCHANGED <<cap, pend, drop>>

\* The reader gives up on the rest of its bytes.
EndRead ==
  /\ q = << >>
  /\ want' = 0
  /\ UNCHANGED <<cap, q, pend, out, drop>>

\* The buffer is created, or freed with everything in it, between calls.
Reset ==
  /\ pend = << >>
  /\ want = 0
  /\ cap' \in {0, Capacity}
  /\ q' = << >>
  /\ UNCHANGED <<pend, want, out, drop>>

Next == BeginWrite \/ Put \/ EndWrite \/ BeginRead \/ Take \/ EndRead \/ Reset

Spec == Init /\ [][Next]_vars
=============================================================================
