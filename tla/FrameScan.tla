----------------------------- MODULE FrameScan -----------------------------
(***************************************************************************)
(* The loop of get_frame as the code writes it, a scan that carries the    *)
(* frames still missing and the start of the current run, checked against  *)
(* FirstRun, the definition FrameBitmap uses for it.                       *)
(***************************************************************************)
EXTENDS FrameBitmap

NoFrame == -1

\* ~0 == frames[i]
FullWord(i) == \A c \in 0..Half - 1 : <<i, c>> \in taken

\* Mutated: a taken frame does not restart the count.
Look_no_reset(count, s, g) ==
  IF s.done \/ Cell(g) \in taken THEN s
  ELSE [left |-> s.left - 1, rc |-> IF s.left = count THEN g ELSE s.rc, done |-> s.left = 1]

\* The body of the loops for frame g: the frames left, rc, and whether the
\* function has returned.
Look(count, s, g) ==
  CASE s.done -> s
    [] ~s.done /\ (FullWord(g \div Word) \/ Cell(g) \in taken) -> [s EXCEPT !.left = count]
    [] OTHER ->
         [left |-> s.left - 1, rc |-> IF s.left = count THEN g ELSE s.rc, done |-> s.left = 1]

\* The loops: st[f] is their state before frame f is looked at.
Scan(count) ==
  LET st[f \in 0..Words * Word] ==
        IF f = 0 THEN [left |-> count, rc |-> NoFrame, done |-> FALSE]
        ELSE Look(count, st[f - 1], f - 1)
  IN st[Words * Word]

\* The scan returns the start of the first free run and reaches assert(0) only
\* when there is no free run, for every request and every reachable bitmap,
\* runs that cross from one word into the next included.
ScanIsFirstRun ==
  phase = "run" =>
    \A count \in 1..MaxCount :
      LET r == Scan(count)
      IN IF r.done THEN FirstRun(r.rc, count)
         ELSE \A rc \in Frames : ~FreeRun(rc, count)
=============================================================================
