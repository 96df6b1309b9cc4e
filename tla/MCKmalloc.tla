----------------------------- MODULE MCKmalloc -----------------------------
(***************************************************************************)
(* Kmalloc for TLC: a header of 1 unit, pages of 2, a first heap of 4, so  *)
(* that two or three blocks exhaust it.  The array products fit, wrap to 0 *)
(* or wrap to a small number.  WideRequests has a size of 2^32.            *)
(***************************************************************************)
EXTENDS Kmalloc

MCRequests == {0, 2}
MCArrays == {<<4, 4>>, <<9, 2>>, <<1, 3>>}
WideRequests == {1, 32}
=============================================================================
