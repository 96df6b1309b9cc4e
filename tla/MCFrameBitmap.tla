--------------------------- MODULE MCFrameBitmap ---------------------------
(***************************************************************************)
(* FrameBitmap for TLC: three words of six frames (three cells each).  The *)
(* memory maps have a hole, an entry that begins and one that ends inside  *)
(* a page, one past the bitmap and one at 2^32.                            *)
(***************************************************************************)
EXTENDS FrameScan

Entry(a, l, av) == [addr |-> a, len |-> l, available |-> av]

MCEntries == {
  Entry(2, 9, TRUE),     \* begins on a page, ends inside one
  Entry(15, 12, TRUE),   \* begins inside a page
  Entry(26, 14, TRUE),   \* reaches past the bitmap
  Entry(4, 20, FALSE),   \* reserved
  Entry(64, 2, TRUE),    \* at 2^32: the cursor starts at 0
  Entry(44, 4, TRUE)}    \* past the bitmap

MCBootFrames == {0, 1, 7, 40}
=============================================================================
