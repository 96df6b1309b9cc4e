----------------------------- MODULE MCLibrary ------------------------------
(***************************************************************************)
(* Library for TLC.  Random numbers: a counter of four values and a pool   *)
(* size that wraps.  SHA1: blocks of six bytes that end in a length of     *)
(* two, messages of two blocks and more.  Output: an int of 4 bits, a long *)
(* long of 5 bits, and strings shorter and longer than the widths and      *)
(* precisions.                                                             *)
(***************************************************************************)
EXTENDS Library

NullString == <<"(", "N", "U", "L", "L", ")">>
FormatStrings == {<<>>, NullString}
=============================================================================
