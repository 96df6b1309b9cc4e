------------------------------- MODULE MCMmu -------------------------------
(***************************************************************************)
(* Mmu for TLC: tables of a few pages instead of 512, a stack of one page, *)
(* so that extensions of every length meet every place in a table.         *)
(***************************************************************************)
EXTENDS Mmu
=============================================================================
