------------------------------ MODULE MCTasks ------------------------------
(***************************************************************************)
(* Instance of Tasks for model checking: three tasks at most, so that one  *)
(* is neither the first nor the last of the list, and stacks of different  *)
(* depth.                                                                  *)
(***************************************************************************)
EXTENDS Tasks

\* Nothing is claimed of what follows an interrupt in a window.
Unharmed == ~struck
=============================================================================
