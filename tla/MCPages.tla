------------------------------- MODULE MCPages --------------------------------
(***************************************************************************)
(* An instance of TaskPages for TLC.                                       *)
(***************************************************************************)
EXTENDS TaskPages

CONSTANTS t1, t2, t3, t4, t5

Symmetry == Permutations(Tasks)
===============================================================================
