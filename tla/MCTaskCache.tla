----------------------------- MODULE MCTaskCache ------------------------------
(***************************************************************************)
(* Instances of TaskCache for TLC.                                         *)
(***************************************************************************)
EXTENDS TaskCache, TLC

CONSTANTS p1, k1, k2, r1, r2

AllRoutes == Writes \cup {"get_project_tasks"}

Symmetry == Permutations({k1, k2}) \cup Permutations({r1, r2})
===============================================================================
