--------------------------- MODULE MCGraphHistories ---------------------------
(***************************************************************************)
(* Instances of GraphHistories for TLC.                                    *)
(***************************************************************************)
EXTENDS GraphHistories

AllProcs == Permutations(Procs)
=============================================================================
