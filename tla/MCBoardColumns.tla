---------------------------- MODULE MCBoardColumns ----------------------------
(***************************************************************************)
(* Instances of BoardColumns for TLC.                                      *)
(***************************************************************************)
EXTENDS BoardColumns

TwoColumns   == <<"a", "b">>
ThreeColumns == <<"a", "b", "c">>

AllProcs == Permutations(Procs)
=============================================================================
