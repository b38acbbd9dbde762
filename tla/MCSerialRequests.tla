--------------------------- MODULE MCSerialRequests ---------------------------
(***************************************************************************)
(* Instances of SerialRequests for TLC.                                    *)
(***************************************************************************)
EXTENDS SerialRequests

AllLists == SetToAllKPermutations(Numbers)
=============================================================================
