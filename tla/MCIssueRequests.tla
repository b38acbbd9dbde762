---------------------------- MODULE MCIssueRequests ----------------------------
(***************************************************************************)
(* Instances of IssueRequests for TLC.                                     *)
(***************************************************************************)
EXTENDS IssueRequests

AllProcs == Permutations(Procs)
=============================================================================
