----------------------------- MODULE MCIssueCache -----------------------------
(***************************************************************************)
(* Instances of IssueCache for TLC.                                        *)
(***************************************************************************)
EXTENDS IssueCache

\* The first issue is there and changed, the second is created and commented
\* on.
OneIssue == {<<NewIssue, None>>}
Versions == 1 :> 3 @@ 2 :> 1
Comments == 1 :> 0 @@ 2 :> 1

AllProcs == Permutations(Procs)
=============================================================================
