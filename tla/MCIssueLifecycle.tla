--------------------------- MODULE MCIssueLifecycle ---------------------------
(***************************************************************************)
(* Instances of IssueLifecycle and BoardView for TLC.                      *)
(***************************************************************************)
EXTENDS BoardView

\* Columns#update applies uniq, so these are the lists a browser can store.
AllLists == SetToAllKPermutations(Numbers)
=============================================================================
