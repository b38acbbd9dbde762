---------------------------- MODULE MCIssueWindow ----------------------------
(***************************************************************************)
(* An instance of IssueWindow for TLC.                                     *)
(***************************************************************************)
EXTENDS IssueWindow

\* What users do with one window: name the issue, describe it, move it on,
\* discuss it, correct its comments.  "show" is opening the window again.
Name     == {"show", "update", "due_date"}
Describe == {"show", "update_labels", "assignee", "due_date"}
MoveOn   == {"show", "move_to", "close", "reopen", "archive", "unarchive",
             "toggle_ready"}
Discuss  == {"show", "comment", "delete_comment", "toggle_ready"}
Correct  == {"show", "update_comment", "delete_comment"}
FiveUses == {Name, Describe, MoveOn, Discuss, Correct}
=============================================================================
