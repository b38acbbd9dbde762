--------------------------- MODULE MCReactRuntime ---------------------------
(***************************************************************************)
(* A small client for ReactRuntime.  The keys "a" and "a.b" tell ids apart *)
(* that begin alike, rows change places, come, go and change their type    *)
(* under one key, one comment cannot be rendered.                          *)
(***************************************************************************)
EXTENDS ReactRuntime

Row(type, key, body, pale) == Element(type, key, body, pale, <<>>)

A == <<"a">>
S == <<"s">>
AB == <<"a", ".", "b">>

D == <<"d">>

Labels(items) ==
    Element("CurrentLabelList", <<"l">>, "", FALSE,
            [k \in 1..Len(items) |-> Row("li", items[k], "b", FALSE)])

ColumnsOf(current) ==
    Element("ColumnList", <<"c">>, current, FALSE,
            <<Row("button", A, "y", FALSE), Row("button", S, "z", FALSE)>>)

Assignees ==
    Element("AssigneeList", <<"n">>, "ann", FALSE, <<Row("Assignee", A, "ann", FALSE)>>)

MCRowLists ==
    {<<Row("#text", <<>>, "t", FALSE), Row("Comment", AB, "y", FALSE),
       Element("LabelList", A, "", FALSE, <<Row("Label", AB, "off", FALSE)>>),
       Row("html", <<>>, "h", FALSE), Labels(<<A, AB>>), Row("CurrentAssignee", D, "", FALSE),
       Row("Event", <<>>, "v", FALSE)>>,
     <<Row("Comment", AB, "y", FALSE), Row("CurrentState", S, "open", FALSE),
       Row("Comment", A, "x", FALSE), Row("Comment", AB, "x", FALSE),
       Row("CurrentAssignee", D, "w", FALSE), Row("Avatar", <<>>, "u", FALSE),
       ColumnsOf("y")>>,
     <<Row("#text", <<>>, "s", FALSE), Row("CurrentState", S, "archived", FALSE),
       Row("Comment", AB, "z", TRUE), Row("html", <<>>, "g", FALSE),
       Row("CurrentAssignee", D, "u", FALSE), Labels(<<AB, S, A>>),
       ColumnsOf("z"), Assignees>>,
     <<Row("Comment", A, "bad", FALSE)>>}

MCBodies == {"z"}

Call(to, fields, then) == [to |-> to, fields |-> fields, then |-> then]

Shorter ==
    [rows |-> <<Row("Label", AB, "on", FALSE), Row("Comment", A, "z", FALSE),
                Row("CurrentState", S, "closed", FALSE),
                Row("CurrentDueDate", D, "", FALSE),
                Row("ToggleButton", <<"r">>, "ready", TRUE)>>]

\* Without a callback, and with one that sets the list's rows in turn.
MCThens == {<<>>, <<<<Call("list", Shorter, <<<<>>>>)>>>>}

Script(calls, stop) == [calls |-> calls, stop |-> stop]

Quiet == Script(<<>>, FALSE)

(***************************************************************************)
(* Handlers that let no click through and keep no text; that set their     *)
(* component, again in its callback, and stop the click; that set the      *)
(* component and the rows, and the rows twice, in one event.               *)
(***************************************************************************)
MCPrograms ==
    {[capture |-> Script(<<>>, TRUE), own |-> Quiet, bubble |-> Quiet, keeps |-> FALSE],
     [capture |-> Quiet,
      own |-> Script(<<Call("self", [body |-> "y"],
                            <<<<Call("self", [body |-> "z"], <<<<>>>>)>>>>)>>, TRUE),
      bubble |-> Quiet, keeps |-> TRUE],
     [capture |-> Script(<<Call("self", Shorter, <<<<>>>>)>>, FALSE),
      own |-> Script(<<Call("self", [body |-> "y"], <<<<>>>>),
                       Call("list", Shorter, <<>>)>>, FALSE),
      bubble |-> Script(<<Call("self", [rows |-> <<>>], <<<<>>>>),
                          Call("self", Shorter, <<>>)>>, FALSE),
      keeps |-> FALSE]}
=============================================================================
