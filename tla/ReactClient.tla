----------------------------- MODULE ReactClient -----------------------------
(***************************************************************************)
(* A small client for React, cut from the issue window: a list whose rows  *)
(* can be comments (a text area of their own), events, avatars, labels (a  *)
(* checkbox), what a window shows of its issue (state, due date, assignee, *)
(* labels), markdown and bare text.  What the code says of a component for *)
(* itself is here: its elements, its first state, what it renders and      *)
(* listens to.                                                             *)
(***************************************************************************)
EXTENDS Naturals, Sequences

CONSTANT Bad          \* the body of a comment that cannot be rendered

(***************************************************************************)
(* An element without a key has <<>>; its owner is the instance that was   *)
(* rendering when it was created, 0 for none.                              *)
(***************************************************************************)
Element(type, key, body, pale, kids) ==
    [type |-> type, key |-> key, body |-> body, pale |-> pale,
     kids |-> kids, owner |-> 0]

Composites == {"CommentList", "Comment", "Event", "Avatar", "Label", "CurrentState",
               "CurrentDueDate", "CurrentAssignee", "CurrentLabelList", "ColumnList",
               "AssigneeList", "Assignee", "LabelList", "EditButton", "ToggleButton",
               "PopoverOverlay"}

GetInitialState(el) ==
    CASE el.type = "CommentList" -> [rows |-> el.kids]
      [] el.type = "Comment" -> [body |-> el.body]
      [] el.type = "Label" -> [checked |-> el.body]
      [] el.type = "ColumnList" -> [data |-> el.kids, body |-> el.body]
      [] el.type = "AssigneeList" -> [data |-> el.kids, body |-> "none"]
      [] el.type = "LabelList" -> [body |-> "none"]
      [] OTHER -> <<>>

RenderList(inst) == Element("list", <<>>, "", FALSE, inst.state.rows)

RenderComment(inst) ==
    Element("textarea", <<>>, inst.state.body, inst.el.pale, <<>>)

RenderEvent(inst) == Element("div", <<>>, inst.el.body, FALSE, <<>>)

RenderAvatar(inst) == Element("img", <<>>, inst.el.body, FALSE, <<>>)

RenderLabel(inst) == Element("checkbox", <<>>, inst.state.checked, FALSE, <<>>)

\* An open issue shows nothing, in a node of another tag.
RenderCurrentState(inst) ==
    CASE inst.el.body \in {"close", "closed", "unarchive"} ->
             Element("div", <<>>, "Closed", FALSE, <<>>)
      [] inst.el.body \in {"archive", "archived"} ->
             Element("div", <<>>, "Closed, Archived", FALSE, <<>>)
      [] OTHER -> Element("span", <<>>, "", FALSE, <<>>)

RenderCurrentDueDate(inst) ==
    IF inst.el.body # "" THEN Element("div", <<>>, inst.el.body, FALSE, <<>>)
    ELSE Element("span", <<>>, "", FALSE, <<>>)

RenderCurrentAssignee(inst) ==
    IF inst.el.body # "" THEN Element("img", <<>>, inst.el.body, FALSE, <<>>)
    ELSE Element("div", <<>>, "", FALSE, <<>>)

\* An item for each label, with the label's name as its key.
RenderCurrentLabelList(inst) == Element("ul", <<>>, "", FALSE, inst.el.kids)

\* The columns are those of the first time, the current one stands out; an item
\* and its link are one node.
RenderColumnList(inst) ==
    Element("ul", <<>>, "", FALSE,
            [k \in DOMAIN inst.state.data |->
                [inst.state.data[k] EXCEPT !.pale = inst.state.data[k].body = inst.state.body]])

\* A link with the picture, the name and a mark for who is assigned.
RenderAssignee(inst) ==
    Element("a", <<>>, "", FALSE,
            <<Element("img", <<>>, inst.el.body, FALSE, <<>>),
              Element("span", <<>>, inst.el.body, FALSE, <<>>),
              Element("span", <<>>, "", inst.el.pale, <<>>)>>)

\* What can be clicked, with its name, and how it looks when it is on.
RenderEditButton(inst) == Element("button", <<>>, inst.el.body, FALSE, <<>>)
RenderToggleButton(inst) == Element("button", <<>>, inst.el.body, inst.el.pale, <<>>)
RenderPopoverOverlay(inst) == Element("button", <<>>, "", inst.el.pale, <<>>)

\* A button, an overlay that is there or not, and the members; their own node
\* is left out.
WithButton(name, inst, members) ==
    Element("ul", <<>>, "", FALSE,
            <<Element("EditButton", <<>>, name, FALSE, <<>>),
              Element("PopoverOverlay", <<>>, "", inst.state.body # "none", <<>>)>>
                \o members)

RenderAssigneeList(inst) ==
    WithButton("Assignee", inst,
               [k \in 1..Len(inst.state.data) |->
                   [inst.state.data[k] EXCEPT !.pale = inst.state.data[k].body = inst.el.body]])

RenderLabelList(inst) == WithButton("Labels", inst, inst.el.kids)

\* A comment without its user has no login to show: render throws.
RenderThrows(inst) == inst.el.body = Bad

Render(inst) ==
    CASE inst.el.type = "CommentList" -> RenderList(inst)
      [] inst.el.type = "Comment" -> RenderComment(inst)
      [] inst.el.type = "Label" -> RenderLabel(inst)
      [] inst.el.type = "Event" -> RenderEvent(inst)
      [] inst.el.type = "Avatar" -> RenderAvatar(inst)
      [] inst.el.type = "CurrentState" -> RenderCurrentState(inst)
      [] inst.el.type = "CurrentDueDate" -> RenderCurrentDueDate(inst)
      [] inst.el.type = "CurrentAssignee" -> RenderCurrentAssignee(inst)
      [] inst.el.type = "CurrentLabelList" -> RenderCurrentLabelList(inst)
      [] inst.el.type = "ColumnList" -> RenderColumnList(inst)
      [] inst.el.type = "Assignee" -> RenderAssignee(inst)
      [] inst.el.type = "AssigneeList" -> RenderAssigneeList(inst)
      [] inst.el.type = "LabelList" -> RenderLabelList(inst)
      [] inst.el.type = "EditButton" -> RenderEditButton(inst)
      [] inst.el.type = "ToggleButton" -> RenderToggleButton(inst)
      [] inst.el.type = "PopoverOverlay" -> RenderPopoverOverlay(inst)

HasRef(el) == el.type \in {"textarea", "checkbox"}

Listeners(el) ==
    CASE el.type = "list" -> <<"onClickCapture", "onClick">>
      [] el.type = "textarea" -> <<"onChange", "onClick">>
      [] el.type = "checkbox" -> <<"onChange">>
      [] el.type \in {"button", "a"} -> <<"onClick">>
      [] OTHER -> <<>>

\* Their handleClick calls a function of their props.
HandsOn(el) == el.type \in {"EditButton", "ToggleButton", "PopoverOverlay"}

\* componentWillReceiveProps: a column list goes back to the column of the
\* issue, an edit form to the text it is given.
ColumnListReceives(el) == <<[body |-> el.body]>>

EditFormReceives(el, state) ==
    IF el.body \in {"", Bad, state.body} THEN <<>> ELSE <<[body |-> el.body]>>

WillReceiveProps(el, state) ==
    CASE el.type = "ColumnList" -> ColumnListReceives(el)
      [] el.type = "Comment" -> EditFormReceives(el, state)
      [] OTHER -> <<>>
=============================================================================
