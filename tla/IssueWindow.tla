------------------------------ MODULE IssueWindow ------------------------------
(***************************************************************************)
(* The window of one issue (react/main.js and its components), the cards   *)
(* of that issue on the board of the same browser, and the server.         *)
(*                                                                         *)
(* A click changes what the window shows at once and sends a request; the  *)
(* server executes requests in any order, answers arrive in any order, a   *)
(* request or an answer may be lost, and nothing in the window waits.  The *)
(* window starts from the data of the card that was clicked, fetches the   *)
(* issue and its comments, and never again looks at most of what it shows. *)
(* A window that is opened again is a new one; the old one lives on        *)
(* without its DOM, and React fails as soon as it is to change.            *)
(*                                                                         *)
(* The server is one value: what is modelled is the order of whole         *)
(* requests; IssueRequests and IssueCache look inside them.                *)
(***************************************************************************)
EXTENDS Integers, FiniteSetsExt, Functions, Bags

CONSTANTS
    Columns,     \* numbers: columns in the order of the document
    AutoAssign,  \* columns that assign a card without assignee to "me"
    AutoClose,   \* columns that close an open card
    Users,       \* collaborators; "me" is the user of this browser
    Labels,      \* labels of the repository
    Chunks,      \* bound: pieces of text the user types
    IsReadonly,  \* the board is shown to a reader
    FirstStates, \* the states of the issue a window may start with
    Uses,        \* bound: sets of kinds of requests one user makes
    MaxComments, \* bound: comments of the issue, the first included
    MaxClicks,   \* bound: clicks and openings
    MaxCalls,    \* bound: requests under way when the user clicks
    MaxMishaps   \* bound: clicks while a request is under way, losses of
                 \* requests and answers, changes by others

ASSUME WindowAssumption ==
    /\ Columns \subseteq Nat /\ IsFiniteSet(Columns) /\ Columns # {}
    /\ AutoAssign \subseteq Columns /\ AutoClose \subseteq Columns
    /\ "me" \in Users /\ "nobody" \notin Users
    /\ IsFiniteSet(Labels) /\ IsFiniteSet(Chunks)
    /\ IsReadonly \in BOOLEAN
    /\ FirstStates \subseteq {"open", "closed", "archived"}
    /\ {MaxComments, MaxClicks, MaxCalls, MaxMishaps} \subseteq Nat

VARIABLES
    issue,    \* the issue and its row on the server
    comments, \* its comments: a text for each id
    lastId,   \* ids are given once
    cards,    \* the card in each column of the board that shows one
    win,      \* the window: the state of IssueModal and its components
    sent,     \* requests the server has not executed yet (a bag)
    answers,  \* answers that have not arrived yet (a bag)
    count,    \* clicks and mishaps so far, for the bounds
    uses,     \* the kinds of requests this user makes
    met,      \* history: what happened that explains a difference
    unsaved   \* history: submitted pieces of text the server never stored

server  == <<issue, comments, lastId>>
net     == <<sent, answers>>
history == <<count, uses, met, unsaved>>
vars    == <<server, cards, win, net, history>>

\* A function with one more, or another, value.
With(f, x, y) == [z \in DOMAIN f \cup {x} |-> IF z = x THEN y ELSE f[z]]

Quiet == sent = EmptyBag /\ answers = EmptyBag

Incidents == {"hurry",  \* a click or a change while a request was under way
              "early",  \* a click before both first answers, or a window
                        \* opened while requests were under way
              "double", \* a comment sent while one was under way
              "loss", "refusal", "others", "move", "reopened",
              "odd"}    \* a state button the card of the issue would not have

-----------------------------------------------------------------------------
(* The server.                                                              *)

\* A text is the set of the pieces it is put together from.  The first
\* comment is an original text with a checkbox in it.
Text       == SUBSET (Chunks \cup {"original", "tick"})
CommentIds == 1..MaxComments

Data == [title : {"old", "new"}, labels : SUBSET Labels,
         assignee : Users \cup {"nobody"}, due : {"none", "friday"},
         ready : BOOLEAN, closed : BOOLEAN, archived : BOOLEAN,
         column : Columns, count : Nat]

\* The arguments of all requests; each kind uses its own.
Request(kind) == [kind |-> kind, name |-> "", labels |-> {}, column |-> 0,
                  comment |-> 0, body |-> {}, mine |-> TRUE]

\* Archiver and Unarchiver answer nil, and the controller fails on it;
\* GitHub does not know a comment that was deleted.
Refused(r) ==
    \/ r.kind = "archive" /\ ~issue.closed
    \/ r.kind = "unarchive" /\ ~issue.archived
    \/ /\ r.kind \in {"delete_comment", "update_comment"}
       /\ r.comment \notin DOMAIN comments

\* Mutant of Assign: the assignee is set.
AssignOnly(data, user) == [data EXCEPT !.assignee = user]

\* GithubApi::Issues#assign: assigning the assignee clears it.
Assign(data, user) ==
    [data EXCEPT !.assignee = IF @ = user THEN "nobody" ELSE user]

\* Mover: a new column takes the label "ready" off; then the column may
\* assign and close.
Move(data, column) ==
    LET moved    == [data EXCEPT !.column = column,
                                 !.ready = @ /\ data.column = column]
        assigned == IF column \in AutoAssign /\ moved.assignee = "nobody"
                    THEN Assign(moved, "me") ELSE moved
    IN  [assigned EXCEPT !.closed = @ \/ column \in AutoClose]

\* What a request leaves of the issue and its row.
After(data, r) ==
    CASE r.kind = "update"         -> [data EXCEPT !.title = r.name]
      [] r.kind = "update_labels"  -> [data EXCEPT !.labels = r.labels]
      [] r.kind = "assignee"       -> Assign(data, r.name)
      [] r.kind = "due_date"       -> [data EXCEPT !.due = r.name]
      [] r.kind = "move_to"        -> Move(data, r.column)
      [] r.kind = "close"          -> [data EXCEPT !.closed = TRUE]
      [] r.kind = "reopen"         -> [data EXCEPT !.closed = FALSE]
      [] r.kind = "archive"        -> [data EXCEPT !.archived = TRUE]
      [] r.kind = "unarchive"      -> [data EXCEPT !.archived = FALSE]
      [] r.kind = "toggle_ready"   -> [data EXCEPT !.ready = ~@]
      [] r.kind = "comment"        -> [data EXCEPT !.count = @ + 1]
      [] r.kind = "delete_comment" -> [data EXCEPT !.count = @ - 1]
      [] OTHER                     -> data

\* What it leaves of the comments.
CommentsAfter(r) ==
    CASE r.kind = "comment"        -> With(comments, lastId + 1, r.body)
      [] r.kind = "delete_comment" ->
             Restrict(comments, DOMAIN comments \ {r.comment})
      [] r.kind = "update_comment" -> [comments EXCEPT ![r.comment] = r.body]
      [] OTHER                     -> comments

\* A broadcast makes this browser fetch a column again, a second later.  It
\* ignores its own broadcasts except those sent in the name of the system:
\* moves (both columns), unarchivings, webhooks.
Reload(column) == [Request("column") EXCEPT !.column = column, !.mine = FALSE]

\* Mutant of Reloads: only the column the card has come to.
ReloadsTarget(r) ==
    CASE r.kind = "move_to"   -> SetToBag({Reload(r.column)})
      [] r.kind = "unarchive" -> SetToBag({Reload(issue.column)})
      [] OTHER -> EmptyBag

Reloads(r) ==
    CASE r.kind = "move_to" -> SetToBag({Reload(issue.column)})
                               (+) SetToBag({Reload(r.column)})
      [] r.kind = "unarchive" -> SetToBag({Reload(issue.column)})
      [] OTHER -> EmptyBag

\* The answer: the issue as the request left it, or the comments.  It keeps
\* of the request what its callback knows.
Answer(r, data) ==
    [call     |-> [r EXCEPT !.name = IF r.kind = "update_comment" THEN @ ELSE "",
                            !.labels = {},
                            !.comment = IF r.kind = "comment" THEN lastId + 1 ELSE @],
     data     |-> data,
     comments |-> IF r.kind = "comments" THEN comments ELSE << >>]

\* Nobody reads the answer to a move.
Execute(r) ==
    /\ BagIn(r, sent)
    /\ ~Refused(r)
    /\ issue' = After(issue, r)
    /\ comments' = CommentsAfter(r)
    /\ lastId' = IF r.kind = "comment" THEN lastId + 1 ELSE lastId
    /\ sent' = (sent (-) SetToBag({r})) (+) Reloads(r)
    /\ answers' = IF r.kind = "move_to" THEN answers
                  ELSE answers (+) SetToBag({Answer(r, issue')})
    /\ unsaved' = IF r.kind = "comment" THEN unsaved \ r.body ELSE unsaved
    /\ UNCHANGED <<cards, win, count, uses, met>>

\* The error callback writes to the console, and that is all.
Refuse(r) ==
    /\ BagIn(r, sent)
    /\ Refused(r)
    /\ sent' = sent (-) SetToBag({r})
    /\ met' = met \cup {"refusal"}
    /\ UNCHANGED <<server, cards, win, answers, count, uses, unsaved>>

Loss == /\ count.mishaps < MaxMishaps
        /\ count' = [count EXCEPT !.mishaps = @ + 1]
        /\ met' = met \cup {"loss"}
        /\ UNCHANGED <<server, cards, win, uses, unsaved>>

LoseRequest(r) == /\ BagIn(r, sent)
                  /\ sent' = sent (-) SetToBag({r})
                  /\ Loss
                  /\ UNCHANGED answers

LoseAnswer(a) == /\ BagIn(a, answers)
                 /\ answers' = answers (-) SetToBag({a})
                 /\ Loss
                 /\ UNCHANGED sent

\* Somebody else labels or closes the issue on GitHub; the webhook updates
\* the board and is broadcast.
OthersChange ==
    /\ count.mishaps < MaxMishaps
    /\ count' = [count EXCEPT !.mishaps = @ + 1]
    /\ met' = met \cup {"others"} \cup (IF Quiet THEN {} ELSE {"hurry"})
    /\ \/ \E l \in Labels \ issue.labels :
              issue' = [issue EXCEPT !.labels = @ \cup {l}]
       \/ issue' = [issue EXCEPT !.closed = TRUE] /\ ~issue.closed
    /\ sent' = sent (+) SetToBag({Reload(issue.column)})
    /\ UNCHANGED <<comments, lastId, cards, win, answers, uses, unsaved>>

-----------------------------------------------------------------------------
(* What the window shows.                                                   *)

\* BoardIssue#full_state, and what CurrentState makes of the state the
\* window keeps: the name of the last button, or the state it began with.
FullState(data) == IF data.archived THEN "archived"
                   ELSE IF data.closed THEN "closed" ELSE "open"
ShownState(state) ==
    IF state \in {"close", "closed", "unarchive"} THEN "closed"
    ELSE IF state \in {"archive", "archived"} THEN "archived" ELSE "open"

\* Comment and its CommentEditForm: "shown" is the rendered text, "body" the
\* one it was rendered from, "draft" what stands in the form.
FreshComment(body) == [editing |-> FALSE, saving |-> FALSE, body |-> body,
                       shown |-> body, draft |-> body]

FreshForm == [text |-> {}, saving |-> FALSE]

\* Title's own state: the title shown, the one in the text area, and which of
\* them is visible.
FreshTitle(data) == [title |-> data.title, titleEdit |-> data.title, editing |-> FALSE]

\* getInitialState of IssueModal and its children.  inCard is the column of
\* the card whose data object the window holds (and changes), 0 if none;
\* until "own" its state.issue is the same object.
FreshWindow(data, inCard) ==
    [inCard |-> inCard, own |-> FALSE, loaded |-> FALSE,
     labels |-> data.labels, ready |-> data.ready, column |-> data.column,
     current |-> data.column, assignee |-> data.assignee, due |-> data.due,
     state |-> FullState(data), title |-> FreshTitle(data), comps |-> << >>,
     form |-> FreshForm]

\* A render of IssueModal: ColumnList goes back to the column of the issue
\* (componentWillReceiveProps), an open edit form to the text of its comment.
Render(w) ==
    [w EXCEPT !.current = w.column,
              !.comps = [id \in DOMAIN w.comps |->
                  [w.comps[id] EXCEPT !.draft = IF w.comps[id].editing
                                                THEN w.comps[id].body ELSE @]]]

\* CommentList: a comment that stays keeps its component.
ShowComments(w, texts) ==
    [w EXCEPT !.comps = [id \in DOMAIN texts |->
                 IF id \in DOMAIN w.comps THEN w.comps[id]
                 ELSE FreshComment(texts[id])]]

-----------------------------------------------------------------------------
(* The board.                                                               *)

\* The board as it is fetched: the card stands in its column.
Board == IF issue.archived THEN << >> ELSE With(<< >>, issue.column, issue)

\* $('#issues_N') finds the first card.
FirstCard == Min(DOMAIN cards)

\* Mutant of Detached: the window goes on with the object of a card that is
\* gone.
StillHeld(w, column) == w

\* A window that held the data object of a card is left alone with it.
Detached(w, column) == [w EXCEPT !.inCard = IF @ = column THEN 0 ELSE @]

\* updateIssueMiniature: the card is replaced where it stands, if it stands.
ReplaceCard(w, data) ==
    IF DOMAIN cards = {}
    THEN cards' = cards /\ win' = w
    ELSE /\ cards' = [cards EXCEPT ![FirstCard] = data]
         /\ win' = Detached(w, FirstCard)

RemoveCard(w) ==
    IF DOMAIN cards = {}
    THEN cards' = cards /\ win' = w
    ELSE /\ cards' = Restrict(cards, DOMAIN cards \ {FirstCard})
         /\ win' = Detached(w, FirstCard)

\* All cards of the column are replaced by those of the answer.
ReplaceColumn(column, data) ==
    /\ cards' = IF data.column = column /\ ~data.archived
                THEN With(cards, column, data)
                ELSE Restrict(cards, DOMAIN cards \ {column})
    /\ win' = Detached(win, column)

-----------------------------------------------------------------------------
(* Answers.                                                                 *)

\* The success callbacks.  Where the window is no longer the one that sent
\* the request, setState throws in getNode and what follows it is skipped.
ArriveShow(a) ==
    /\ a.call.kind = "show"
    /\ cards' = cards
    /\ win' = IF a.call.mine
              THEN Render([win EXCEPT !.own = TRUE, !.ready = a.data.ready,
                                      !.column = a.data.column,
                                      !.assignee = a.data.assignee])
              ELSE win
    /\ UNCHANGED sent

ArriveComments(a) ==
    /\ a.call.kind = "comments"
    /\ cards' = cards
    /\ win' = IF a.call.mine
              THEN Render([ShowComments(win, a.comments) EXCEPT !.loaded = TRUE])
              ELSE win
    /\ UNCHANGED sent

\* Mutant of SaveCommentFinish: the opacity is forgotten.
EmptiedOnly(form) == [form EXCEPT !.text = {}]

SaveCommentFinish(form) == [form EXCEPT !.text = {}, !.saving = FALSE]

\* saveCommentFinish, then the comment, then the card.
ArriveComment(a) ==
    /\ a.call.kind = "comment"
    /\ IF a.call.mine
       THEN ReplaceCard(
               Render(ShowComments(
                   [win EXCEPT !.form = SaveCommentFinish(@)],
                   With([id \in DOMAIN win.comps |-> {}],
                        a.call.comment, a.call.body))),
               a.data)
       ELSE UNCHANGED <<cards, win>>
    /\ UNCHANGED sent

\* updateCommentFinish of the comment, unless a checkbox sent it; the card is
\* asked for a second later.
ArriveCommentUpdate(a) ==
    /\ a.call.kind = "update_comment"
    /\ cards' = cards
    /\ win' = IF a.call.mine /\ a.call.name = "form"
                 /\ a.call.comment \in DOMAIN win.comps
              THEN [win EXCEPT !.comps[a.call.comment] =
                       [@ EXCEPT !.editing = FALSE, !.saving = FALSE,
                                 !.shown = a.call.body]]
              ELSE win
    /\ sent' = sent (+) SetToBag({[Request("fetch_miniature")
                                      EXCEPT !.mine = a.call.mine]})

ArriveArchive(a) ==
    /\ a.call.kind = "archive"
    /\ RemoveCard(win)
    /\ UNCHANGED sent

ArriveColumn(a) ==
    /\ a.call.kind = "column"
    /\ ReplaceColumn(a.call.column, a.data)
    /\ UNCHANGED sent

\* Mutant of ArriveMiniature: the window takes "ready" from the answer.
ArriveReady(a) ==
    /\ a.call.kind \notin {"show", "comments", "comment", "update_comment",
                           "archive", "column"}
    /\ ReplaceCard([win EXCEPT !.ready = a.data.ready], a.data)
    /\ UNCHANGED sent

ArriveMiniature(a) ==
    /\ a.call.kind \in {"update", "update_labels", "assignee", "due_date",
                        "close", "reopen", "unarchive", "toggle_ready",
                        "delete_comment", "fetch_miniature"}
    /\ ReplaceCard(win, a.data)
    /\ UNCHANGED sent

Arrive(a) ==
    /\ BagIn(a, answers)
    /\ answers' = answers (-) SetToBag({a})
    /\ \/ ArriveShow(a) \/ ArriveComments(a) \/ ArriveComment(a)
       \/ ArriveCommentUpdate(a) \/ ArriveArchive(a) \/ ArriveColumn(a)
       \/ ArriveMiniature(a)
    /\ UNCHANGED <<server, history>>

-----------------------------------------------------------------------------
(* Clicks.                                                                  *)

Posting == \E r \in BagToSet(sent) \cup {a.call : a \in BagToSet(answers)} :
               r.kind = "comment" /\ r.mine

CountClick ==
    /\ count.clicks < MaxClicks
    /\ Quiet \/ count.mishaps < MaxMishaps
    /\ count' = [clicks |-> count.clicks + 1,
                 mishaps |-> IF Quiet THEN count.mishaps ELSE count.mishaps + 1]

\* IssueModal#request: every click sends one.
Ask(r, incidents) ==
    /\ r.kind \in uses
    /\ BagCardinality(sent) + BagCardinality(answers) < MaxCalls
    /\ CountClick
    /\ sent' = sent (+) SetToBag({r})
    /\ met' = met \cup incidents \cup (IF Quiet THEN {} ELSE {"hurry"})
                  \cup (IF win.own /\ win.loaded THEN {} ELSE {"early"})
    /\ UNCHANGED <<server, answers, uses>>

HandleUpdateTitle(title) == Ask([Request("update") EXCEPT !.name = title], {})

\* A reader cannot open the text area.
HandleEditTitleClick(title) ==
    [title EXCEPT !.editing = IF IsReadonly THEN @ ELSE ~@]

\* Enter; an empty title is not sent.  Title shows the new one at once and
\* never looks at its props again.
HandleKeyDown ==
    /\ win.title.editing
    /\ win.title.titleEdit # ""
    /\ win' = [win EXCEPT !.title = HandleEditTitleClick(
                  [@ EXCEPT !.title = win.title.titleEdit])]
    /\ HandleUpdateTitle(win.title.titleEdit)
    /\ UNCHANGED <<cards, unsaved>>

\* The list that is sent is computed from the labels the window began with,
\* which are also those of the card.
HandleLabelChange(label, checked) ==
    LET labels == IF checked THEN win.labels \cup {label} ELSE win.labels \ {label}
    IN  /\ win' = Render([win EXCEPT !.labels = labels])
        /\ cards' = [c \in DOMAIN cards |->
                        IF c = win.inCard THEN [cards[c] EXCEPT !.labels = labels]
                        ELSE cards[c]]
        /\ Ask([Request("update_labels") EXCEPT !.labels = labels], {})
        /\ UNCHANGED unsaved

\* Label#handleChange
ChangeLabel(label) == HandleLabelChange(label, label \notin win.labels)

HandleAssigneeChange(user, isAssigned) ==
    /\ win' = Render([win EXCEPT !.assignee = IF isAssigned THEN user ELSE "nobody"])
    /\ Ask([Request("assignee") EXCEPT !.name = user], {})
    /\ UNCHANGED <<cards, unsaved>>

\* Assignee#handleChange
ChangeAssignee(user) == HandleAssigneeChange(user, win.assignee # user)

HandleDueDateChange(due) ==
    /\ win' = Render([win EXCEPT !.due = due])
    /\ Ask([Request("due_date") EXCEPT !.name = due], {})
    /\ UNCHANGED <<cards, unsaved>>

\* DueDateAction: save a date, or remove it.
ChangeDueDate == \E due \in {"none", "friday"} : HandleDueDateChange(due)

\* The window only asks; it is ColumnList that remembers the column clicked.
HandleColumnChange(column) ==
    Ask([Request("move_to") EXCEPT !.column = column], {"move"})

HandleColumnClick(column) ==
    /\ ~IsReadonly
    /\ column # win.current
    /\ win' = [win EXCEPT !.current = column]
    /\ HandleColumnChange(column)
    /\ UNCHANGED <<cards, unsaved>>

HandleStateButtonClick(state) ==
    LET sensible == CASE state = "close"     -> ~issue.closed /\ ~issue.archived
                      [] state = "unarchive" -> issue.closed /\ issue.archived
                      [] OTHER               -> issue.closed /\ ~issue.archived
    IN  /\ win' = Render([win EXCEPT !.state = state])
        /\ Ask(Request(state), IF sensible THEN {} ELSE {"odd"})
        /\ UNCHANGED <<cards, unsaved>>

\* state.issue is changed in place: until the issue has been fetched it is
\* the data object of the card.
HandleReadyButtonClick(state) ==
    /\ win' = Render([win EXCEPT !.ready = state])
    /\ cards' = [c \in DOMAIN cards |->
                    IF c = win.inCard /\ ~win.own
                    THEN [cards[c] EXCEPT !.ready = state] ELSE cards[c]]
    /\ Ask(Request("toggle_ready"), {})
    /\ UNCHANGED unsaved

\* ToggleButton#handleClick
ToggleReady == HandleReadyButtonClick(~win.ready)

\* Mutant of SaveCommentBegin: the form is emptied when it is sent.
EmptiedAtOnce(form) == [form EXCEPT !.text = {}, !.saving = TRUE]

SaveCommentBegin(form) == [form EXCEPT !.saving = TRUE]

\* CommentForm: the button does nothing while a comment is being saved,
\* ctrl-enter does not ask.
HandleSubmit(ctrlEnter) ==
    /\ ctrlEnter \/ ~win.form.saving
    /\ win.form.text # {}
    /\ lastId + BagCardinality(sent) < MaxComments
    /\ win' = [win EXCEPT !.form = SaveCommentBegin(@)]
    /\ Ask([Request("comment") EXCEPT !.body = win.form.text],
           IF Posting THEN {"double"} ELSE {})
    /\ unsaved' = unsaved \cup win.form.text
    /\ UNCHANGED cards

HandleDeleteClick(id) ==
    /\ id \in DOMAIN win.comps
    /\ win' = Render([win EXCEPT !.comps = Restrict(@, DOMAIN @ \ {id})])
    /\ Ask([Request("delete_comment") EXCEPT !.comment = id], {})
    /\ UNCHANGED <<cards, unsaved>>

\* caller tells whose callback it is, that of the form or none (the box).
HandleUpdateComment(id, body, caller) ==
    Ask([Request("update_comment") EXCEPT !.comment = id, !.name = caller,
                                          !.body = body], {})

\* CommentEditForm#saveComment; nothing keeps the form from being sent again.
SaveComment(id) ==
    /\ id \in DOMAIN win.comps
    /\ win.comps[id].editing
    /\ win' = [win EXCEPT !.comps[id].body = win.comps[id].draft,
                          !.comps[id].saving = TRUE]
    /\ HandleUpdateComment(id, win.comps[id].draft, "form")
    /\ UNCHANGED <<cards, unsaved>>

\* A click on a checkbox of the rendered text, which the browser ticks.
HandleBodyClick(id) ==
    LET Tick(text) == IF "tick" \in text THEN text \ {"tick"}
                      ELSE text \cup {"tick"}
    IN  /\ id \in DOMAIN win.comps
        /\ ~win.comps[id].editing
        /\ "original" \in win.comps[id].shown
        /\ win' = [win EXCEPT !.comps[id].body = Tick(@),
                              !.comps[id].shown = Tick(@)]
        /\ HandleUpdateComment(id, Tick(win.comps[id].body), "box")
        /\ UNCHANGED <<cards, unsaved>>

\* Nobody's calls any more: those that differed only in whose they were are
\* copies of each other now.
Orphan(r)       == [r EXCEPT !.mine = FALSE]
OrphanAnswer(a) == [a EXCEPT !.call = Orphan(@)]
Copies(e, bag)  == IF BagIn(e, bag) THEN bag[e] ELSE 0
Orphans(bag) ==
    [e \in {Orphan(r) : r \in BagToSet(bag)} |->
        Copies(e, bag) + Copies([e EXCEPT !.mine = TRUE], bag)]
OrphanAnswers(bag) ==
    [e \in {OrphanAnswer(a) : a \in BagToSet(bag)} |->
        Copies(e, bag) + Copies([e EXCEPT !.call.mine = TRUE], bag)]

\* showModal after the old window was closed: a new IssueModal.  The requests
\* of the old one go on.
Opened(data, inCard) ==
    /\ win' = FreshWindow(data, inCard)
    /\ sent' = Orphans(sent) (+) SetToBag({Request("show"), Request("comments")})
    /\ answers' = OrphanAnswers(answers)

OpenCard(c) ==
    /\ "show" \in uses
    /\ c \in DOMAIN cards
    /\ CountClick
    /\ met' = met \cup (IF Quiet THEN {} ELSE {"hurry", "early"})
                  \cup (IF win.form.text = {} THEN {} ELSE {"reopened"})
    /\ Opened(cards[c], c)
    /\ UNCHANGED <<server, cards, uses, unsaved>>

-----------------------------------------------------------------------------
(* Typing: no request.                                                      *)

Typing == UNCHANGED <<server, cards, net, history>>

HandleTextChange(piece) ==
    /\ "comment" \in uses
    /\ win' = [win EXCEPT !.form.text = @ \cup {piece}]
    /\ Typing

\* A click on the title, or on the overlay beside the text area.
EditTitle ==
    /\ "update" \in uses
    /\ win' = [win EXCEPT !.title = HandleEditTitleClick(@)]
    /\ Typing

HandleTitleChange(text) ==
    /\ win.title.editing
    /\ win' = [win EXCEPT !.title.titleEdit = text]
    /\ Typing

HandleEditClick(id) ==
    /\ "update_comment" \in uses
    /\ id \in DOMAIN win.comps
    /\ ~win.comps[id].editing
    /\ win' = [win EXCEPT !.comps[id].editing = TRUE,
                          !.comps[id].draft = win.comps[id].body]
    /\ Typing

HandleCloseWithoutSaveClick(id) ==
    /\ id \in DOMAIN win.comps
    /\ win.comps[id].editing
    /\ win' = [win EXCEPT !.comps[id].editing = FALSE]
    /\ Typing

HandleEditTextChange(id, piece) ==
    /\ id \in DOMAIN win.comps
    /\ win.comps[id].editing
    /\ win' = [win EXCEPT !.comps[id].draft = @ \cup {piece}]
    /\ Typing

\* UploadForm of the comment form.  The image goes to S3; isNeedSkip takes it
\* for another form's while any comment is open for editing, and handleUpload
\* drops it while a comment is being saved.
IsNeedSkip == \E id \in DOMAIN win.comps : win.comps[id].editing

UploadDone(image) ==
    /\ "comment" \in uses
    /\ ~IsNeedSkip
    /\ ~win.form.saving
    /\ win' = [win EXCEPT !.form.text = @ \cup {image}]
    /\ Typing

-----------------------------------------------------------------------------

\* The page of one issue: the window opens by itself, from data of its own.
Init ==
    /\ \E first \in FirstStates :
           issue = [title |-> "old", labels |-> {}, assignee |-> "nobody",
                    due |-> "none", ready |-> FALSE, closed |-> first # "open",
                    archived |-> first = "archived", column |-> Min(Columns),
                    count |-> 1]
    /\ comments = With(<< >>, 1, {"original"})
    /\ lastId = 1
    /\ cards = Board
    /\ win = FreshWindow(issue, 0)
    /\ sent = SetToBag({Request("show"), Request("comments")})
    /\ answers = EmptyBag
    /\ count = [clicks |-> 0, mishaps |-> 0]
    /\ uses \in Uses
    /\ met = {}
    /\ unsaved = {}

Click ==
    \/ HandleKeyDown
    \/ \E l \in Labels : ChangeLabel(l)
    \/ \E u \in Users : ChangeAssignee(u)
    \/ ChangeDueDate
    \/ \E c \in Columns : HandleColumnClick(c) \/ OpenCard(c)
    \/ \E s \in {"close", "reopen", "archive", "unarchive"} :
           HandleStateButtonClick(s)
    \/ ToggleReady
    \/ \E b \in BOOLEAN : HandleSubmit(b)
    \/ \E id \in CommentIds :
           HandleDeleteClick(id) \/ SaveComment(id) \/ HandleBodyClick(id)

Type ==
    \/ EditTitle
    \/ \E text \in {"", "new"} : HandleTitleChange(text)
    \/ \E piece \in Chunks :
           \/ HandleTextChange(piece) \/ UploadDone(piece)
           \/ \E id \in CommentIds : HandleEditTextChange(id, piece)
    \/ \E id \in CommentIds :
           HandleEditClick(id) \/ HandleCloseWithoutSaveClick(id)

ServerStep == \E r \in BagToSet(sent) : Execute(r) \/ Refuse(r)
Arrival    == \E a \in BagToSet(answers) : Arrive(a)
Lose       == \/ \E r \in BagToSet(sent) : LoseRequest(r)
              \/ \E a \in BagToSet(answers) : LoseAnswer(a)

Next == Click \/ Type \/ ServerStep \/ Arrival \/ Lose \/ OthersChange

Spec == Init /\ [][Next]_vars

\* The server works and answers; nobody has to click or type.
FairSpec == Spec /\ WF_vars(ServerStep) /\ WF_vars(Arrival)

-----------------------------------------------------------------------------
(* Properties.                                                              *)

Component == [editing : BOOLEAN, saving : BOOLEAN, body : Text, shown : Text,
              draft : Text]

\* Types: the state of the window, the cards and the requests.
WindowTypeOK ==
    /\ issue \in Data
    /\ lastId \in Nat \ {0} /\ DOMAIN comments \subseteq 1..lastId
    /\ issue.count = Cardinality(DOMAIN comments)
    /\ DOMAIN cards \subseteq Columns /\ Range(cards) \subseteq Data
    /\ win.labels \subseteq Labels
    /\ {win.column, win.current} \subseteq Columns
    /\ win.inCard \in DOMAIN cards \cup {0}
    /\ win.assignee \in Users \cup {"nobody"}
    /\ DOMAIN win.comps \subseteq 1..lastId
    /\ Range(win.comps) \subseteq Component
    /\ win.title \in [title : {"old", "new"}, titleEdit : {"", "old", "new"},
                      editing : BOOLEAN]
    /\ win.form \in [text : SUBSET Chunks, saving : BOOLEAN]
    /\ IsABag(sent) /\ IsABag(answers)
    /\ met \subseteq Incidents /\ unsaved \subseteq Chunks

\* A user who waits for every answer, alone, sees the issue as it is: when
\* nothing is under way the title, the labels, the due date and the comments of the
\* window are the server's, and so are assignee, "ready" and state as long as
\* the user moved no card and clicked no state button that does not fit.  It
\* does not matter how often the window was opened and from which card.
\* (handleColumnChange does not read its answer, though Mover changes all
\* three.)
PatientWindowAgrees ==
    Quiet /\ met \cap {"hurry", "loss", "refusal", "others"} = {} =>
        /\ win.labels = issue.labels
        /\ win.due = issue.due
        /\ win.title.title = issue.title
        /\ win.loaded /\ DOMAIN win.comps = DOMAIN comments
        /\ \A id \in DOMAIN comments :
               win.comps[id].body = comments[id] /\ win.comps[id].shown = comments[id]
        /\ "move" \notin met =>
               win.assignee = issue.assignee /\ win.ready = issue.ready
        /\ met \cap {"move", "odd"} = {} => ShownState(win.state) = FullState(issue)

\* The board behind the window follows by replaced cards and by columns that
\* are fetched again: when nothing is under way and nothing overlapped, the
\* card stands once, in its column, as it is now, and an archived card does
\* not stand anywhere, whatever other people changed and however the window
\* was misused.
PatientBoardAgrees ==
    Quiet /\ met \cap {"hurry", "loss"} = {} =>
        cards = Board

\* The server toggles "ready" without being told a value, and creates and
\* deletes comments one by one: these clicks may overtake each other.  A user
\* who has waited only for the first two answers has the right label and the
\* right comments as soon as nothing is under way.
ClicksCommute ==
    Quiet /\ met \cap {"early", "loss", "others", "move"} = {} =>
        win.ready = issue.ready /\ DOMAIN win.comps = DOMAIN comments

\* The comment form is emptied only by the answer: what was submitted stands
\* in the form, is on its way, or is stored, also when requests are lost, as
\* long as no second comment is sent (ctrl-enter) while one is on its way and
\* no other window opened.
SubmittedTextSafe ==
    met \cap {"double", "reopened"} = {} =>
        unsaved \subseteq win.form.text
                    \cup UNION {r.body : r \in {q \in BagToSet(sent) : q.kind = "comment"}}

Saving == win.form.saving \/ \E id \in DOMAIN win.comps : win.comps[id].saving

\* Forms that are pale because their text is being saved are not pale for
\* ever, unless a request was lost, or refused because the comment is gone.
SavingEnds == Saving ~> ~Saving \/ met \cap {"loss", "refusal"} # {}
=============================================================================
