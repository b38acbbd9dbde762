--------------------------- MODULE IssueWindowProofs ---------------------------
(***************************************************************************)
(* What holds of the window, of the board behind it and of the server for  *)
(* every number of columns, users, labels, comments and clicks.            *)
(***************************************************************************)
EXTENDS IssueWindow, OrderLemmas

-----------------------------------------------------------------------------
(* Types.                                                                   *)

\* Clicks that ask for a change, and the fetches of the window and the board.
Changes == {"update", "update_labels", "assignee", "due_date", "move_to",
            "close", "reopen", "archive", "unarchive", "toggle_ready",
            "comment", "delete_comment", "update_comment"}
Fetches == {"show", "comments", "column", "fetch_miniature"}

Names == Users \cup {"", "old", "new", "none", "friday", "form", "box"}

Partial(f, D, R) == f \in [DOMAIN f -> R] /\ DOMAIN f \subseteq D

Calls == [kind : Changes \cup Fetches, name : Names, labels : SUBSET Labels,
          column : Columns \cup {0}, comment : Nat, body : Text,
          mine : BOOLEAN]

CallOK(r) == r \in Calls /\ (r.kind \in {"move_to", "column"} => r.column \in Columns)

\* A request that has not been executed has the name its kind needs.
RequestOK(r) ==
    /\ CallOK(r)
    /\ r.kind = "update" => r.name \in {"old", "new"}
    /\ r.kind = "assignee" => r.name \in Users
    /\ r.kind = "due_date" => r.name \in {"none", "friday"}

AnswerOK(a, last) ==
    /\ a \in [call : Calls, data : Data, comments : {a.comments}]
    /\ CallOK(a.call)
    /\ Partial(a.comments, 1..last, Text)
    /\ a.call.kind = "comment" => a.call.comment \in 1..last

Titles == [title : {"old", "new"}, titleEdit : {"", "old", "new"},
           editing : BOOLEAN]
Forms  == [text : SUBSET Chunks, saving : BOOLEAN]
States == {"open", "closed", "archived", "close", "reopen", "archive", "unarchive"}

WindowOK(w, last) ==
    /\ w \in [inCard : Nat, own : BOOLEAN, loaded : BOOLEAN,
              labels : SUBSET Labels, ready : BOOLEAN, column : Columns,
              current : Columns, assignee : Users \cup {"nobody"},
              due : {"none", "friday"}, state : States, title : Titles,
              comps : {w.comps}, form : Forms]
    /\ Partial(w.comps, 1..last, Component)

TypeInv ==
    /\ issue \in Data
    /\ lastId \in Nat \ {0}
    /\ Partial(comments, 1..lastId, Text)
    /\ issue.count = Cardinality(DOMAIN comments)
    /\ Partial(cards, Columns, Data)
    /\ WindowOK(win, lastId)
    /\ win.inCard \in DOMAIN cards \cup {0}
    /\ IsABag(sent) /\ \A r \in BagToSet(sent) : RequestOK(r)
    /\ IsABag(answers) /\ \A a \in BagToSet(answers) : AnswerOK(a, lastId)
    /\ met \subseteq Incidents /\ unsaved \subseteq Chunks

-----------------------------------------------------------------------------
(* Invariants.                                                              *)

IsComment(r) == r.kind = "comment" /\ r.mine

\* What was submitted and is not stored still stands in the form, and a
\* comment under way brings all of it.
TextInv ==
    met \cap {"double", "reopened"} = {} =>
        /\ unsaved \subseteq win.form.text
        /\ \A r \in BagToSet(sent) : IsComment(r) => unsaved \subseteq r.body
        /\ \A a \in BagToSet(answers) : IsComment(a.call) => unsaved = {}

\* A change the server has not made yet.
Asking(r) == r.kind \in Changes
Alone(r)  == sent = SetToBag({r}) /\ answers = EmptyBag

Miniatures == {"update", "update_labels", "assignee", "due_date", "close",
               "reopen", "unarchive", "toggle_ready", "delete_comment",
               "fetch_miniature", "comment"}

\* The card of this column is right; the column will be fetched again; the
\* answer to a click will be put where the first card stands.
Right(c)    == IF c = issue.column /\ ~issue.archived
               THEN c \in DOMAIN cards /\ cards[c] = issue ELSE c \notin DOMAIN cards
Fetched(c)  == \/ \E r \in BagToSet(sent) : r.kind = "column" /\ r.column = c
               \/ \E a \in BagToSet(answers) : a.call.kind = "column" /\ a.call.column = c
Renewed     == \E a \in BagToSet(answers) : a.call.kind \in Miniatures
Renewing    == \/ Renewed
               \/ \E a \in BagToSet(answers) : a.call.kind = "update_comment"
               \/ \E r \in BagToSet(sent) : r.kind = "fetch_miniature"
Removed     == \E a \in BagToSet(answers) : a.call.kind = "archive"

BoardInv ==
    met \cap {"hurry", "loss"} = {} =>
        /\ \A r \in BagToSet(sent) : Asking(r) =>
               /\ Alone(r) /\ r.mine
               /\ DOMAIN cards = DOMAIN Board
               /\ r.kind \notin {"update_labels", "toggle_ready"} => cards = Board
        /\ \A r \in BagToSet(sent) : r.kind # "column" => r.mine
        /\ \A a \in BagToSet(answers) :
               /\ a.data = issue
               /\ a.call.kind # "column" => a.call.mine
        /\ (\A r \in BagToSet(sent) : ~Asking(r)) =>
               /\ \A c \in Columns :
                      \/ Right(c) \/ Fetched(c)
                      \/ /\ c = issue.column /\ c \in DOMAIN cards
                         /\ IF issue.archived THEN Removed ELSE Renewed
        /\ (Renewing \/ Removed) => DOMAIN cards \subseteq {issue.column}
        /\ Renewing /\ issue.archived => DOMAIN cards = {}
        /\ Removed => issue.archived

\* The window shows this of the issue.
Shows(data) ==
    /\ win.labels = data.labels /\ win.due = data.due
    /\ win.title.title = data.title
    /\ "move" \notin met => win.assignee = data.assignee /\ win.ready = data.ready
    /\ met \cap {"move", "odd"} = {} => ShownState(win.state) = FullState(data)

\* It shows these comments, of some of them still the text of before.
ShowsComments(texts, late) ==
    /\ DOMAIN win.comps = DOMAIN texts
    /\ \A id \in DOMAIN texts :
           /\ win.comps[id].body = texts[id]
           /\ id \notin late => win.comps[id].shown = texts[id]

Late(r) == IF r.kind = "update_comment" /\ r.name = "form" THEN {r.comment} ELSE {}
Fetching(kind) == \/ \E r \in BagToSet(sent) : r.kind = kind /\ r.mine
                  \/ \E a \in BagToSet(answers) : a.call.kind = kind /\ a.call.mine
Without(texts, id) == Restrict(texts, DOMAIN texts \ {id})

\* Without comments it waits for them.
Awaited ==
    ~win.loaded => Fetching("comments") /\ DOMAIN win.comps = {}

\* What is asked for is shown at once, but for a comment that has no id yet.
Asked ==
    \A r \in BagToSet(sent) : Asking(r) =>
        /\ win.loaded /\ Shows(After(issue, r))
        /\ IF r.kind = "comment" THEN ShowsComments(comments, {})
           ELSE ShowsComments(CommentsAfter(r), Late(r))

\* An answer brings what the server has; the comments wait for theirs.
Answered ==
    \A a \in BagToSet(answers) :
        /\ a.call.kind = "comments" => a.comments = comments
        /\ a.call.kind \in {"comment", "update_comment"} =>
               /\ sent = EmptyBag /\ answers = SetToBag({a}) /\ win.loaded
               /\ a.call.comment \in DOMAIN comments
               /\ comments[a.call.comment] = a.call.body
        /\ a.call.kind = "comment" => ShowsComments(Without(comments, a.call.comment), {})
        /\ a.call.kind = "update_comment" => ShowsComments(comments, Late(a.call))

\* When nothing is asked for, the window shows the issue as it is.
Settled ==
    (\A r \in BagToSet(sent) : ~Asking(r)) =>
        /\ Shows(issue)
        /\ \/ \E a \in BagToSet(answers) : a.call.kind \in {"comment", "update_comment"}
           \/ win.loaded => ShowsComments(comments, {})

Tame == met \cap {"hurry", "loss", "refusal", "others"} = {}

PatientInv == Tame => Awaited /\ Asked /\ Answered /\ Settled

\* The first fetches, of which each is made once.
Starting(kind) ==
    \/ /\ Copies(Request(kind), sent) = 1
       /\ \A a \in BagToSet(answers) : a.call.kind # kind
    \/ /\ \A r \in BagToSet(sent) : r.kind # kind
       /\ \E a \in BagToSet(answers) :
              /\ a.call.kind = kind /\ Copies(a, answers) = 1
              /\ \A b \in BagToSet(answers) : b.call.kind = kind => b = a
Idle(kind) == /\ \A r \in BagToSet(sent) : r.kind # kind
              /\ \A a \in BagToSet(answers) : a.call.kind # kind
Begun(kind, done) == IF done THEN Idle(kind) ELSE Starting(kind)
Began == Begun("show", win.own) /\ Begun("comments", win.loaded)

\* All calls are this window's; nothing else is asked for before both answers.
OwnCalls ==
    /\ \A r \in BagToSet(sent) :
           /\ r.kind # "column" => r.mine
           /\ r.kind # "move_to"
           /\ r.kind \in {"show", "comments", "toggle_ready"} => r = Request(r.kind)
    /\ \A a \in BagToSet(answers) : a.call.kind # "column" => a.call.mine
FetchesFirst ==
    ~(win.own /\ win.loaded) =>
        /\ \A r \in BagToSet(sent) : r.kind \in {"show", "comments"}
        /\ \A a \in BagToSet(answers) :
               /\ a.call.kind \in {"show", "comments"}
               /\ a.call.kind = "show" => a.data.ready = issue.ready
               /\ a.call.kind = "comments" => a.comments = comments

\* The server will toggle "ready" as often as the window is ahead of it.
Odd(n) == n % 2 = 1
Toggles == Copies(Request("toggle_ready"), sent)
ReadyAhead == win.own => (win.ready # issue.ready <=> Odd(Toggles))

\* Comments that are to be deleted, and new ones whose id is on its way.
Deleted == {r.comment : r \in {q \in BagToSet(sent) : q.kind = "delete_comment"}}
Created == {a.call.comment : a \in {b \in BagToSet(answers) : b.call.kind = "comment"}}
CommentsAhead ==
    win.loaded => /\ DOMAIN win.comps \cup Created = DOMAIN comments \ Deleted
                  /\ DOMAIN win.comps \cap Created = {}
                  /\ Deleted \subseteq DOMAIN comments
DeletedOnce ==
    \A r \in BagToSet(sent) : r.kind = "delete_comment" =>
        /\ Copies(r, sent) = 1
        /\ \A q \in BagToSet(sent) :
               q.kind = "delete_comment" /\ q.comment = r.comment => q = r
CreatedOnce ==
    \A a \in BagToSet(answers) : a.call.kind = "comment" =>
        /\ Copies(a, answers) = 1
        /\ \A b \in BagToSet(answers) :
               b.call.kind = "comment" /\ b.call.comment = a.call.comment => b = a

Apart == met \cap {"early", "loss", "others", "move"} = {}

CommuteInv == Apart => /\ Began /\ OwnCalls /\ FetchesFirst /\ ReadyAhead
                       /\ CommentsAhead /\ DeletedOnce /\ CreatedOnce

-----------------------------------------------------------------------------
(* Bags.                                                                    *)

\* What stands together in two bags.
LEMMA TogetherBag ==
    ASSUME NEW A, NEW B, IsABag(A), IsABag(B)
    PROVE  /\ IsABag(A (+) B)
           /\ BagToSet(A (+) B) = BagToSet(A) \cup BagToSet(B)
           /\ \A e : Copies(e, A (+) B) = Copies(e, A) + Copies(e, B)
<1>1. BagToSet(A (+) B) = BagToSet(A) \cup BagToSet(B)
  BY DEF BagToSet, (+)
<1>2. \A e : Copies(e, A) \in Nat /\ Copies(e, B) \in Nat
  BY DEF Copies, BagIn, BagToSet, IsABag
<1>3. \A e : Copies(e, A (+) B) = Copies(e, A) + Copies(e, B)
  BY DEF Copies, BagIn, BagToSet, IsABag, (+)
<1>4. IsABag(A (+) B)
  BY DEF IsABag, (+)
<1> QED BY <1>1, <1>3, <1>4

\* A call of its own is one copy.
LEMMA OneInBag ==
    ASSUME NEW r
    PROVE  /\ IsABag(SetToBag({r})) /\ BagToSet(SetToBag({r})) = {r}
           /\ Copies(r, SetToBag({r})) = 1
           /\ \A e : e # r => Copies(e, SetToBag({r})) = 0
BY DEF IsABag, SetToBag, BagToSet, Copies, BagIn

\* A call more.
LEMMA OneMore ==
    ASSUME NEW B, IsABag(B), NEW r
    PROVE  /\ IsABag(B (+) SetToBag({r}))
           /\ BagToSet(B (+) SetToBag({r})) = BagToSet(B) \cup {r}
           /\ Copies(r, B (+) SetToBag({r})) = Copies(r, B) + 1
           /\ \A e : e # r => Copies(e, B (+) SetToBag({r})) = Copies(e, B)
<1> DEFINE S == SetToBag({r})
<1>1. \A e : Copies(e, B) \in Nat
  BY DEF Copies, BagIn, BagToSet, IsABag
<1>2. /\ IsABag(S) /\ BagToSet(S) = {r} /\ Copies(r, S) = 1
      /\ \A e : e # r => Copies(e, S) = 0
  BY OneInBag
<1> HIDE DEF S
<1>3. /\ IsABag(B (+) S) /\ BagToSet(B (+) S) = BagToSet(B) \cup BagToSet(S)
      /\ \A e : Copies(e, B (+) S) = Copies(e, B) + Copies(e, S)
  BY <1>2, TogetherBag
<1>4. BagToSet(B (+) S) = BagToSet(B) \cup {r}
  BY <1>2, <1>3
<1>5. Copies(r, B (+) S) = Copies(r, B) + 1
  BY <1>2, <1>3
<1>6. \A e : e # r => Copies(e, B (+) S) = Copies(e, B)
  BY <1>1, <1>2, <1>3
<1> QED BY <1>3, <1>4, <1>5, <1>6, Zenon DEF S

\* A call less: the others stay as they are.
LEMMA OneLess ==
    ASSUME NEW B, IsABag(B), NEW r \in BagToSet(B)
    PROVE  /\ IsABag(B (-) SetToBag({r}))
           /\ BagToSet(B (-) SetToBag({r})) \subseteq BagToSet(B)
           /\ BagToSet(B) \ {r} \subseteq BagToSet(B (-) SetToBag({r}))
           /\ Copies(r, B (-) SetToBag({r})) = Copies(r, B) - 1
           /\ \A e : e # r => Copies(e, B (-) SetToBag({r})) = Copies(e, B)
           /\ Copies(r, B) = 1 => r \notin BagToSet(B (-) SetToBag({r}))
<1> DEFINE D == [e \in DOMAIN B |-> IF e \in DOMAIN SetToBag({r})
                                    THEN B[e] - SetToBag({r})[e] ELSE B[e]]
           R == [e \in {d \in DOMAIN D : D[d] > 0} |-> D[e]]
<1>1. B (-) SetToBag({r}) = R
  BY DEF (-)
<1>2. DOMAIN SetToBag({r}) = {r} /\ SetToBag({r})[r] = 1
  BY DEF SetToBag
<1>3. \A e \in DOMAIN B : B[e] \in Nat /\ B[e] > 0
  BY DEF IsABag
<1>4. r \in DOMAIN B
  BY DEF BagToSet
<1>5. DOMAIN D = DOMAIN B /\ D[r] = B[r] - 1 /\ \A e \in DOMAIN B \ {r} : D[e] = B[e]
  BY <1>2, <1>4
<1> HIDE DEF D
<1>6. DOMAIN R = {d \in DOMAIN D : D[d] > 0} /\ \A e \in DOMAIN R : R[e] = D[e]
  OBVIOUS
<1>7. IsABag(R)
  <2>1. \A e \in DOMAIN R : R[e] \in {n \in Nat : n > 0}
    BY <1>3, <1>4, <1>5, <1>6
  <2> QED BY <2>1 DEF IsABag
<1> HIDE DEF R
<1>8. DOMAIN R \subseteq DOMAIN B /\ DOMAIN B \ {r} \subseteq DOMAIN R
  BY <1>3, <1>5, <1>6
<1>9. Copies(r, R) = Copies(r, B) - 1
  BY <1>3, <1>4, <1>5, <1>6 DEF Copies, BagIn, BagToSet
<1>10. \A e : e # r => Copies(e, R) = Copies(e, B)
  BY <1>3, <1>5, <1>6, <1>8 DEF Copies, BagIn, BagToSet
<1>11. Copies(r, B) = 1 => r \notin DOMAIN R
  BY <1>4, <1>5, <1>6 DEF Copies, BagIn, BagToSet
<1> QED BY <1>1, <1>7, <1>8, <1>9, <1>10, <1>11 DEF BagToSet

\* Nothing is under way.
LEMMA NoneInBag == IsABag(EmptyBag) /\ BagToSet(EmptyBag) = {}
BY DEF IsABag, EmptyBag, SetToBag, BagToSet

\* A bag without members is the empty one.
LEMMA EmptyOfNone ==
    ASSUME NEW B, IsABag(B), BagToSet(B) = {} PROVE B = EmptyBag
BY DEF IsABag, EmptyBag, SetToBag, BagToSet

\* The last call is taken.
LEMMA LastOfBag ==
    ASSUME NEW r
    PROVE  SetToBag({r}) (-) SetToBag({r}) = EmptyBag
<1>1. IsABag(SetToBag({r})) /\ BagToSet(SetToBag({r})) = {r} /\ Copies(r, SetToBag({r})) = 1
  BY OneInBag
<1>2. BagToSet(SetToBag({r}) (-) SetToBag({r})) = {} /\ IsABag(SetToBag({r}) (-) SetToBag({r}))
  BY <1>1, OneLess
<1> QED BY <1>2, EmptyOfNone

\* The first call.
LEMMA FirstOfBag ==
    ASSUME NEW r PROVE EmptyBag (+) SetToBag({r}) = SetToBag({r})
BY DEF EmptyBag, SetToBag, (+)

\* A bag added to nothing.
LEMMA AddedToNone ==
    ASSUME NEW B, IsABag(B) PROVE EmptyBag (+) B = B
BY DEF EmptyBag, SetToBag, (+), IsABag

\* The calls of the window before are those of nobody.
LEMMA OrphansAre ==
    ASSUME NEW B, IsABag(B), \A r \in BagToSet(B) : r \in Calls
    PROVE  /\ IsABag(Orphans(B))
           /\ BagToSet(Orphans(B)) = {Orphan(r) : r \in BagToSet(B)}
<1> DEFINE S == {Orphan(r) : r \in BagToSet(B)}
<1>1. \A e : Copies(e, B) \in Nat /\ (e \in BagToSet(B) => Copies(e, B) > 0)
  BY DEF Copies, BagIn, BagToSet, IsABag
<1>2. ASSUME NEW r \in BagToSet(B)
      PROVE  Orphan(r) = r \/ [Orphan(r) EXCEPT !.mine = TRUE] = r
  <2>1. PICK q \in Calls : q = r
    OBVIOUS
  <2>2. CASE q.mine
    <3>1. [Orphan(q) EXCEPT !.mine = TRUE] = q
      BY <2>2 DEF Orphan, Calls
    <3> QED BY <2>1, <3>1
  <2>3. CASE ~q.mine
    <3>1. Orphan(q) = q
      BY <2>3 DEF Orphan, Calls
    <3> QED BY <2>1, <3>1
  <2> QED BY <2>2, <2>3
<1>3. ASSUME NEW e \in S PROVE Copies(e, B) + Copies([e EXCEPT !.mine = TRUE], B) \in {n \in Nat : n > 0}
  <2>1. PICK r \in BagToSet(B) : e = Orphan(r)
    OBVIOUS
  <2>2. e = r \/ [e EXCEPT !.mine = TRUE] = r
    BY <1>2, <2>1
  <2>3. Copies(e, B) > 0 \/ Copies([e EXCEPT !.mine = TRUE], B) > 0
    BY <1>1, <2>2
  <2>4. Copies(e, B) \in Nat /\ Copies([e EXCEPT !.mine = TRUE], B) \in Nat
    BY <1>1
  <2> QED BY <2>3, <2>4
<1>4. DOMAIN Orphans(B) = S /\ \A e \in S : Orphans(B)[e] = Copies(e, B) + Copies([e EXCEPT !.mine = TRUE], B)
  BY DEF Orphans
<1>5. Orphans(B) \in [S -> {n \in Nat : n > 0}]
  <2> HIDE DEF S
  <2>1. \A e \in S : Orphans(B)[e] \in {n \in Nat : n > 0}
    BY <1>3, <1>4
  <2>2. Orphans(B) = [e \in S |-> Orphans(B)[e]]
    BY <1>4 DEF Orphans, S
  <2> QED BY <2>1, <2>2
<1> QED BY <1>4, <1>5 DEF IsABag, BagToSet

\* So are the answers to them.
LEMMA OrphanAnswersAre ==
    ASSUME NEW B, IsABag(B), NEW n, \A a \in BagToSet(B) : AnswerOK(a, n)
    PROVE  /\ IsABag(OrphanAnswers(B))
           /\ BagToSet(OrphanAnswers(B)) = {OrphanAnswer(a) : a \in BagToSet(B)}
<1> DEFINE S == {OrphanAnswer(a) : a \in BagToSet(B)}
           Back(e) == [e EXCEPT !.call.mine = TRUE]
<1>1. \A e : Copies(e, B) \in Nat /\ (e \in BagToSet(B) => Copies(e, B) > 0)
  BY DEF Copies, BagIn, BagToSet, IsABag
<1>2. ASSUME NEW a \in BagToSet(B)
      PROVE  OrphanAnswer(a) = a \/ Back(OrphanAnswer(a)) = a
  <2>1. a \in [call : Calls, data : Data, comments : {a.comments}]
    BY DEF AnswerOK
  <2>2. a.call \in Calls
    BY <2>1
  <2>3. OrphanAnswer(a) = [a EXCEPT !.call = [a.call EXCEPT !.mine = FALSE]]
    BY DEF OrphanAnswer, Orphan
  <2>4. CASE a.call.mine
    <3>1. [[a.call EXCEPT !.mine = FALSE] EXCEPT !.mine = TRUE] = a.call
      BY <2>2, <2>4 DEF Calls
    <3>2. Back(OrphanAnswer(a)) = [a EXCEPT !.call = [[a.call EXCEPT !.mine = FALSE] EXCEPT !.mine = TRUE]]
      BY <2>1, <2>2, <2>3
    <3>3. [a EXCEPT !.call = a.call] = a
      BY <2>1
    <3> QED BY <3>1, <3>2, <3>3
  <2>5. CASE ~a.call.mine
    <3>1. [a.call EXCEPT !.mine = FALSE] = a.call
      BY <2>2, <2>5 DEF Calls
    <3>2. [a EXCEPT !.call = a.call] = a
      BY <2>1
    <3> QED BY <2>3, <3>1, <3>2
  <2> QED BY <2>4, <2>5
<1>3. ASSUME NEW e \in S PROVE Copies(e, B) + Copies(Back(e), B) \in {m \in Nat : m > 0}
  <2>1. PICK a \in BagToSet(B) : e = OrphanAnswer(a)
    OBVIOUS
  <2>2. e = a \/ Back(e) = a
    BY <1>2, <2>1
  <2> HIDE DEF Back, S
  <2>3. Copies(e, B) > 0 \/ Copies(Back(e), B) > 0
    BY <1>1, <2>2
  <2>4. Copies(e, B) \in Nat /\ Copies(Back(e), B) \in Nat
    BY <1>1
  <2> QED BY <2>3, <2>4
<1>4. DOMAIN OrphanAnswers(B) = S /\ \A e \in S : OrphanAnswers(B)[e] = Copies(e, B) + Copies(Back(e), B)
  BY DEF OrphanAnswers
<1>5. OrphanAnswers(B) \in [S -> {m \in Nat : m > 0}]
  <2>1. OrphanAnswers(B) = [e \in S |-> OrphanAnswers(B)[e]]
    BY <1>4 DEF OrphanAnswers, S
  <2> HIDE DEF S, Back
  <2>2. \A e \in S : OrphanAnswers(B)[e] \in {m \in Nat : m > 0}
    BY <1>3, <1>4
  <2> QED BY <2>1, <2>2
<1> QED BY <1>4, <1>5 DEF IsABag, BagToSet

-----------------------------------------------------------------------------
(* The window.                                                              *)

\* Two windows look the same, but for drafts and for the column marked.
Alike(v, w) ==
    /\ v.own = w.own /\ v.loaded = w.loaded
    /\ v.labels = w.labels /\ v.ready = w.ready /\ v.assignee = w.assignee
    /\ v.due = w.due /\ v.state = w.state /\ v.title = w.title /\ v.form = w.form
    /\ DOMAIN v.comps = DOMAIN w.comps
    /\ \A id \in DOMAIN w.comps : /\ v.comps[id].body = w.comps[id].body
                                  /\ v.comps[id].shown = w.comps[id].shown

\* A render shows what the state says.
LEMMA RenderKeeps ==
    ASSUME NEW w, NEW n, WindowOK(w, n)
    PROVE  /\ WindowOK(Render(w), n) /\ Alike(Render(w), w)
           /\ Render(w).inCard = w.inCard
<1> DEFINE Redraft(id) == [w.comps[id] EXCEPT !.draft = IF w.comps[id].editing
                                        THEN w.comps[id].body ELSE @]
           c == [id \in DOMAIN w.comps |-> Redraft(id)]
<1>1. Render(w) = [w EXCEPT !.current = w.column, !.comps = c]
  BY DEF Render
<1>2. ASSUME NEW id \in DOMAIN w.comps
      PROVE  /\ Redraft(id) \in Component
             /\ Redraft(id).body = w.comps[id].body
             /\ Redraft(id).shown = w.comps[id].shown
  <2>1. w.comps[id] \in Component
    BY DEF WindowOK, Partial
  <2> QED BY <2>1 DEF Component
<1>3. DOMAIN c = DOMAIN w.comps /\ \A id \in DOMAIN w.comps : c[id] = Redraft(id)
  OBVIOUS
<1>4. Partial(c, 1..n, Component)
  <2>1. DOMAIN w.comps \subseteq 1..n
    BY DEF WindowOK, Partial
  <2> QED BY <1>2, <2>1 DEF Partial
<1> HIDE DEF c, Redraft
<1>5. /\ w.column \in Columns
      /\ w \in [inCard : Nat, own : BOOLEAN, loaded : BOOLEAN,
              labels : SUBSET Labels, ready : BOOLEAN, column : Columns,
              current : Columns, assignee : Users \cup {"nobody"},
              due : {"none", "friday"}, state : States, title : Titles,
              comps : {w.comps}, form : Forms]
  BY DEF WindowOK
<1>6. Render(w).comps = c
  BY <1>1, <1>5
<1>7. WindowOK(Render(w), n)
  BY <1>1, <1>4, <1>5, <1>6 DEF WindowOK
<1>8. Alike(Render(w), w) /\ Render(w).inCard = w.inCard
  BY <1>1, <1>2, <1>3, <1>5, <1>6 DEF Alike
<1> QED BY <1>7, <1>8

\* A window that loses the card it held looks as before.
LEMMA DetachedKeeps ==
    ASSUME NEW w, NEW n, WindowOK(w, n), NEW c
    PROVE  /\ WindowOK(Detached(w, c), n) /\ Alike(Detached(w, c), w)
           /\ Detached(w, c).inCard = IF w.inCard = c THEN 0 ELSE w.inCard
BY DEF WindowOK, Alike, Detached

\* The first card is one of the board.
LEMMA FirstCardStands ==
    ASSUME TypeInv, DOMAIN cards # {} PROVE FirstCard \in DOMAIN cards
<1>1. DOMAIN cards \in SUBSET Nat
  BY WindowAssumption DEF WindowAssumption, TypeInv, Partial
<1>2. \E m \in DOMAIN cards : \A c \in DOMAIN cards : m <= c
  BY <1>1, LeastNatural
<1> QED BY <1>2 DEF FirstCard, Min

\* The card of the issue is replaced where it stands.
LEMMA CardReplaced ==
    ASSUME TypeInv, NEW w, NEW n, WindowOK(w, n),
           w.inCard \in DOMAIN cards \cup {0},
           NEW data \in Data, ReplaceCard(w, data)
    PROVE  /\ WindowOK(win', n) /\ Alike(win', w)
           /\ win'.inCard \in DOMAIN cards' \cup {0}
           /\ Partial(cards', Columns, Data) /\ DOMAIN cards' = DOMAIN cards
           /\ DOMAIN cards # {} => /\ FirstCard \in DOMAIN cards
                                   /\ cards' = [cards EXCEPT ![FirstCard] = data]
           /\ DOMAIN cards = {} => cards' = cards
<1>1. Partial(cards, Columns, Data)
  BY DEF TypeInv
<1>2. CASE DOMAIN cards = {}
  <2>1. cards' = cards /\ win' = w
    BY <1>2 DEF ReplaceCard
  <2> QED BY <1>1, <1>2, <2>1 DEF Alike
<1>3. CASE DOMAIN cards # {}
  <2>1. cards' = [cards EXCEPT ![FirstCard] = data] /\ win' = Detached(w, FirstCard)
    BY <1>3 DEF ReplaceCard
  <2>2. FirstCard \in DOMAIN cards
    BY <1>3, FirstCardStands
  <2>3. WindowOK(win', n) /\ Alike(win', w) /\ win'.inCard \in DOMAIN cards \cup {0}
    BY <2>1, DetachedKeeps
  <2>4. DOMAIN cards' = DOMAIN cards /\ Partial(cards', Columns, Data)
    BY <1>1, <2>1, <2>2 DEF Partial
  <2> QED BY <1>3, <2>1, <2>2, <2>3, <2>4
<1> QED BY <1>2, <1>3

\* The card of the issue is taken off the board.
LEMMA CardRemoved ==
    ASSUME TypeInv, RemoveCard(win)
    PROVE  /\ WindowOK(win', lastId) /\ Alike(win', win)
           /\ win'.inCard \in DOMAIN cards' \cup {0}
           /\ Partial(cards', Columns, Data)
           /\ DOMAIN cards # {} => /\ FirstCard \in DOMAIN cards
                                   /\ DOMAIN cards' = DOMAIN cards \ {FirstCard}
           /\ DOMAIN cards = {} => cards' = cards
           /\ \A c \in DOMAIN cards' : cards'[c] = cards[c]
<1>1. Partial(cards, Columns, Data) /\ WindowOK(win, lastId) /\ win.inCard \in DOMAIN cards \cup {0}
  BY DEF TypeInv
<1>2. CASE DOMAIN cards = {}
  <2>1. cards' = cards /\ win' = win
    BY <1>2 DEF RemoveCard
  <2> QED BY <1>1, <1>2, <2>1 DEF Alike
<1>3. CASE DOMAIN cards # {}
  <2>1. cards' = Restrict(cards, DOMAIN cards \ {FirstCard}) /\ win' = Detached(win, FirstCard)
    BY <1>3 DEF RemoveCard
  <2>2. FirstCard \in DOMAIN cards
    BY <1>3, FirstCardStands
  <2>3. DOMAIN cards' = DOMAIN cards \ {FirstCard} /\ \A c \in DOMAIN cards' : cards'[c] = cards[c]
    BY <2>1 DEF Restrict
  <2>4. Partial(cards', Columns, Data)
    BY <1>1, <2>1, <2>3 DEF Partial, Restrict
  <2>5. WindowOK(win', lastId) /\ Alike(win', win) /\ win'.inCard \in DOMAIN cards' \cup {0}
    BY <1>1, <2>1, <2>3, DetachedKeeps
  <2> QED BY <1>3, <2>1, <2>2, <2>3, <2>4, <2>5
<1> QED BY <1>2, <1>3

\* A column is fetched again.
LEMMA ColumnReplaced ==
    ASSUME TypeInv, NEW column \in Columns, NEW data \in Data, ReplaceColumn(column, data)
    PROVE  /\ WindowOK(win', lastId) /\ Alike(win', win)
           /\ win'.inCard \in DOMAIN cards' \cup {0}
           /\ Partial(cards', Columns, Data)
           /\ \A c \in Columns \ {column} :
                  /\ c \in DOMAIN cards' <=> c \in DOMAIN cards
                  /\ c \in DOMAIN cards => cards'[c] = cards[c]
           /\ column \in DOMAIN cards' <=> data.column = column /\ ~data.archived
           /\ column \in DOMAIN cards' => cards'[column] = data
<1>1. Partial(cards, Columns, Data) /\ WindowOK(win, lastId) /\ win.inCard \in DOMAIN cards \cup {0}
  BY DEF TypeInv
<1>2. win' = Detached(win, column)
  BY DEF ReplaceColumn
<1>3. WindowOK(win', lastId) /\ Alike(win', win) /\ win'.inCard = IF win.inCard = column THEN 0 ELSE win.inCard
  BY <1>1, <1>2, DetachedKeeps
<1>4. CASE data.column = column /\ ~data.archived
  <2>1. cards' = [z \in DOMAIN cards \cup {column} |-> IF z = column THEN data ELSE cards[z]]
    BY <1>4 DEF ReplaceColumn, With
  <2>2. DOMAIN cards' = DOMAIN cards \cup {column}
    BY <2>1
  <2>3. Partial(cards', Columns, Data)
    BY <1>1, <2>1, <2>2 DEF Partial
  <2> QED BY <1>1, <1>3, <1>4, <2>1, <2>2, <2>3
<1>5. CASE ~(data.column = column /\ ~data.archived)
  <2>1. cards' = [z \in DOMAIN cards \ {column} |-> cards[z]]
    BY <1>5 DEF ReplaceColumn, Restrict
  <2>2. DOMAIN cards' = DOMAIN cards \ {column}
    BY <2>1
  <2>3. Partial(cards', Columns, Data)
    BY <1>1, <2>1, <2>2 DEF Partial
  <2> QED BY <1>1, <1>3, <1>5, <2>1, <2>2, <2>3
<1> QED BY <1>4, <1>5

\* The list of comments: one that stays keeps its component.
LEMMA CommentsShown ==
    ASSUME NEW w, NEW n, WindowOK(w, n), NEW texts, Partial(texts, 1..n, Text)
    PROVE  LET v == ShowComments(w, texts) IN
           /\ WindowOK(v, n) /\ v = [w EXCEPT !.comps = v.comps]
           /\ v.inCard = w.inCard
           /\ DOMAIN v.comps = DOMAIN texts
           /\ \A id \in DOMAIN texts :
                  v.comps[id] = IF id \in DOMAIN w.comps THEN w.comps[id]
                                ELSE FreshComment(texts[id])
<1> DEFINE c == [id \in DOMAIN texts |->
                 IF id \in DOMAIN w.comps THEN w.comps[id]
                 ELSE FreshComment(texts[id])]
           v == ShowComments(w, texts)
<1>1. v = [w EXCEPT !.comps = c]
  BY DEF ShowComments
<1>2. DOMAIN c = DOMAIN texts /\ \A id \in DOMAIN texts : c[id] = IF id \in DOMAIN w.comps THEN w.comps[id]
                 ELSE FreshComment(texts[id])
  OBVIOUS
<1>3. Partial(c, 1..n, Component)
  <2>1. \A id \in DOMAIN w.comps : w.comps[id] \in Component
    BY DEF WindowOK, Partial
  <2>2. \A id \in DOMAIN texts : FreshComment(texts[id]) \in Component
    BY DEF Partial, FreshComment, Component
  <2> QED BY <2>1, <2>2 DEF Partial
<1> HIDE DEF c
<1>4. v.comps = c
  BY <1>1 DEF WindowOK
<1>5. WindowOK(v, n) /\ v.inCard = w.inCard
  BY <1>1, <1>3, <1>4 DEF WindowOK
<1> QED BY <1>1, <1>2, <1>4, <1>5

-----------------------------------------------------------------------------
(* What a click does: it asks for one change, and the window shows what it  *)
(* will be.                                                                 *)

StateButtons == {"close", "reopen", "archive", "unarchive"}
Sensible(state) ==
    CASE state = "close"     -> ~issue.closed /\ ~issue.archived
      [] state = "unarchive" -> issue.closed /\ issue.archived
      [] OTHER               -> issue.closed /\ ~issue.archived

\* The request.
Asks(r) ==
    /\ RequestOK(r) /\ r.kind \in Changes /\ r.mine
    /\ sent' = sent (+) SetToBag({r})
    /\ UNCHANGED <<issue, comments, lastId, answers, uses>>
    /\ met \subseteq met' /\ met' \subseteq Incidents
    /\ Quiet \/ "hurry" \in met'
    /\ (win.own /\ win.loaded) \/ "early" \in met'
    /\ r.kind = "move_to" => "move" \in met'
    /\ r.kind \in StateButtons => (Sensible(r.kind) \/ "odd" \in met')
    /\ r.kind = "comment" => (~Posting \/ "double" \in met')
    /\ r.kind = "toggle_ready" => r = Request("toggle_ready")

\* The board: labels and "ready" of a card may be the new ones already.
Marks(r) ==
    /\ Partial(cards', Columns, Data) /\ DOMAIN cards' = DOMAIN cards
    /\ r.kind \notin {"update_labels", "toggle_ready"} => cards' = cards

\* The form of a new comment.
Submits(r) ==
    /\ win'.form.text = win.form.text
    /\ IF r.kind = "comment"
       THEN unsaved' = unsaved \cup win.form.text /\ r.body = win.form.text
       ELSE unsaved' = unsaved

\* The fields of the issue.
Sets(r) ==
    /\ win'.own = win.own /\ win'.loaded = win.loaded
    /\ win'.labels = IF r.kind = "update_labels" THEN r.labels ELSE win.labels
    /\ win'.due = IF r.kind = "due_date" THEN r.name ELSE win.due
    /\ win'.title.title = IF r.kind = "update" THEN r.name ELSE win.title.title
    /\ win'.ready = IF r.kind = "toggle_ready" THEN ~win.ready ELSE win.ready
    /\ win'.assignee = IF r.kind = "assignee"
                       THEN IF win.assignee = r.name THEN "nobody" ELSE r.name
                       ELSE win.assignee
    /\ win'.state = IF r.kind \in StateButtons THEN r.kind ELSE win.state

\* The comments.
SameComments == /\ DOMAIN win'.comps = DOMAIN win.comps
                /\ \A id \in DOMAIN win.comps :
                       /\ win'.comps[id].body = win.comps[id].body
                       /\ win'.comps[id].shown = win.comps[id].shown
Rewrites(r) ==
    /\ r.comment \in DOMAIN win.comps
    /\ DOMAIN win'.comps = DOMAIN win.comps
    /\ win'.comps[r.comment].body = r.body
    /\ IF r.name = "form"
       THEN win'.comps[r.comment].shown = win.comps[r.comment].shown
       ELSE win.comps[r.comment].shown = win.comps[r.comment].body
                => win'.comps[r.comment].shown = r.body
    /\ \A id \in DOMAIN win.comps \ {r.comment} :
           /\ win'.comps[id].body = win.comps[id].body
           /\ win'.comps[id].shown = win.comps[id].shown
Deletes(r) ==
    /\ r.comment \in DOMAIN win.comps
    /\ DOMAIN win'.comps = DOMAIN win.comps \ {r.comment}
    /\ \A id \in DOMAIN win'.comps :
           /\ win'.comps[id].body = win.comps[id].body
           /\ win'.comps[id].shown = win.comps[id].shown
Edits(r) == CASE r.kind = "update_comment" -> Rewrites(r)
              [] r.kind = "delete_comment" -> Deletes(r)
              [] OTHER -> SameComments

Does(r) == /\ Asks(r) /\ Marks(r) /\ Submits(r) /\ Sets(r) /\ Edits(r)
           /\ WindowOK(win', lastId) /\ win'.inCard = win.inCard
           /\ unsaved' \subseteq Chunks

\* The request of a click.
LEMMA ClickAsks ==
    ASSUME TypeInv, NEW r, RequestOK(r), r.kind \in Changes, r.mine,
           NEW inc \in SUBSET Incidents, Ask(r, inc),
           r.kind = "move_to" => "move" \in inc,
           r.kind \in StateButtons => (Sensible(r.kind) \/ "odd" \in inc),
           r.kind = "comment" => (~Posting \/ "double" \in inc),
           r.kind = "toggle_ready" => r = Request("toggle_ready")
    PROVE  Asks(r)
<1>1. met' = met \cup inc \cup (IF Quiet THEN {} ELSE {"hurry"})
                  \cup (IF win.own /\ win.loaded THEN {} ELSE {"early"})
  BY DEF Ask
<1>2. met \subseteq met' /\ inc \subseteq met' /\ met' \subseteq Incidents
  BY <1>1 DEF TypeInv, Incidents
<1>3. (Quiet \/ "hurry" \in met') /\ ((win.own /\ win.loaded) \/ "early" \in met')
  BY <1>1
<1>4. /\ sent' = sent (+) SetToBag({r})
      /\ UNCHANGED <<issue, comments, lastId, answers, uses>>
  BY DEF Ask, server
<1> QED BY <1>2, <1>3, <1>4 DEF Asks

\* The request each kind sends, its arguments apart.
LEMMA RequestTyped ==
    ASSUME NEW kind \in Changes \cup Fetches, kind \notin {"move_to", "column", "update", "assignee", "due_date"}
    PROVE  RequestOK(Request(kind)) /\ Request(kind).mine /\ Request(kind).kind = kind
BY DEF RequestOK, CallOK, Calls, Request, Names, Text

\* Enter in the title.
LEMMA TitleDoes ==
    ASSUME TypeInv, HandleKeyDown
    PROVE  \E r : Does(r)
<1> DEFINE r == [Request("update") EXCEPT !.name = win.title.titleEdit]
           t == HandleEditTitleClick([win.title EXCEPT !.title = win.title.titleEdit])
<1>1. WindowOK(win, lastId) /\ Partial(cards, Columns, Data) /\ unsaved \subseteq Chunks
  BY DEF TypeInv
<1>2. win.title \in Titles /\ win.title.titleEdit \in {"old", "new"}
  BY <1>1 DEF HandleKeyDown, WindowOK, Titles
<1>3. RequestOK(r) /\ r.kind = "update" /\ r.mine /\ r.name = win.title.titleEdit
  BY <1>2 DEF RequestOK, CallOK, Calls, Request, Names, Text, Changes
<1>4. Ask(r, {}) /\ cards' = cards /\ unsaved' = unsaved
  BY DEF HandleKeyDown, HandleUpdateTitle
<1>5. t \in Titles /\ t.title = win.title.titleEdit
  BY <1>2 DEF HandleEditTitleClick, Titles
<1>6. win' = [win EXCEPT !.title = t]
  BY DEF HandleKeyDown
<1> HIDE DEF r, t
<1>7. WindowOK(win', lastId)
  BY <1>1, <1>5, <1>6 DEF WindowOK
<1>8. Asks(r)
  BY <1>3, <1>4, ClickAsks DEF Changes, StateButtons, Incidents
<1>9. Marks(r) /\ Submits(r) /\ Sets(r) /\ Edits(r) /\ win'.inCard = win.inCard
  BY <1>1, <1>3, <1>4, <1>5, <1>6
     DEF Marks, Submits, Sets, Edits, SameComments, WindowOK, StateButtons
<1> QED BY <1>1, <1>4, <1>7, <1>8, <1>9 DEF Does

\* A window rendered after a change of its fields.
LEMMA RenderedAlike ==
    ASSUME NEW w, NEW n, WindowOK(w, n), win' = Render(w), w.inCard = win.inCard
    PROVE  WindowOK(win', n) /\ Alike(win', w) /\ win'.inCard = win.inCard
BY RenderKeeps

\* A label.
LEMMA LabelDoes ==
    ASSUME TypeInv, NEW l \in Labels, ChangeLabel(l)
    PROVE  \E r : Does(r)
<1> DEFINE s == IF l \notin win.labels THEN win.labels \cup {l} ELSE win.labels \ {l}
           r == [Request("update_labels") EXCEPT !.labels = s]
           w == [win EXCEPT !.labels = s]
<1>1. WindowOK(win, lastId) /\ Partial(cards, Columns, Data) /\ unsaved \subseteq Chunks
  BY DEF TypeInv
<1>2. s \in SUBSET Labels
  BY <1>1 DEF WindowOK
<1>3. RequestOK(r) /\ r.kind = "update_labels" /\ r.mine /\ r.labels = s
  BY <1>2 DEF RequestOK, CallOK, Calls, Request, Names, Text, Changes
<1>4. Ask(r, {}) /\ unsaved' = unsaved /\ win' = Render(w)
  BY DEF ChangeLabel, HandleLabelChange
<1>5. cards' = [c \in DOMAIN cards |-> IF c = win.inCard THEN [cards[c] EXCEPT !.labels = s] ELSE cards[c]]
  BY DEF ChangeLabel, HandleLabelChange
<1> HIDE DEF r, s
<1>6. /\ WindowOK(w, lastId) /\ w.inCard = win.inCard
      /\ w.labels = s
  BY <1>1, <1>2 DEF WindowOK
<1>7. WindowOK(win', lastId) /\ Alike(win', w) /\ win'.inCard = win.inCard
  <2> HIDE DEF w
  <2> QED BY <1>4, <1>6, RenderedAlike
<1>8. Asks(r)
  BY <1>3, <1>4, ClickAsks DEF Changes, StateButtons, Incidents
<1>9. Marks(r)
  <2>1. \A c \in DOMAIN cards : cards[c] \in Data
    BY <1>1 DEF Partial
  <2>2. \A c \in DOMAIN cards : [cards[c] EXCEPT !.labels = s] \in Data
    BY <1>2, <2>1 DEF Data
  <2>3. DOMAIN cards' = DOMAIN cards /\ Partial(cards', Columns, Data)
    BY <1>1, <1>5, <2>1, <2>2 DEF Partial
  <2> QED BY <1>3, <2>3 DEF Marks
<1>10. Submits(r) /\ Sets(r) /\ Edits(r)
  BY <1>1, <1>3, <1>4, <1>6, <1>7
     DEF Submits, Sets, Edits, SameComments, WindowOK, Alike, StateButtons
<1> QED BY <1>1, <1>4, <1>7, <1>8, <1>9, <1>10 DEF Does

\* An assignee.
LEMMA AssigneeDoes ==
    ASSUME TypeInv, NEW u \in Users, ChangeAssignee(u)
    PROVE  \E r : Does(r)
<1> DEFINE s == IF win.assignee # u THEN u ELSE "nobody"
           r == [Request("assignee") EXCEPT !.name = u]
           w == [win EXCEPT !.assignee = s]
<1>1. WindowOK(win, lastId) /\ Partial(cards, Columns, Data) /\ unsaved \subseteq Chunks
  BY DEF TypeInv
<1>2. s \in Users \cup {"nobody"} /\ s = IF win.assignee = u THEN "nobody" ELSE u
  OBVIOUS
<1>3. RequestOK(r) /\ r.kind = "assignee" /\ r.mine /\ r.name = u
  BY DEF RequestOK, CallOK, Calls, Request, Names, Text, Changes
<1>4. Ask(r, {}) /\ unsaved' = unsaved /\ win' = Render(w) /\ cards' = cards
  BY DEF ChangeAssignee, HandleAssigneeChange
<1> HIDE DEF r, s
<1>6. WindowOK(w, lastId) /\ w.inCard = win.inCard /\ w.assignee = s
  BY <1>1, <1>2 DEF WindowOK
<1>7. WindowOK(win', lastId) /\ Alike(win', w) /\ win'.inCard = win.inCard
  <2> HIDE DEF w
  <2> QED BY <1>4, <1>6, RenderedAlike
<1>8. Asks(r)
  BY <1>3, <1>4, ClickAsks DEF Changes, StateButtons, Incidents
<1>9. Marks(r)
  BY <1>1, <1>4 DEF Marks
<1>10. Submits(r) /\ Sets(r) /\ Edits(r)
  BY <1>1, <1>2, <1>3, <1>4, <1>6, <1>7
     DEF Submits, Sets, Edits, SameComments, WindowOK, Alike, StateButtons
<1> QED BY <1>1, <1>4, <1>7, <1>8, <1>9, <1>10 DEF Does

\* A due date.
LEMMA DueDateDoes ==
    ASSUME TypeInv, ChangeDueDate
    PROVE  \E r : Does(r)
<1>0. PICK due \in {"none", "friday"} : HandleDueDateChange(due)
  BY DEF ChangeDueDate
<1> DEFINE r == [Request("due_date") EXCEPT !.name = due]
           w == [win EXCEPT !.due = due]
<1>1. WindowOK(win, lastId) /\ Partial(cards, Columns, Data) /\ unsaved \subseteq Chunks
  BY DEF TypeInv
<1>3. RequestOK(r) /\ r.kind = "due_date" /\ r.mine /\ r.name = due
  BY DEF RequestOK, CallOK, Calls, Request, Names, Text, Changes
<1>4. Ask(r, {}) /\ unsaved' = unsaved /\ win' = Render(w) /\ cards' = cards
  BY <1>0 DEF HandleDueDateChange
<1> HIDE DEF r
<1>6. WindowOK(w, lastId) /\ w.inCard = win.inCard /\ w.due = due
  BY <1>1 DEF WindowOK
<1>7. WindowOK(win', lastId) /\ Alike(win', w) /\ win'.inCard = win.inCard
  <2> HIDE DEF w
  <2> QED BY <1>4, <1>6, RenderedAlike
<1>8. Asks(r)
  BY <1>3, <1>4, ClickAsks DEF Changes, StateButtons, Incidents
<1>9. Marks(r)
  BY <1>1, <1>4 DEF Marks
<1>10. Submits(r) /\ Sets(r) /\ Edits(r)
  BY <1>1, <1>3, <1>4, <1>6, <1>7
     DEF Submits, Sets, Edits, SameComments, WindowOK, Alike, StateButtons
<1> QED BY <1>1, <1>4, <1>7, <1>8, <1>9, <1>10 DEF Does

\* A column.
LEMMA ColumnDoes ==
    ASSUME TypeInv, NEW column \in Columns, HandleColumnClick(column)
    PROVE  \E r : Does(r)
<1> DEFINE r == [Request("move_to") EXCEPT !.column = column]
<1>1. WindowOK(win, lastId) /\ Partial(cards, Columns, Data) /\ unsaved \subseteq Chunks
  BY DEF TypeInv
<1>3. RequestOK(r) /\ r.kind = "move_to" /\ r.mine
  BY DEF RequestOK, CallOK, Calls, Request, Names, Text, Changes
<1>4. Ask(r, {"move"}) /\ unsaved' = unsaved /\ cards' = cards /\ win' = [win EXCEPT !.current = column]
  BY DEF HandleColumnClick, HandleColumnChange
<1> HIDE DEF r
<1>7. WindowOK(win', lastId) /\ Alike(win', win) /\ win'.inCard = win.inCard
  BY <1>1, <1>4 DEF WindowOK, Alike
<1>8. Asks(r)
  BY <1>3, <1>4, ClickAsks DEF Changes, StateButtons, Incidents
<1>9. Marks(r)
  BY <1>1, <1>4 DEF Marks
<1>10. Submits(r) /\ Sets(r) /\ Edits(r)
  BY <1>1, <1>3, <1>4, <1>7
     DEF Submits, Sets, Edits, SameComments, WindowOK, Alike, StateButtons
<1> QED BY <1>1, <1>4, <1>7, <1>8, <1>9, <1>10 DEF Does

\* A state button.
LEMMA StateDoes ==
    ASSUME TypeInv, NEW state \in StateButtons, HandleStateButtonClick(state)
    PROVE  \E r : Does(r)
<1> DEFINE r == Request(state)
           w == [win EXCEPT !.state = state]
           odd == IF Sensible(state) THEN {} ELSE {"odd"}
<1>1. WindowOK(win, lastId) /\ Partial(cards, Columns, Data) /\ unsaved \subseteq Chunks
  BY DEF TypeInv
<1>2. state \in Changes \cup Fetches /\ state \in States
  BY DEF StateButtons, Changes, States
<1>3. RequestOK(r) /\ r.kind = state /\ r.mine
  BY <1>2, RequestTyped DEF StateButtons
<1>4. Ask(r, odd) /\ unsaved' = unsaved /\ win' = Render(w) /\ cards' = cards
  BY Zenon DEF HandleStateButtonClick, Sensible
<1>5. odd \in SUBSET Incidents /\ (Sensible(state) \/ "odd" \in odd)
  BY DEF Incidents
<1> HIDE DEF r, odd
<1>6. WindowOK(w, lastId) /\ w.inCard = win.inCard /\ w.state = state
  BY <1>1, <1>2 DEF WindowOK
<1>7. WindowOK(win', lastId) /\ Alike(win', w) /\ win'.inCard = win.inCard
  <2> HIDE DEF w
  <2> QED BY <1>4, <1>6, RenderedAlike
<1>8. Asks(r)
  BY <1>3, <1>4, <1>5, ClickAsks DEF Changes, StateButtons
<1>9. Marks(r)
  BY <1>1, <1>4 DEF Marks
<1>10. Submits(r) /\ Sets(r) /\ Edits(r)
  BY <1>1, <1>3, <1>4, <1>6, <1>7
     DEF Submits, Sets, Edits, SameComments, WindowOK, Alike, StateButtons
<1> QED BY <1>1, <1>4, <1>7, <1>8, <1>9, <1>10 DEF Does

\* "Ready".
LEMMA ReadyDoes ==
    ASSUME TypeInv, ToggleReady
    PROVE  \E r : Does(r)
<1> DEFINE r == Request("toggle_ready")
           w == [win EXCEPT !.ready = ~win.ready]
<1>1. WindowOK(win, lastId) /\ Partial(cards, Columns, Data) /\ unsaved \subseteq Chunks
  BY DEF TypeInv
<1>3. RequestOK(r) /\ r.kind = "toggle_ready" /\ r.mine
  BY RequestTyped DEF Changes
<1>4. Ask(r, {}) /\ unsaved' = unsaved /\ win' = Render(w)
  BY DEF ToggleReady, HandleReadyButtonClick
<1>5. cards' = [c \in DOMAIN cards |-> IF c = win.inCard /\ ~win.own
                                       THEN [cards[c] EXCEPT !.ready = ~win.ready] ELSE cards[c]]
  BY DEF ToggleReady, HandleReadyButtonClick
<1>2. win.ready \in BOOLEAN
  BY <1>1 DEF WindowOK
<1>6. WindowOK(w, lastId) /\ w.inCard = win.inCard /\ w.ready = ~win.ready
  BY <1>1 DEF WindowOK
<1>7. WindowOK(win', lastId) /\ Alike(win', w) /\ win'.inCard = win.inCard
  <2> HIDE DEF w
  <2> QED BY <1>4, <1>6, RenderedAlike
<1>8. Asks(r)
  BY <1>3, <1>4, ClickAsks DEF Changes, StateButtons, Incidents
<1>9. Marks(r)
  <2>1. \A c \in DOMAIN cards : cards[c] \in Data
    BY <1>1 DEF Partial
  <2>2. \A c \in DOMAIN cards : [cards[c] EXCEPT !.ready = ~win.ready] \in Data
    BY <1>2, <2>1 DEF Data
  <2>3. DOMAIN cards' = DOMAIN cards /\ Partial(cards', Columns, Data)
    BY <1>1, <1>5, <2>1, <2>2 DEF Partial
  <2> QED BY <1>3, <2>3 DEF Marks
<1> HIDE DEF r
<1>10. Submits(r) /\ Sets(r) /\ Edits(r)
  BY <1>1, <1>3, <1>4, <1>6, <1>7
     DEF Submits, Sets, Edits, SameComments, WindowOK, Alike, StateButtons
<1> QED BY <1>1, <1>4, <1>7, <1>8, <1>9, <1>10 DEF Does

\* A new comment.
LEMMA SubmitDoes ==
    ASSUME TypeInv, NEW ctrlEnter \in BOOLEAN, HandleSubmit(ctrlEnter)
    PROVE  \E r : Does(r)
<1> DEFINE r == [Request("comment") EXCEPT !.body = win.form.text]
           f == SaveCommentBegin(win.form)
           inc == IF Posting THEN {"double"} ELSE {}
<1>1. WindowOK(win, lastId) /\ Partial(cards, Columns, Data) /\ unsaved \subseteq Chunks
  BY DEF TypeInv
<1>2. win.form \in Forms /\ win.form.text \in SUBSET Chunks
  BY <1>1 DEF WindowOK, Forms
<1>3. RequestOK(r) /\ r.kind = "comment" /\ r.mine /\ r.body = win.form.text
  BY <1>2 DEF RequestOK, CallOK, Calls, Request, Names, Text, Changes
<1>4. Ask(r, inc) /\ cards' = cards /\ unsaved' = unsaved \cup win.form.text
  BY Zenon DEF HandleSubmit
<1>5. f \in Forms /\ f.text = win.form.text
  BY <1>2 DEF SaveCommentBegin, Forms
<1>6. win' = [win EXCEPT !.form = f]
  BY DEF HandleSubmit
<1>7. inc \in SUBSET Incidents /\ (~Posting \/ "double" \in inc)
  BY DEF Incidents
<1> HIDE DEF r, f, inc
<1>8. WindowOK(win', lastId)
  BY <1>1, <1>5, <1>6 DEF WindowOK
<1>9. Asks(r)
  BY <1>3, <1>4, <1>7, ClickAsks DEF Changes, StateButtons
<1>10. Marks(r) /\ Submits(r) /\ Sets(r) /\ Edits(r) /\ win'.inCard = win.inCard
  BY <1>1, <1>3, <1>4, <1>5, <1>6
     DEF Marks, Submits, Sets, Edits, SameComments, WindowOK, StateButtons
<1> QED BY <1>1, <1>2, <1>4, <1>8, <1>9, <1>10 DEF Does

\* A comment is deleted.
LEMMA DeleteDoes ==
    ASSUME TypeInv, NEW id \in CommentIds, HandleDeleteClick(id)
    PROVE  \E r : Does(r)
<1> DEFINE r == [Request("delete_comment") EXCEPT !.comment = id]
           c == Restrict(win.comps, DOMAIN win.comps \ {id})
           w == [win EXCEPT !.comps = c]
<1>1. WindowOK(win, lastId) /\ Partial(cards, Columns, Data) /\ unsaved \subseteq Chunks
      /\ lastId \in Nat
  BY DEF TypeInv
<1>2. id \in DOMAIN win.comps /\ id \in Nat
  BY <1>1 DEF HandleDeleteClick, WindowOK, Partial
<1>3. RequestOK(r) /\ r.kind = "delete_comment" /\ r.mine /\ r.comment = id
  BY <1>2 DEF RequestOK, CallOK, Calls, Request, Names, Text, Changes
<1>4. Ask(r, {}) /\ unsaved' = unsaved /\ cards' = cards
  BY DEF HandleDeleteClick
<1>5. win' = Render(w)
  BY Zenon DEF HandleDeleteClick
<1>6. DOMAIN c = DOMAIN win.comps \ {id} /\ \A i \in DOMAIN c : c[i] = win.comps[i]
  BY DEF Restrict
<1>7. Partial(c, 1..lastId, Component)
  <2>1. c = [i \in DOMAIN c |-> c[i]]
    BY DEF Restrict
  <2> HIDE DEF c
  <2> QED BY <1>1, <1>6, <2>1 DEF WindowOK, Partial
<1> HIDE DEF r, c
<1>8. WindowOK(w, lastId) /\ w.inCard = win.inCard /\ w.comps = c
  BY <1>1, <1>7 DEF WindowOK
<1>9. WindowOK(win', lastId) /\ Alike(win', w) /\ win'.inCard = win.inCard
  <2> HIDE DEF w
  <2> QED BY <1>5, <1>8, RenderedAlike
<1>10. Asks(r)
  BY <1>3, <1>4, ClickAsks DEF Changes, StateButtons, Incidents
<1>11. Marks(r)
  BY <1>1, <1>4 DEF Marks
<1>12. Submits(r) /\ Sets(r)
  BY <1>1, <1>3, <1>4, <1>9 DEF Submits, Sets, WindowOK, Alike, StateButtons
<1>13. Edits(r)
  <2>1. DOMAIN win'.comps = DOMAIN c
        /\ \A i \in DOMAIN c : win'.comps[i].body = c[i].body /\ win'.comps[i].shown = c[i].shown
    BY <1>8, <1>9 DEF Alike
  <2> QED BY <1>2, <1>3, <1>6, <2>1 DEF Edits, Deletes
<1> QED BY <1>1, <1>4, <1>9, <1>10, <1>11, <1>12, <1>13 DEF Does

\* One component of a comment changes.
LEMMA OneCommentChanged ==
    ASSUME NEW w, NEW n, WindowOK(w, n), NEW id \in DOMAIN w.comps, NEW c \in Component
    PROVE  LET v == [w EXCEPT !.comps = [w.comps EXCEPT ![id] = c]] IN
           /\ WindowOK(v, n) /\ v.inCard = w.inCard
           /\ v.own = w.own /\ v.loaded = w.loaded
           /\ v.labels = w.labels /\ v.ready = w.ready /\ v.assignee = w.assignee
           /\ v.due = w.due /\ v.state = w.state /\ v.title = w.title /\ v.form = w.form
           /\ DOMAIN v.comps = DOMAIN w.comps
           /\ v.comps[id] = c
           /\ \A i \in DOMAIN w.comps \ {id} : v.comps[i] = w.comps[i]
<1> DEFINE d == [w.comps EXCEPT ![id] = c]
<1>1. /\ DOMAIN d = DOMAIN w.comps /\ d[id] = c
      /\ \A i \in DOMAIN w.comps \ {id} : d[i] = w.comps[i]
      /\ Partial(d, 1..n, Component)
  BY DEF WindowOK, Partial
<1> HIDE DEF d
<1>2. [w EXCEPT !.comps = d].comps = d
  BY DEF WindowOK
<1>3. WindowOK([w EXCEPT !.comps = d], n)
  BY <1>1, <1>2 DEF WindowOK
<1>4. LET v == [w EXCEPT !.comps = d] IN
           /\ v.inCard = w.inCard
           /\ v.own = w.own /\ v.loaded = w.loaded
           /\ v.labels = w.labels /\ v.ready = w.ready /\ v.assignee = w.assignee
           /\ v.due = w.due /\ v.state = w.state /\ v.title = w.title /\ v.form = w.form
  BY DEF WindowOK
<1> QED BY <1>1, <1>2, <1>3, <1>4 DEF d

\* A comment is sent as it stands in its form.
LEMMA SaveDoes ==
    ASSUME TypeInv, NEW id \in CommentIds, SaveComment(id)
    PROVE  \E r : Does(r)
<1> DEFINE old == win.comps[id]
           r == [Request("update_comment") EXCEPT !.comment = id, !.name = "form",
                                                  !.body = old.draft]
           c == [old EXCEPT !.body = old.draft, !.saving = TRUE]
           w == [win EXCEPT !.comps = [win.comps EXCEPT ![id] = c]]
<1>1. WindowOK(win, lastId) /\ Partial(cards, Columns, Data) /\ unsaved \subseteq Chunks
      /\ lastId \in Nat
  BY DEF TypeInv
<1>2. id \in DOMAIN win.comps /\ id \in Nat /\ old \in Component
  BY <1>1 DEF SaveComment, WindowOK, Partial
<1>3. RequestOK(r) /\ r.kind = "update_comment" /\ r.mine /\ r.comment = id
      /\ r.body = old.draft /\ r.name = "form"
  BY <1>2 DEF RequestOK, CallOK, Calls, Request, Names, Text, Changes, Component
<1>4. Ask(r, {}) /\ unsaved' = unsaved /\ cards' = cards
  BY DEF SaveComment, HandleUpdateComment
<1>5. win' = w
  <2>1. win' = [win EXCEPT !.comps[id].body = win.comps[id].draft,
                           !.comps[id].saving = TRUE]
    BY DEF SaveComment
  <2>2. /\ win.comps \in [DOMAIN win.comps -> Component]
        /\ "comps" \in DOMAIN win
    BY <1>1 DEF WindowOK, Partial
  <2>3. win' = [win EXCEPT !.comps = [win.comps EXCEPT ![id] = [[win.comps[id] EXCEPT !.body = win.comps[id].draft] EXCEPT !.saving = TRUE]]]
    BY <1>2, <2>1, <2>2
  <2> QED BY <2>3, Zenon
<1>6. c \in Component /\ c.body = old.draft /\ c.shown = old.shown
  BY <1>2 DEF Component
<1> HIDE DEF r, c
<1>7. /\ WindowOK(w, lastId) /\ w.inCard = win.inCard
      /\ w.own = win.own /\ w.loaded = win.loaded
      /\ w.labels = win.labels /\ w.ready = win.ready /\ w.assignee = win.assignee
      /\ w.due = win.due /\ w.state = win.state /\ w.title = win.title /\ w.form = win.form
      /\ DOMAIN w.comps = DOMAIN win.comps
      /\ w.comps[id] = c
      /\ \A i \in DOMAIN win.comps \ {id} : w.comps[i] = win.comps[i]
  BY <1>1, <1>2, <1>6, OneCommentChanged
<1> HIDE DEF w
<1>8. Asks(r)
  BY <1>3, <1>4, ClickAsks DEF Changes, StateButtons, Incidents
<1>9. Marks(r)
  BY <1>1, <1>4 DEF Marks
<1>10. Submits(r) /\ Sets(r)
  BY <1>3, <1>4, <1>5, <1>7 DEF Submits, Sets, StateButtons
<1>11. Edits(r)
  BY <1>2, <1>3, <1>5, <1>6, <1>7 DEF Edits, Rewrites
<1> QED BY <1>1, <1>4, <1>5, <1>7, <1>8, <1>9, <1>10, <1>11 DEF Does

\* A checkbox of a comment.
LEMMA BoxDoes ==
    ASSUME TypeInv, NEW id \in CommentIds, HandleBodyClick(id)
    PROVE  \E r : Does(r)
<1> DEFINE Tick(text) == IF "tick" \in text THEN text \ {"tick"}
                         ELSE text \cup {"tick"}
           old == win.comps[id]
           r == [Request("update_comment") EXCEPT !.comment = id, !.name = "box",
                                                  !.body = Tick(old.body)]
           c == [old EXCEPT !.body = Tick(old.body), !.shown = Tick(old.shown)]
           w == [win EXCEPT !.comps = [win.comps EXCEPT ![id] = c]]
<1>1. WindowOK(win, lastId) /\ Partial(cards, Columns, Data) /\ unsaved \subseteq Chunks
      /\ lastId \in Nat
  BY DEF TypeInv
<1>2. id \in DOMAIN win.comps /\ id \in Nat /\ old \in Component
  BY <1>1 DEF HandleBodyClick, WindowOK, Partial
<1>3. Tick(old.body) \in Text /\ Tick(old.shown) \in Text
  BY <1>2 DEF Component, Text
<1>4. RequestOK(r) /\ r.kind = "update_comment" /\ r.mine /\ r.comment = id
      /\ r.body = Tick(old.body) /\ r.name = "box"
  <2> HIDE DEF Tick
  <2> QED BY <1>2, <1>3 DEF RequestOK, CallOK, Calls, Request, Names, Changes
<1>5. Ask(r, {}) /\ unsaved' = unsaved /\ cards' = cards
  BY DEF HandleBodyClick, HandleUpdateComment
<1>6. win' = w
  <2>1. win' = [win EXCEPT !.comps[id].body = Tick(win.comps[id].body),
                           !.comps[id].shown = Tick(win.comps[id].shown)]
    BY <1>1, <1>2 DEF HandleBodyClick, WindowOK, Partial, Component
  <2>2. /\ win.comps \in [DOMAIN win.comps -> Component]
        /\ "comps" \in DOMAIN win
    BY <1>1 DEF WindowOK, Partial
  <2> HIDE DEF Tick
  <2>3. win' = [win EXCEPT !.comps = [win.comps EXCEPT ![id] = [[win.comps[id] EXCEPT !.body = Tick(win.comps[id].body)] EXCEPT !.shown = Tick(win.comps[id].shown)]]]
    BY <1>2, <2>1, <2>2
  <2> QED BY <2>3, Zenon
<1>7. c \in Component /\ c.body = Tick(old.body) /\ c.shown = Tick(old.shown)
  <2> HIDE DEF Tick
  <2> QED BY <1>2, <1>3 DEF Component
<1> HIDE DEF r, c, Tick
<1>8. /\ WindowOK(w, lastId) /\ w.inCard = win.inCard
      /\ w.own = win.own /\ w.loaded = win.loaded
      /\ w.labels = win.labels /\ w.ready = win.ready /\ w.assignee = win.assignee
      /\ w.due = win.due /\ w.state = win.state /\ w.title = win.title /\ w.form = win.form
      /\ DOMAIN w.comps = DOMAIN win.comps
      /\ w.comps[id] = c
      /\ \A i \in DOMAIN win.comps \ {id} : w.comps[i] = win.comps[i]
  BY <1>1, <1>2, <1>7, OneCommentChanged
<1> HIDE DEF w
<1>9. Asks(r)
  BY <1>4, <1>5, ClickAsks DEF Changes, StateButtons, Incidents
<1>10. Marks(r)
  BY <1>1, <1>5 DEF Marks
<1>11. Submits(r) /\ Sets(r)
  BY <1>4, <1>5, <1>6, <1>8 DEF Submits, Sets, StateButtons
<1>12. Edits(r)
  BY <1>2, <1>4, <1>6, <1>7, <1>8 DEF Edits, Rewrites
<1> QED BY <1>1, <1>5, <1>6, <1>8, <1>9, <1>10, <1>11, <1>12 DEF Does

\* Every click but the one that opens a window asks for one change.
LEMMA ClickDoes ==
    ASSUME TypeInv, Click
    PROVE  \/ \E r : Does(r)
           \/ \E c \in Columns : OpenCard(c)
<1>1. CASE HandleKeyDown
  BY <1>1, TitleDoes
<1>2. CASE \E l \in Labels : ChangeLabel(l)
  BY <1>2, LabelDoes
<1>3. CASE \E u \in Users : ChangeAssignee(u)
  BY <1>3, AssigneeDoes
<1>4. CASE ChangeDueDate
  BY <1>4, DueDateDoes
<1>5. CASE \E c \in Columns : HandleColumnClick(c)
  BY <1>5, ColumnDoes
<1>6. CASE \E s \in StateButtons : HandleStateButtonClick(s)
  BY <1>6, StateDoes
<1>7. CASE ToggleReady
  BY <1>7, ReadyDoes
<1>8. CASE \E b \in BOOLEAN : HandleSubmit(b)
  BY <1>8, SubmitDoes
<1>9. CASE \E id \in CommentIds : HandleDeleteClick(id)
  BY <1>9, DeleteDoes
<1>10. CASE \E id \in CommentIds : SaveComment(id)
  BY <1>10, SaveDoes
<1>11. CASE \E id \in CommentIds : HandleBodyClick(id)
  BY <1>11, BoxDoes
<1> QED BY <1>1, <1>2, <1>3, <1>4, <1>5, <1>6, <1>7, <1>8, <1>9, <1>10, <1>11
        DEF Click, StateButtons

-----------------------------------------------------------------------------
(* What opening a window does.                                              *)

Beginning == {Request("show"), Request("comments")}

Opens(c) ==
    /\ c \in DOMAIN cards /\ win' = FreshWindow(cards[c], c)
    /\ UNCHANGED <<issue, comments, lastId, cards, uses, unsaved>>
    /\ IsABag(sent') /\ IsABag(answers')
    /\ BagToSet(sent') = {Orphan(r) : r \in BagToSet(sent)} \cup Beginning
    /\ BagToSet(answers') = {OrphanAnswer(a) : a \in BagToSet(answers)}
    /\ Quiet => sent' = SetToBag(Beginning) /\ answers' = EmptyBag
    /\ met \subseteq met' /\ met' \subseteq Incidents
    /\ Quiet \/ {"hurry", "early"} \subseteq met'
    /\ win.form.text = {} \/ "reopened" \in met'
    /\ WindowOK(win', lastId) /\ win'.inCard \in DOMAIN cards

\* A request, or an answer, becomes nobody's.
LEMMA OrphanOf ==
    ASSUME NEW r, RequestOK(r)
    PROVE  RequestOK(Orphan(r)) /\ Orphan(r).kind = r.kind /\ ~Orphan(r).mine
BY DEF RequestOK, CallOK, Calls, Orphan

\* So does an answer to it.
LEMMA OrphanAnswerOf ==
    ASSUME NEW a, NEW n, AnswerOK(a, n)
    PROVE  /\ AnswerOK(OrphanAnswer(a), n)
           /\ OrphanAnswer(a).call.kind = a.call.kind /\ ~OrphanAnswer(a).call.mine
<1>1. a \in [call : Calls, data : Data, comments : {a.comments}] /\ CallOK(a.call)
  BY DEF AnswerOK
<1>2. /\ Orphan(a.call) \in Calls /\ Orphan(a.call).kind = a.call.kind
      /\ ~Orphan(a.call).mine /\ Orphan(a.call).comment = a.call.comment
      /\ CallOK(Orphan(a.call))
  BY <1>1 DEF CallOK, Calls, Orphan
<1>3. /\ OrphanAnswer(a).call = Orphan(a.call) /\ OrphanAnswer(a).data = a.data
      /\ OrphanAnswer(a).comments = a.comments
      /\ OrphanAnswer(a) \in [call : Calls, data : Data, comments : {a.comments}]
  BY <1>1, <1>2 DEF OrphanAnswer
<1> QED BY <1>2, <1>3 DEF AnswerOK

\* A new window shows the issue of its card.
LEMMA FreshWindowOK ==
    ASSUME NEW data \in Data, NEW c \in Nat, NEW n
    PROVE  LET w == FreshWindow(data, c) IN
           /\ WindowOK(w, n) /\ w.inCard = c /\ ~w.own /\ ~w.loaded
           /\ w.labels = data.labels /\ w.ready = data.ready
           /\ w.assignee = data.assignee /\ w.due = data.due
           /\ w.title.title = data.title /\ w.state = FullState(data)
           /\ DOMAIN w.comps = {} /\ w.form.text = {}
<1>1. Partial(<< >>, 1..n, Component) /\ DOMAIN << >> = {}
  BY DEF Partial
<1>2. FullState(data) \in States
  BY DEF FullState, States
<1>3. FreshTitle(data) \in Titles /\ FreshTitle(data).title = data.title
  BY DEF FreshTitle, Titles, Data
<1>4. FreshForm \in Forms /\ FreshForm.text = {}
  BY DEF FreshForm, Forms
<1>5. /\ data.labels \in SUBSET Labels /\ data.ready \in BOOLEAN
      /\ data.column \in Columns /\ data.assignee \in Users \cup {"nobody"}
      /\ data.due \in {"none", "friday"}
  BY DEF Data
<1> DEFINE w == FreshWindow(data, c)
<1>6. /\ w.inCard = c /\ w.own = FALSE /\ w.loaded = FALSE
      /\ w.labels = data.labels /\ w.ready = data.ready
      /\ w.assignee = data.assignee /\ w.due = data.due
      /\ w.title = FreshTitle(data) /\ w.state = FullState(data)
      /\ w.comps = << >> /\ w.form = FreshForm
  BY DEF FreshWindow
<1>7. w \in [inCard : Nat, own : BOOLEAN, loaded : BOOLEAN,
              labels : SUBSET Labels, ready : BOOLEAN, column : Columns,
              current : Columns, assignee : Users \cup {"nobody"},
              due : {"none", "friday"}, state : States, title : Titles,
              comps : {<< >>}, form : Forms]
  BY <1>2, <1>3, <1>4, <1>5, Zenon DEF FreshWindow
<1> HIDE DEF w
<1>8. WindowOK(w, n)
  BY <1>1, <1>6, <1>7 DEF WindowOK
<1> QED BY <1>1, <1>3, <1>4, <1>6, <1>8 DEF w

\* The two fetches of a new window.
LEMMA BeginningIs ==
    /\ IsABag(SetToBag(Beginning)) /\ BagToSet(SetToBag(Beginning)) = Beginning
    /\ \A r \in Beginning : Copies(r, SetToBag(Beginning)) = 1
    /\ \A r \in Beginning : RequestOK(r) /\ r.mine /\ r.kind \in {"show", "comments"}
                            /\ r = Request(r.kind)
<1>1. IsABag(SetToBag(Beginning)) /\ BagToSet(SetToBag(Beginning)) = Beginning
  BY DEF IsABag, SetToBag, BagToSet
<1>2. \A r \in Beginning : Copies(r, SetToBag(Beginning)) = 1
  BY DEF SetToBag, BagToSet, Copies, BagIn
<1>3. RequestOK(Request("show")) /\ Request("show").mine /\ Request("show").kind = "show"
  BY RequestTyped DEF Fetches
<1>4. RequestOK(Request("comments")) /\ Request("comments").mine /\ Request("comments").kind = "comments"
  BY RequestTyped DEF Fetches
<1> QED BY <1>1, <1>2, <1>3, <1>4 DEF Beginning

\* OpenCard
LEMMA OpenDoes ==
    ASSUME TypeInv, NEW c \in Columns, OpenCard(c)
    PROVE  Opens(c)
<1>1. /\ IsABag(sent) /\ \A r \in BagToSet(sent) : RequestOK(r)
      /\ IsABag(answers) /\ \A a \in BagToSet(answers) : AnswerOK(a, lastId)
      /\ Partial(cards, Columns, Data) /\ met \subseteq Incidents
  BY DEF TypeInv
<1>2. /\ c \in DOMAIN cards /\ win' = FreshWindow(cards[c], c)
      /\ UNCHANGED <<issue, comments, lastId, cards, uses, unsaved>>
      /\ sent' = Orphans(sent) (+) SetToBag(Beginning)
      /\ answers' = OrphanAnswers(answers)
  BY DEF OpenCard, Opened, server, Beginning
<1>3. cards[c] \in Data /\ c \in Nat
  BY <1>1, <1>2, WindowAssumption DEF Partial, WindowAssumption
<1>4. WindowOK(win', lastId) /\ win'.inCard = c
  BY <1>2, <1>3, FreshWindowOK
<1>5. /\ IsABag(Orphans(sent))
      /\ BagToSet(Orphans(sent)) = {Orphan(r) : r \in BagToSet(sent)}
  <2>1. \A r \in BagToSet(sent) : r \in Calls
    BY <1>1 DEF RequestOK, CallOK
  <2> QED BY <1>1, <2>1, OrphansAre
<1>6. /\ IsABag(sent') /\ BagToSet(sent') = {Orphan(r) : r \in BagToSet(sent)} \cup Beginning
  BY <1>2, <1>5, BeginningIs, TogetherBag
<1>7. /\ IsABag(answers') /\ BagToSet(answers') = {OrphanAnswer(a) : a \in BagToSet(answers)}
  BY <1>1, <1>2, OrphanAnswersAre
<1>8. ASSUME Quiet PROVE sent' = SetToBag(Beginning) /\ answers' = EmptyBag
  <2>1. BagToSet(sent) = {} /\ BagToSet(answers) = {}
    BY <1>8, NoneInBag DEF Quiet
  <2>2. Orphans(sent) = EmptyBag
    BY <1>5, <2>1, EmptyOfNone
  <2>3. sent' = SetToBag(Beginning)
    BY <1>2, <2>2, BeginningIs, AddedToNone
  <2>4. answers' = EmptyBag
    BY <1>7, <2>1, EmptyOfNone
  <2> QED BY <2>3, <2>4
<1>9. /\ met \subseteq met' /\ met' \subseteq Incidents
      /\ Quiet \/ {"hurry", "early"} \subseteq met'
      /\ win.form.text = {} \/ "reopened" \in met'
  <2>1. met' = met \cup (IF Quiet THEN {} ELSE {"hurry", "early"})
                  \cup (IF win.form.text = {} THEN {} ELSE {"reopened"})
    BY DEF OpenCard
  <2>2. {"hurry", "early"} \subseteq Incidents /\ "reopened" \in Incidents
    BY DEF Incidents
  <2> QED BY <1>1, <2>1, <2>2
<1> QED BY <1>2, <1>4, <1>6, <1>7, <1>8, <1>9 DEF Opens

-----------------------------------------------------------------------------
(* What typing does.                                                        *)

SameFields == /\ win'.own = win.own /\ win'.loaded = win.loaded
              /\ win'.labels = win.labels /\ win'.due = win.due
              /\ win'.title.title = win.title.title
              /\ win'.ready = win.ready /\ win'.assignee = win.assignee
              /\ win'.state = win.state

Writes == /\ UNCHANGED <<issue, comments, lastId, cards, sent, answers, uses, met, unsaved>>
          /\ WindowOK(win', lastId) /\ win'.inCard = win.inCard
          /\ win.form.text \subseteq win'.form.text
          /\ SameFields /\ SameComments

\* What nobody sends changes drafts alone.
LEMMA TypingDoes == ASSUME TypeInv, Type PROVE Writes
<1>1. WindowOK(win, lastId)
  BY DEF TypeInv
<1>2. win.title \in Titles /\ win.form \in Forms
  BY <1>1 DEF WindowOK
<1>3. Typing
  BY DEF Type, EditTitle, HandleTitleChange, HandleTextChange, UploadDone,
         HandleEditTextChange, HandleEditClick, HandleCloseWithoutSaveClick
<1>4. UNCHANGED <<issue, comments, lastId, cards, sent, answers, uses, met, unsaved>>
  BY <1>3 DEF Typing, server, net, history
<1>5. ASSUME NEW t \in Titles, t.title = win.title.title, win' = [win EXCEPT !.title = t]
      PROVE  Writes
  <2>1. WindowOK(win', lastId)
    BY <1>1, <1>5 DEF WindowOK
  <2> QED BY <1>1, <1>2, <1>4, <1>5, <2>1 DEF Writes, SameFields, SameComments, WindowOK
<1>6. ASSUME NEW piece \in Chunks, win' = [win EXCEPT !.form.text = @ \cup {piece}]
      PROVE  Writes
  <2> DEFINE f == [win.form EXCEPT !.text = win.form.text \cup {piece}]
  <2>1. f \in Forms /\ f.text = win.form.text \cup {piece}
    BY <1>2 DEF Forms
  <2>2. win' = [win EXCEPT !.form = f]
    BY <1>6
  <2> HIDE DEF f
  <2>3. WindowOK(win', lastId)
    BY <1>1, <2>1, <2>2 DEF WindowOK
  <2> QED BY <1>1, <1>2, <1>4, <2>1, <2>2, <2>3 DEF Writes, SameFields, SameComments, WindowOK
<1>7. ASSUME NEW id \in DOMAIN win.comps, NEW c \in Component,
             c.body = win.comps[id].body, c.shown = win.comps[id].shown,
             win' = [win EXCEPT !.comps = [win.comps EXCEPT ![id] = c]]
      PROVE  Writes
  <2> DEFINE w == [win EXCEPT !.comps = [win.comps EXCEPT ![id] = c]]
  <2>1. /\ WindowOK(w, lastId) /\ w.inCard = win.inCard
        /\ w.own = win.own /\ w.loaded = win.loaded
        /\ w.labels = win.labels /\ w.ready = win.ready /\ w.assignee = win.assignee
        /\ w.due = win.due /\ w.state = win.state /\ w.title = win.title /\ w.form = win.form
        /\ DOMAIN w.comps = DOMAIN win.comps
        /\ w.comps[id] = c
        /\ \A i \in DOMAIN win.comps \ {id} : w.comps[i] = win.comps[i]
    BY <1>1, OneCommentChanged
  <2>2. win' = w
    BY <1>7
  <2> HIDE DEF w
  <2> QED BY <1>4, <1>7, <2>1, <2>2 DEF Writes, SameFields, SameComments
<1>8. \A id \in DOMAIN win.comps : win.comps[id] \in Component
  BY <1>1 DEF WindowOK, Partial
<1>9. "comps" \in DOMAIN win /\ win.comps \in [DOMAIN win.comps -> Component]
  BY <1>1 DEF WindowOK, Partial
<1>10. CASE EditTitle
  <2>1. HandleEditTitleClick(win.title) \in Titles /\ HandleEditTitleClick(win.title).title = win.title.title
    BY <1>2 DEF HandleEditTitleClick, Titles
  <2>2. win' = [win EXCEPT !.title = HandleEditTitleClick(win.title)]
    BY <1>10 DEF EditTitle
  <2> QED BY <1>5, <2>1, <2>2
<1>11. CASE \E text \in {"", "new"} : HandleTitleChange(text)
  <2>1. PICK text \in {"", "new"} : win' = [win EXCEPT !.title.titleEdit = text]
    BY <1>11 DEF HandleTitleChange
  <2>2. [win.title EXCEPT !.titleEdit = text] \in Titles /\ [win.title EXCEPT !.titleEdit = text].title = win.title.title
    BY <1>2 DEF Titles
  <2>3. win' = [win EXCEPT !.title = [win.title EXCEPT !.titleEdit = text]]
    BY <2>1
  <2> QED BY <1>5, <2>2, <2>3
<1>12. CASE \E piece \in Chunks : HandleTextChange(piece) \/ UploadDone(piece)
  <2>1. PICK piece \in Chunks : win' = [win EXCEPT !.form.text = @ \cup {piece}]
    BY <1>12 DEF HandleTextChange, UploadDone
  <2> QED BY <1>6, <2>1
<1>13. CASE \E piece \in Chunks : \E id \in CommentIds : HandleEditTextChange(id, piece)
  <2>1. PICK piece \in Chunks, id \in CommentIds : HandleEditTextChange(id, piece)
    BY <1>13
  <2> DEFINE c == [win.comps[id] EXCEPT !.draft = win.comps[id].draft \cup {piece}]
  <2>2. id \in DOMAIN win.comps
    BY <2>1 DEF HandleEditTextChange
  <2>3. c \in Component /\ c.body = win.comps[id].body /\ c.shown = win.comps[id].shown
    BY <1>8, <2>2 DEF Component, Text
  <2>4. win' = [win EXCEPT !.comps = [win.comps EXCEPT ![id] = c]]
    BY <1>8, <1>9, <2>1, <2>2 DEF HandleEditTextChange
  <2> HIDE DEF c
  <2> QED BY <1>7, <2>2, <2>3, <2>4
<1>14. CASE \E id \in CommentIds : HandleEditClick(id)
  <2>1. PICK id \in CommentIds : HandleEditClick(id)
    BY <1>14
  <2> DEFINE c == [[win.comps[id] EXCEPT !.editing = TRUE] EXCEPT !.draft = win.comps[id].body]
  <2>2. id \in DOMAIN win.comps
    BY <2>1 DEF HandleEditClick
  <2>3. c \in Component /\ c.body = win.comps[id].body /\ c.shown = win.comps[id].shown
    BY <1>8, <2>2 DEF Component
  <2>4. win' = [win EXCEPT !.comps = [win.comps EXCEPT ![id] = c]]
    <3>1. win' = [win EXCEPT !.comps[id].editing = TRUE,
                          !.comps[id].draft = win.comps[id].body]
      BY <2>1 DEF HandleEditClick
    <3> QED BY <1>9, <2>2, <3>1
  <2> HIDE DEF c
  <2> QED BY <1>7, <2>2, <2>3, <2>4
<1>15. CASE \E id \in CommentIds : HandleCloseWithoutSaveClick(id)
  <2>1. PICK id \in CommentIds : HandleCloseWithoutSaveClick(id)
    BY <1>15
  <2> DEFINE c == [win.comps[id] EXCEPT !.editing = FALSE]
  <2>2. id \in DOMAIN win.comps
    BY <2>1 DEF HandleCloseWithoutSaveClick
  <2>3. c \in Component /\ c.body = win.comps[id].body /\ c.shown = win.comps[id].shown
    BY <1>8, <2>2 DEF Component
  <2>4. win' = [win EXCEPT !.comps = [win.comps EXCEPT ![id] = c]]
    BY <1>9, <2>1, <2>2 DEF HandleCloseWithoutSaveClick
  <2> HIDE DEF c
  <2> QED BY <1>7, <2>2, <2>3, <2>4
<1> QED BY <1>10, <1>11, <1>12, <1>13, <1>14, <1>15 DEF Type

-----------------------------------------------------------------------------
(* What an answer does.                                                     *)

\* Every answer is taken off; neither the server nor the history changes.
Takes(a) ==
    /\ a \in BagToSet(answers)
    /\ answers' = answers (-) SetToBag({a})
    /\ UNCHANGED <<issue, comments, lastId, uses, met, unsaved>>

SameForm == win'.form.text = win.form.text

\* The window takes over a few fields of the issue.
ShowArrives(a) ==
    /\ a.call.kind = "show"
    /\ cards' = cards /\ sent' = sent /\ SameForm /\ SameComments
    /\ IF a.call.mine
       THEN /\ win'.own /\ win'.loaded = win.loaded
            /\ win'.labels = win.labels /\ win'.due = win.due
            /\ win'.title.title = win.title.title /\ win'.state = win.state
            /\ win'.ready = a.data.ready /\ win'.assignee = a.data.assignee
       ELSE SameFields

\* It shows these comments; those it shows already stay as they are.
Lists(texts) ==
    /\ DOMAIN win'.comps = DOMAIN texts
    /\ \A id \in DOMAIN texts :
           /\ win'.comps[id].body = IF id \in DOMAIN win.comps
                                    THEN win.comps[id].body ELSE texts[id]
           /\ win'.comps[id].shown = IF id \in DOMAIN win.comps
                                     THEN win.comps[id].shown ELSE texts[id]

CommentsArrive(a) ==
    /\ a.call.kind = "comments"
    /\ cards' = cards /\ sent' = sent /\ SameForm
    /\ win'.own = win.own
    /\ win'.labels = win.labels /\ win'.due = win.due
    /\ win'.title.title = win.title.title
    /\ win'.ready = win.ready /\ win'.assignee = win.assignee
    /\ win'.state = win.state
    /\ IF a.call.mine THEN win'.loaded /\ Lists(a.comments)
       ELSE win'.loaded = win.loaded /\ SameComments

\* The first card of the issue, if there is one, is replaced.
Renews(data) ==
    /\ DOMAIN cards' = DOMAIN cards
    /\ DOMAIN cards # {} => /\ FirstCard \in DOMAIN cards
                            /\ cards' = [cards EXCEPT ![FirstCard] = data]
    /\ DOMAIN cards = {} => cards' = cards

CommentArrives(a) ==
    /\ a.call.kind = "comment"
    /\ sent' = sent /\ SameFields
    /\ IF a.call.mine
       THEN /\ Renews(a.data) /\ win'.form.text = {}
            /\ DOMAIN win'.comps = DOMAIN win.comps \cup {a.call.comment}
            /\ \A id \in DOMAIN win.comps :
                   /\ win'.comps[id].body = win.comps[id].body
                   /\ win'.comps[id].shown = win.comps[id].shown
            /\ a.call.comment \notin DOMAIN win.comps =>
                   /\ win'.comps[a.call.comment].body = a.call.body
                   /\ win'.comps[a.call.comment].shown = a.call.body
       ELSE cards' = cards /\ SameForm /\ SameComments

\* The form of the comment closes, and the card is asked for.
Again(a) == [Request("fetch_miniature") EXCEPT !.mine = a.call.mine]
UpdateArrives(a) ==
    /\ a.call.kind = "update_comment"
    /\ cards' = cards /\ SameFields /\ SameForm
    /\ sent' = sent (+) SetToBag({Again(a)})
    /\ IF a.call.mine /\ a.call.name = "form" /\ a.call.comment \in DOMAIN win.comps
       THEN /\ DOMAIN win'.comps = DOMAIN win.comps
            /\ win'.comps[a.call.comment].body = win.comps[a.call.comment].body
            /\ win'.comps[a.call.comment].shown = a.call.body
            /\ \A id \in DOMAIN win.comps \ {a.call.comment} :
                   /\ win'.comps[id].body = win.comps[id].body
                   /\ win'.comps[id].shown = win.comps[id].shown
       ELSE SameComments

\* The first card goes.
ArchiveArrives(a) ==
    /\ a.call.kind = "archive"
    /\ sent' = sent /\ SameFields /\ SameForm /\ SameComments
    /\ DOMAIN cards # {} => /\ FirstCard \in DOMAIN cards
                            /\ DOMAIN cards' = DOMAIN cards \ {FirstCard}
    /\ DOMAIN cards = {} => cards' = cards
    /\ \A c \in DOMAIN cards' : cards'[c] = cards[c]

\* A column of the board is as it was fetched.
ColumnArrives(a) ==
    /\ a.call.kind = "column"
    /\ sent' = sent /\ SameFields /\ SameForm /\ SameComments
    /\ \A c \in Columns \ {a.call.column} :
           /\ c \in DOMAIN cards' <=> c \in DOMAIN cards
           /\ c \in DOMAIN cards => cards'[c] = cards[c]
    /\ a.call.column \in DOMAIN cards'
           <=> a.data.column = a.call.column /\ ~a.data.archived
    /\ a.call.column \in DOMAIN cards' => cards'[a.call.column] = a.data

MiniatureArrives(a) ==
    /\ a.call.kind \in Miniatures \ {"comment"}
    /\ sent' = sent /\ SameFields /\ SameForm /\ SameComments
    /\ Renews(a.data)

Brings(a) ==
    \/ ShowArrives(a) \/ CommentsArrive(a) \/ CommentArrives(a) \/ UpdateArrives(a)
    \/ ArchiveArrives(a) \/ ColumnArrives(a) \/ MiniatureArrives(a)

\* The types of what an answer leaves.
Typed == /\ WindowOK(win', lastId) /\ win'.inCard \in DOMAIN cards' \cup {0}
         /\ Partial(cards', Columns, Data)

\* What two windows that look alike have in common.
LEMMA AlikeKeeps ==
    ASSUME NEW w, Alike(win', w)
    PROVE  /\ w = win => SameFields /\ SameForm /\ SameComments
           /\ win'.own = w.own /\ win'.loaded = w.loaded
           /\ win'.labels = w.labels /\ win'.ready = w.ready
           /\ win'.assignee = w.assignee /\ win'.due = w.due
           /\ win'.state = w.state /\ win'.title = w.title /\ win'.form = w.form
           /\ DOMAIN win'.comps = DOMAIN w.comps
           /\ \A id \in DOMAIN w.comps :
                  /\ win'.comps[id].body = w.comps[id].body
                  /\ win'.comps[id].shown = w.comps[id].shown
BY DEF Alike, SameFields, SameForm, SameComments

\* So does one that is not touched.
LEMMA UnchangedKeeps ==
    ASSUME win' = win PROVE SameFields /\ SameForm /\ SameComments
BY DEF SameFields, SameForm, SameComments

\* The answer to the fetch of the issue.
LEMMA ShowDoes ==
    ASSUME TypeInv, NEW a, AnswerOK(a, lastId), ArriveShow(a)
    PROVE  ShowArrives(a) /\ Typed
<1>1. /\ WindowOK(win, lastId) /\ Partial(cards, Columns, Data)
      /\ win.inCard \in DOMAIN cards \cup {0}
  BY DEF TypeInv
<1>2. a.call.kind = "show" /\ cards' = cards /\ sent' = sent
  BY DEF ArriveShow
<1>3. CASE a.call.mine
  <2> DEFINE w == [win EXCEPT !.own = TRUE, !.ready = a.data.ready,
                              !.column = a.data.column, !.assignee = a.data.assignee]
  <2>1. a.data \in Data
    BY DEF AnswerOK
  <2>2. /\ a.data.ready \in BOOLEAN /\ a.data.column \in Columns
        /\ a.data.assignee \in Users \cup {"nobody"}
    BY <2>1 DEF Data
  <2>3. /\ WindowOK(w, lastId) /\ w.inCard = win.inCard /\ w.own = TRUE
        /\ w.ready = a.data.ready /\ w.assignee = a.data.assignee
        /\ w.loaded = win.loaded /\ w.labels = win.labels /\ w.due = win.due
        /\ w.title = win.title /\ w.state = win.state /\ w.comps = win.comps
        /\ w.form = win.form
    BY <1>1, <2>2 DEF WindowOK
  <2>4. win' = Render(w)
    BY <1>3 DEF ArriveShow
  <2> HIDE DEF w
  <2>5. WindowOK(win', lastId) /\ Alike(win', w) /\ win'.inCard = win.inCard
    BY <2>3, <2>4, RenderedAlike
  <2>6. ShowArrives(a)
    BY <1>2, <1>3, <2>3, <2>5, AlikeKeeps DEF ShowArrives, SameForm, SameComments
  <2> QED BY <1>1, <1>2, <2>5, <2>6 DEF Typed
<1>4. CASE ~a.call.mine
  <2>1. win' = win
    BY <1>4 DEF ArriveShow
  <2> QED BY <1>1, <1>2, <1>4, <2>1, UnchangedKeeps DEF Typed, ShowArrives
<1> QED BY <1>3, <1>4

\* The answer to the fetch of the comments.
LEMMA CommentsDo ==
    ASSUME TypeInv, NEW a, AnswerOK(a, lastId), ArriveComments(a)
    PROVE  CommentsArrive(a) /\ Typed
<1>1. /\ WindowOK(win, lastId) /\ Partial(cards, Columns, Data)
      /\ win.inCard \in DOMAIN cards \cup {0}
  BY DEF TypeInv
<1>2. a.call.kind = "comments" /\ cards' = cards /\ sent' = sent
  BY DEF ArriveComments
<1>3. CASE a.call.mine
  <2> DEFINE v == ShowComments(win, a.comments)
             w == [v EXCEPT !.loaded = TRUE]
  <2>1. Partial(a.comments, 1..lastId, Text)
    BY DEF AnswerOK
  <2>2. /\ WindowOK(v, lastId) /\ v = [win EXCEPT !.comps = v.comps]
        /\ v.inCard = win.inCard
        /\ DOMAIN v.comps = DOMAIN a.comments
        /\ \A id \in DOMAIN a.comments :
               v.comps[id] = IF id \in DOMAIN win.comps THEN win.comps[id]
                             ELSE FreshComment(a.comments[id])
    BY <1>1, <2>1, CommentsShown
  <2>3. win' = Render(w)
    BY <1>3 DEF ArriveComments
  <2> HIDE DEF v
  <2>4. /\ v.own = win.own
        /\ v.ready = win.ready /\ v.assignee = win.assignee
        /\ v.labels = win.labels /\ v.due = win.due
        /\ v.title = win.title /\ v.state = win.state
        /\ v.form = win.form
    BY <1>1, <2>2 DEF WindowOK
  <2>5. /\ WindowOK(w, lastId) /\ w.inCard = v.inCard /\ w.own = v.own
        /\ w.ready = v.ready /\ w.assignee = v.assignee
        /\ w.loaded = TRUE /\ w.labels = v.labels /\ w.due = v.due
        /\ w.title = v.title /\ w.state = v.state /\ w.comps = v.comps
        /\ w.form = v.form
    BY <2>2 DEF WindowOK
  <2> HIDE DEF w
  <2>6. WindowOK(win', lastId) /\ Alike(win', w) /\ win'.inCard = win.inCard
    BY <2>2, <2>3, <2>5, RenderedAlike
  <2>7. Lists(a.comments)
    <3>1. \A id \in DOMAIN a.comments : /\ FreshComment(a.comments[id]).body = a.comments[id]
                                        /\ FreshComment(a.comments[id]).shown = a.comments[id]
      BY DEF FreshComment
    <3> QED BY <2>2, <2>5, <2>6, <3>1, AlikeKeeps DEF Lists
  <2>8. CommentsArrive(a)
    BY <1>2, <1>3, <2>4, <2>5, <2>6, <2>7, AlikeKeeps DEF CommentsArrive, SameForm
  <2> QED BY <1>1, <1>2, <2>6, <2>8 DEF Typed
<1>4. CASE ~a.call.mine
  <2>1. win' = win
    BY <1>4 DEF ArriveComments
  <2> QED BY <1>1, <1>2, <1>4, <2>1, UnchangedKeeps DEF Typed, CommentsArrive, SameFields
<1> QED BY <1>3, <1>4

\* The answer to a new comment: the form is emptied, the comment is shown, and
\* the card is replaced.
LEMMA CommentDoes ==
    ASSUME TypeInv, NEW a, AnswerOK(a, lastId), ArriveComment(a)
    PROVE  CommentArrives(a) /\ Typed
<1>1. /\ WindowOK(win, lastId) /\ Partial(cards, Columns, Data)
      /\ win.inCard \in DOMAIN cards \cup {0} /\ lastId \in Nat
  BY DEF TypeInv
<1>2. a.call.kind = "comment" /\ sent' = sent
  BY DEF ArriveComment
<1>3. CASE a.call.mine
  <2> DEFINE f == SaveCommentFinish(win.form)
             u == [win EXCEPT !.form = f]
             texts == With([id \in DOMAIN win.comps |-> {}], a.call.comment, a.call.body)
             v == ShowComments(u, texts)
             w == Render(v)
  <2>1. win.form \in Forms /\ a.call.body \in Text /\ a.call.comment \in 1..lastId
        /\ a.data \in Data
    BY <1>1, <1>2 DEF WindowOK, AnswerOK, Calls
  <2>2. f \in Forms /\ f.text = {}
    BY <2>1 DEF SaveCommentFinish, Forms
  <2>3. ReplaceCard(w, a.data)
    BY <1>3 DEF ArriveComment
  <2> HIDE DEF f
  <2>4. /\ WindowOK(u, lastId) /\ u.inCard = win.inCard /\ u.own = win.own
        /\ u.ready = win.ready /\ u.assignee = win.assignee
        /\ u.loaded = win.loaded /\ u.labels = win.labels /\ u.due = win.due
        /\ u.title = win.title /\ u.state = win.state /\ u.comps = win.comps
        /\ u.form = f
    BY <1>1, <2>2 DEF WindowOK
  <2> HIDE DEF u
  <2>5. DOMAIN texts = DOMAIN win.comps \cup {a.call.comment} /\ texts[a.call.comment] = a.call.body
    BY DEF With
  <2>6. Partial(texts, 1..lastId, Text)
    BY <1>1, <2>1 DEF With, Partial, Text, WindowOK
  <2> HIDE DEF texts
  <2>7. /\ WindowOK(v, lastId) /\ v = [u EXCEPT !.comps = v.comps]
        /\ v.inCard = u.inCard
        /\ DOMAIN v.comps = DOMAIN texts
        /\ \A id \in DOMAIN texts :
               v.comps[id] = IF id \in DOMAIN u.comps THEN u.comps[id]
                             ELSE FreshComment(texts[id])
    BY <2>4, <2>6, CommentsShown
  <2> HIDE DEF v
  <2>8. /\ v.own = u.own /\ v.loaded = u.loaded
        /\ v.ready = u.ready /\ v.assignee = u.assignee
        /\ v.labels = u.labels /\ v.due = u.due
        /\ v.title = u.title /\ v.state = u.state
        /\ v.form = u.form
    BY <2>4, <2>7 DEF WindowOK
  <2>9. WindowOK(w, lastId) /\ Alike(w, v) /\ w.inCard = win.inCard
    BY <2>4, <2>7, RenderKeeps
  <2> HIDE DEF w
  <2>10. /\ WindowOK(win', lastId) /\ Alike(win', w)
         /\ win'.inCard \in DOMAIN cards' \cup {0}
         /\ Partial(cards', Columns, Data) /\ DOMAIN cards' = DOMAIN cards
         /\ DOMAIN cards # {} => /\ FirstCard \in DOMAIN cards
                                 /\ cards' = [cards EXCEPT ![FirstCard] = a.data]
         /\ DOMAIN cards = {} => cards' = cards
    BY <1>1, <2>1, <2>3, <2>9, CardReplaced
  <2>11. Renews(a.data)
    BY <2>10 DEF Renews
  <2>12. SameFields /\ win'.form.text = {}
    BY <2>2, <2>4, <2>8, <2>9, <2>10, AlikeKeeps DEF Alike, SameFields
  <2>13. /\ DOMAIN win'.comps = DOMAIN win.comps \cup {a.call.comment}
         /\ \A id \in DOMAIN texts : /\ win'.comps[id].body = v.comps[id].body
                                     /\ win'.comps[id].shown = v.comps[id].shown
    BY <2>5, <2>7, <2>9, <2>10, AlikeKeeps DEF Alike
  <2>14. /\ FreshComment(a.call.body).body = a.call.body
         /\ FreshComment(a.call.body).shown = a.call.body
    BY DEF FreshComment
  <2>15. CommentArrives(a)
    BY <1>2, <1>3, <2>4, <2>5, <2>7, <2>11, <2>12, <2>13, <2>14 DEF CommentArrives
  <2> QED BY <2>10, <2>15 DEF Typed
<1>4. CASE ~a.call.mine
  <2>1. win' = win /\ cards' = cards
    BY <1>4 DEF ArriveComment
  <2> QED BY <1>1, <1>2, <1>4, <2>1, UnchangedKeeps DEF Typed, CommentArrives
<1> QED BY <1>3, <1>4

\* The answer to a changed comment.
LEMMA UpdateDoes ==
    ASSUME TypeInv, NEW a, AnswerOK(a, lastId), ArriveCommentUpdate(a)
    PROVE  UpdateArrives(a) /\ Typed
<1>1. /\ WindowOK(win, lastId) /\ Partial(cards, Columns, Data)
      /\ win.inCard \in DOMAIN cards \cup {0}
  BY DEF TypeInv
<1>2. a.call.kind = "update_comment" /\ cards' = cards
      /\ sent' = sent (+) SetToBag({Again(a)})
  BY DEF ArriveCommentUpdate, Again
<1> DEFINE id == a.call.comment
           closes == a.call.mine /\ a.call.name = "form" /\ id \in DOMAIN win.comps
<1>3. CASE closes
  <2> DEFINE c == [win.comps[id] EXCEPT !.editing = FALSE, !.saving = FALSE, !.shown = a.call.body]
             w == [win EXCEPT !.comps = [win.comps EXCEPT ![id] = c]]
  <2>1. win.comps[id] \in Component /\ a.call.body \in Text
    BY <1>1, <1>3 DEF WindowOK, Partial, AnswerOK, Calls
  <2>2. c \in Component /\ c.body = win.comps[id].body /\ c.shown = a.call.body
    BY <2>1 DEF Component
  <2>3. win' = w
    <3>1. /\ win.comps \in [DOMAIN win.comps -> Component] /\ "comps" \in DOMAIN win
      BY <1>1 DEF WindowOK, Partial
    <3> QED BY <1>3, <3>1 DEF ArriveCommentUpdate
  <2> HIDE DEF c
  <2>4. /\ WindowOK(w, lastId) /\ w.inCard = win.inCard
        /\ w.own = win.own /\ w.loaded = win.loaded
        /\ w.labels = win.labels /\ w.ready = win.ready /\ w.assignee = win.assignee
        /\ w.due = win.due /\ w.state = win.state /\ w.title = win.title /\ w.form = win.form
        /\ DOMAIN w.comps = DOMAIN win.comps
        /\ w.comps[id] = c
        /\ \A i \in DOMAIN win.comps \ {id} : w.comps[i] = win.comps[i]
    BY <1>1, <1>3, <2>2, OneCommentChanged
  <2> HIDE DEF w
  <2>5. UpdateArrives(a)
    BY <1>2, <1>3, <2>2, <2>3, <2>4 DEF UpdateArrives, SameFields, SameForm
  <2> QED BY <1>1, <1>2, <2>3, <2>4, <2>5 DEF Typed
<1>4. CASE ~closes
  <2>1. win' = win
    BY <1>4 DEF ArriveCommentUpdate
  <2> QED BY <1>1, <1>2, <1>4, <2>1, UnchangedKeeps DEF Typed, UpdateArrives
<1> QED BY <1>3, <1>4

\* The answer to an archiving.
LEMMA ArchiveDoes ==
    ASSUME TypeInv, NEW a, AnswerOK(a, lastId), ArriveArchive(a)
    PROVE  ArchiveArrives(a) /\ Typed
<1>1. a.call.kind = "archive" /\ sent' = sent /\ RemoveCard(win)
  BY DEF ArriveArchive
<1>2. /\ WindowOK(win', lastId) /\ Alike(win', win)
      /\ win'.inCard \in DOMAIN cards' \cup {0}
      /\ Partial(cards', Columns, Data)
      /\ DOMAIN cards # {} => /\ FirstCard \in DOMAIN cards
                              /\ DOMAIN cards' = DOMAIN cards \ {FirstCard}
      /\ DOMAIN cards = {} => cards' = cards
      /\ \A c \in DOMAIN cards' : cards'[c] = cards[c]
  BY <1>1, CardRemoved
<1>3. SameFields /\ SameForm /\ SameComments
  BY <1>2, AlikeKeeps
<1> QED BY <1>1, <1>2, <1>3 DEF ArchiveArrives, Typed

\* A column that was fetched again.
LEMMA ColumnAnswerDoes ==
    ASSUME TypeInv, NEW a, AnswerOK(a, lastId), ArriveColumn(a)
    PROVE  ColumnArrives(a) /\ Typed
<1>1. a.call.kind = "column" /\ sent' = sent /\ ReplaceColumn(a.call.column, a.data)
  BY DEF ArriveColumn
<1>2. a.call.column \in Columns /\ a.data \in Data
  BY <1>1 DEF AnswerOK, CallOK
<1>3. /\ WindowOK(win', lastId) /\ Alike(win', win)
      /\ win'.inCard \in DOMAIN cards' \cup {0}
      /\ Partial(cards', Columns, Data)
      /\ \A c \in Columns \ {a.call.column} :
             /\ c \in DOMAIN cards' <=> c \in DOMAIN cards
             /\ c \in DOMAIN cards => cards'[c] = cards[c]
      /\ a.call.column \in DOMAIN cards' <=> a.data.column = a.call.column /\ ~a.data.archived
      /\ a.call.column \in DOMAIN cards' => cards'[a.call.column] = a.data
  BY <1>1, <1>2, ColumnReplaced
<1>4. SameFields /\ SameForm /\ SameComments
  BY <1>3, AlikeKeeps
<1> QED BY <1>1, <1>3, <1>4 DEF ColumnArrives, Typed

\* The other answers replace the card.
LEMMA MiniatureDoes ==
    ASSUME TypeInv, NEW a, AnswerOK(a, lastId), ArriveMiniature(a)
    PROVE  MiniatureArrives(a) /\ Typed
<1>1. a.call.kind \in Miniatures \ {"comment"} /\ sent' = sent /\ ReplaceCard(win, a.data)
  BY DEF ArriveMiniature, Miniatures
<1>2. a.data \in Data /\ WindowOK(win, lastId) /\ win.inCard \in DOMAIN cards \cup {0}
  BY DEF AnswerOK, TypeInv
<1>3. /\ WindowOK(win', lastId) /\ Alike(win', win)
      /\ win'.inCard \in DOMAIN cards' \cup {0}
      /\ Partial(cards', Columns, Data) /\ DOMAIN cards' = DOMAIN cards
      /\ DOMAIN cards # {} => /\ FirstCard \in DOMAIN cards
                              /\ cards' = [cards EXCEPT ![FirstCard] = a.data]
      /\ DOMAIN cards = {} => cards' = cards
  BY <1>1, <1>2, CardReplaced
<1>4. SameFields /\ SameForm /\ SameComments
  BY <1>3, AlikeKeeps
<1> QED BY <1>1, <1>3, <1>4 DEF MiniatureArrives, Typed, Renews

\* An answer does one of these.
LEMMA ArrivalDoes ==
    ASSUME TypeInv, NEW a, Arrive(a)
    PROVE  Takes(a) /\ Brings(a) /\ Typed
<1>1. Takes(a)
  BY DEF Arrive, Takes, BagIn, server, history
<1>2. AnswerOK(a, lastId)
  BY <1>1 DEF Takes, TypeInv
<1> QED
  BY <1>1, <1>2, ShowDoes, CommentsDo, CommentDoes, UpdateDoes, ArchiveDoes,
     ColumnAnswerDoes, MiniatureDoes DEF Arrive, Brings

-----------------------------------------------------------------------------
(* What the server does.                                                    *)

\* A request leaves an issue.
LEMMA AfterIsData ==
    ASSUME NEW data \in Data, NEW r, RequestOK(r),
           r.kind = "delete_comment" => data.count > 0
    PROVE  After(data, r) \in Data
<1>1. r \in Calls
  BY DEF RequestOK, CallOK
<1>2. /\ data.count \in Nat /\ data.ready \in BOOLEAN /\ data.closed \in BOOLEAN
      /\ data.column \in Columns /\ data.assignee \in Users \cup {"nobody"}
  BY DEF Data
<1>3. CASE r.kind = "update"
  <2>1. r.name \in {"old", "new"} /\ After(data, r) = [data EXCEPT !.title = r.name]
    BY <1>3 DEF RequestOK, After
  <2> QED BY <2>1 DEF Data
<1>4. CASE r.kind = "update_labels"
  <2>1. r.labels \in SUBSET Labels /\ After(data, r) = [data EXCEPT !.labels = r.labels]
    BY <1>1, <1>4 DEF Calls, After
  <2> QED BY <2>1 DEF Data
<1>5. CASE r.kind = "assignee"
  <2>1. r.name \in Users /\ After(data, r) = Assign(data, r.name)
    BY <1>5 DEF RequestOK, After
  <2> QED BY <2>1 DEF Data, Assign
<1>6. CASE r.kind = "due_date"
  <2>1. r.name \in {"none", "friday"} /\ After(data, r) = [data EXCEPT !.due = r.name]
    BY <1>6 DEF RequestOK, After
  <2> QED BY <2>1 DEF Data
<1>7. CASE r.kind = "move_to"
  <2> DEFINE m == [data EXCEPT !.column = r.column,
                               !.ready = data.ready /\ data.column = r.column]
             s == IF r.column \in AutoAssign /\ m.assignee = "nobody"
                  THEN Assign(m, "me") ELSE m
  <2>1. r.column \in Columns
    BY <1>7 DEF RequestOK, CallOK
  <2>2. m \in Data
    BY <1>2, <2>1 DEF Data
  <2> HIDE DEF m
  <2>3. s \in Data
    BY <2>2, WindowAssumption DEF Data, Assign, WindowAssumption
  <2> HIDE DEF s
  <2>4. [s EXCEPT !.closed = s.closed \/ r.column \in AutoClose] \in Data
    BY <2>3 DEF Data
  <2>5. After(data, r) = [s EXCEPT !.closed = s.closed \/ r.column \in AutoClose]
    BY <1>7 DEF After, Move, m, s
  <2> QED BY <2>4, <2>5
<1>8. CASE r.kind \in {"close", "reopen"}
  <2>1. \E b \in BOOLEAN : After(data, r) = [data EXCEPT !.closed = b]
    BY <1>8 DEF After
  <2> QED BY <2>1 DEF Data
<1>9. CASE r.kind \in {"archive", "unarchive"}
  <2>1. \E b \in BOOLEAN : After(data, r) = [data EXCEPT !.archived = b]
    BY <1>9 DEF After
  <2> QED BY <2>1 DEF Data
<1>10. CASE r.kind = "toggle_ready"
  <2>1. After(data, r) = [data EXCEPT !.ready = ~data.ready]
    BY <1>10 DEF After
  <2> QED BY <1>2, <2>1 DEF Data
<1>11. CASE r.kind = "comment"
  <2>1. After(data, r) = [data EXCEPT !.count = data.count + 1]
    BY <1>11 DEF After
  <2> QED BY <1>2, <2>1 DEF Data
<1>12. CASE r.kind = "delete_comment"
  <2>1. After(data, r) = [data EXCEPT !.count = data.count - 1] /\ data.count - 1 \in Nat
    BY <1>2, <1>12 DEF After
  <2> QED BY <2>1 DEF Data
<1>13. CASE r.kind \in {"update_comment"} \cup Fetches
  <2>1. After(data, r) = data
    BY <1>13 DEF After, Fetches
  <2> QED BY <2>1
<1> QED BY <1>1, <1>3, <1>4, <1>5, <1>6, <1>7, <1>8, <1>9, <1>10, <1>11, <1>12,
           <1>13 DEF Calls, Changes

\* The comments a request leaves, and how many they are.
CommentCount == Cardinality(DOMAIN comments)

\* They are those of before but for the one the request is about.
LEMMA CommentsAfterAre ==
    ASSUME TypeInv, NEW r, RequestOK(r), ~Refused(r)
    PROVE  /\ Partial(CommentsAfter(r), 1..(IF r.kind = "comment" THEN lastId + 1 ELSE lastId), Text)
           /\ DOMAIN CommentsAfter(r) =
                  CASE r.kind = "comment" -> DOMAIN comments \cup {lastId + 1}
                    [] r.kind = "delete_comment" -> DOMAIN comments \ {r.comment}
                    [] OTHER -> DOMAIN comments
           /\ r.kind = "comment" =>
                  /\ lastId + 1 \notin DOMAIN comments
                  /\ CommentsAfter(r)[lastId + 1] = r.body
                  /\ Cardinality(DOMAIN CommentsAfter(r)) = CommentCount + 1
           /\ r.kind = "delete_comment" =>
                  /\ r.comment \in DOMAIN comments
                  /\ CommentCount > 0
                  /\ Cardinality(DOMAIN CommentsAfter(r)) = CommentCount - 1
           /\ r.kind = "update_comment" => /\ r.comment \in DOMAIN comments
                                           /\ CommentsAfter(r)[r.comment] = r.body
           /\ r.kind \notin {"comment", "delete_comment", "update_comment"}
                  => CommentsAfter(r) = comments
           /\ \A id \in DOMAIN comments \cap DOMAIN CommentsAfter(r) :
                  \/ r.kind = "update_comment" /\ id = r.comment
                  \/ CommentsAfter(r)[id] = comments[id]
<1>1. /\ Partial(comments, 1..lastId, Text) /\ lastId \in Nat \ {0}
      /\ r \in Calls /\ r.body \in Text
  BY DEF TypeInv, RequestOK, CallOK, Calls
<1>2. IsFiniteSet(DOMAIN comments) /\ CommentCount \in Nat
  BY <1>1, FS_Interval, FS_Subset, FS_CardinalityType DEF Partial, CommentCount
<1>3. CASE r.kind = "comment"
  <2>1. CommentsAfter(r) = [z \in DOMAIN comments \cup {lastId + 1} |->
                               IF z = lastId + 1 THEN r.body ELSE comments[z]]
    BY <1>3 DEF CommentsAfter, With
  <2>2. lastId + 1 \notin DOMAIN comments
    BY <1>1 DEF Partial
  <2>3. DOMAIN CommentsAfter(r) = DOMAIN comments \cup {lastId + 1}
    BY <2>1
  <2>4. Cardinality(DOMAIN CommentsAfter(r)) = CommentCount + 1
    BY <1>2, <2>2, <2>3, FS_AddElement DEF CommentCount
  <2>5. Partial(CommentsAfter(r), 1..(lastId + 1), Text)
    BY <1>1, <2>1, <2>3 DEF Partial
  <2> QED BY <1>3, <2>1, <2>2, <2>3, <2>4, <2>5
<1>4. CASE r.kind = "delete_comment"
  <2>1. CommentsAfter(r) = [z \in DOMAIN comments \ {r.comment} |-> comments[z]]
    BY <1>4 DEF CommentsAfter, Restrict
  <2>2. r.comment \in DOMAIN comments
    BY <1>4 DEF Refused
  <2>3. DOMAIN CommentsAfter(r) = DOMAIN comments \ {r.comment}
    BY <2>1
  <2>4. Cardinality(DOMAIN CommentsAfter(r)) = CommentCount - 1 /\ CommentCount > 0
    <3>1. Cardinality(DOMAIN comments \ {r.comment}) = CommentCount - 1
          /\ IsFiniteSet(DOMAIN comments \ {r.comment})
      BY <1>2, <2>2, FS_RemoveElement DEF CommentCount
    <3>2. Cardinality(DOMAIN comments \ {r.comment}) \in Nat
      BY <3>1, FS_CardinalityType
    <3> QED BY <1>2, <2>3, <3>1, <3>2
  <2>5. Partial(CommentsAfter(r), 1..lastId, Text)
    BY <1>1, <2>1, <2>3 DEF Partial
  <2> QED BY <1>4, <2>1, <2>2, <2>3, <2>4, <2>5
<1>5. CASE r.kind = "update_comment"
  <2>1. CommentsAfter(r) = [comments EXCEPT ![r.comment] = r.body]
    BY <1>5 DEF CommentsAfter
  <2>2. r.comment \in DOMAIN comments
    BY <1>5 DEF Refused
  <2> QED BY <1>1, <1>5, <2>1, <2>2 DEF Partial
<1>6. CASE r.kind \notin {"comment", "delete_comment", "update_comment"}
  <2>1. CommentsAfter(r) = comments
    BY <1>6 DEF CommentsAfter
  <2> QED BY <1>1, <1>6, <2>1
<1> QED BY <1>3, <1>4, <1>5, <1>6

\* The reloads a request causes.
LEMMA ReloadsAre ==
    ASSUME TypeInv, NEW r, RequestOK(r)
    PROVE  /\ IsABag(Reloads(r))
           /\ BagToSet(Reloads(r)) =
                  CASE r.kind = "move_to" -> {Reload(issue.column), Reload(r.column)}
                    [] r.kind = "unarchive" -> {Reload(issue.column)}
                    [] OTHER -> {}
           /\ \A q \in BagToSet(Reloads(r)) :
                  RequestOK(q) /\ q.kind = "column" /\ ~q.mine
<1>1. ASSUME NEW c \in Columns
      PROVE  RequestOK(Reload(c)) /\ Reload(c).kind = "column" /\ ~Reload(c).mine
             /\ Reload(c).column = c
  BY DEF RequestOK, CallOK, Calls, Reload, Request, Names, Text, Fetches
<1>2. issue.column \in Columns
  BY DEF TypeInv, Data
<1>3. CASE r.kind = "move_to"
  <2>1. r.column \in Columns
    BY <1>3 DEF RequestOK, CallOK
  <2>2. Reloads(r) = SetToBag({Reload(issue.column)}) (+) SetToBag({Reload(r.column)})
    BY <1>3 DEF Reloads
  <2> DEFINE S == SetToBag({Reload(issue.column)})
             q == Reload(r.column)
  <2>3. IsABag(S) /\ BagToSet(S) = {Reload(issue.column)}
    BY OneInBag
  <2>5. Reloads(r) = S (+) SetToBag({q})
    BY <2>2
  <2> HIDE DEF S, q
  <2>6. IsABag(S (+) SetToBag({q})) /\ BagToSet(S (+) SetToBag({q})) = BagToSet(S) \cup {q}
    BY <2>3, OneMore
  <2>4. IsABag(Reloads(r)) /\ BagToSet(Reloads(r)) = BagToSet(S) \cup {Reload(r.column)}
    BY <2>5, <2>6 DEF q
  <2> QED BY <1>1, <1>2, <1>3, <2>1, <2>3, <2>4
<1>4. CASE r.kind = "unarchive"
  <2>1. Reloads(r) = SetToBag({Reload(issue.column)})
    BY <1>4 DEF Reloads
  <2>2. IsABag(Reloads(r)) /\ BagToSet(Reloads(r)) = {Reload(issue.column)}
    BY <2>1, OneInBag
  <2> QED BY <1>1, <1>2, <1>4, <2>2
<1>5. CASE r.kind \notin {"move_to", "unarchive"}
  <2>1. Reloads(r) = EmptyBag
    BY <1>5 DEF Reloads
  <2> QED BY <1>5, <2>1, NoneInBag
<1> QED BY <1>3, <1>4, <1>5

\* The call an answer belongs to.
LEMMA AnswerIs ==
    ASSUME TypeInv, NEW r, RequestOK(r), NEW data \in Data,
           NEW last \in Nat, lastId <= last, r.kind = "comment" => last = lastId + 1
    PROVE  LET a == Answer(r, data) IN
           /\ AnswerOK(a, last)
           /\ a.data = data
           /\ a.call.kind = r.kind /\ a.call.mine = r.mine
           /\ a.call.column = r.column /\ a.call.body = r.body
           /\ a.call.comment = IF r.kind = "comment" THEN lastId + 1 ELSE r.comment
           /\ r.kind = "update_comment" => a.call.name = r.name
           /\ r.kind = "comments" => a.comments = comments
<1> DEFINE c == [r EXCEPT !.name = IF r.kind = "update_comment" THEN r.name ELSE "",
                          !.labels = {},
                          !.comment = IF r.kind = "comment" THEN lastId + 1 ELSE r.comment]
           t == IF r.kind = "comments" THEN comments ELSE << >>
           a == Answer(r, data)
<1>1. /\ Partial(comments, 1..lastId, Text) /\ lastId \in Nat \ {0}
      /\ r \in Calls /\ CallOK(r)
  BY DEF TypeInv, RequestOK, CallOK
<1>2. /\ c \in Calls /\ c.kind = r.kind /\ c.mine = r.mine /\ c.column = r.column
      /\ c.body = r.body /\ (r.kind = "update_comment" => c.name = r.name)
      /\ c.comment = IF r.kind = "comment" THEN lastId + 1 ELSE r.comment
  BY <1>1 DEF Calls, Names
<1>3. Partial(t, 1..last, Text)
  BY <1>1 DEF Partial
<1>4. a = [call |-> c, data |-> data, comments |-> t]
  BY DEF Answer
<1> HIDE DEF c, t
<1>5. a.call = c /\ a.data = data /\ a.comments = t /\ a \in [call : Calls, data : Data, comments : {t}]
  BY <1>2, <1>4
<1>6. CallOK(c)
  BY <1>1, <1>2 DEF CallOK
<1>7. AnswerOK(a, last)
  <2> HIDE DEF a
  <2>1. c.kind = "comment" => c.comment \in 1..last
    BY <1>1, <1>2
  <2> QED BY <1>3, <1>5, <1>6, <2>1 DEF AnswerOK
<1>8. r.kind = "comments" => t = comments
  BY DEF t
<1> QED BY <1>2, <1>5, <1>7, <1>8

\* What is true of fewer comments stays true of more.
LEMMA MoreComments ==
    ASSUME NEW n \in Nat, NEW m \in Nat, n <= m
    PROVE  /\ \A w : WindowOK(w, n) => WindowOK(w, m)
           /\ \A a : AnswerOK(a, n) => AnswerOK(a, m)
<1>1. \A S : S \subseteq 1..n => S \subseteq 1..m
  OBVIOUS
<1>2. \A i \in 1..n : i \in 1..m
  OBVIOUS
<1> QED BY <1>1, <1>2 DEF WindowOK, AnswerOK, Partial

\* A request is executed.
Executes(r) ==
    /\ r \in BagToSet(sent) /\ RequestOK(r) /\ ~Refused(r)
    /\ issue' = After(issue, r) /\ issue' \in Data
    /\ comments' = CommentsAfter(r)
    /\ lastId' = IF r.kind = "comment" THEN lastId + 1 ELSE lastId
    /\ UNCHANGED <<cards, win, uses, met>>
    /\ IsABag(sent')
    /\ BagToSet(sent) \ {r} \subseteq BagToSet(sent')
    /\ BagToSet(sent') \subseteq BagToSet(sent) \cup BagToSet(Reloads(r))
    /\ BagToSet(Reloads(r)) \subseteq BagToSet(sent')
    /\ sent' = (sent (-) SetToBag({r})) (+) Reloads(r)
    /\ IF r.kind = "move_to" THEN answers' = answers
       ELSE answers' = answers (+) SetToBag({Answer(r, issue')})
    /\ unsaved' = IF r.kind = "comment" THEN unsaved \ r.body ELSE unsaved

\* What the server does with a request it does not refuse.
LEMMA ExecuteDoes ==
    ASSUME TypeInv, NEW r, Execute(r)
    PROVE  Executes(r)
<1>1. r \in BagToSet(sent) /\ RequestOK(r) /\ ~Refused(r)
  BY DEF Execute, BagIn, TypeInv
<1>2. /\ issue' = After(issue, r) /\ comments' = CommentsAfter(r)
      /\ lastId' = IF r.kind = "comment" THEN lastId + 1 ELSE lastId
      /\ sent' = (sent (-) SetToBag({r})) (+) Reloads(r)
      /\ answers' = IF r.kind = "move_to" THEN answers
                    ELSE answers (+) SetToBag({Answer(r, issue')})
      /\ unsaved' = IF r.kind = "comment" THEN unsaved \ r.body ELSE unsaved
      /\ UNCHANGED <<cards, win, uses, met>>
  BY Zenon DEF Execute
<1>3. issue' \in Data
  <2>1. issue \in Data /\ issue.count = CommentCount
    BY DEF TypeInv, CommentCount
  <2>2. r.kind = "delete_comment" => issue.count > 0
    BY <1>1, <2>1, CommentsAfterAre
  <2> QED BY <1>1, <1>2, <2>1, <2>2, AfterIsData
<1>4. /\ IsABag(sent (-) SetToBag({r}))
      /\ BagToSet(sent (-) SetToBag({r})) \subseteq BagToSet(sent)
      /\ BagToSet(sent) \ {r} \subseteq BagToSet(sent (-) SetToBag({r}))
  BY <1>1, OneLess DEF TypeInv
<1>5. IsABag(Reloads(r))
  BY <1>1, ReloadsAre
<1>6. IsABag(sent') /\ BagToSet(sent') = BagToSet(sent (-) SetToBag({r})) \cup BagToSet(Reloads(r))
  BY <1>2, <1>4, <1>5, TogetherBag
<1> QED BY <1>1, <1>2, <1>3, <1>4, <1>6 DEF Executes

-----------------------------------------------------------------------------
(* The types hold.                                                          *)

\* The page of one issue.
LEMMA TypesAtFirst == Init => TypeInv
<1> SUFFICES ASSUME Init PROVE TypeInv
  OBVIOUS
<1>1. Min(Columns) \in Columns
  <2>1. Columns \in SUBSET Nat /\ Columns # {}
    BY WindowAssumption DEF WindowAssumption
  <2>2. \E m \in Columns : \A c \in Columns : m <= c
    BY <2>1, LeastNatural
  <2> QED BY <2>2 DEF Min
<1>2. issue \in Data /\ issue.count = 1
  BY <1>1 DEF Init, Data
<1>3. comments = [z \in {1} |-> {"original"}]
  <2>1. comments = With(<< >>, 1, {"original"})
    BY DEF Init
  <2>2. DOMAIN << >> \cup {1} = {1}
    OBVIOUS
  <2>3. With(<< >>, 1, {"original"}) = [z \in DOMAIN << >> \cup {1} |-> IF z = 1 THEN {"original"} ELSE << >>[z]]
    BY DEF With
  <2>4. \A z \in {1} : (IF z = 1 THEN {"original"} ELSE << >>[z]) = {"original"}
    OBVIOUS
  <2> QED BY <2>1, <2>2, <2>3, <2>4
<1>4. lastId = 1 /\ Partial(comments, 1..lastId, Text)
  <2>1. lastId = 1
    BY DEF Init
  <2> QED BY <1>3, <2>1 DEF Partial, Text
<1>5. Cardinality(DOMAIN comments) = 1
  BY <1>3, FS_Singleton
<1>6. Partial(cards, Columns, Data)
  <2>1. cards = Board /\ issue.column \in Columns
    BY <1>2 DEF Init, Data
  <2>2. CASE issue.archived
    <3>1. cards = << >>
      BY <2>1, <2>2 DEF Board
    <3> QED BY <3>1 DEF Partial
  <2>3. CASE ~issue.archived
    <3>1. cards = [z \in DOMAIN << >> \cup {issue.column} |-> IF z = issue.column THEN issue ELSE << >>[z]]
      BY <2>1, <2>3 DEF Board, With
    <3>2. DOMAIN << >> = {}
      OBVIOUS
    <3>3. DOMAIN cards = {issue.column} /\ cards[issue.column] = issue
      BY <3>1, <3>2
    <3> QED BY <1>2, <2>1, <3>1, <3>2, <3>3 DEF Partial
  <2> QED BY <2>2, <2>3
<1>7. WindowOK(win, lastId) /\ win.inCard = 0
  <2>1. win = FreshWindow(issue, 0)
    BY DEF Init
  <2> QED BY <1>2, <2>1, FreshWindowOK
<1>8. IsABag(sent) /\ \A r \in BagToSet(sent) : RequestOK(r)
  <2>1. sent = SetToBag(Beginning)
    BY DEF Init, Beginning
  <2> QED BY <2>1, BeginningIs
<1>9. IsABag(answers) /\ BagToSet(answers) = {}
  BY NoneInBag DEF Init
<1>10. met = {} /\ unsaved = {}
  BY DEF Init
<1> QED BY <1>2, <1>4, <1>5, <1>6, <1>7, <1>8, <1>9, <1>10 DEF TypeInv

\* A click.
LEMMA TypesAfterClick ==
    ASSUME TypeInv, NEW r, Does(r)
    PROVE  TypeInv'
<1>1. /\ RequestOK(r) /\ sent' = sent (+) SetToBag({r})
      /\ UNCHANGED <<issue, comments, lastId, answers>> /\ met' \subseteq Incidents
  BY DEF Does, Asks
<1>2. /\ Partial(cards', Columns, Data) /\ DOMAIN cards' = DOMAIN cards
      /\ WindowOK(win', lastId) /\ win'.inCard = win.inCard /\ unsaved' \subseteq Chunks
  BY DEF Does, Marks
<1>3. IsABag(sent') /\ BagToSet(sent') = BagToSet(sent) \cup {r}
  BY <1>1, OneMore DEF TypeInv
<1> QED BY <1>1, <1>2, <1>3 DEF TypeInv

\* A window of another card.
LEMMA TypesAfterOpen ==
    ASSUME TypeInv, NEW c, Opens(c)
    PROVE  TypeInv'
<1>1. \A r \in BagToSet(sent') : RequestOK(r)
  <2>1. BagToSet(sent') = {Orphan(r) : r \in BagToSet(sent)} \cup Beginning
    BY DEF Opens
  <2> QED BY <2>1, OrphanOf, BeginningIs DEF TypeInv
<1>2. \A a \in BagToSet(answers') : AnswerOK(a, lastId)
  <2>1. BagToSet(answers') = {OrphanAnswer(a) : a \in BagToSet(answers)}
    BY DEF Opens
  <2> QED BY <2>1, OrphanAnswerOf DEF TypeInv
<1>3. /\ UNCHANGED <<issue, comments, lastId, cards, unsaved>> /\ met' \subseteq Incidents
      /\ IsABag(sent') /\ IsABag(answers')
      /\ WindowOK(win', lastId) /\ win'.inCard \in DOMAIN cards
  BY DEF Opens
<1> QED BY <1>1, <1>2, <1>3 DEF TypeInv

\* Typing changes drafts alone.
LEMMA TypesAfterTyping ==
    ASSUME TypeInv, Writes
    PROVE  TypeInv'
BY DEF TypeInv, Writes

\* An answer leaves a window and a board.
LEMMA TypesAfterArrival ==
    ASSUME TypeInv, NEW a, Takes(a), Brings(a), Typed
    PROVE  TypeInv'
<1>1. /\ IsABag(answers') /\ \A b \in BagToSet(answers') : AnswerOK(b, lastId)
  BY OneLess DEF TypeInv, Takes
<1>2. IsABag(sent') /\ \A r \in BagToSet(sent') : RequestOK(r)
  <2>1. CASE a.call.kind = "update_comment"
    <3>1. sent' = sent (+) SetToBag({Again(a)})
      BY <2>1 DEF Brings, ShowArrives, CommentsArrive, CommentArrives, UpdateArrives,
                  ArchiveArrives, ColumnArrives, MiniatureArrives, Miniatures
    <3>2. a.call.mine \in BOOLEAN
      BY DEF TypeInv, Takes, AnswerOK, Calls
    <3>3. RequestOK(Again(a))
      BY <3>2 DEF Again, RequestOK, CallOK, Calls, Request, Names, Text, Fetches
    <3>4. IsABag(sent) /\ \A r \in BagToSet(sent) : RequestOK(r)
      BY DEF TypeInv
    <3>5. IsABag(sent') /\ BagToSet(sent') = BagToSet(sent) \cup {Again(a)}
      BY <3>1, <3>4, OneMore
    <3> QED BY <3>3, <3>4, <3>5
  <2>2. CASE a.call.kind # "update_comment"
    <3>1. sent' = sent
      BY <2>2 DEF Brings, ShowArrives, CommentsArrive, CommentArrives, UpdateArrives,
                  ArchiveArrives, ColumnArrives, MiniatureArrives
    <3> QED BY <3>1 DEF TypeInv
  <2> QED BY <2>1, <2>2
<1> QED BY <1>1, <1>2 DEF TypeInv, Takes, Typed

\* The server leaves an issue and counts its comments.
LEMMA TypesAfterExecution ==
    ASSUME TypeInv, NEW r, Executes(r)
    PROVE  TypeInv'
<1>1. RequestOK(r) /\ ~Refused(r) /\ issue' \in Data /\ lastId \in Nat \ {0}
  BY DEF Executes, TypeInv
<1>2. lastId' = (IF r.kind = "comment" THEN lastId + 1 ELSE lastId)
      /\ lastId' \in Nat \ {0} /\ lastId <= lastId'
  BY <1>1 DEF Executes
<1>3. Partial(comments', 1..lastId', Text)
  BY <1>1, <1>2, CommentsAfterAre DEF Executes
<1>4. issue'.count = Cardinality(DOMAIN comments')
  <2>1. issue.count = CommentCount /\ issue \in Data
    BY DEF TypeInv, CommentCount
  <2>2. comments' = CommentsAfter(r) /\ issue' = After(issue, r)
    BY DEF Executes
  <2>3. CASE r.kind = "comment"
    <3>1. Cardinality(DOMAIN comments') = CommentCount + 1
      BY <1>1, <2>2, <2>3, CommentsAfterAre
    <3>2. issue' = [issue EXCEPT !.count = issue.count + 1]
      BY <2>2, <2>3 DEF After
    <3> QED BY <2>1, <3>1, <3>2 DEF Data
  <2>4. CASE r.kind = "delete_comment"
    <3>1. Cardinality(DOMAIN comments') = CommentCount - 1
      BY <1>1, <2>2, <2>4, CommentsAfterAre
    <3>2. issue' = [issue EXCEPT !.count = issue.count - 1]
      BY <2>2, <2>4 DEF After
    <3> QED BY <2>1, <3>1, <3>2 DEF Data
  <2>5. CASE r.kind \notin {"comment", "delete_comment"}
    <3>1. DOMAIN comments' = DOMAIN comments
      BY <1>1, <2>2, <2>5, CommentsAfterAre
    <3>2. issue'.count = issue.count
      <4>1. CASE r.kind = "move_to"
        BY <2>1, <2>2, <4>1 DEF After, Move, Assign, Data
      <4>2. CASE r.kind # "move_to"
        <5>1. r.kind = "assignee" => issue' = Assign(issue, r.name)
          BY <2>2 DEF After
        <5>2. r.kind # "assignee" => issue'.count = issue.count
          BY <2>1, <2>2, <2>5, <4>2 DEF After, Data
        <5> QED BY <2>1, <5>1, <5>2 DEF Assign, Data
      <4> QED BY <4>1, <4>2
    <3> QED BY <2>1, <3>1, <3>2 DEF CommentCount
  <2> QED BY <2>3, <2>4, <2>5
<1>5. IsABag(sent') /\ \A q \in BagToSet(sent') : RequestOK(q)
  BY <1>1, ReloadsAre DEF Executes, TypeInv
<1>6. \A a \in BagToSet(answers) : AnswerOK(a, lastId')
  BY <1>1, <1>2, MoreComments DEF TypeInv
<1>7. IsABag(answers') /\ \A a \in BagToSet(answers') : AnswerOK(a, lastId')
  <2>1. CASE r.kind = "move_to"
    BY <1>6, <2>1 DEF Executes, TypeInv
  <2>2. CASE r.kind # "move_to"
    <3>1. answers' = answers (+) SetToBag({Answer(r, issue')})
      BY <2>2 DEF Executes
    <3>2. AnswerOK(Answer(r, issue'), lastId')
      BY <1>1, <1>2, AnswerIs
    <3>3. IsABag(answers)
      BY DEF TypeInv
    <3>4. IsABag(answers') /\ BagToSet(answers') = BagToSet(answers) \cup {Answer(r, issue')}
      BY <3>1, <3>3, OneMore
    <3> QED BY <1>6, <3>2, <3>4
  <2> QED BY <2>1, <2>2
<1>8. WindowOK(win', lastId')
  BY <1>1, <1>2, MoreComments DEF Executes, TypeInv
<1> QED BY <1>1, <1>2, <1>3, <1>4, <1>5, <1>7, <1>8 DEF TypeInv, Executes

\* Something is refused, or lost.
Drops(r) == /\ UNCHANGED <<issue, comments, lastId, cards, win, answers, uses, unsaved>>
            /\ r \in BagToSet(sent) /\ sent' = sent (-) SetToBag({r})
            /\ met \subseteq met' /\ met' \subseteq Incidents
            /\ \/ Refused(r) /\ "refusal" \in met'
               \/ "loss" \in met'
Forgets(a) == /\ UNCHANGED <<issue, comments, lastId, cards, win, sent, uses, unsaved>>
              /\ a \in BagToSet(answers) /\ answers' = answers (-) SetToBag({a})
              /\ met \subseteq met' /\ met' \subseteq Incidents
              /\ "loss" \in met'

\* A request that is refused.
LEMMA RefusalDrops == ASSUME TypeInv, NEW r, Refuse(r) PROVE Drops(r)
BY DEF Refuse, Drops, TypeInv, Incidents, server, BagIn

\* A request that is lost.
LEMMA LossDrops == ASSUME TypeInv, NEW r, LoseRequest(r) PROVE Drops(r)
BY DEF LoseRequest, Loss, Drops, TypeInv, Incidents, server, BagIn

\* An answer that is lost.
LEMMA LossForgets == ASSUME TypeInv, NEW a, LoseAnswer(a) PROVE Forgets(a)
BY DEF LoseAnswer, Loss, Forgets, TypeInv, Incidents, server, BagIn

\* What others change.
Interferes ==
    /\ UNCHANGED <<comments, lastId, cards, win, answers, uses, unsaved>>
    /\ met' = met \cup {"others"} \cup (IF Quiet THEN {} ELSE {"hurry"})
    /\ issue' \in Data /\ issue'.column = issue.column /\ issue'.count = issue.count
    /\ issue'.archived = issue.archived
    /\ sent' = sent (+) SetToBag({Reload(issue.column)})

\* A label or a closing of others stays on the card's column.
LEMMA OthersInterfere == ASSUME TypeInv, OthersChange PROVE Interferes
<1>1. issue \in Data
  BY DEF TypeInv
<1>2. \/ \E l \in Labels : issue' = [issue EXCEPT !.labels = issue.labels \cup {l}]
      \/ issue' = [issue EXCEPT !.closed = TRUE]
  BY DEF OthersChange
<1>3. /\ issue' \in Data /\ issue'.column = issue.column /\ issue'.count = issue.count
      /\ issue'.archived = issue.archived
  <2>1. ASSUME NEW l \in Labels, issue' = [issue EXCEPT !.labels = issue.labels \cup {l}]
        PROVE  /\ issue' \in Data /\ issue'.column = issue.column /\ issue'.count = issue.count
               /\ issue'.archived = issue.archived
    <3>1. issue.labels \cup {l} \in SUBSET Labels
      BY <1>1 DEF Data
    <3> QED BY <1>1, <2>1, <3>1 DEF Data
  <2>2. CASE issue' = [issue EXCEPT !.closed = TRUE]
    BY <1>1, <2>2 DEF Data
  <2> QED BY <1>2, <2>1, <2>2
<1> QED BY <1>3 DEF OthersChange, Interferes

\* Less is under way, or a reload more.
LEMMA TypesAfterLoss ==
    /\ \A r : TypeInv /\ Drops(r) => TypeInv'
    /\ \A a : TypeInv /\ Forgets(a) => TypeInv'
    /\ TypeInv /\ Interferes => TypeInv'
<1>1. ASSUME TypeInv, NEW r, Drops(r) PROVE TypeInv'
  <2>1. IsABag(sent') /\ BagToSet(sent') \subseteq BagToSet(sent)
    BY <1>1, OneLess DEF TypeInv, Drops
  <2> QED BY <1>1, <2>1 DEF TypeInv, Drops
<1>2. ASSUME TypeInv, NEW a, Forgets(a) PROVE TypeInv'
  <2>1. IsABag(answers') /\ BagToSet(answers') \subseteq BagToSet(answers)
    BY <1>2, OneLess DEF TypeInv, Forgets
  <2> QED BY <1>2, <2>1 DEF TypeInv, Forgets
<1>3. ASSUME TypeInv, Interferes PROVE TypeInv'
  <2>1. issue.column \in Columns
    BY <1>3 DEF TypeInv, Data
  <2>2. RequestOK(Reload(issue.column))
    BY <2>1 DEF RequestOK, CallOK, Calls, Reload, Request, Names, Text, Fetches
  <2>5. IsABag(sent) /\ \A r \in BagToSet(sent) : RequestOK(r)
    BY <1>3 DEF TypeInv
  <2>6. IsABag(sent') /\ BagToSet(sent') = BagToSet(sent) \cup {Reload(issue.column)}
    BY <1>3, <2>5, OneMore DEF Interferes
  <2>3. IsABag(sent') /\ \A r \in BagToSet(sent') : RequestOK(r)
    BY <2>2, <2>5, <2>6
  <2>4. met' \subseteq Incidents
    BY <1>3 DEF TypeInv, Interferes, Incidents
  <2> QED BY <1>3, <2>3, <2>4 DEF TypeInv, Interferes
<1> QED BY <1>1, <1>2, <1>3

\* A step is one of these.
Effect == \/ \E r : Does(r)
          \/ \E c \in Columns : Opens(c)
          \/ Writes
          \/ \E r : Executes(r)
          \/ \E r : Drops(r)
          \/ \E a : Takes(a) /\ Brings(a) /\ Typed
          \/ \E a : Forgets(a)
          \/ Interferes

\* Every step of the specification has one of the effects.
LEMMA StepHasEffect == TypeInv /\ Next => Effect
<1> SUFFICES ASSUME TypeInv, Next PROVE Effect
  OBVIOUS
<1>1. CASE Click
  BY <1>1, ClickDoes, OpenDoes DEF Effect
<1>2. CASE Type
  BY <1>2, TypingDoes DEF Effect
<1>3. CASE ServerStep
  BY <1>3, ExecuteDoes, RefusalDrops DEF Effect, ServerStep
<1>4. CASE Arrival
  BY <1>4, ArrivalDoes DEF Effect, Arrival
<1>5. CASE Lose
  BY <1>5, LossDrops, LossForgets DEF Effect, Lose
<1>6. CASE OthersChange
  BY <1>6, OthersInterfere DEF Effect
<1> QED BY <1>1, <1>2, <1>3, <1>4, <1>5, <1>6 DEF Next

\* Every step keeps the types.
LEMMA TypesStep == TypeInv /\ [Next]_vars => TypeInv'
<1>1. ASSUME TypeInv, UNCHANGED vars PROVE TypeInv'
  BY <1>1 DEF TypeInv, vars, server, net, history
<1>2. ASSUME TypeInv, Effect PROVE TypeInv'
  BY <1>2, TypesAfterClick, TypesAfterOpen, TypesAfterTyping, TypesAfterArrival,
     TypesAfterExecution, TypesAfterLoss DEF Effect
<1> QED BY <1>1, <1>2, StepHasEffect

\* The types hold always.
LEMMA TypesAlways == Spec => []TypeInv
BY TypesAtFirst, TypesStep, PTL DEF Spec

\* The window, the cards, the requests and the answers are always what they
\* are thought to be: the window holds a card that stands on the board or
\* none, and the number of comments on the card is that of the server.
THEOREM WindowTypes == Spec => []WindowTypeOK
<1>1. TypeInv => WindowTypeOK
  <2> SUFFICES ASSUME TypeInv PROVE WindowTypeOK
    OBVIOUS
  <2>1. Range(cards) \subseteq Data /\ DOMAIN cards \subseteq Columns
    BY DEF TypeInv, Partial, Range
  <2>2. Range(win.comps) \subseteq Component /\ DOMAIN win.comps \subseteq 1..lastId
    BY DEF TypeInv, WindowOK, Partial, Range
  <2>3. DOMAIN comments \subseteq 1..lastId
    BY DEF TypeInv, Partial
  <2>4. /\ win.labels \subseteq Labels
        /\ {win.column, win.current} \subseteq Columns
        /\ win.assignee \in Users \cup {"nobody"}
        /\ win.title \in Titles /\ win.form \in Forms
    BY DEF TypeInv, WindowOK
  <2> QED BY <2>1, <2>2, <2>3, <2>4 DEF TypeInv, WindowTypeOK, Titles, Forms
<1> QED BY <1>1, TypesAlways, PTL

-----------------------------------------------------------------------------
(* Submitted text is not lost.                                              *)

\* Nothing has been submitted.
LEMMA TextAtFirst == Init => TextInv
<1> SUFFICES ASSUME Init PROVE TextInv
  OBVIOUS
<1>1. unsaved = {}
  BY DEF Init
<1>2. BagToSet(answers) = {}
  BY NoneInBag DEF Init
<1> QED BY <1>1, <1>2 DEF TextInv

\* A second comment while the first is under way is "double".
LEMMA TextAfterClick ==
    ASSUME TypeInv, TextInv, NEW r, Does(r)
    PROVE  TextInv'
<1> SUFFICES ASSUME met' \cap {"double", "reopened"} = {}
             PROVE  /\ unsaved' \subseteq win'.form.text
                    /\ \A q \in BagToSet(sent') : IsComment(q) => unsaved' \subseteq q.body
                    /\ \A a \in BagToSet(answers') : IsComment(a.call) => unsaved' = {}
  BY DEF TextInv
<1>1. met \subseteq met' /\ met \cap {"double", "reopened"} = {}
  BY DEF Does, Asks
<1>2. /\ unsaved \subseteq win.form.text
      /\ \A q \in BagToSet(sent) : IsComment(q) => unsaved \subseteq q.body
      /\ \A a \in BagToSet(answers) : IsComment(a.call) => unsaved = {}
  BY <1>1 DEF TextInv
<1>3. BagToSet(sent') = BagToSet(sent) \cup {r} /\ answers' = answers
  BY OneMore DEF Does, Asks, TypeInv
<1>4. win'.form.text = win.form.text
  BY DEF Does, Submits
<1>5. CASE r.kind = "comment"
  <2>1. unsaved' = unsaved \cup win.form.text /\ r.body = win.form.text
    BY <1>5 DEF Does, Submits
  <2>2. ~Posting
    BY <1>5 DEF Does, Asks
  <2>3. /\ \A q \in BagToSet(sent) : ~IsComment(q)
        /\ \A a \in BagToSet(answers) : ~IsComment(a.call)
    BY <2>2 DEF Posting, IsComment
  <2>4. unsaved' = win.form.text
    BY <1>2, <2>1
  <2> QED BY <1>3, <1>4, <2>1, <2>3, <2>4
<1>6. CASE r.kind # "comment"
  <2>1. unsaved' = unsaved
    BY <1>6 DEF Does, Submits
  <2> QED BY <1>2, <1>3, <1>4, <1>6, <2>1 DEF IsComment
<1> QED BY <1>5, <1>6

\* A window that is opened has an empty form; so had the one before.
LEMMA TextAfterOpen ==
    ASSUME TypeInv, TextInv, NEW c, Opens(c)
    PROVE  TextInv'
<1> SUFFICES ASSUME met' \cap {"double", "reopened"} = {}
             PROVE  unsaved' = {}
  BY DEF TextInv
<1>1. met \subseteq met' /\ met \cap {"double", "reopened"} = {} /\ win.form.text = {}
  BY DEF Opens
<1>2. unsaved \subseteq win.form.text
  BY <1>1 DEF TextInv
<1> QED BY <1>1, <1>2 DEF Opens

\* Typing adds to the form.
LEMMA TextAfterTyping == ASSUME TextInv, Writes PROVE TextInv'
BY DEF TextInv, Writes

\* The answer empties the form, and nothing is unsaved by then.
LEMMA TextAfterArrival ==
    ASSUME TypeInv, TextInv, NEW a, Takes(a), Brings(a)
    PROVE  TextInv'
<1> SUFFICES ASSUME met \cap {"double", "reopened"} = {}
             PROVE  /\ unsaved \subseteq win'.form.text
                    /\ \A q \in BagToSet(sent') : IsComment(q) => unsaved \subseteq q.body
                    /\ \A b \in BagToSet(answers') : IsComment(b.call) => unsaved = {}
  BY DEF TextInv, Takes
<1>1. /\ unsaved \subseteq win.form.text
      /\ \A q \in BagToSet(sent) : IsComment(q) => unsaved \subseteq q.body
      /\ \A b \in BagToSet(answers) : IsComment(b.call) => unsaved = {}
  BY DEF TextInv
<1>2. a \in BagToSet(answers) /\ BagToSet(answers') \subseteq BagToSet(answers)
  BY OneLess DEF Takes, TypeInv
<1>3. \A q \in BagToSet(sent') : IsComment(q) => q \in BagToSet(sent)
  <2>1. CASE sent' = sent
    BY <2>1
  <2>2. CASE UpdateArrives(a)
    <3>1. sent' = sent (+) SetToBag({Again(a)})
      BY <2>2 DEF UpdateArrives
    <3>2. BagToSet(sent') = BagToSet(sent) \cup {Again(a)}
      BY <3>1, OneMore DEF TypeInv
    <3>3. Again(a).kind = "fetch_miniature"
      BY DEF Again, Request
    <3> QED BY <3>2, <3>3 DEF IsComment
  <2> QED BY <2>1, <2>2 DEF Brings, ShowArrives, CommentsArrive, CommentArrives,
             ArchiveArrives, ColumnArrives, MiniatureArrives
<1>4. CASE SameForm
  BY <1>1, <1>2, <1>3, <1>4 DEF SameForm
<1>5. CASE IsComment(a.call)
  <2>1. unsaved = {}
    BY <1>1, <1>2, <1>5
  <2> QED BY <2>1
<1> QED BY <1>4, <1>5 DEF Brings, ShowArrives, CommentsArrive, CommentArrives, UpdateArrives,
           ArchiveArrives, ColumnArrives, MiniatureArrives, IsComment

\* What the server stores is not unsaved any more.
LEMMA TextAfterExecution ==
    ASSUME TypeInv, TextInv, NEW r, Executes(r)
    PROVE  TextInv'
<1> SUFFICES ASSUME met \cap {"double", "reopened"} = {}
             PROVE  /\ unsaved' \subseteq win.form.text
                    /\ \A q \in BagToSet(sent') : IsComment(q) => unsaved' \subseteq q.body
                    /\ \A a \in BagToSet(answers') : IsComment(a.call) => unsaved' = {}
  BY DEF TextInv, Executes
<1>1. /\ unsaved \subseteq win.form.text
      /\ \A q \in BagToSet(sent) : IsComment(q) => unsaved \subseteq q.body
      /\ \A a \in BagToSet(answers) : IsComment(a.call) => unsaved = {}
  BY DEF TextInv
<1>2. r \in BagToSet(sent) /\ RequestOK(r) /\ unsaved' \subseteq unsaved
  BY DEF Executes
<1>3. \A q \in BagToSet(sent') : IsComment(q) => q \in BagToSet(sent)
  BY <1>2, ReloadsAre DEF Executes, IsComment
<1>4. \A a \in BagToSet(answers') : IsComment(a.call) => a \in BagToSet(answers) \/ IsComment(r)
  <2>1. CASE r.kind = "move_to"
    BY <2>1 DEF Executes
  <2>2. CASE r.kind # "move_to"
    <3>1. BagToSet(answers') = BagToSet(answers) \cup {Answer(r, issue')}
      BY <2>2, OneMore DEF Executes, TypeInv
    <3>2. issue' \in Data /\ lastId \in Nat
      BY DEF Executes, TypeInv
    <3>3. \E last \in Nat : lastId <= last /\ (r.kind = "comment" => last = lastId + 1)
      BY <3>2
    <3>4. Answer(r, issue').call.kind = r.kind /\ Answer(r, issue').call.mine = r.mine
      BY <1>2, <3>2, <3>3, AnswerIs
    <3> QED BY <3>1, <3>4 DEF IsComment
  <2> QED BY <2>1, <2>2
<1>5. IsComment(r) => unsaved' = {}
  BY <1>1, <1>2 DEF Executes, IsComment
<1> QED BY <1>1, <1>2, <1>3, <1>4, <1>5

\* What is lost stands in the form still.
LEMMA TextAfterLoss ==
    ASSUME TypeInv, TextInv, \/ \E r : Drops(r)
                             \/ \E a : Forgets(a)
                             \/ Interferes
    PROVE  TextInv'
<1>1. CASE \E r : Drops(r)
  <2>1. PICK r : Drops(r)
    BY <1>1
  <2>2. BagToSet(sent') \subseteq BagToSet(sent)
    BY <2>1, OneLess DEF Drops, TypeInv
  <2> QED BY <2>1, <2>2 DEF Drops, TextInv
<1>2. CASE \E a : Forgets(a)
  <2>1. PICK a : Forgets(a)
    BY <1>2
  <2>2. BagToSet(answers') \subseteq BagToSet(answers)
    BY <2>1, OneLess DEF Forgets, TypeInv
  <2> QED BY <2>1, <2>2 DEF Forgets, TextInv
<1>3. CASE Interferes
  <2>1. BagToSet(sent') = BagToSet(sent) \cup {Reload(issue.column)}
    BY <1>3, OneMore DEF Interferes, TypeInv
  <2>2. ~IsComment(Reload(issue.column))
    BY DEF IsComment, Reload, Request
  <2> QED BY <1>3, <2>1, <2>2 DEF Interferes, TextInv
<1> QED BY <1>1, <1>2, <1>3

\* Every step keeps what was submitted.
LEMMA TextStep == TypeInv /\ TextInv /\ [Next]_vars => TextInv'
<1>1. ASSUME TextInv, UNCHANGED vars PROVE TextInv'
  BY <1>1 DEF TextInv, vars, server, net, history
<1>2. ASSUME TypeInv, TextInv, Effect PROVE TextInv'
  BY <1>2, TextAfterClick, TextAfterOpen, TextAfterTyping, TextAfterArrival,
     TextAfterExecution, TextAfterLoss DEF Effect
<1> QED BY <1>1, <1>2, StepHasEffect

\* The comment form is emptied only by the answer to its only comment: what
\* was submitted stands in the form until the server has stored it, whatever
\* is lost and whatever arrives in between, unless ctrl-enter sends a second
\* comment meanwhile or another window is opened over a text.
THEOREM SubmittedTextSafeHolds == Spec => []SubmittedTextSafe
<1>1. TextInv => SubmittedTextSafe
  BY DEF TextInv, SubmittedTextSafe
<1> QED BY <1>1, TextAtFirst, TextStep, TypesAlways, PTL DEF Spec

-----------------------------------------------------------------------------
(* Forms wait for their answers.                                            *)

UnderWay     == BagToSet(sent) \cup {a.call : a \in BagToSet(answers)}
Saves(r, id) == r.kind = "update_comment" /\ r.name = "form" /\ r.comment = id /\ r.mine

\* As long as nothing was lost or refused, the form that is pale waits for
\* the answer to a comment, and a form that edits one for the answer to that.
SavingAwaitsAnswer ==
    met \cap {"loss", "refusal"} = {} =>
        /\ win.form.saving => Posting
        /\ \A id \in DOMAIN win.comps :
               win.comps[id].saving => \E r \in UnderWay : Saves(r, id)

\* No form is pale that was not.
Calmer(v, w) ==
    /\ v.form.saving => w.form.saving
    /\ \A id \in DOMAIN v.comps :
           v.comps[id].saving => id \in DOMAIN w.comps /\ w.comps[id].saving

LEMMA CalmerTwice ==
    ASSUME NEW u, NEW v, NEW w, Calmer(u, v), Calmer(v, w) PROVE Calmer(u, w)
BY DEF Calmer

\* A render leaves the forms as they are.
LEMMA RenderCalm ==
    ASSUME NEW w, NEW n, WindowOK(w, n) PROVE Calmer(Render(w), w)
<1> DEFINE Redraft(id) == [w.comps[id] EXCEPT !.draft = IF w.comps[id].editing
                                        THEN w.comps[id].body ELSE @]
           c == [id \in DOMAIN w.comps |-> Redraft(id)]
<1>1. Render(w) = [w EXCEPT !.current = w.column, !.comps = c]
  BY DEF Render
<1>2. ASSUME NEW id \in DOMAIN w.comps PROVE Redraft(id).saving = w.comps[id].saving
  <2>1. w.comps[id] \in Component
    BY DEF WindowOK, Partial
  <2> QED BY <2>1 DEF Component
<1>3. DOMAIN c = DOMAIN w.comps /\ \A id \in DOMAIN w.comps : c[id] = Redraft(id)
  OBVIOUS
<1> HIDE DEF c, Redraft
<1>4. Render(w).comps = c /\ Render(w).form = w.form
  BY <1>1 DEF WindowOK
<1> QED BY <1>2, <1>3, <1>4 DEF Calmer

\* A card that is lost leaves them as they are.
LEMMA DetachedCalm ==
    ASSUME NEW w, NEW n, WindowOK(w, n), NEW c PROVE Calmer(Detached(w, c), w)
BY DEF WindowOK, Calmer, Detached

LEMMA CardCalm ==
    ASSUME NEW w, NEW n, WindowOK(w, n), NEW data, ReplaceCard(w, data)
    PROVE  Calmer(win', w)
<1>1. win' = w \/ win' = Detached(w, FirstCard)
  BY DEF ReplaceCard
<1>2. Calmer(w, w)
  BY DEF Calmer
<1> QED BY <1>1, <1>2, DetachedCalm

\* A comment that is new in the list is not being edited.
LEMMA CommentsCalm ==
    ASSUME NEW w, NEW n, WindowOK(w, n), NEW texts, Partial(texts, 1..n, Text)
    PROVE  Calmer(ShowComments(w, texts), w)
<1>1. ShowComments(w, texts).form = w.form
  BY DEF ShowComments, WindowOK
<1>2. DOMAIN ShowComments(w, texts).comps = DOMAIN texts
  BY CommentsShown
<1>3. ASSUME NEW id \in DOMAIN texts
      PROVE  ShowComments(w, texts).comps[id].saving => id \in DOMAIN w.comps /\ w.comps[id].saving
  <2>1. ShowComments(w, texts).comps[id] = IF id \in DOMAIN w.comps THEN w.comps[id]
                                           ELSE FreshComment(texts[id])
    BY CommentsShown
  <2>2. ~FreshComment(texts[id]).saving
    BY DEF FreshComment
  <2> QED BY <2>1, <2>2
<1> QED BY <1>1, <1>2, <1>3 DEF Calmer

\* What waits goes on waiting while nothing is taken away.
LEMMA CalmWaits ==
    ASSUME SavingAwaitsAnswer, Calmer(win', win), UnderWay \subseteq UnderWay', met \subseteq met'
    PROVE  SavingAwaitsAnswer'
BY DEF SavingAwaitsAnswer, Calmer, UnderWay, Posting

\* A click asks for more.
LEMMA AskedMore ==
    ASSUME TypeInv, NEW r, NEW inc, Ask(r, inc)
    PROVE  UnderWay' = UnderWay \cup {r} /\ met \subseteq met'
<1>1. BagToSet(sent') = BagToSet(sent) \cup {r} /\ answers' = answers
  BY OneMore DEF Ask, TypeInv
<1> QED BY <1>1 DEF Ask, UnderWay

\* Enough for the clicks that save nothing.
LEMMA CalmClick ==
    ASSUME TypeInv, SavingAwaitsAnswer, Calmer(win', win), \E r, inc : Ask(r, inc)
    PROVE  SavingAwaitsAnswer'
<1>1. UnderWay \subseteq UnderWay' /\ met \subseteq met'
  BY AskedMore
<1> QED BY <1>1, CalmWaits

\* The clicks on the fields of the issue.
LEMMA FieldsCalm ==
    ASSUME TypeInv,
           \/ HandleKeyDown
           \/ \E l \in Labels : ChangeLabel(l)
           \/ \E u \in Users : ChangeAssignee(u)
           \/ ChangeDueDate
           \/ \E c \in Columns : HandleColumnClick(c)
           \/ \E s \in StateButtons : HandleStateButtonClick(s)
           \/ ToggleReady
    PROVE  Calmer(win', win) /\ \E r, inc : Ask(r, inc)
<1>1. WindowOK(win, lastId)
  BY DEF TypeInv
<1>2. CASE HandleKeyDown
  BY <1>1, <1>2 DEF HandleKeyDown, HandleUpdateTitle, WindowOK, Calmer
<1>3. ASSUME NEW l \in Labels, ChangeLabel(l)
      PROVE  Calmer(win', win) /\ \E r, inc : Ask(r, inc)
  <2>1. \E labels \in SUBSET Labels : win' = Render([win EXCEPT !.labels = labels])
    BY <1>1, <1>3 DEF ChangeLabel, HandleLabelChange, WindowOK
  <2>2. PICK labels \in SUBSET Labels : win' = Render([win EXCEPT !.labels = labels])
    BY <2>1
  <2>3. WindowOK([win EXCEPT !.labels = labels], lastId) /\ Calmer([win EXCEPT !.labels = labels], win)
    BY <1>1 DEF WindowOK, Calmer
  <2>4. Calmer(win', win)
    BY <2>2, <2>3, RenderCalm, CalmerTwice
  <2> QED BY <1>3, <2>4 DEF ChangeLabel, HandleLabelChange
<1>4. ASSUME NEW u \in Users, ChangeAssignee(u)
      PROVE  Calmer(win', win) /\ \E r, inc : Ask(r, inc)
  <2>1. \E v \in Users \cup {"nobody"} : win' = Render([win EXCEPT !.assignee = v])
    BY <1>4 DEF ChangeAssignee, HandleAssigneeChange
  <2>2. PICK v \in Users \cup {"nobody"} : win' = Render([win EXCEPT !.assignee = v])
    BY <2>1
  <2>3. WindowOK([win EXCEPT !.assignee = v], lastId) /\ Calmer([win EXCEPT !.assignee = v], win)
    BY <1>1 DEF WindowOK, Calmer
  <2>4. Calmer(win', win)
    BY <2>2, <2>3, RenderCalm, CalmerTwice
  <2> QED BY <1>4, <2>4 DEF ChangeAssignee, HandleAssigneeChange
<1>5. CASE ChangeDueDate
  <2>1. PICK due \in {"none", "friday"} : HandleDueDateChange(due)
    BY <1>5 DEF ChangeDueDate
  <2>2. win' = Render([win EXCEPT !.due = due])
    BY <2>1 DEF HandleDueDateChange
  <2>3. WindowOK([win EXCEPT !.due = due], lastId) /\ Calmer([win EXCEPT !.due = due], win)
    BY <1>1 DEF WindowOK, Calmer
  <2>4. Calmer(win', win)
    BY <2>2, <2>3, RenderCalm, CalmerTwice
  <2> QED BY <2>1, <2>4 DEF HandleDueDateChange
<1>6. ASSUME NEW c \in Columns, HandleColumnClick(c)
      PROVE  Calmer(win', win) /\ \E r, inc : Ask(r, inc)
  BY <1>1, <1>6 DEF HandleColumnClick, HandleColumnChange, WindowOK, Calmer
<1>7. ASSUME NEW s \in StateButtons, HandleStateButtonClick(s)
      PROVE  Calmer(win', win) /\ \E r, inc : Ask(r, inc)
  <2>1. win' = Render([win EXCEPT !.state = s])
    BY <1>7 DEF HandleStateButtonClick
  <2>2. WindowOK([win EXCEPT !.state = s], lastId) /\ Calmer([win EXCEPT !.state = s], win)
    BY <1>1 DEF WindowOK, Calmer, StateButtons, States
  <2>3. Calmer(win', win)
    BY <2>1, <2>2, RenderCalm, CalmerTwice
  <2> QED BY <1>7, <2>3 DEF HandleStateButtonClick
<1>8. CASE ToggleReady
  <2>1. win' = Render([win EXCEPT !.ready = ~win.ready])
    BY <1>8 DEF ToggleReady, HandleReadyButtonClick
  <2>2. /\ WindowOK([win EXCEPT !.ready = ~win.ready], lastId)
        /\ Calmer([win EXCEPT !.ready = ~win.ready], win)
    BY <1>1 DEF WindowOK, Calmer
  <2>3. Calmer(win', win)
    BY <2>1, <2>2, RenderCalm, CalmerTwice
  <2> QED BY <1>8, <2>3 DEF ToggleReady, HandleReadyButtonClick
<1> QED BY <1>2, <1>3, <1>4, <1>5, <1>6, <1>7, <1>8

\* One comment is changed and nothing else.
LEMMA OneCalm ==
    ASSUME NEW w, NEW n, WindowOK(w, n), NEW id \in DOMAIN w.comps, NEW c \in Component,
           c.saving => w.comps[id].saving
    PROVE  Calmer([w EXCEPT !.comps = [w.comps EXCEPT ![id] = c]], w)
<1> DEFINE v == [w EXCEPT !.comps = [w.comps EXCEPT ![id] = c]]
<1>1. /\ v.form = w.form /\ DOMAIN v.comps = DOMAIN w.comps /\ v.comps[id] = c
      /\ \A i \in DOMAIN w.comps \ {id} : v.comps[i] = w.comps[i]
  BY OneCommentChanged
<1> HIDE DEF v
<1>2. Calmer(v, w)
  BY <1>1 DEF Calmer
<1> QED BY <1>2 DEF v

\* A submitted comment is waited for.
LEMMA SubmitWaits ==
    ASSUME TypeInv, SavingAwaitsAnswer, NEW b, HandleSubmit(b)
    PROVE  SavingAwaitsAnswer'
<1> DEFINE r == [Request("comment") EXCEPT !.body = win.form.text]
<1>1. UnderWay' = UnderWay \cup {r} /\ met \subseteq met'
  BY AskedMore DEF HandleSubmit
<1>2. r.kind = "comment" /\ r.mine
  BY DEF Request
<1> HIDE DEF r
<1>3. Posting'
  BY <1>1, <1>2 DEF Posting, UnderWay
<1>4. win'.comps = win.comps
  BY DEF HandleSubmit, TypeInv, WindowOK
<1> QED BY <1>1, <1>3, <1>4 DEF SavingAwaitsAnswer

\* So is a changed one.
LEMMA SaveWaits ==
    ASSUME TypeInv, SavingAwaitsAnswer, NEW id, SaveComment(id)
    PROVE  SavingAwaitsAnswer'
<1> DEFINE old == win.comps[id]
           r == [Request("update_comment") EXCEPT !.comment = id, !.name = "form",
                                                  !.body = old.draft]
           c == [[old EXCEPT !.body = old.draft] EXCEPT !.saving = TRUE]
           w == [win EXCEPT !.comps = [win.comps EXCEPT ![id] = c]]
<1>1. WindowOK(win, lastId) /\ id \in DOMAIN win.comps
  BY DEF TypeInv, SaveComment
<1>2. old \in Component
  BY <1>1 DEF WindowOK, Partial
<1>3. UnderWay' = UnderWay \cup {r} /\ met \subseteq met'
  BY AskedMore DEF SaveComment, HandleUpdateComment
<1>4. Saves(r, id)
  BY DEF Saves, Request
<1>5. win' = w
  <2>1. win' = [win EXCEPT !.comps[id].body = win.comps[id].draft,
                           !.comps[id].saving = TRUE]
    BY DEF SaveComment
  <2>2. win.comps \in [DOMAIN win.comps -> Component] /\ "comps" \in DOMAIN win
    BY <1>1 DEF WindowOK, Partial
  <2> QED BY <1>1, <2>1, <2>2
<1>6. c \in Component
  BY <1>2 DEF Component
<1> HIDE DEF r, c
<1>7. /\ w.form = win.form /\ DOMAIN w.comps = DOMAIN win.comps
      /\ \A i \in DOMAIN win.comps \ {id} : w.comps[i] = win.comps[i]
  BY <1>1, <1>6, OneCommentChanged
<1> HIDE DEF w
<1>8. ASSUME met' \cap {"loss", "refusal"} = {}
      PROVE  /\ win'.form.saving => Posting'
             /\ \A i \in DOMAIN win'.comps :
                    win'.comps[i].saving => \E q \in UnderWay' : Saves(q, i)
  <2>1. /\ win.form.saving => Posting
        /\ \A i \in DOMAIN win.comps :
               win.comps[i].saving => \E q \in UnderWay : Saves(q, i)
    BY <1>3, <1>8 DEF SavingAwaitsAnswer
  <2>2. win'.form.saving => Posting'
    BY <1>3, <1>5, <1>7, <2>1 DEF Posting, UnderWay
  <2>3. ASSUME NEW i \in DOMAIN win'.comps, win'.comps[i].saving
        PROVE  \E q \in UnderWay' : Saves(q, i)
    <3>1. CASE i = id
      BY <1>3, <1>4, <3>1
    <3>2. CASE i # id
      BY <1>3, <1>5, <1>7, <2>1, <2>3, <3>2
    <3> QED BY <3>1, <3>2
  <2> QED BY <2>2, <2>3
<1> QED BY <1>8 DEF SavingAwaitsAnswer

\* Deleting a comment and ticking a box save nothing.
LEMMA CommentClicksCalm ==
    ASSUME TypeInv, NEW id, HandleDeleteClick(id) \/ HandleBodyClick(id)
    PROVE  Calmer(win', win) /\ \E r, inc : Ask(r, inc)
<1>1. WindowOK(win, lastId)
  BY DEF TypeInv
<1>2. CASE HandleDeleteClick(id)
  <2> DEFINE left == Restrict(win.comps, DOMAIN win.comps \ {id})
             w == [win EXCEPT !.comps = left]
  <2>1. win' = Render(w)
    BY <1>2 DEF HandleDeleteClick
  <2>2. /\ DOMAIN left \subseteq DOMAIN win.comps
        /\ \A i \in DOMAIN left : left[i] = win.comps[i]
        /\ Partial(left, 1..lastId, Component)
    BY <1>1 DEF Restrict, Partial, WindowOK
  <2> HIDE DEF left
  <2>3. w.comps = left /\ w.form = win.form
    BY <1>1 DEF WindowOK
  <2>4. WindowOK(w, lastId)
    BY <1>1, <2>2, <2>3 DEF WindowOK
  <2> HIDE DEF w
  <2>5. Calmer(w, win)
    BY <2>2, <2>3 DEF Calmer
  <2>6. Calmer(win', w)
    BY <2>1, <2>4, RenderCalm
  <2>7. Calmer(win', win)
    BY <2>5, <2>6, CalmerTwice
  <2> QED BY <1>2, <2>7 DEF HandleDeleteClick
<1>3. CASE HandleBodyClick(id)
  <2> DEFINE Tick(text) == IF "tick" \in text THEN text \ {"tick"}
                           ELSE text \cup {"tick"}
             old == win.comps[id]
             c == [[old EXCEPT !.body = Tick(old.body)] EXCEPT !.shown = Tick(old.shown)]
  <2>1. id \in DOMAIN win.comps /\ old \in Component
    BY <1>1, <1>3 DEF HandleBodyClick, WindowOK, Partial
  <2>2. win' = [win EXCEPT !.comps[id].body = Tick(old.body),
                           !.comps[id].shown = Tick(old.shown)]
    BY <1>1, <1>3, <2>1 DEF HandleBodyClick, WindowOK, Partial, Component
  <2>3. Tick(old.body) \in Text /\ Tick(old.shown) \in Text
    BY <2>1 DEF Component, Text
  <2> HIDE DEF Tick
  <2>4. win' = [win EXCEPT !.comps = [win.comps EXCEPT ![id] = c]]
    <3>1. win.comps \in [DOMAIN win.comps -> Component] /\ "comps" \in DOMAIN win
      BY <1>1 DEF WindowOK, Partial
    <3> QED BY <2>1, <2>2, <3>1
  <2>5. c \in Component /\ c.saving = win.comps[id].saving
    BY <2>1, <2>3 DEF Component
  <2> HIDE DEF c, old
  <2>6. Calmer(win', win)
    BY <1>1, <2>1, <2>4, <2>5, OneCalm
  <2> QED BY <1>3, <2>6 DEF HandleBodyClick, HandleUpdateComment
<1> QED BY <1>2, <1>3

\* A new window waits for nothing that is saved.
LEMMA OpenedWaits ==
    ASSUME NEW data, NEW c, win' = FreshWindow(data, c) PROVE SavingAwaitsAnswer'
<1>1. ~win'.form.saving /\ DOMAIN win'.comps = {}
  BY DEF FreshWindow, FreshForm
<1> QED BY <1>1 DEF SavingAwaitsAnswer

\* Every click.
LEMMA ClickWaits == ASSUME TypeInv, SavingAwaitsAnswer, Click PROVE SavingAwaitsAnswer'
<1>1. CASE \/ HandleKeyDown
           \/ \E l \in Labels : ChangeLabel(l)
           \/ \E u \in Users : ChangeAssignee(u)
           \/ ChangeDueDate
           \/ \E c \in Columns : HandleColumnClick(c)
           \/ \E s \in StateButtons : HandleStateButtonClick(s)
           \/ ToggleReady
  BY <1>1, FieldsCalm, CalmClick
<1>2. ASSUME NEW c, OpenCard(c) PROVE SavingAwaitsAnswer'
  BY <1>2, OpenedWaits DEF OpenCard, Opened
<1>3. ASSUME NEW id, HandleDeleteClick(id) \/ HandleBodyClick(id) PROVE SavingAwaitsAnswer'
  BY <1>3, CommentClicksCalm, CalmClick
<1> QED BY <1>1, <1>2, <1>3, SubmitWaits, SaveWaits DEF Click, StateButtons

\* Typing saves nothing.
LEMMA TypeCalm == ASSUME TypeInv, Type PROVE Calmer(win', win) /\ Typing
<1>1. WindowOK(win, lastId)
  BY DEF TypeInv
<1>2. Typing
  BY DEF Type, EditTitle, HandleTitleChange, HandleTextChange, UploadDone,
         HandleEditTextChange, HandleEditClick, HandleCloseWithoutSaveClick
<1>3. CASE \/ EditTitle
           \/ \E text \in {"", "new"} : HandleTitleChange(text)
           \/ \E piece \in Chunks : HandleTextChange(piece) \/ UploadDone(piece)
  <2>1. win'.comps = win.comps
    BY <1>1, <1>3 DEF EditTitle, HandleTitleChange, HandleTextChange, UploadDone, WindowOK
  <2>2. win'.form.saving = win.form.saving
    <3>1. CASE EditTitle \/ \E text \in {"", "new"} : HandleTitleChange(text)
      BY <1>1, <3>1 DEF EditTitle, HandleTitleChange, WindowOK
    <3>2. ASSUME NEW piece, HandleTextChange(piece) \/ UploadDone(piece)
          PROVE  win'.form.saving = win.form.saving
      <4> DEFINE f == [win.form EXCEPT !.text = win.form.text \cup {piece}]
      <4>1. f.saving = win.form.saving
        BY <1>1 DEF WindowOK, Forms
      <4>2. win' = [win EXCEPT !.form = f]
        BY <1>1, <3>2 DEF HandleTextChange, UploadDone, WindowOK, Forms
      <4> HIDE DEF f
      <4> QED BY <1>1, <4>1, <4>2 DEF WindowOK
    <3> QED BY <1>3, <3>1, <3>2
  <2> QED BY <1>2, <2>1, <2>2 DEF Calmer
<1>4. ASSUME NEW id, \/ \E piece \in Chunks : HandleEditTextChange(id, piece)
                     \/ HandleEditClick(id) \/ HandleCloseWithoutSaveClick(id)
      PROVE  Calmer(win', win)
  <2> DEFINE old == win.comps[id]
  <2>1. id \in DOMAIN win.comps /\ old \in Component
    BY <1>1, <1>4 DEF HandleEditTextChange, HandleEditClick, HandleCloseWithoutSaveClick,
                      WindowOK, Partial
  <2>2. win.comps \in [DOMAIN win.comps -> Component] /\ "comps" \in DOMAIN win
    BY <1>1 DEF WindowOK, Partial
  <2>3. \E c : /\ c \in Component /\ c.saving = old.saving
               /\ win' = [win EXCEPT !.comps = [win.comps EXCEPT ![id] = c]]
    <3>1. ASSUME NEW piece \in Chunks, HandleEditTextChange(id, piece)
          PROVE  LET c == [old EXCEPT !.draft = old.draft \cup {piece}] IN
                 /\ c \in Component /\ c.saving = old.saving
                 /\ win' = [win EXCEPT !.comps = [win.comps EXCEPT ![id] = c]]
      BY <2>1, <2>2, <3>1 DEF HandleEditTextChange, Component, Text
    <3>2. CASE HandleEditClick(id)
      <4> DEFINE c == [[old EXCEPT !.editing = TRUE] EXCEPT !.draft = old.body]
      <4>1. c \in Component /\ c.saving = old.saving
        BY <2>1 DEF Component
      <4>2. win' = [win EXCEPT !.comps = [win.comps EXCEPT ![id] = c]]
        BY <2>1, <2>2, <3>2 DEF HandleEditClick
      <4> QED BY <4>1, <4>2
    <3>3. CASE HandleCloseWithoutSaveClick(id)
      <4> DEFINE c == [old EXCEPT !.editing = FALSE]
      <4>1. c \in Component /\ c.saving = old.saving
        BY <2>1 DEF Component
      <4>2. win' = [win EXCEPT !.comps = [win.comps EXCEPT ![id] = c]]
        BY <2>1, <2>2, <3>3 DEF HandleCloseWithoutSaveClick
      <4> QED BY <4>1, <4>2
    <3> QED BY <1>4, <3>1, <3>2, <3>3
  <2>4. PICK c : /\ c \in Component /\ c.saving = old.saving
                 /\ win' = [win EXCEPT !.comps = [win.comps EXCEPT ![id] = c]]
    BY <2>3
  <2> QED BY <1>1, <2>1, <2>4, OneCalm
<1> QED BY <1>2, <1>3, <1>4 DEF Type

\* The answer to a comment ends the saving of the form.
LEMMA CommentEndsSaving ==
    ASSUME TypeInv, NEW a, AnswerOK(a, lastId), ArriveComment(a), a.call.mine
    PROVE  Calmer(win', win) /\ ~win'.form.saving
<1> DEFINE f == SaveCommentFinish(win.form)
           u == [win EXCEPT !.form = f]
           texts == With([id \in DOMAIN win.comps |-> {}], a.call.comment, a.call.body)
           v == ShowComments(u, texts)
           w == Render(v)
<1>1. WindowOK(win, lastId) /\ win.form \in Forms
  BY DEF TypeInv, WindowOK
<1>2. a.call.body \in Text /\ a.call.comment \in 1..lastId
  BY DEF AnswerOK, Calls, ArriveComment
<1>3. f \in Forms /\ ~f.saving
  BY <1>1 DEF SaveCommentFinish, Forms
<1>4. ReplaceCard(w, a.data)
  BY DEF ArriveComment
<1> HIDE DEF f
<1>5. WindowOK(u, lastId) /\ u.form = f /\ u.comps = win.comps
  BY <1>1, <1>3 DEF WindowOK
<1> HIDE DEF u
<1>6. Partial(texts, 1..lastId, Text)
  BY <1>1, <1>2 DEF With, Partial, Text, WindowOK
<1> HIDE DEF texts
<1>7. WindowOK(v, lastId)
  BY <1>5, <1>6, CommentsShown
<1>8. Calmer(v, u)
  BY <1>5, <1>6, CommentsCalm
<1> HIDE DEF v
<1>9. WindowOK(w, lastId)
  BY <1>7, RenderKeeps
<1>10. Calmer(w, v)
  BY <1>7, RenderCalm
<1> HIDE DEF w
<1>11. Calmer(win', w)
  BY <1>4, <1>9, CardCalm
<1>12. Calmer(win', u)
  BY <1>8, <1>10, <1>11, CalmerTwice
<1> QED BY <1>3, <1>5, <1>12 DEF Calmer

\* So does the answer to a changed one.
LEMMA UpdateEndsSaving ==
    ASSUME TypeInv, NEW a, AnswerOK(a, lastId), ArriveCommentUpdate(a),
           a.call.mine, a.call.name = "form", a.call.comment \in DOMAIN win.comps
    PROVE  Calmer(win', win) /\ ~win'.comps[a.call.comment].saving
<1> DEFINE id == a.call.comment
           c == [win.comps[id] EXCEPT !.editing = FALSE, !.saving = FALSE, !.shown = a.call.body]
           w == [win EXCEPT !.comps = [win.comps EXCEPT ![id] = c]]
<1>1. WindowOK(win, lastId)
  BY DEF TypeInv
<1>2. win.comps[id] \in Component /\ a.call.body \in Text
  BY <1>1 DEF WindowOK, Partial, AnswerOK, Calls
<1>3. c \in Component /\ ~c.saving
  BY <1>2 DEF Component
<1>4. win' = w
  <2>1. win.comps \in [DOMAIN win.comps -> Component] /\ "comps" \in DOMAIN win
    BY <1>1 DEF WindowOK, Partial
  <2> QED BY <2>1 DEF ArriveCommentUpdate
<1> HIDE DEF c
<1>5. w.comps[id] = c
  BY <1>1, <1>3, OneCommentChanged
<1>6. Calmer(w, win)
  BY <1>1, <1>3, OneCalm
<1> QED BY <1>3, <1>4, <1>5, <1>6

\* What the server executes is answered, but for moves.
LEMMA ExecutionWaits ==
    ASSUME TypeInv, SavingAwaitsAnswer, NEW r, Executes(r)
    PROVE  SavingAwaitsAnswer'
<1>1. win' = win /\ met' = met
  BY DEF Executes
<1>2. /\ BagToSet(sent) \ {r} \subseteq BagToSet(sent') /\ RequestOK(r)
      /\ BagToSet(answers) \subseteq BagToSet(answers')
  <2>1. IsABag(answers)
    BY DEF TypeInv
  <2>2. BagToSet(answers) \subseteq BagToSet(answers')
    <3>1. CASE r.kind = "move_to"
      BY <3>1 DEF Executes
    <3>2. CASE r.kind # "move_to"
      <4>1. answers' = answers (+) SetToBag({Answer(r, issue')})
        BY <3>2 DEF Executes
      <4> QED BY <2>1, <4>1, OneMore
    <3> QED BY <3>1, <3>2
  <2> QED BY <2>2 DEF Executes
<1>3. ASSUME r.kind # "move_to"
      PROVE  \E q \in UnderWay' : /\ q.kind = r.kind /\ q.mine = r.mine
                                  /\ r.kind = "update_comment" =>
                                         q.name = r.name /\ q.comment = r.comment
  <2> DEFINE q == Answer(r, issue').call
             last == IF r.kind = "comment" THEN lastId + 1 ELSE lastId
  <2>1. issue' \in Data /\ last \in Nat /\ lastId <= last /\ (r.kind = "comment" => last = lastId + 1)
    BY DEF Executes, TypeInv
  <2> HIDE DEF last
  <2>2. /\ q.kind = r.kind /\ q.mine = r.mine
        /\ q.comment = IF r.kind = "comment" THEN lastId + 1 ELSE r.comment
        /\ r.kind = "update_comment" => q.name = r.name
    BY <1>2, <2>1, AnswerIs
  <2>3. BagToSet(answers') = BagToSet(answers) \cup {Answer(r, issue')}
    BY <1>3, OneMore DEF Executes, TypeInv
  <2>4. q \in UnderWay'
    BY <2>3 DEF UnderWay
  <2> QED BY <2>2, <2>4
<1>4. ASSUME NEW q \in UnderWay, q.kind \in {"comment", "update_comment"}
      PROVE  \E p \in UnderWay' : /\ p.kind = q.kind /\ p.mine = q.mine
                                  /\ q.kind = "update_comment" =>
                                         p.name = q.name /\ p.comment = q.comment
  <2>1. CASE q = r
    BY <1>3, <1>4, <2>1
  <2>2. CASE q # r
    <3>1. q \in UnderWay'
      BY <1>2, <2>2 DEF UnderWay
    <3> QED BY <3>1
  <2> QED BY <2>1, <2>2
<1>5. Posting => Posting'
  BY <1>4 DEF Posting, UnderWay
<1>6. \A id : (\E q \in UnderWay : Saves(q, id)) => \E p \in UnderWay' : Saves(p, id)
  BY <1>4 DEF Saves
<1> QED BY <1>1, <1>5, <1>6 DEF SavingAwaitsAnswer

\* What is taken away is counted as lost or refused; a reload is more.
LEMMA LossWaits ==
    ASSUME TypeInv, SavingAwaitsAnswer, \/ \E r : Drops(r)
                                        \/ \E a : Forgets(a)
                                        \/ Interferes
    PROVE  SavingAwaitsAnswer'
<1>1. CASE (\E r : Drops(r)) \/ (\E a : Forgets(a))
  <2>1. met' \cap {"loss", "refusal"} # {}
    BY <1>1 DEF Drops, Forgets
  <2> QED BY <2>1 DEF SavingAwaitsAnswer
<1>2. CASE Interferes
  <2>1. BagToSet(sent') = BagToSet(sent) \cup {Reload(issue.column)}
    BY <1>2, OneMore DEF Interferes, TypeInv
  <2>2. UnderWay \subseteq UnderWay' /\ met \subseteq met' /\ Calmer(win', win)
    BY <1>2, <2>1 DEF Interferes, UnderWay, Calmer
  <2> QED BY <2>2, CalmWaits
<1> QED BY <1>1, <1>2

\* No answer makes a form pale.
LEMMA ArrivalCalm ==
    ASSUME TypeInv, NEW a, AnswerOK(a, lastId), Arrive(a)
    PROVE  Calmer(win', win)
<1>1. WindowOK(win, lastId)
  BY DEF TypeInv
<1>2. Calmer(win, win)
  BY DEF Calmer
<1>3. CASE ArriveShow(a)
  <2> DEFINE w == [win EXCEPT !.own = TRUE, !.ready = a.data.ready,
                              !.column = a.data.column, !.assignee = a.data.assignee]
  <2>1. a.data \in Data
    BY DEF AnswerOK
  <2>2. WindowOK(w, lastId) /\ Calmer(w, win)
    BY <1>1, <2>1 DEF WindowOK, Data, Calmer
  <2>3. win' = win \/ win' = Render(w)
    BY <1>3 DEF ArriveShow
  <2> HIDE DEF w
  <2> QED BY <1>2, <2>2, <2>3, RenderCalm, CalmerTwice
<1>4. CASE ArriveComments(a)
  <2> DEFINE v == ShowComments(win, a.comments)
             w == [v EXCEPT !.loaded = TRUE]
  <2>1. Partial(a.comments, 1..lastId, Text)
    BY DEF AnswerOK
  <2>2. WindowOK(v, lastId)
    BY <1>1, <2>1, CommentsShown
  <2>3. Calmer(v, win)
    BY <1>1, <2>1, CommentsCalm
  <2>4. win' = win \/ win' = Render(w)
    BY <1>4 DEF ArriveComments
  <2> HIDE DEF v
  <2>5. WindowOK(w, lastId) /\ Calmer(w, v)
    BY <2>2 DEF WindowOK, Calmer
  <2> HIDE DEF w
  <2>6. Calmer(w, win)
    BY <2>3, <2>5, CalmerTwice
  <2> QED BY <1>2, <2>4, <2>5, <2>6, RenderCalm, CalmerTwice
<1>5. CASE ArriveComment(a)
  <2>1. CASE ~a.call.mine
    BY <1>2, <1>5, <2>1 DEF ArriveComment
  <2>2. CASE a.call.mine
    BY <1>5, <2>2, CommentEndsSaving
  <2> QED BY <2>1, <2>2
<1>6. CASE ArriveCommentUpdate(a)
  <2>1. CASE a.call.mine /\ a.call.name = "form" /\ a.call.comment \in DOMAIN win.comps
    BY <1>6, <2>1, UpdateEndsSaving
  <2>2. CASE ~(a.call.mine /\ a.call.name = "form" /\ a.call.comment \in DOMAIN win.comps)
    BY <1>2, <1>6, <2>2 DEF ArriveCommentUpdate
  <2> QED BY <2>1, <2>2
<1>7. CASE ArriveArchive(a)
  <2>1. win' = win \/ win' = Detached(win, FirstCard)
    BY <1>7 DEF ArriveArchive, RemoveCard
  <2> QED BY <1>1, <1>2, <2>1, DetachedCalm
<1>8. CASE ArriveColumn(a)
  BY <1>1, <1>8, DetachedCalm DEF ArriveColumn, ReplaceColumn
<1>9. CASE ArriveMiniature(a)
  BY <1>1, <1>9, CardCalm DEF ArriveMiniature
<1> QED BY <1>3, <1>4, <1>5, <1>6, <1>7, <1>8, <1>9 DEF Arrive

\* The answer that is taken away is that of a form that is not pale any more.
LEMMA ArrivalWaits ==
    ASSUME TypeInv, SavingAwaitsAnswer, NEW a, Arrive(a)
    PROVE  SavingAwaitsAnswer'
<1>1. Takes(a)
  BY ArrivalDoes
<1>2. AnswerOK(a, lastId)
  BY <1>1 DEF Takes, TypeInv
<1>3. Calmer(win', win)
  BY <1>2, ArrivalCalm
<1>4. BagToSet(sent) \subseteq BagToSet(sent')
  BY OneMore DEF Arrive, ArriveShow, ArriveComments, ArriveComment, ArriveCommentUpdate,
                 ArriveArchive, ArriveColumn, ArriveMiniature, TypeInv
<1>5. BagToSet(answers) \ {a} \subseteq BagToSet(answers')
  BY <1>1, OneLess DEF Takes, TypeInv
<1>6. UnderWay \ {a.call} \subseteq UnderWay'
  BY <1>4, <1>5 DEF UnderWay
<1>7. a.call.kind = "comment" /\ a.call.mine => ~win'.form.saving
  <2>1. a.call.kind = "comment" => ArriveComment(a)
    BY DEF Arrive, ArriveShow, ArriveComments, ArriveCommentUpdate, ArriveArchive,
           ArriveColumn, ArriveMiniature
  <2> QED BY <1>2, <2>1, CommentEndsSaving
<1>8. ASSUME NEW id \in DOMAIN win'.comps, win'.comps[id].saving PROVE ~Saves(a.call, id)
  <2> SUFFICES ASSUME Saves(a.call, id) PROVE FALSE
    OBVIOUS
  <2>1. ArriveCommentUpdate(a)
    BY DEF Arrive, ArriveShow, ArriveComments, ArriveComment, ArriveArchive,
           ArriveColumn, ArriveMiniature, Saves
  <2>2. id \in DOMAIN win.comps
    BY <1>3, <1>8 DEF Calmer
  <2> QED BY <1>2, <1>8, <2>1, <2>2, UpdateEndsSaving DEF Saves
<1> SUFFICES ASSUME met \cap {"loss", "refusal"} = {}
             PROVE  /\ win'.form.saving => Posting'
                    /\ \A id \in DOMAIN win'.comps :
                           win'.comps[id].saving => \E q \in UnderWay' : Saves(q, id)
  BY <1>1 DEF SavingAwaitsAnswer, Takes
<1>9. /\ win.form.saving => Posting
      /\ \A id \in DOMAIN win.comps :
             win.comps[id].saving => \E q \in UnderWay : Saves(q, id)
  BY DEF SavingAwaitsAnswer
<1>10. ASSUME win'.form.saving PROVE Posting'
  <2>1. PICK q \in UnderWay : q.kind = "comment" /\ q.mine
    BY <1>3, <1>9, <1>10 DEF Calmer, Posting, UnderWay
  <2>2. q \in UnderWay'
    BY <1>6, <1>7, <1>10, <2>1
  <2> QED BY <2>1, <2>2 DEF Posting, UnderWay
<1>11. ASSUME NEW id \in DOMAIN win'.comps, win'.comps[id].saving
       PROVE  \E q \in UnderWay' : Saves(q, id)
  <2>1. PICK q \in UnderWay : Saves(q, id)
    BY <1>3, <1>9, <1>11 DEF Calmer
  <2>2. q # a.call
    BY <1>8, <1>11, <2>1
  <2> QED BY <1>6, <2>1, <2>2
<1> QED BY <1>10, <1>11

\* Every step.
LEMMA SavingStep == TypeInv /\ SavingAwaitsAnswer /\ [Next]_vars => SavingAwaitsAnswer'
<1> SUFFICES ASSUME TypeInv, SavingAwaitsAnswer, [Next]_vars PROVE SavingAwaitsAnswer'
  OBVIOUS
<1>1. CASE UNCHANGED vars
  BY <1>1 DEF SavingAwaitsAnswer, UnderWay, Posting, vars, server, net, history
<1>2. CASE Click
  BY <1>2, ClickWaits
<1>3. CASE Type
  <2>1. Calmer(win', win) /\ Typing
    BY <1>3, TypeCalm
  <2>2. UnderWay' = UnderWay /\ met' = met
    BY <2>1 DEF Typing, net, history, UnderWay
  <2> QED BY <2>1, <2>2, CalmWaits
<1>4. CASE ServerStep
  BY <1>4, ExecuteDoes, ExecutionWaits, RefusalDrops, LossWaits DEF ServerStep
<1>5. CASE Arrival
  BY <1>5, ArrivalWaits DEF Arrival
<1>6. CASE Lose
  BY <1>6, LossDrops, LossForgets, LossWaits DEF Lose
<1>7. CASE OthersChange
  BY <1>7, OthersInterfere, LossWaits
<1> QED BY <1>1, <1>2, <1>3, <1>4, <1>5, <1>6, <1>7 DEF Next

\* A form is never pale for nothing: until something is lost or refused, the
\* answer that ends its saving is still to come, whatever other clicks, edits
\* and windows come in between.  (SavingEnds is this and the fairness of the
\* server and of the answers.)
THEOREM SavingAwaitsItsAnswer == Spec => []SavingAwaitsAnswer
<1>1. Init => SavingAwaitsAnswer
  <2> SUFFICES ASSUME Init PROVE SavingAwaitsAnswer
    OBVIOUS
  <2>1. ~win.form.saving /\ DOMAIN win.comps = {}
    BY DEF Init, FreshWindow, FreshForm
  <2> QED BY <2>1 DEF SavingAwaitsAnswer
<1> QED BY <1>1, SavingStep, TypesAlways, PTL DEF Spec

-----------------------------------------------------------------------------
(* The board follows.                                                       *)

\* What a board shows that shows the card where it stands.
LEMMA BoardIs ==
    ASSUME TypeInv
    PROVE  /\ issue.archived => DOMAIN Board = {}
           /\ ~issue.archived => DOMAIN Board = {issue.column} /\ Board[issue.column] = issue
           /\ (\A c \in Columns : Right(c)) <=> cards = Board
<1>1. issue \in Data /\ issue.column \in Columns /\ Partial(cards, Columns, Data)
  BY DEF TypeInv, Data
<1>2. CASE issue.archived
  <2>1. Board = << >> /\ DOMAIN Board = {}
    BY <1>2 DEF Board
  <2>2. (\A c \in Columns : Right(c)) <=> DOMAIN cards = {}
    BY <1>1, <1>2 DEF Right, Partial
  <2>3. DOMAIN cards = {} => cards = << >>
    BY <1>1 DEF Partial
  <2> QED BY <1>2, <2>1, <2>2, <2>3
<1>3. CASE ~issue.archived
  <2>1. Board = [z \in {issue.column} |-> issue]
    <3>1. Board = [z \in DOMAIN << >> \cup {issue.column} |-> IF z = issue.column THEN issue ELSE << >>[z]]
      BY <1>3 DEF Board, With
    <3>2. DOMAIN << >> \cup {issue.column} = {issue.column}
      OBVIOUS
    <3> QED BY <3>1, <3>2
  <2>2. (\A c \in Columns : Right(c)) <=> DOMAIN cards = {issue.column} /\ cards[issue.column] = issue
    BY <1>1, <1>3 DEF Right, Partial
  <2>3. DOMAIN cards = {issue.column} /\ cards[issue.column] = issue => cards = Board
    BY <1>1, <2>1 DEF Partial
  <2> QED BY <1>3, <2>1, <2>2, <2>3
<1> QED BY <1>2, <1>3

\* Nothing is under way.
LEMMA QuietHasNone ==
    ASSUME Quiet PROVE BagToSet(sent) = {} /\ BagToSet(answers) = {}
BY NoneInBag DEF Quiet

Calm == met \cap {"hurry", "loss"} = {}

\* When nothing is under way the board is right.
LEMMA QuietBoardRight ==
    ASSUME TypeInv, BoardInv, Calm, Quiet
    PROVE  cards = Board /\ \A c \in Columns : Right(c)
<1>1. BagToSet(sent) = {} /\ BagToSet(answers) = {}
  BY QuietHasNone
<1>2. \A c \in Columns : Right(c)
  BY <1>1 DEF BoardInv, Calm, Fetched, Removed, Renewed
<1> QED BY <1>2, BoardIs

\* The page shows the board as it is.
LEMMA BoardAtFirst == Init => BoardInv
<1> SUFFICES ASSUME Init PROVE BoardInv
  OBVIOUS
<1>1. TypeInv
  BY TypesAtFirst
<1>2. cards = Board /\ sent = SetToBag(Beginning) /\ BagToSet(answers) = {}
  BY NoneInBag DEF Init, Beginning
<1>3. \A c \in Columns : Right(c)
  BY <1>1, <1>2, BoardIs
<1>4. \A r \in BagToSet(sent) : r.mine /\ r.kind \in {"show", "comments"}
  BY <1>2, BeginningIs
<1>5. ~Renewing /\ ~Removed
  BY <1>2, <1>4 DEF Renewing, Renewed, Removed
<1> QED BY <1>2, <1>3, <1>4, <1>5 DEF BoardInv, Asking, Changes

\* A click that waited finds the board right.
LEMMA BoardAfterClick ==
    ASSUME TypeInv, BoardInv, NEW r, Does(r)
    PROVE  BoardInv'
<1> SUFFICES ASSUME Calm' PROVE BoardInv'
  BY DEF BoardInv, Calm
<1>1. Calm /\ Quiet
  BY DEF Calm, Does, Asks
<1>2. cards = Board
  BY <1>1, QuietBoardRight
<1>3. sent' = SetToBag({r}) /\ answers' = EmptyBag /\ issue' = issue
  BY <1>1, FirstOfBag DEF Does, Asks, Quiet
<1>4. BagToSet(sent') = {r} /\ BagToSet(answers') = {}
  BY <1>3, OneInBag, NoneInBag
<1>5. r.kind \in Changes /\ r.mine
  BY DEF Does, Asks
<1>6. /\ DOMAIN cards' = DOMAIN cards
      /\ r.kind \notin {"update_labels", "toggle_ready"} => cards' = cards
  BY DEF Does, Marks
<1>7. Board' = Board
  BY <1>3 DEF Board
<1>8. Alone(r)'
  BY <1>3 DEF Alone
<1>9. ~Renewing' /\ ~Removed'
  BY <1>4, <1>5 DEF Renewing, Renewed, Removed, Changes
<1> QED BY <1>2, <1>4, <1>5, <1>6, <1>7, <1>8, <1>9 DEF BoardInv, Asking

\* A window that waited is opened over a board that is right.
LEMMA BoardAfterOpen ==
    ASSUME TypeInv, BoardInv, NEW c, Opens(c)
    PROVE  BoardInv'
<1> SUFFICES ASSUME Calm' PROVE BoardInv'
  BY DEF BoardInv, Calm
<1>1. Calm /\ Quiet
  BY DEF Calm, Opens
<1>2. \A d \in Columns : Right(d)
  BY <1>1, QuietBoardRight
<1>3. sent' = SetToBag(Beginning) /\ answers' = EmptyBag /\ issue' = issue /\ cards' = cards
  BY <1>1 DEF Opens
<1>4. BagToSet(answers') = {} /\ \A r \in BagToSet(sent') : r.mine /\ r.kind \in {"show", "comments"}
  BY <1>3, BeginningIs, NoneInBag
<1>5. ~Renewing' /\ ~Removed'
  BY <1>4 DEF Renewing, Renewed, Removed
<1>6. \A d \in Columns : Right(d)'
  BY <1>2, <1>3 DEF Right
<1> QED BY <1>4, <1>5, <1>6 DEF BoardInv, Asking, Changes

\* The board does not see what is typed.
LEMMA BoardAfterTyping == ASSUME BoardInv, Writes PROVE BoardInv'
BY DEF BoardInv, Writes, Right, Fetched, Renewing, Renewed, Removed, Alone, Board

\* With an answer under way no change is being asked for.
LEMMA AnsweredAsksNothing ==
    ASSUME BoardInv, Calm, BagToSet(answers) # {}
    PROVE  \A r \in BagToSet(sent) : ~Asking(r)
BY NoneInBag DEF BoardInv, Calm, Alone

\* The card is replaced where it stands.
LEMMA RenewsRight ==
    ASSUME TypeInv, BoardInv, Calm, BagToSet(answers) # {}, Renewing, Renews(issue), issue' = issue
    PROVE  /\ \A c \in Columns : Right(c)' \/ Fetched(c)
           /\ DOMAIN cards' = DOMAIN cards
<1>1. DOMAIN cards \subseteq {issue.column} /\ (issue.archived => DOMAIN cards = {})
  BY DEF BoardInv, Calm
<1>2. \A c \in Columns : \/ Right(c) \/ Fetched(c)
                         \/ c = issue.column /\ c \in DOMAIN cards
  BY AnsweredAsksNothing DEF BoardInv, Calm
<1>3. DOMAIN cards' = DOMAIN cards
  BY DEF Renews
<1>4. CASE DOMAIN cards = {}
  <2>1. cards' = cards
    BY <1>4 DEF Renews
  <2>2. \A c \in Columns : Right(c) => Right(c)'
    BY <2>1 DEF Right
  <2> QED BY <1>2, <1>3, <1>4, <2>2
<1>5. CASE DOMAIN cards # {}
  <2>1. FirstCard = issue.column /\ cards' = [cards EXCEPT ![FirstCard] = issue] /\ ~issue.archived
        /\ DOMAIN cards = {issue.column}
    BY <1>1, <1>5 DEF Renews
  <2>2. cards'[issue.column] = issue /\ DOMAIN cards' = {issue.column}
    BY <2>1, <1>3
  <2>3. \A c \in Columns : Right(c)'
    BY <2>1, <2>2 DEF Right
  <2> QED BY <1>3, <2>3
<1> QED BY <1>4, <1>5

\* An answer replaces the card where it stands, removes it, or brings its
\* column as it is.
LEMMA BoardAfterArrival ==
    ASSUME TypeInv, BoardInv, NEW a, Takes(a), Brings(a), Typed
    PROVE  BoardInv'
<1> SUFFICES ASSUME Calm PROVE BoardInv'
  BY DEF BoardInv, Calm, Takes
<1>1. a \in BagToSet(answers) /\ issue' = issue /\ met' = met
  BY DEF Takes
<1>2. BagToSet(answers') \subseteq BagToSet(answers) /\ BagToSet(answers) \ {a} \subseteq BagToSet(answers')
  BY OneLess DEF Takes, TypeInv
<1>3. \A r \in BagToSet(sent) : ~Asking(r) /\ (r.kind # "column" => r.mine)
  BY <1>1, AnsweredAsksNothing DEF BoardInv, Calm
<1>4. \A b \in BagToSet(answers) : b.data = issue /\ (b.call.kind # "column" => b.call.mine)
  BY DEF BoardInv, Calm
<1>5. /\ \A c \in Columns :
             \/ Right(c) \/ Fetched(c)
             \/ /\ c = issue.column /\ c \in DOMAIN cards
                /\ IF issue.archived THEN Removed ELSE Renewed
      /\ (Renewing \/ Removed) => DOMAIN cards \subseteq {issue.column}
      /\ Renewing /\ issue.archived => DOMAIN cards = {}
      /\ Removed => issue.archived
  BY <1>3 DEF BoardInv, Calm
<1>6. \A b \in BagToSet(answers') : b.data = issue' /\ (b.call.kind # "column" => b.call.mine)
  BY <1>1, <1>2, <1>4
<1>7. SUFFICES
        /\ \A r \in BagToSet(sent') : ~Asking(r) /\ (r.kind # "column" => r.mine)
        /\ \A c \in Columns :
               \/ Right(c)' \/ Fetched(c)'
               \/ /\ c = issue.column /\ c \in DOMAIN cards'
                  /\ IF issue.archived THEN Removed' ELSE Renewed'
        /\ (Renewing' \/ Removed') => DOMAIN cards' \subseteq {issue.column}
        /\ Renewing' /\ issue.archived => DOMAIN cards' = {}
        /\ Removed' => issue.archived
  BY <1>1, <1>6 DEF BoardInv
<1>8. Removed' => Removed
  BY <1>2 DEF Removed
<1>9. ASSUME sent' = sent PROVE Renewing' => Renewing
  BY <1>2, <1>9 DEF Renewing, Renewed
<1>10. ASSUME sent' = sent, a.call.kind # "column" PROVE \A c \in Columns : Fetched(c) => Fetched(c)'
  BY <1>2, <1>10 DEF Fetched
<1>11. a.call.kind # "archive" => (Removed => Removed')
  BY <1>2 DEF Removed
<1>12. a.call.kind \notin Miniatures => (Renewed => Renewed')
  BY <1>2 DEF Renewed
<1>13. cards' = cards => \A c \in Columns : Right(c) => Right(c)'
  BY <1>1 DEF Right
<1>14. CASE ShowArrives(a) \/ CommentsArrive(a)
  <2>1. sent' = sent /\ cards' = cards /\ a.call.kind \in {"show", "comments"}
    BY <1>14 DEF ShowArrives, CommentsArrive
  <2>2. a.call.kind \notin Miniatures \cup {"column", "archive"}
    BY <2>1 DEF Miniatures
  <2> QED BY <1>3, <1>5, <1>8, <1>9, <1>10, <1>11, <1>12, <1>13, <2>1, <2>2
<1>15. CASE CommentArrives(a) \/ MiniatureArrives(a)
  <2>1. a.call.kind \in Miniatures /\ sent' = sent
    BY <1>15 DEF CommentArrives, MiniatureArrives, Miniatures
  <2>2. Renewing
    BY <1>1, <2>1 DEF Renewing, Renewed
  <2>3. a.call.mine /\ a.data = issue
    BY <1>1, <1>4, <2>1 DEF Miniatures
  <2>4. Renews(issue)
    BY <1>15, <2>3 DEF CommentArrives, MiniatureArrives
  <2>5. /\ \A c \in Columns : Right(c)' \/ Fetched(c)
        /\ DOMAIN cards' = DOMAIN cards
    BY <1>1, <2>2, <2>4, RenewsRight
  <2>6. a.call.kind # "column"
    BY <2>1 DEF Miniatures
  <2> QED BY <1>3, <1>5, <1>8, <1>9, <1>10, <2>1, <2>2, <2>5, <2>6
<1>16. CASE UpdateArrives(a)
  <2>1. a.call.kind = "update_comment" /\ cards' = cards /\ sent' = sent (+) SetToBag({Again(a)})
    BY <1>16 DEF UpdateArrives
  <2>2. BagToSet(sent') = BagToSet(sent) \cup {Again(a)}
    BY <2>1, OneMore DEF TypeInv
  <2>3. a.call.mine
    BY <1>1, <1>4, <2>1
  <2>4. Again(a).kind = "fetch_miniature" /\ Again(a).mine
    BY <2>3 DEF Again, Request
  <2>5. Renewing
    BY <1>1, <2>1 DEF Renewing
  <2>6. \A c \in Columns : Fetched(c) => Fetched(c)'
    BY <1>2, <2>1, <2>2 DEF Fetched
  <2>7. \A r \in BagToSet(sent') : ~Asking(r) /\ (r.kind # "column" => r.mine)
    BY <1>3, <2>2, <2>4 DEF Asking, Changes
  <2>8. a.call.kind \notin Miniatures \cup {"archive"}
    BY <2>1 DEF Miniatures
  <2> QED BY <1>5, <1>8, <1>11, <1>12, <1>13, <2>1, <2>5, <2>6, <2>7, <2>8
<1>17. CASE ArchiveArrives(a)
  <2>1. a.call.kind = "archive" /\ sent' = sent
    BY <1>17 DEF ArchiveArrives
  <2>2. Removed
    BY <1>1, <2>1 DEF Removed
  <2>3. DOMAIN cards' = {}
    <3>1. DOMAIN cards \subseteq {issue.column}
      BY <1>5, <2>2
    <3>2. CASE DOMAIN cards = {}
      BY <1>17, <3>2 DEF ArchiveArrives
    <3>3. CASE DOMAIN cards # {}
      BY <1>17, <3>1, <3>3 DEF ArchiveArrives
    <3> QED BY <3>2, <3>3
  <2>4. \A c \in Columns : Right(c)'
    BY <1>1, <1>5, <2>2, <2>3 DEF Right
  <2> QED BY <1>3, <1>5, <2>1, <2>2, <2>3, <2>4
<1>18. CASE ColumnArrives(a)
  <2> DEFINE d == a.call.column
  <2>1. a.call.kind = "column" /\ sent' = sent /\ a.data = issue
    BY <1>1, <1>4, <1>18 DEF ColumnArrives
  <2>2. d \in Columns
    BY <1>1, <2>1 DEF TypeInv, AnswerOK, CallOK
  <2>3. /\ \A c \in Columns \ {d} :
               /\ c \in DOMAIN cards' <=> c \in DOMAIN cards
               /\ c \in DOMAIN cards => cards'[c] = cards[c]
        /\ d \in DOMAIN cards' <=> issue.column = d /\ ~issue.archived
        /\ d \in DOMAIN cards' => cards'[d] = issue
    BY <1>18, <2>1 DEF ColumnArrives
  <2>4. Right(d)'
    BY <1>1, <2>3 DEF Right
  <2>5. \A c \in Columns \ {d} : Right(c) => Right(c)'
    BY <1>1, <2>3 DEF Right
  <2>6. \A c \in Columns \ {d} : Fetched(c) => Fetched(c)'
    BY <1>2, <2>1 DEF Fetched
  <2>7. a.call.kind \notin Miniatures \cup {"archive"}
    BY <2>1 DEF Miniatures
  <2>8. /\ DOMAIN cards \subseteq {issue.column} => DOMAIN cards' \subseteq {issue.column}
        /\ issue.archived /\ DOMAIN cards = {} => DOMAIN cards' = {}
    <3>1. DOMAIN cards' \subseteq Columns
      BY DEF Typed, Partial
    <3> QED BY <2>2, <2>3, <3>1
  <2> QED BY <1>3, <1>5, <1>8, <1>9, <1>11, <1>12, <2>1, <2>3, <2>4, <2>5, <2>6, <2>7, <2>8
<1> QED BY <1>14, <1>15, <1>16, <1>17, <1>18 DEF Brings

\* Only three requests change where the card stands.
LEMMA AfterStays ==
    ASSUME NEW data \in Data, NEW r, RequestOK(r)
    PROVE  /\ r.kind = "move_to" =>
                  After(data, r).column = r.column /\ After(data, r).archived = data.archived
           /\ r.kind = "archive" =>
                  After(data, r).column = data.column /\ After(data, r).archived
           /\ r.kind = "unarchive" =>
                  After(data, r).column = data.column /\ ~After(data, r).archived
           /\ r.kind \notin {"move_to", "archive", "unarchive"} =>
                  /\ After(data, r).column = data.column
                  /\ After(data, r).archived = data.archived
           /\ r.kind \in Fetches \cup {"update_comment"} => After(data, r) = data
<1>1. CASE r.kind = "move_to"
  BY <1>1 DEF After, Move, Assign, Data, Fetches
<1>2. CASE r.kind \in {"archive", "unarchive"}
  BY <1>2 DEF After, Data, Fetches
<1>3. CASE r.kind = "assignee"
  BY <1>3 DEF After, Assign, Data, Fetches
<1>4. CASE r.kind \in {"update", "update_labels", "due_date", "close", "reopen"}
  BY <1>4 DEF After, Data, Fetches
<1>5. CASE r.kind \in {"toggle_ready", "comment", "delete_comment"}
  BY <1>5 DEF After, Data, Fetches
<1>6. CASE r.kind \in Fetches \cup {"update_comment"}
  BY <1>6 DEF After, Fetches
<1> QED BY <1>1, <1>2, <1>3, <1>4, <1>5, <1>6 DEF RequestOK, CallOK, Calls, Changes

\* The answer the server sends, if it sends one.
LEMMA AnswerSent ==
    ASSUME TypeInv, NEW r, Executes(r), r.kind # "move_to"
    PROVE  /\ BagToSet(answers') = BagToSet(answers) \cup {Answer(r, issue')}
           /\ IsABag(answers')
           /\ Copies(Answer(r, issue'), answers') = Copies(Answer(r, issue'), answers) + 1
           /\ \A e : e # Answer(r, issue') => Copies(e, answers') = Copies(e, answers)
           /\ AnswerOK(Answer(r, issue'), lastId')
           /\ Answer(r, issue').data = issue'
           /\ Answer(r, issue').call.kind = r.kind /\ Answer(r, issue').call.mine = r.mine
           /\ Answer(r, issue').call.column = r.column
           /\ Answer(r, issue').call.body = r.body
           /\ Answer(r, issue').call.comment =
                  IF r.kind = "comment" THEN lastId + 1 ELSE r.comment
           /\ r.kind = "update_comment" => Answer(r, issue').call.name = r.name
           /\ r.kind = "comments" => Answer(r, issue').comments = comments
<1> DEFINE a == Answer(r, issue')
<1>1. answers' = answers (+) SetToBag({a}) /\ IsABag(answers)
  BY DEF Executes, TypeInv
<1>2. RequestOK(r) /\ issue' \in Data /\ lastId' \in Nat /\ lastId <= lastId'
      /\ (r.kind = "comment" => lastId' = lastId + 1)
  BY DEF Executes, TypeInv
<1>3. /\ AnswerOK(a, lastId') /\ a.data = issue'
      /\ a.call.kind = r.kind /\ a.call.mine = r.mine
      /\ a.call.column = r.column /\ a.call.body = r.body
      /\ a.call.comment = IF r.kind = "comment" THEN lastId + 1 ELSE r.comment
      /\ r.kind = "update_comment" => a.call.name = r.name
      /\ r.kind = "comments" => a.comments = comments
  BY <1>2, AnswerIs
<1> HIDE DEF a
<1>4. /\ IsABag(answers') /\ BagToSet(answers') = BagToSet(answers) \cup {a}
      /\ Copies(a, answers') = Copies(a, answers) + 1
      /\ \A e : e # a => Copies(e, answers') = Copies(e, answers)
  BY <1>1, OneMore
<1> QED BY <1>3, <1>4 DEF a

\* A fetch is answered with the issue as it is.
LEMMA BoardAfterFetch ==
    ASSUME TypeInv, BoardInv, Calm, NEW r, Executes(r), ~Asking(r)
    PROVE  BoardInv'
<1>1. r \in BagToSet(sent) /\ RequestOK(r) /\ r.kind \in Fetches
  BY DEF Executes, Asking, RequestOK, CallOK, Calls
<1>2. issue' = issue /\ cards' = cards /\ met' = met
  BY <1>1, AfterStays DEF Executes, TypeInv
<1>3. /\ BagToSet(sent') \subseteq BagToSet(sent)
      /\ BagToSet(sent) \ {r} \subseteq BagToSet(sent')
  <2>1. BagToSet(Reloads(r)) = {}
    BY <1>1, ReloadsAre DEF Fetches
  <2> QED BY <2>1 DEF Executes
<1>4. PICK a : /\ BagToSet(answers') = BagToSet(answers) \cup {a}
               /\ a.data = issue' /\ a.call.kind = r.kind
               /\ a.call.mine = r.mine /\ a.call.column = r.column
  BY <1>1, AnswerSent DEF Fetches
<1>5. \A q \in BagToSet(sent) : ~Asking(q)
  <2> SUFFICES ASSUME NEW q \in BagToSet(sent), Asking(q) PROVE FALSE
    OBVIOUS
  <2>1. Alone(q)
    BY DEF BoardInv, Calm
  <2>2. BagToSet(sent) = {q}
    BY <2>1, OneInBag DEF Alone
  <2> QED BY <1>1, <2>2
<1>6. /\ \A c \in Columns :
             \/ Right(c) \/ Fetched(c)
             \/ /\ c = issue.column /\ c \in DOMAIN cards
                /\ IF issue.archived THEN Removed ELSE Renewed
      /\ (Renewing \/ Removed) => DOMAIN cards \subseteq {issue.column}
      /\ Renewing /\ issue.archived => DOMAIN cards = {}
      /\ Removed => issue.archived
  BY <1>5 DEF BoardInv, Calm
<1>7. /\ \A q \in BagToSet(sent') : q.kind # "column" => q.mine
      /\ \A b \in BagToSet(answers') : b.data = issue' /\ (b.call.kind # "column" => b.call.mine)
  BY <1>1, <1>2, <1>3, <1>4 DEF BoardInv, Calm
<1>8. \A c \in Columns : (Fetched(c) => Fetched(c)') /\ (Right(c) => Right(c)')
  BY <1>2, <1>3, <1>4 DEF Fetched, Right
<1>9. (Renewed => Renewed') /\ (Removed => Removed')
  BY <1>4 DEF Renewed, Removed
<1>10. (Renewing' => Renewing) /\ (Removed' => Removed)
  BY <1>1, <1>3, <1>4 DEF Renewing, Renewed, Removed, Fetches, Miniatures
<1> QED BY <1>2, <1>3, <1>5, <1>6, <1>7, <1>8, <1>9, <1>10 DEF BoardInv

\* A change is the only call under way; its answer, or the columns fetched
\* again, will show it.
LEMMA BoardAfterChange ==
    ASSUME TypeInv, BoardInv, Calm, NEW r, Executes(r), Asking(r)
    PROVE  BoardInv'
<1>1. r \in BagToSet(sent) /\ RequestOK(r) /\ ~Refused(r) /\ issue \in Data
      /\ issue' = After(issue, r) /\ cards' = cards /\ met' = met
  BY DEF Executes, TypeInv
<1>2. /\ Alone(r) /\ r.mine
      /\ DOMAIN cards = DOMAIN Board
      /\ r.kind \notin {"update_labels", "toggle_ready"} => cards = Board
  BY <1>1 DEF BoardInv, Calm
<1>3. BagToSet(sent') = BagToSet(Reloads(r))
  <2>1. sent (-) SetToBag({r}) = EmptyBag
    BY <1>2, LastOfBag DEF Alone
  <2>2. sent' = Reloads(r)
    BY <1>1, <2>1, ReloadsAre, AddedToNone DEF Executes
  <2> QED BY <2>2
<1>4. \A q \in BagToSet(sent') : q.kind = "column"
  BY <1>1, <1>3, ReloadsAre
<1>5. CASE r.kind = "move_to"
  <2>1. answers' = EmptyBag /\ BagToSet(answers') = {}
    BY <1>2, <1>5, NoneInBag DEF Executes, Alone
  <2>2. \A c \in {issue.column, r.column} : Fetched(c)'
    <3>1. BagToSet(sent') = {Reload(issue.column), Reload(r.column)}
      BY <1>1, <1>3, <1>5, ReloadsAre
    <3>2. \A c : Reload(c).kind = "column" /\ Reload(c).column = c
      BY DEF Reload, Request
    <3>3. /\ \E q \in BagToSet(sent') : q.kind = "column" /\ q.column = issue.column
          /\ \E q \in BagToSet(sent') : q.kind = "column" /\ q.column = r.column
      BY <3>1, <3>2
    <3>4. \A c : (\E q \in BagToSet(sent') : q.kind = "column" /\ q.column = c)
                 => Fetched(c)'
      BY DEF Fetched
    <3> QED BY <1>1, <3>3, <3>4
  <2>3. issue'.column = r.column /\ issue'.archived = issue.archived
    BY <1>1, <1>5, AfterStays
  <2>4. \A c \in Columns \ {issue.column, r.column} : Right(c)'
    <3>1. DOMAIN cards \subseteq {issue.column}
      BY <1>2, BoardIs
    <3> QED BY <1>1, <2>3, <3>1 DEF Right
  <2>5. ~Renewing' /\ ~Removed'
    BY <1>4, <2>1 DEF Renewing, Renewed, Removed
  <2>6. \A c \in Columns : Right(c)' \/ Fetched(c)'
    BY <2>2, <2>4
  <2> QED BY <1>4, <2>1, <2>5, <2>6 DEF BoardInv, Asking, Changes
<1>6. ASSUME r.kind # "move_to" PROVE BoardInv'
  <2>1. PICK a : /\ BagToSet(answers') = {a}
                 /\ a.data = issue' /\ a.call.kind = r.kind
                 /\ a.call.mine = r.mine
    <3>1. BagToSet(answers) = {}
      BY <1>2, NoneInBag DEF Alone
    <3> QED BY <1>6, <3>1, AnswerSent
  <2>2. \A b \in BagToSet(answers') : b.data = issue' /\ b.call.mine
    BY <1>2, <2>1
  <2>3. SUFFICES
          /\ \A c \in Columns :
                 \/ Right(c)' \/ Fetched(c)'
                 \/ /\ c = issue'.column /\ c \in DOMAIN cards
                    /\ IF issue'.archived THEN Removed' ELSE Renewed'
          /\ (Renewing' \/ Removed') => DOMAIN cards \subseteq {issue'.column}
          /\ Renewing' /\ issue'.archived => DOMAIN cards = {}
          /\ Removed' => issue'.archived
    BY <1>1, <1>4, <2>2 DEF BoardInv, Asking, Changes
  <2>4. r.kind \in Changes
    BY DEF Asking
  <2>5. /\ Removed' <=> r.kind = "archive"
        /\ Renewed' <=> r.kind \in Miniatures
        /\ Renewing' => r.kind # "archive"
    BY <1>4, <2>1 DEF Removed, Renewed, Renewing, Miniatures
  <2>6. CASE r.kind = "unarchive"
    <3>1. issue.archived /\ DOMAIN cards = {}
      BY <1>1, <1>2, <2>6, BoardIs DEF Refused
    <3>2. issue'.column = issue.column
      BY <1>1, <2>6, AfterStays
    <3>3. BagToSet(sent') = {Reload(issue.column)}
      BY <1>1, <1>3, <2>6, ReloadsAre
    <3>4. Fetched(issue.column)'
      <4>1. Reload(issue.column).kind = "column" /\ Reload(issue.column).column = issue.column
        BY DEF Reload, Request
      <4>2. \A c : (\E q \in BagToSet(sent') : q.kind = "column" /\ q.column = c)
                 => Fetched(c)'
        BY DEF Fetched
      <4>3. \E q \in BagToSet(sent') : q.kind = "column" /\ q.column = issue.column
        BY <3>3, <4>1
      <4> QED BY <3>2, <4>2, <4>3
    <3>5. \A c \in Columns : Right(c)' \/ Fetched(c)'
      BY <1>1, <3>1, <3>2, <3>4 DEF Right
    <3> QED BY <2>5, <2>6, <3>1, <3>5
  <2>7. CASE r.kind = "archive"
    <3>1. issue'.column = issue.column /\ issue'.archived
      BY <1>1, <2>7, AfterStays
    <3>2. DOMAIN cards \subseteq {issue.column}
      BY <1>2, BoardIs
    <3>3. \A c \in Columns : Right(c)' \/ (c = issue.column /\ c \in DOMAIN cards)
      BY <1>1, <3>1, <3>2 DEF Right
    <3> QED BY <2>5, <2>7, <3>1, <3>2, <3>3
  <2>8. CASE r.kind = "update_comment"
    <3>1. issue' = issue
      BY <1>1, <2>8, AfterStays
    <3>2. \A c \in Columns : Right(c)
      BY <1>2, <2>8, BoardIs
    <3>3. \A c \in Columns : Right(c)'
      BY <1>1, <3>1, <3>2 DEF Right
    <3> QED BY <1>2, <2>5, <2>8, <3>1, <3>3, BoardIs
  <2>9. CASE r.kind \notin {"unarchive", "archive", "update_comment"}
    <3>1. issue'.column = issue.column /\ issue'.archived = issue.archived
      BY <1>1, <1>6, <2>9, AfterStays
    <3>2. Renewed' /\ ~Removed'
      BY <1>6, <2>4, <2>5, <2>9 DEF Changes, Miniatures
    <3>3. /\ DOMAIN cards \subseteq {issue.column}
          /\ issue.archived => DOMAIN cards = {}
          /\ ~issue.archived => DOMAIN cards = {issue.column}
      BY <1>2, BoardIs
    <3>4. \A c \in Columns : \/ Right(c)'
                             \/ c = issue.column /\ c \in DOMAIN cards /\ ~issue.archived
      BY <1>1, <3>1, <3>3 DEF Right
    <3> QED BY <3>1, <3>2, <3>3, <3>4
  <2> QED BY <2>6, <2>7, <2>8, <2>9
<1> QED BY <1>5, <1>6

\* A refused change leaves the board as it was; others change what is fetched
\* again.
LEMMA BoardAfterLoss ==
    ASSUME TypeInv, BoardInv, \/ \E r : Drops(r)
                              \/ \E a : Forgets(a)
                              \/ Interferes
    PROVE  BoardInv'
<1> SUFFICES ASSUME Calm' PROVE BoardInv'
  BY DEF BoardInv, Calm
<1>1. CASE \E r : Drops(r)
  <2>1. PICK r : Drops(r)
    BY <1>1
  <2>2. Calm /\ Refused(r) /\ r \in BagToSet(sent) /\ r.kind \in Changes
    BY <2>1 DEF Drops, Calm, Refused, Changes
  <2>3. Alone(r) /\ (r.kind \notin {"update_labels", "toggle_ready"} => cards = Board)
    BY <2>2 DEF BoardInv, Calm, Asking
  <2>4. cards = Board
    BY <2>2, <2>3 DEF Refused
  <2>5. sent' = EmptyBag /\ answers' = EmptyBag /\ cards' = cards /\ issue' = issue
    BY <2>1, <2>3, LastOfBag DEF Drops, Alone
  <2>6. \A c \in Columns : Right(c)
    BY <2>4, BoardIs
  <2>7. \A c \in Columns : Right(c)'
    BY <2>5, <2>6 DEF Right
  <2>8. BagToSet(sent') = {} /\ BagToSet(answers') = {}
    BY <2>5, NoneInBag
  <2> QED BY <2>7, <2>8 DEF BoardInv, Renewing, Renewed, Removed
<1>2. CASE \E a : Forgets(a)
  BY <1>2 DEF Forgets, Calm
<1>3. CASE Interferes
  <2>1. Calm /\ Quiet
    BY <1>3 DEF Interferes, Calm
  <2>2. cards = Board
    BY <2>1, QuietBoardRight
  <2>3. BagToSet(sent') = {Reload(issue.column)} /\ BagToSet(answers') = {}
    <3>1. sent' = SetToBag({Reload(issue.column)}) /\ answers' = EmptyBag
      BY <1>3, <2>1, FirstOfBag DEF Interferes, Quiet
    <3> QED BY <3>1, OneInBag, NoneInBag
  <2>4. Reload(issue.column).kind = "column" /\ Reload(issue.column).column = issue.column
    BY DEF Reload, Request
  <2>5. issue'.column = issue.column /\ issue'.archived = issue.archived /\ cards' = cards
    BY <1>3 DEF Interferes
  <2>6. \A c \in {issue.column} : Fetched(c)'
    <3>1. \E q \in BagToSet(sent') : q.kind = "column" /\ q.column = issue.column
      BY <2>3, <2>4
    <3>2. \A c : (\E q \in BagToSet(sent') : q.kind = "column" /\ q.column = c)
                 => Fetched(c)'
      BY DEF Fetched
    <3> QED BY <2>5, <3>1, <3>2
  <2>7. \A c \in Columns \ {issue.column} : Right(c)'
    BY <2>2, <2>5, BoardIs DEF Right
  <2>8. ~Renewing' /\ ~Removed'
    BY <2>3, <2>4 DEF Renewing, Renewed, Removed
  <2>9. \A c \in Columns : Right(c)' \/ Fetched(c)'
    BY <2>6, <2>7
  <2> QED BY <2>3, <2>4, <2>8, <2>9 DEF BoardInv, Asking, Changes
<1> QED BY <1>1, <1>2, <1>3

\* Every step keeps the board on its way.
LEMMA BoardStep == TypeInv /\ BoardInv /\ [Next]_vars => BoardInv'
<1>1. ASSUME BoardInv, UNCHANGED vars PROVE BoardInv'
  BY <1>1 DEF BoardInv, Right, Fetched, Renewing, Renewed, Removed, Alone, Board,
              vars, server, net, history
<1>2. ASSUME TypeInv, BoardInv, NEW r, Executes(r) PROVE BoardInv'
  <2>1. CASE Calm
    BY <1>2, <2>1, BoardAfterFetch, BoardAfterChange
  <2>2. CASE ~Calm
    BY <1>2, <2>2 DEF Calm, Executes, BoardInv
  <2> QED BY <2>1, <2>2
<1>3. ASSUME TypeInv, BoardInv, Effect PROVE BoardInv'
  BY <1>2, <1>3, BoardAfterClick, BoardAfterOpen, BoardAfterTyping, BoardAfterArrival,
     BoardAfterLoss DEF Effect
<1> QED BY <1>1, <1>3, StepHasEffect

\* The card of the issue stands once, in its column, as the issue is, and an
\* archived issue has none, whenever nothing is under way and nothing
\* overlapped or was lost, whatever others change and the server refuses.
THEOREM PatientBoardAgreesHolds == Spec => []PatientBoardAgrees
<1>1. TypeInv /\ BoardInv => PatientBoardAgrees
  BY QuietBoardRight DEF PatientBoardAgrees, Calm
<1> QED BY <1>1, BoardAtFirst, BoardStep, TypesAlways, PTL DEF Spec

-----------------------------------------------------------------------------
(* The window shows the issue.                                              *)

\* The fields a request leaves alone, and what it sets the others to.
LEMMA AfterFields ==
    ASSUME NEW data \in Data, NEW r, RequestOK(r)
    PROVE  LET d == After(data, r) IN
           /\ d.labels = IF r.kind = "update_labels" THEN r.labels ELSE data.labels
           /\ d.due = IF r.kind = "due_date" THEN r.name ELSE data.due
           /\ d.title = IF r.kind = "update" THEN r.name ELSE data.title
           /\ r.kind # "move_to" =>
                  /\ d.ready = IF r.kind = "toggle_ready" THEN ~data.ready ELSE data.ready
                  /\ d.assignee = IF r.kind = "assignee"
                                  THEN IF data.assignee = r.name THEN "nobody" ELSE r.name
                                  ELSE data.assignee
                  /\ d.closed = CASE r.kind = "close" -> TRUE
                                  [] r.kind = "reopen" -> FALSE
                                  [] OTHER -> data.closed
                  /\ d.archived = CASE r.kind = "archive" -> TRUE
                                    [] r.kind = "unarchive" -> FALSE
                                    [] OTHER -> data.archived
<1>1. CASE r.kind = "move_to"
  BY <1>1 DEF After, Move, Assign, Data
<1>2. CASE r.kind \in {"archive", "unarchive", "close", "reopen"}
  BY <1>2 DEF After, Data
<1>3. CASE r.kind = "assignee"
  BY <1>3 DEF After, Assign, Data
<1>4. CASE r.kind \in {"update", "update_labels", "due_date"}
  BY <1>4 DEF After, Data
<1>5. CASE r.kind \in {"toggle_ready", "comment", "delete_comment"}
  BY <1>5 DEF After, Data
<1>6. CASE r.kind \in Fetches \cup {"update_comment"}
  BY <1>6 DEF After, Fetches
<1> QED BY <1>1, <1>2, <1>3, <1>4, <1>5, <1>6 DEF RequestOK, CallOK, Calls, Changes

\* When nothing is under way the window shows the issue and its comments.
LEMMA QuietWindowRight ==
    ASSUME PatientInv, Tame, Quiet
    PROVE  Shows(issue) /\ win.loaded /\ ShowsComments(comments, {})
<1>1. BagToSet(sent) = {} /\ BagToSet(answers) = {}
  BY QuietHasNone
<1>2. win.loaded
  BY <1>1 DEF PatientInv, Awaited, Fetching
<1> QED BY <1>1, <1>2 DEF PatientInv, Settled

\* A window that opens on this data shows it, and waits for the comments.
LEMMA FreshShows ==
    ASSUME NEW data \in Data, NEW c \in Nat, win = FreshWindow(data, c)
    PROVE  Shows(data) /\ ~win.loaded /\ DOMAIN win.comps = {}
<1>1. /\ ~win.loaded
      /\ win.labels = data.labels /\ win.ready = data.ready
      /\ win.assignee = data.assignee /\ win.due = data.due
      /\ win.title.title = data.title /\ win.state = FullState(data)
      /\ DOMAIN win.comps = {}
  BY FreshWindowOK
<1>2. ShownState(win.state) = FullState(data)
  BY <1>1 DEF ShownState, FullState
<1> QED BY <1>1, <1>2 DEF Shows

\* The page of one issue.
LEMMA PatientAtFirst == Init => PatientInv
<1> SUFFICES ASSUME Init PROVE PatientInv
  OBVIOUS
<1>1. issue \in Data
  BY TypesAtFirst DEF TypeInv
<1>2. Shows(issue) /\ ~win.loaded /\ DOMAIN win.comps = {}
  BY <1>1, FreshShows DEF Init
<1>3. sent = SetToBag(Beginning) /\ BagToSet(answers) = {}
  BY NoneInBag DEF Init, Beginning
<1>4. /\ \A r \in BagToSet(sent) : r.kind \in {"show", "comments"}
      /\ \E r \in BagToSet(sent) : r.kind = "comments" /\ r.mine
  <2>1. BagToSet(sent) = Beginning /\ Request("comments") \in Beginning
    BY <1>3, BeginningIs DEF Beginning
  <2>2. Request("comments").kind = "comments" /\ Request("comments").mine
    BY DEF Request
  <2> QED BY <2>1, <2>2, BeginningIs
<1>5. Awaited
  BY <1>2, <1>4 DEF Awaited, Fetching
<1>6. Asked
  BY <1>4 DEF Asked, Asking, Changes
<1>7. Answered
  BY <1>3 DEF Answered
<1>8. Settled
  BY <1>2 DEF Settled
<1> QED BY <1>5, <1>6, <1>7, <1>8 DEF PatientInv

\* The window shows at once what the server will make of the issue.
LEMMA ClickShows ==
    ASSUME TypeInv, NEW r, Does(r), Shows(issue), NEW d, d = After(issue, r)
    PROVE  Shows(d)'
<1>1. issue \in Data /\ RequestOK(r) /\ r.kind \in Changes
  BY DEF TypeInv, Does, Asks
<1>2. /\ d.labels = IF r.kind = "update_labels" THEN r.labels ELSE issue.labels
      /\ d.due = IF r.kind = "due_date" THEN r.name ELSE issue.due
      /\ d.title = IF r.kind = "update" THEN r.name ELSE issue.title
      /\ r.kind # "move_to" =>
             /\ d.ready = IF r.kind = "toggle_ready" THEN ~issue.ready ELSE issue.ready
             /\ d.assignee = IF r.kind = "assignee"
                             THEN IF issue.assignee = r.name THEN "nobody" ELSE r.name
                             ELSE issue.assignee
             /\ d.closed = CASE r.kind = "close" -> TRUE
                             [] r.kind = "reopen" -> FALSE
                             [] OTHER -> issue.closed
             /\ d.archived = CASE r.kind = "archive" -> TRUE
                               [] r.kind = "unarchive" -> FALSE
                               [] OTHER -> issue.archived
  BY <1>1, AfterFields
<1>3. Sets(r) /\ met \subseteq met' /\ (r.kind = "move_to" => "move" \in met')
      /\ (r.kind \in StateButtons => (Sensible(r.kind) \/ "odd" \in met'))
  BY DEF Does, Asks
<1>4. win'.labels = d.labels /\ win'.due = d.due /\ win'.title.title = d.title
  BY <1>2, <1>3 DEF Sets, Shows
<1>5. "move" \notin met' => win'.assignee = d.assignee /\ win'.ready = d.ready
  BY <1>2, <1>3 DEF Sets, Shows
<1>6. ASSUME met' \cap {"move", "odd"} = {}
      PROVE  ShownState(win'.state) = FullState(d)
  <2>1. r.kind # "move_to" /\ ShownState(win.state) = FullState(issue)
    BY <1>3, <1>6 DEF Shows
  <2>2. CASE r.kind \in StateButtons
    <3>1. Sensible(r.kind) /\ win'.state = r.kind
      BY <1>3, <1>6, <2>2 DEF Sets
    <3> QED BY <1>2, <2>1, <2>2, <3>1 DEF Sensible, StateButtons, ShownState, FullState
  <2>3. CASE r.kind \notin StateButtons
    <3>1. win'.state = win.state /\ d.closed = issue.closed /\ d.archived = issue.archived
      BY <1>2, <1>3, <2>1, <2>3 DEF Sets, StateButtons
    <3> QED BY <2>1, <3>1 DEF FullState
  <2> QED BY <2>2, <2>3
<1> QED BY <1>4, <1>5, <1>6 DEF Shows

\* So it does of the comments, except a new one and the text of one that is
\* being saved.
LEMMA ClickShowsComments ==
    ASSUME TypeInv, NEW r, Does(r), ShowsComments(comments, {}),
           NEW t, t = IF r.kind = "comment" THEN comments ELSE CommentsAfter(r)
    PROVE  ShowsComments(t, Late(r))'
<1>1. /\ DOMAIN win.comps = DOMAIN comments
      /\ \A id \in DOMAIN comments : /\ win.comps[id].body = comments[id]
                                     /\ win.comps[id].shown = comments[id]
  BY DEF ShowsComments
<1>2. Edits(r)
  BY DEF Does
<1>3. CASE r.kind = "update_comment"
  <2>1. Rewrites(r)
    BY <1>2, <1>3 DEF Edits
  <2>2. t = [comments EXCEPT ![r.comment] = r.body]
    BY <1>3 DEF CommentsAfter
  <2>3. Late(r) = IF r.name = "form" THEN {r.comment} ELSE {}
    BY <1>3 DEF Late
  <2>4. /\ DOMAIN win'.comps = DOMAIN t
        /\ win'.comps[r.comment].body = t[r.comment]
        /\ r.comment \notin Late(r) => win'.comps[r.comment].shown = t[r.comment]
    BY <1>1, <2>1, <2>2, <2>3 DEF Rewrites
  <2>5. \A id \in DOMAIN t \ {r.comment} : /\ win'.comps[id].body = t[id]
                                           /\ win'.comps[id].shown = t[id]
    BY <1>1, <2>1, <2>2 DEF Rewrites
  <2> QED BY <2>4, <2>5 DEF ShowsComments, Late
<1>4. CASE r.kind = "delete_comment"
  <2>1. Deletes(r)
    BY <1>2, <1>4 DEF Edits
  <2>2. t = [z \in DOMAIN comments \ {r.comment} |-> comments[z]]
    BY <1>4 DEF CommentsAfter, Restrict
  <2> QED BY <1>1, <2>1, <2>2 DEF Deletes, ShowsComments
<1>5. CASE r.kind \notin {"update_comment", "delete_comment"}
  <2>1. SameComments
    BY <1>2, <1>5 DEF Edits
  <2>2. t = comments
    BY <1>5 DEF CommentsAfter
  <2> QED BY <1>1, <2>1, <2>2 DEF SameComments, ShowsComments
<1> QED BY <1>3, <1>4, <1>5

\* A click that waited for everything.
LEMMA PatientAfterClick ==
    ASSUME TypeInv, PatientInv, NEW r, Does(r)
    PROVE  PatientInv'
<1> SUFFICES ASSUME Tame' PROVE (Awaited /\ Asked /\ Answered /\ Settled)'
  BY DEF PatientInv
<1>1. Tame /\ Quiet
  BY DEF Tame, Does, Asks
<1>2. Shows(issue) /\ win.loaded /\ ShowsComments(comments, {})
  BY <1>1, QuietWindowRight
<1>3. sent' = SetToBag({r}) /\ answers' = EmptyBag /\ issue' = issue /\ comments' = comments
      /\ lastId' = lastId
  BY <1>1, FirstOfBag DEF Does, Asks, Quiet
<1>4. BagToSet(sent') = {r} /\ BagToSet(answers') = {}
  BY <1>3, OneInBag, NoneInBag
<1>5. r.kind \in Changes /\ win'.loaded
  BY <1>2 DEF Does, Asks, Sets
<1>6. PICK d : d = After(issue, r)
  OBVIOUS
<1>7. Shows(d)'
  BY <1>2, <1>6, ClickShows
<1>8. PICK t : t = IF r.kind = "comment" THEN comments ELSE CommentsAfter(r)
  OBVIOUS
<1>9. ShowsComments(t, Late(r))'
  BY <1>2, <1>8, ClickShowsComments
<1>10. After(issue', r) = d /\ CommentsAfter(r)' = CommentsAfter(r)
  BY <1>3, <1>6 DEF CommentsAfter
<1>11. Shows(After(issue, r))'
  BY <1>7, <1>10
<1>12. IF r.kind = "comment" THEN ShowsComments(comments, {})'
       ELSE ShowsComments(CommentsAfter(r), Late(r))'
  <2>1. CASE r.kind = "comment"
    BY <1>3, <1>8, <1>9, <2>1 DEF Late
  <2>2. CASE r.kind # "comment"
    BY <1>8, <1>9, <1>10, <2>2
  <2> QED BY <2>1, <2>2
<1>13. Asked'
  BY <1>4, <1>5, <1>11, <1>12 DEF Asked
<1> QED BY <1>4, <1>5, <1>13 DEF Awaited, Answered, Settled, Asking

\* A window that is opened when nothing is under way shows its card, which
\* is right.
LEMMA PatientAfterOpen ==
    ASSUME TypeInv, BoardInv, PatientInv, NEW c, Opens(c)
    PROVE  PatientInv'
<1> SUFFICES ASSUME Tame' PROVE (Awaited /\ Asked /\ Answered /\ Settled)'
  BY DEF PatientInv
<1>1. Calm /\ Quiet
  BY DEF Tame, Calm, Opens
<1>2. cards = Board /\ issue \in Data
  BY <1>1, QuietBoardRight DEF TypeInv
<1>3. c = issue.column /\ cards[c] = issue /\ c \in Nat
  <2>1. c = issue.column /\ cards[c] = issue
    BY <1>2, BoardIs DEF Opens
  <2> QED BY <1>2, <2>1, WindowAssumption DEF Data, WindowAssumption
<1>4. /\ win' = FreshWindow(issue', c) /\ issue' = issue
      /\ sent' = SetToBag(Beginning) /\ answers' = EmptyBag
  BY <1>1, <1>3 DEF Opens
<1>5. issue' \in Data
  BY <1>2, <1>4
<1>6. (Shows(issue) /\ ~win.loaded /\ DOMAIN win.comps = {})'
  <2>1. PICK d \in Data : d = issue'
    BY <1>5
  <2>2. win' = FreshWindow(d, c)
    BY <1>4, <2>1
  <2>3. (Shows(d) /\ ~win.loaded /\ DOMAIN win.comps = {})'
    <3>1. /\ ~win'.loaded
          /\ win'.labels = d.labels /\ win'.ready = d.ready
          /\ win'.assignee = d.assignee /\ win'.due = d.due
          /\ win'.title.title = d.title /\ win'.state = FullState(d)
          /\ DOMAIN win'.comps = {}
      BY <1>3, <2>2, FreshWindowOK
    <3>2. ShownState(win'.state) = FullState(d)
      BY <3>1 DEF ShownState, FullState
    <3> QED BY <3>1, <3>2 DEF Shows
  <2> QED BY <2>1, <2>3
<1>7. BagToSet(answers') = {}
  BY <1>4, NoneInBag
<1>8. /\ \A r \in BagToSet(sent') : r.kind \in {"show", "comments"}
      /\ \E r \in BagToSet(sent') : r.kind = "comments" /\ r.mine
  <2>1. BagToSet(sent') = Beginning /\ Request("comments") \in Beginning
    BY <1>4, BeginningIs DEF Beginning
  <2>2. Request("comments").kind = "comments" /\ Request("comments").mine
    BY DEF Request
  <2> QED BY <2>1, <2>2, BeginningIs
<1>9. Awaited'
  BY <1>6, <1>8 DEF Awaited, Fetching
<1>10. Asked'
  BY <1>8 DEF Asked, Asking, Changes
<1>11. Answered'
  BY <1>7 DEF Answered
<1>12. Settled'
  BY <1>6 DEF Settled
<1> QED BY <1>9, <1>10, <1>11, <1>12

\* Typing shows nothing.
LEMMA PatientAfterTyping == ASSUME PatientInv, Writes PROVE PatientInv'
<1>1. SameFields /\ SameComments /\ UNCHANGED <<issue, comments, lastId, sent, answers, met>>
  BY DEF Writes
<1>2. \A d : Shows(d)' <=> Shows(d)
  BY <1>1 DEF Shows, SameFields
<1>3. \A t, late : ShowsComments(t, late) => ShowsComments(t, late)'
  BY <1>1 DEF ShowsComments, SameComments
<1>4. /\ win'.loaded = win.loaded /\ DOMAIN win'.comps = DOMAIN win.comps
      /\ Fetching("comments")' <=> Fetching("comments")
  BY <1>1 DEF SameFields, SameComments, Fetching
<1>5. \A r : CommentsAfter(r)' = CommentsAfter(r)
  BY <1>1 DEF CommentsAfter
<1>6. Awaited => Awaited'
  BY <1>4 DEF Awaited
<1>7. Asked => Asked'
  BY <1>1, <1>2, <1>3, <1>4, <1>5 DEF Asked
<1>8. Answered => Answered'
  BY <1>1, <1>3, <1>4 DEF Answered
<1>9. Settled => Settled'
  BY <1>1, <1>2, <1>3, <1>4 DEF Settled
<1> QED BY <1>1, <1>6, <1>7, <1>8, <1>9 DEF PatientInv, Tame

\* The window still shows the issue after an answer: "show" brings two of its
\* fields as they are.
LEMMA ArrivalShows ==
    ASSUME Shows(issue), NEW a, Brings(a), a.data = issue,
           a.call.kind # "column" => a.call.mine, met' = met
    PROVE  \A d : d = issue => Shows(d)'
<1>1. CASE SameFields
  BY <1>1 DEF Shows, SameFields
<1>2. CASE ShowArrives(a)
  <2>1. a.call.mine
    BY <1>2 DEF ShowArrives
  <2>2. /\ win'.labels = win.labels /\ win'.due = win.due
        /\ win'.title.title = win.title.title /\ win'.state = win.state
        /\ win'.ready = issue.ready /\ win'.assignee = issue.assignee
    BY <1>2, <2>1 DEF ShowArrives
  <2> QED BY <2>2 DEF Shows
<1>3. CASE CommentsArrive(a)
  BY <1>3 DEF CommentsArrive, Shows
<1> QED BY <1>1, <1>2, <1>3 DEF Brings, CommentArrives, UpdateArrives, ArchiveArrives,
           ColumnArrives, MiniatureArrives

\* What an answer leaves under way asks for nothing.
LEMMA ArrivalSends ==
    ASSUME TypeInv, NEW a, Brings(a)
    PROVE  /\ BagToSet(sent) \subseteq BagToSet(sent')
           /\ \A r \in BagToSet(sent') : r \in BagToSet(sent) \/ ~Asking(r)
<1>1. CASE sent' = sent
  BY <1>1
<1>2. CASE UpdateArrives(a)
  <2>1. BagToSet(sent') = BagToSet(sent) \cup {Again(a)}
    BY <1>2, OneMore DEF UpdateArrives, TypeInv
  <2>2. ~Asking(Again(a))
    BY DEF Again, Request, Asking, Changes
  <2> QED BY <2>1, <2>2
<1> QED BY <1>1, <1>2 DEF Brings, ShowArrives, CommentsArrive, CommentArrives,
           ArchiveArrives, ColumnArrives, MiniatureArrives

\* An answer brings what the window lacked.
LEMMA PatientAfterArrival ==
    ASSUME TypeInv, BoardInv, PatientInv, NEW a, Takes(a), Brings(a)
    PROVE  PatientInv'
<1> SUFFICES ASSUME Tame PROVE (Awaited /\ Asked /\ Answered /\ Settled)'
  BY DEF PatientInv, Takes, Tame
<1>1. /\ a \in BagToSet(answers) /\ issue' = issue /\ comments' = comments /\ met' = met
      /\ BagToSet(answers') \subseteq BagToSet(answers)
      /\ BagToSet(answers) \ {a} \subseteq BagToSet(answers')
  BY OneLess DEF Takes, TypeInv
<1>2. Calm
  BY DEF Tame, Calm
<1>3. \A r \in BagToSet(sent) : ~Asking(r)
  BY <1>1, <1>2, AnsweredAsksNothing
<1>4. a.data = issue /\ (a.call.kind # "column" => a.call.mine)
  BY <1>1, <1>2 DEF BoardInv, Calm
<1>5. Awaited /\ Asked /\ Answered /\ Settled
  BY DEF PatientInv
<1>6. Shows(issue)'
  <2>1. Shows(issue)
    BY <1>3, <1>5 DEF Settled
  <2> QED BY <1>1, <1>4, <2>1, ArrivalShows
<1>7. /\ BagToSet(sent) \subseteq BagToSet(sent')
      /\ \A r \in BagToSet(sent') : ~Asking(r)
  BY <1>3, ArrivalSends
<1>8. Asked'
  BY <1>7 DEF Asked, Asking
<1>9. CASE a.call.kind \in {"comment", "update_comment"}
  <2>1. /\ answers = SetToBag({a}) /\ win.loaded
        /\ a.call.comment \in DOMAIN comments
        /\ comments[a.call.comment] = a.call.body
    BY <1>1, <1>5, <1>9 DEF Answered
  <2>2. BagToSet(answers') = {}
    <3>1. answers' = EmptyBag
      BY <2>1, LastOfBag DEF Takes
    <3> QED BY <3>1, NoneInBag
  <2>3. a.call.mine
    BY <1>4, <1>9
  <2>4. win'.loaded /\ ShowsComments(comments, {})'
    <3>1. CASE a.call.kind = "comment"
      <4>1. ShowsComments(Without(comments, a.call.comment), {})
        BY <1>1, <1>5, <3>1 DEF Answered
      <4>2. /\ DOMAIN win.comps = DOMAIN comments \ {a.call.comment}
            /\ \A id \in DOMAIN win.comps : /\ win.comps[id].body = comments[id]
                                            /\ win.comps[id].shown = comments[id]
        BY <4>1 DEF ShowsComments, Without, Restrict
      <4>3. CommentArrives(a)
        BY <3>1 DEF Brings, ShowArrives, CommentsArrive, UpdateArrives, ArchiveArrives,
                    ColumnArrives, MiniatureArrives
      <4>4. /\ DOMAIN win'.comps = DOMAIN win.comps \cup {a.call.comment}
            /\ \A id \in DOMAIN win.comps :
                   /\ win'.comps[id].body = win.comps[id].body
                   /\ win'.comps[id].shown = win.comps[id].shown
            /\ a.call.comment \notin DOMAIN win.comps =>
                   /\ win'.comps[a.call.comment].body = a.call.body
                   /\ win'.comps[a.call.comment].shown = a.call.body
            /\ win'.loaded = win.loaded
        BY <2>3, <4>3 DEF CommentArrives, SameFields
      <4> QED BY <1>1, <2>1, <4>2, <4>4 DEF ShowsComments
    <3>2. CASE a.call.kind = "update_comment"
      <4>1. ShowsComments(comments, Late(a.call))
        BY <1>1, <1>5, <3>2 DEF Answered
      <4>2. UpdateArrives(a)
        BY <3>2 DEF Brings, ShowArrives, CommentsArrive, CommentArrives, ArchiveArrives,
                    ColumnArrives, MiniatureArrives, Miniatures
      <4>3. win'.loaded = win.loaded
        BY <4>2 DEF UpdateArrives, SameFields
      <4>4. CASE a.call.name = "form"
        <5>1. /\ DOMAIN win'.comps = DOMAIN win.comps
              /\ win'.comps[a.call.comment].body = win.comps[a.call.comment].body
              /\ win'.comps[a.call.comment].shown = a.call.body
              /\ \A id \in DOMAIN win.comps \ {a.call.comment} :
                     /\ win'.comps[id].body = win.comps[id].body
                     /\ win'.comps[id].shown = win.comps[id].shown
          BY <2>1, <2>3, <4>1, <4>2, <4>4 DEF UpdateArrives, ShowsComments
        <5> QED BY <1>1, <2>1, <3>2, <4>1, <4>3, <4>4, <5>1 DEF ShowsComments, Late
      <4>5. CASE a.call.name # "form"
        <5>1. SameComments
          BY <4>2, <4>5 DEF UpdateArrives
        <5> QED BY <1>1, <2>1, <3>2, <4>1, <4>3, <4>5, <5>1 DEF ShowsComments, Late, SameComments
      <4> QED BY <4>4, <4>5
    <3> QED BY <1>9, <3>1, <3>2
  <2>5. Awaited' /\ Answered' /\ Settled'
    BY <1>6, <2>2, <2>4 DEF Awaited, Answered, Settled
  <2> QED BY <1>8, <2>5
<1>10. CASE a.call.kind \notin {"comment", "update_comment"}
  <2>1. \A b \in BagToSet(answers) : b.call.kind \notin {"comment", "update_comment"}
    <3> SUFFICES ASSUME NEW b \in BagToSet(answers),
                        b.call.kind \in {"comment", "update_comment"}
                 PROVE  FALSE
      OBVIOUS
    <3>1. answers = SetToBag({b})
      BY <1>5 DEF Answered
    <3>2. a = b
      BY <1>1, <3>1, OneInBag
    <3> QED BY <1>10, <3>2
  <2>2. win.loaded => ShowsComments(comments, {})
    BY <1>3, <1>5, <2>1 DEF Settled
  <2>3. Answered'
    BY <1>1, <1>5, <2>1 DEF Answered
  <2>4. CASE CommentsArrive(a)
    <3>1. a.call.kind = "comments" /\ a.call.mine
      BY <1>4, <2>4 DEF CommentsArrive
    <3>2. a.comments = comments
      BY <1>1, <1>5, <3>1 DEF Answered
    <3>3. win'.loaded /\ Lists(comments)
      BY <2>4, <3>1, <3>2 DEF CommentsArrive
    <3>4. ShowsComments(comments, {})'
      <4>1. CASE win.loaded
        BY <1>1, <2>2, <3>3, <4>1 DEF ShowsComments, Lists
      <4>2. CASE ~win.loaded
        <5>1. DOMAIN win.comps = {}
          BY <1>5, <4>2 DEF Awaited
        <5> QED BY <1>1, <3>3, <5>1 DEF ShowsComments, Lists
      <4> QED BY <4>1, <4>2
    <3>5. Awaited' /\ Settled'
      BY <1>6, <3>3, <3>4 DEF Awaited, Settled
    <3> QED BY <1>8, <2>3, <3>5
  <2>5. CASE ~CommentsArrive(a)
    <3>1. a.call.kind # "comments" /\ SameComments /\ win'.loaded = win.loaded
      <4>1. CASE ShowArrives(a)
        BY <4>1 DEF ShowArrives, SameFields
      <4>2. CASE ArchiveArrives(a) \/ ColumnArrives(a) \/ MiniatureArrives(a)
        BY <4>2 DEF ArchiveArrives, ColumnArrives, MiniatureArrives, Miniatures, SameFields
      <4> QED BY <1>10, <2>5, <4>1, <4>2 DEF Brings, CommentArrives, UpdateArrives
    <3>2. win'.loaded => ShowsComments(comments, {})'
      BY <1>1, <2>2, <3>1 DEF ShowsComments, SameComments
    <3>3. Fetching("comments") => Fetching("comments")'
      BY <1>1, <1>7, <3>1 DEF Fetching
    <3>4. Awaited' /\ Settled'
      BY <1>5, <1>6, <3>1, <3>2, <3>3 DEF Awaited, Settled, SameComments
    <3> QED BY <1>8, <2>3, <3>4
  <2> QED BY <2>4, <2>5
<1> QED BY <1>9, <1>10

\* A fetch is answered with what the server has.
LEMMA PatientAfterFetch ==
    ASSUME TypeInv, BoardInv, PatientInv, Tame, NEW r, Executes(r), ~Asking(r)
    PROVE  PatientInv'
<1>1. r \in BagToSet(sent) /\ RequestOK(r) /\ r.kind \in Fetches
  BY DEF Executes, Asking, RequestOK, CallOK, Calls
<1>2. /\ issue' = issue /\ comments' = comments /\ win' = win /\ met' = met
  BY <1>1, AfterStays DEF Executes, TypeInv, CommentsAfter, Fetches
<1>3. /\ BagToSet(sent') \subseteq BagToSet(sent)
      /\ BagToSet(sent) \ {r} \subseteq BagToSet(sent')
  <2>1. BagToSet(Reloads(r)) = {}
    BY <1>1, ReloadsAre DEF Fetches
  <2> QED BY <2>1 DEF Executes
<1>4. PICK a : /\ BagToSet(answers') = BagToSet(answers) \cup {a}
               /\ a.call.kind = r.kind /\ a.call.mine = r.mine
               /\ r.kind = "comments" => a.comments = comments
  BY <1>1, AnswerSent DEF Fetches
<1>5. \A q \in BagToSet(sent) : ~Asking(q)
  <2> SUFFICES ASSUME NEW q \in BagToSet(sent), Asking(q) PROVE FALSE
    OBVIOUS
  <2>1. Alone(q)
    BY DEF BoardInv, Tame
  <2>2. BagToSet(sent) = {q}
    BY <2>1, OneInBag DEF Alone
  <2> QED BY <1>1, <2>2
<1>6. Awaited /\ Answered /\ Settled
  BY DEF PatientInv
<1>7. \A b \in BagToSet(answers) : b.call.kind \notin {"comment", "update_comment"}
  BY <1>1, <1>6, NoneInBag DEF Answered
<1>8. Shows(issue) /\ (win.loaded => ShowsComments(comments, {}))
  BY <1>5, <1>6, <1>7 DEF Settled
<1>9. Shows(issue)' /\ (win'.loaded => ShowsComments(comments, {})')
  BY <1>2, <1>8 DEF Shows, ShowsComments
<1>10. Fetching("comments") => Fetching("comments")'
  BY <1>3, <1>4 DEF Fetching
<1>11. Awaited'
  BY <1>2, <1>6, <1>10 DEF Awaited
<1>12. Asked'
  BY <1>3, <1>5 DEF Asked, Asking
<1>13. Answered'
  BY <1>1, <1>2, <1>4, <1>6, <1>7 DEF Answered, Fetches
<1>14. Settled'
  BY <1>9 DEF Settled
<1> QED BY <1>11, <1>12, <1>13, <1>14 DEF PatientInv

\* A change makes of the issue what the window shows.
LEMMA PatientAfterChange ==
    ASSUME TypeInv, BoardInv, PatientInv, Tame, NEW r, Executes(r), Asking(r)
    PROVE  PatientInv'
<1>1. r \in BagToSet(sent) /\ RequestOK(r) /\ ~Refused(r)
      /\ issue' = After(issue, r) /\ comments' = CommentsAfter(r)
      /\ win' = win /\ met' = met
  BY DEF Executes
<1>2. Alone(r) /\ r.mine
  BY <1>1 DEF BoardInv, Tame
<1>3. /\ win.loaded /\ Shows(After(issue, r))
      /\ IF r.kind = "comment" THEN ShowsComments(comments, {})
         ELSE ShowsComments(CommentsAfter(r), Late(r))
  BY <1>1 DEF PatientInv, Asked
<1>4. sent' = Reloads(r)
  <2>1. sent (-) SetToBag({r}) = EmptyBag
    BY <1>2, LastOfBag DEF Alone
  <2> QED BY <1>1, <2>1, ReloadsAre, AddedToNone DEF Executes
<1>5. \A q \in BagToSet(sent') : ~Asking(q)
  BY <1>1, <1>4, ReloadsAre DEF Asking, Changes
<1>6. Shows(issue)'
  BY <1>1, <1>3 DEF Shows
<1>7. Awaited' /\ Asked'
  BY <1>1, <1>3, <1>5 DEF Awaited, Asked, Asking
<1>8. CASE r.kind = "move_to"
  <2>1. BagToSet(answers') = {}
    BY <1>2, <1>8, NoneInBag DEF Executes, Alone
  <2>2. ShowsComments(comments, {})'
    BY <1>1, <1>3, <1>8 DEF ShowsComments, Late
  <2> QED BY <1>6, <1>7, <2>1, <2>2 DEF PatientInv, Answered, Settled
<1>9. CASE r.kind # "move_to"
  <2>7. PICK a : a = Answer(r, issue')
    OBVIOUS
  <2>1. answers' = SetToBag({a})
    BY <1>2, <1>9, <2>7, FirstOfBag DEF Executes, Alone
  <2>2. /\ a.call.kind = r.kind /\ a.call.body = r.body
        /\ a.call.comment = IF r.kind = "comment" THEN lastId + 1 ELSE r.comment
        /\ r.kind = "update_comment" => a.call.name = r.name
    BY <1>9, <2>7, AnswerSent
  <2>3. BagToSet(answers') = {a}
    BY <2>1, OneInBag
  <2>4. CASE r.kind = "comment"
    <3>1. /\ DOMAIN comments' = DOMAIN comments \cup {lastId + 1}
          /\ lastId + 1 \notin DOMAIN comments
          /\ comments'[lastId + 1] = r.body
          /\ \A id \in DOMAIN comments : comments'[id] = comments[id]
      BY <1>1, <2>4, CommentsAfterAre
    <3>2. sent' = EmptyBag
      BY <1>4, <2>4 DEF Reloads
    <3>3. ShowsComments(Without(comments, a.call.comment), {})'
      <4>1. PICK t : t = Without(comments', lastId + 1)
        OBVIOUS
      <4>2. DOMAIN t = DOMAIN comments /\ \A id \in DOMAIN t : t[id] = comments[id]
        BY <3>1, <4>1 DEF Without, Restrict
      <4>3. ShowsComments(t, {})'
        BY <1>1, <1>3, <2>4, <4>2 DEF ShowsComments
      <4>4. a.call.comment = lastId + 1
        BY <2>2, <2>4
      <4>5. Without(comments', a.call.comment) = t
        BY <4>1, <4>4
      <4> QED BY <4>3, <4>5
    <3>4. Answered'
      BY <1>1, <1>3, <2>1, <2>2, <2>3, <2>4, <3>1, <3>2, <3>3 DEF Answered
    <3>5. Settled'
      BY <1>6, <2>2, <2>3, <2>4 DEF Settled
    <3> QED BY <1>7, <3>4, <3>5 DEF PatientInv
  <2>5. CASE r.kind = "update_comment"
    <3>1. r.comment \in DOMAIN comments' /\ comments'[r.comment] = r.body
      BY <1>1, <2>5, CommentsAfterAre
    <3>2. sent' = EmptyBag
      BY <1>4, <2>5 DEF Reloads
    <3>3. Late(a.call) = Late(r)
      BY <2>2, <2>5 DEF Late
    <3>4. ShowsComments(comments, Late(a.call))'
      BY <1>1, <1>3, <2>5, <3>3 DEF ShowsComments
    <3>5. Answered'
      BY <1>1, <1>3, <2>1, <2>2, <2>3, <2>5, <3>1, <3>2, <3>4 DEF Answered
    <3>6. Settled'
      BY <1>6, <2>2, <2>3, <2>5 DEF Settled
    <3> QED BY <1>7, <3>5, <3>6 DEF PatientInv
  <2>6. CASE r.kind \notin {"comment", "update_comment"}
    <3>1. Late(r) = {}
      BY <2>6 DEF Late
    <3>2. ShowsComments(comments, {})'
      BY <1>1, <1>3, <2>6, <3>1 DEF ShowsComments
    <3>3. r.kind # "comments"
      BY DEF Asking, Changes
    <3>4. Answered'
      BY <2>2, <2>3, <2>6, <3>3 DEF Answered
    <3> QED BY <1>6, <1>7, <3>2, <3>4 DEF PatientInv, Settled
  <2> QED BY <2>4, <2>5, <2>6
<1> QED BY <1>8, <1>9

\* Every step keeps the window right.
LEMMA PatientStep == TypeInv /\ BoardInv /\ PatientInv /\ [Next]_vars => PatientInv'
<1>1. ASSUME PatientInv, UNCHANGED vars PROVE PatientInv'
  <2>1. UNCHANGED <<issue, comments, lastId, win, sent, answers, met>>
    BY <1>1 DEF vars, server, net, history
  <2>2. \A d : Shows(d) => Shows(d)'
    BY <2>1 DEF Shows
  <2>3. \A t, late : ShowsComments(t, late) => ShowsComments(t, late)'
    BY <2>1 DEF ShowsComments
  <2>4. \A r : CommentsAfter(r)' = CommentsAfter(r)
    BY <2>1 DEF CommentsAfter
  <2>5. Awaited => Awaited'
    BY <2>1 DEF Awaited, Fetching
  <2>6. Asked => Asked'
    BY <2>1, <2>2, <2>3, <2>4 DEF Asked
  <2>7. Answered => Answered'
    BY <2>1, <2>3 DEF Answered
  <2>8. Settled => Settled'
    BY <2>1, <2>2, <2>3 DEF Settled
  <2> QED BY <1>1, <2>1, <2>5, <2>6, <2>7, <2>8 DEF PatientInv, Tame
<1>2. ASSUME TypeInv, BoardInv, PatientInv, NEW r, Executes(r) PROVE PatientInv'
  <2>1. CASE Tame
    BY <1>2, <2>1, PatientAfterFetch, PatientAfterChange
  <2>2. CASE ~Tame
    BY <1>2, <2>2 DEF Tame, Executes, PatientInv
  <2> QED BY <2>1, <2>2
<1>3. ASSUME \/ \E r : Drops(r)
             \/ \E a : Forgets(a)
             \/ Interferes
      PROVE  PatientInv'
  BY <1>3 DEF Drops, Forgets, Interferes, PatientInv, Tame
<1>4. ASSUME TypeInv, BoardInv, PatientInv, Effect PROVE PatientInv'
  BY <1>2, <1>3, <1>4, PatientAfterClick, PatientAfterOpen, PatientAfterTyping,
     PatientAfterArrival DEF Effect
<1> QED BY <1>1, <1>4, StepHasEffect

\* A user who waits for every answer, alone on the issue, sees it as it is:
\* labels, due date, title and comments, and, unless a card was moved or a
\* state button pressed that does not fit, assignee, "ready" and state too,
\* through any number of windows opened from any card.
THEOREM PatientWindowAgreesHolds == Spec => []PatientWindowAgrees
<1>1. TypeInv /\ PatientInv => PatientWindowAgrees
  <2> SUFFICES ASSUME PatientInv, Tame, Quiet PROVE PatientWindowAgrees
    BY DEF PatientWindowAgrees, Tame
  <2>1. Shows(issue) /\ win.loaded /\ ShowsComments(comments, {})
    BY QuietWindowRight
  <2> QED BY <2>1 DEF PatientWindowAgrees, Shows, ShowsComments
<1>2. Init => TypeInv /\ BoardInv /\ PatientInv
  BY TypesAtFirst, BoardAtFirst, PatientAtFirst
<1>3. TypeInv /\ BoardInv /\ PatientInv /\ [Next]_vars => (TypeInv /\ BoardInv /\ PatientInv)'
  BY TypesStep, BoardStep, PatientStep
<1> QED BY <1>1, <1>2, <1>3, PTL DEF Spec

-----------------------------------------------------------------------------
(* Clicks may overtake each other.                                          *)

\* What a bag holds has copies in it.
LEMMA MemberCopies ==
    ASSUME NEW B, IsABag(B)
    PROVE  \A e : Copies(e, B) \in Nat /\ (e \in BagToSet(B) <=> Copies(e, B) > 0)
BY DEF Copies, BagIn, BagToSet, IsABag

\* A toggle more, or less, changes the parity.
LEMMA Parity ==
    /\ ~Odd(0)
    /\ \A n \in Nat : Odd(n + 1) <=> ~Odd(n)
    /\ \A n \in Nat : n > 0 => (Odd(n - 1) <=> ~Odd(n))
BY DEF Odd

\* When nothing is under way both fetches have come, and nothing is ahead.
LEMMA QuietCommuted == TypeInv /\ CommuteInv => ClicksCommute
<1> SUFFICES ASSUME TypeInv, CommuteInv, Apart, Quiet
             PROVE  win.ready = issue.ready /\ DOMAIN win.comps = DOMAIN comments
  BY DEF ClicksCommute, Apart
<1>1. BagToSet(sent) = {} /\ BagToSet(answers) = {}
  BY QuietHasNone
<1>2. \A e : Copies(e, sent) = 0
  BY <1>1 DEF Copies, BagIn
<1>3. win.own /\ win.loaded
  BY <1>1, <1>2 DEF CommuteInv, Began, Begun, Starting
<1>4. win.ready = issue.ready
  <2>1. ~Odd(Toggles)
    BY <1>2, Parity DEF Toggles
  <2> QED BY <1>3, <2>1 DEF CommuteInv, ReadyAhead
<1>5. Deleted = {} /\ Created = {}
  BY <1>1 DEF Deleted, Created
<1> QED BY <1>3, <1>4, <1>5 DEF CommuteInv, CommentsAhead

\* A new window has only its two fetches under way.
OnlyBegun == /\ sent = SetToBag(Beginning) /\ answers = EmptyBag
             /\ ~win.own /\ ~win.loaded

\* Such a window has all that is to be kept.
LEMMA CommuteAtFirst == OnlyBegun => CommuteInv
<1> SUFFICES ASSUME OnlyBegun PROVE CommuteInv
  OBVIOUS
<1>1. BagToSet(sent) = Beginning /\ BagToSet(answers) = {}
  BY BeginningIs, NoneInBag DEF OnlyBegun
<1>2. \A r \in BagToSet(sent) : r.mine /\ r.kind \in {"show", "comments"} /\ r = Request(r.kind)
  BY <1>1, BeginningIs
<1>3. Starting("show") /\ Starting("comments")
  BY <1>1, BeginningIs DEF OnlyBegun, Starting, Beginning
<1>4. Began
  BY <1>3 DEF OnlyBegun, Began, Begun
<1>5. OwnCalls /\ FetchesFirst
  BY <1>1, <1>2 DEF OwnCalls, FetchesFirst
<1>6. ReadyAhead /\ CommentsAhead /\ DeletedOnce /\ CreatedOnce
  BY <1>1, <1>2 DEF OnlyBegun, ReadyAhead, CommentsAhead, DeletedOnce, CreatedOnce
<1> QED BY <1>4, <1>5, <1>6 DEF CommuteInv

\* So does one that is opened over another.
LEMMA CommuteWhenOpened == OnlyBegun' => CommuteInv'
BY CommuteAtFirst, PTL

\* A click is ahead of the server by one request.
LEMMA CommuteAfterClick ==
    ASSUME TypeInv, CommuteInv, NEW r, Does(r)
    PROVE  CommuteInv'
<1> SUFFICES ASSUME Apart'
             PROVE  (/\ Began /\ OwnCalls /\ FetchesFirst /\ ReadyAhead
                     /\ CommentsAhead /\ DeletedOnce /\ CreatedOnce)'
  BY DEF CommuteInv
<1>1. /\ Apart /\ win.own /\ win.loaded
      /\ r.kind # "move_to" /\ r.kind \in Changes /\ r.mine
      /\ r.kind = "toggle_ready" => r = Request("toggle_ready")
      /\ UNCHANGED <<issue, comments, answers>>
      /\ sent' = sent (+) SetToBag({r})
  BY DEF Apart, Does, Asks
<1>2. /\ Began /\ OwnCalls /\ FetchesFirst /\ ReadyAhead
      /\ CommentsAhead /\ DeletedOnce /\ CreatedOnce
  BY <1>1 DEF CommuteInv
<1>3. IsABag(sent) /\ win.ready \in BOOLEAN /\ issue.ready \in BOOLEAN
  BY DEF TypeInv, WindowOK, Data
<1>4. /\ BagToSet(sent') = BagToSet(sent) \cup {r}
      /\ Copies(r, sent') = Copies(r, sent) + 1
      /\ \A e : e # r => Copies(e, sent') = Copies(e, sent)
  BY <1>1, <1>3, OneMore
<1>5. win'.own /\ win'.loaded
      /\ win'.ready = IF r.kind = "toggle_ready" THEN ~win.ready ELSE win.ready
  BY <1>1 DEF Does, Sets
<1>6. Began'
  <2>1. Idle("show") /\ Idle("comments")
    BY <1>1, <1>2 DEF Began, Begun
  <2>2. (Idle("show") /\ Idle("comments"))'
    BY <1>1, <1>4, <2>1 DEF Idle, Changes
  <2> QED BY <1>5, <2>2 DEF Began, Begun
<1>7. OwnCalls' /\ FetchesFirst'
  <2>1. r.kind \notin {"show", "comments"}
    BY <1>1 DEF Changes
  <2> QED BY <1>1, <1>2, <1>4, <1>5, <2>1 DEF OwnCalls, FetchesFirst
<1>8. ReadyAhead'
  <2>1. win.ready # issue.ready <=> Odd(Toggles)
    BY <1>1, <1>2 DEF ReadyAhead
  <2>2. CASE r.kind = "toggle_ready"
    <3>1. Toggles' = Toggles + 1 /\ Toggles \in Nat
      BY <1>1, <1>3, <1>4, <2>2, MemberCopies DEF Toggles
    <3>2. Odd(Toggles') <=> ~Odd(Toggles)
      BY <3>1, Parity
    <3>3. win'.ready # issue.ready <=> ~(win.ready # issue.ready)
      BY <1>3, <1>5, <2>2
    <3>4. win'.ready # issue.ready <=> Odd(Toggles')
      BY <2>1, <3>2, <3>3
    <3>5. Odd(Toggles)' <=> Odd(Toggles')
      BY DEF Odd
    <3> QED BY <1>1, <3>4, <3>5 DEF ReadyAhead
  <2>3. CASE r.kind # "toggle_ready"
    <3>3. Request("toggle_ready").kind = "toggle_ready"
      BY DEF Request
    <3>1. Request("toggle_ready") # r
      BY <2>3, <3>3
    <3>2. Toggles' = Toggles /\ win'.ready = win.ready
      BY <1>4, <1>5, <2>3, <3>1 DEF Toggles
    <3> QED BY <1>1, <2>1, <3>2 DEF ReadyAhead, Odd
  <2> QED BY <2>2, <2>3
<1>9. CommentsAhead' /\ DeletedOnce'
  <2>1. /\ DOMAIN win.comps \cup Created = DOMAIN comments \ Deleted
        /\ DOMAIN win.comps \cap Created = {}
        /\ Deleted \subseteq DOMAIN comments
    BY <1>1, <1>2 DEF CommentsAhead
  <2>2. Created' = Created
    BY <1>1 DEF Created
  <2>3. CASE r.kind = "delete_comment"
    <3>1. r.comment \in DOMAIN win.comps /\ DOMAIN win'.comps = DOMAIN win.comps \ {r.comment}
      BY <2>3 DEF Does, Edits, Deletes
    <3>2. Deleted' = Deleted \cup {r.comment}
      BY <1>4, <2>3 DEF Deleted
    <3>3. r.comment \notin Deleted
      BY <2>1, <3>1
    <3>4. CommentsAhead'
      BY <1>1, <2>1, <2>2, <3>1, <3>2 DEF CommentsAhead
    <3>5. \A q \in BagToSet(sent) : q.kind = "delete_comment" => q.comment # r.comment
      BY <3>3 DEF Deleted
    <3>6. Copies(r, sent') = 1
      <4>1. r \notin BagToSet(sent)
        BY <2>3, <3>5
      <4> QED BY <1>4, <4>1 DEF Copies, BagIn
    <3>7. DeletedOnce'
      BY <1>2, <1>4, <3>5, <3>6 DEF DeletedOnce
    <3> QED BY <3>4, <3>7
  <2>4. CASE r.kind # "delete_comment"
    <3>1. DOMAIN win'.comps = DOMAIN win.comps
      BY <2>4 DEF Does, Edits, Rewrites, SameComments
    <3>2. Deleted' = Deleted
      BY <1>4, <2>4 DEF Deleted
    <3>3. CommentsAhead'
      BY <1>1, <2>1, <2>2, <3>1, <3>2 DEF CommentsAhead
    <3>4. DeletedOnce'
      BY <1>2, <1>4, <2>4 DEF DeletedOnce
    <3> QED BY <3>3, <3>4
  <2> QED BY <2>3, <2>4
<1>10. CreatedOnce'
  BY <1>1, <1>2 DEF CreatedOnce
<1> QED BY <1>6, <1>7, <1>8, <1>9, <1>10

\* A fetch that is made once is still made once when another answer is taken.
LEMMA StillStarting ==
    ASSUME TypeInv, NEW a, Takes(a), sent' = sent, NEW kind, a.call.kind # kind,
           Starting(kind)
    PROVE  Starting(kind)'
<1>1. /\ BagToSet(answers') \subseteq BagToSet(answers)
      /\ BagToSet(answers) \ {a} \subseteq BagToSet(answers')
      /\ \A e : e # a => Copies(e, answers') = Copies(e, answers)
  BY OneLess DEF Takes, TypeInv
<1> QED BY <1>1 DEF Starting

\* An answer that comes once and is taken has been the last.
LEMMA TakenOnce ==
    ASSUME TypeInv, NEW a, Takes(a), sent' = sent, NEW kind, a.call.kind = kind,
           Begun(kind, FALSE) \/ Begun(kind, TRUE)
    PROVE  Starting(kind) /\ Idle(kind)'
<1>1. /\ a \in BagToSet(answers)
      /\ BagToSet(answers') \subseteq BagToSet(answers)
      /\ Copies(a, answers) = 1 => a \notin BagToSet(answers')
  BY OneLess DEF Takes, TypeInv
<1>2. Starting(kind)
  BY <1>1 DEF Begun, Idle
<1>3. /\ \A r \in BagToSet(sent) : r.kind # kind
      /\ Copies(a, answers) = 1
      /\ \A b \in BagToSet(answers) : b.call.kind = kind => b = a
  BY <1>1, <1>2 DEF Starting
<1> QED BY <1>1, <1>2, <1>3 DEF Idle

\* The first answers bring what the window lacks, the others what it knows.
LEMMA CommuteAfterArrival ==
    ASSUME TypeInv, CommuteInv, NEW a, Takes(a), Brings(a)
    PROVE  CommuteInv'
<1> SUFFICES ASSUME Apart
             PROVE  (/\ Began /\ OwnCalls /\ FetchesFirst /\ ReadyAhead
                     /\ CommentsAhead /\ DeletedOnce /\ CreatedOnce)'
  BY DEF CommuteInv, Takes, Apart
<1>1. /\ Began /\ OwnCalls /\ FetchesFirst /\ ReadyAhead
      /\ CommentsAhead /\ DeletedOnce /\ CreatedOnce
  BY DEF CommuteInv
<1>2. /\ a \in BagToSet(answers) /\ UNCHANGED <<issue, comments, lastId>>
      /\ BagToSet(answers') \subseteq BagToSet(answers)
      /\ BagToSet(answers) \ {a} \subseteq BagToSet(answers')
      /\ \A e : e # a => Copies(e, answers') = Copies(e, answers)
      /\ Copies(a, answers) = 1 => a \notin BagToSet(answers')
  BY OneLess DEF Takes, TypeInv
<1>3. a.call.kind # "column" => a.call.mine
  BY <1>1, <1>2 DEF OwnCalls
<1>4. CreatedOnce'
  <2> SUFFICES ASSUME NEW b \in BagToSet(answers'), b.call.kind = "comment"
               PROVE  /\ Copies(b, answers') = 1
                      /\ \A d \in BagToSet(answers') :
                             d.call.kind = "comment" /\ d.call.comment = b.call.comment => d = b
    BY DEF CreatedOnce
  <2>1. b \in BagToSet(answers) /\ Copies(b, answers) = 1
    BY <1>1, <1>2 DEF CreatedOnce
  <2>2. b # a
    BY <1>2, <2>1
  <2> QED BY <1>1, <1>2, <2>1, <2>2 DEF CreatedOnce
<1>5. ASSUME sent' = sent
      PROVE  OwnCalls' /\ DeletedOnce' /\ Toggles' = Toggles /\ Deleted' = Deleted
  BY <1>1, <1>2, <1>5 DEF OwnCalls, DeletedOnce, Toggles, Deleted
<1>6. a.call.kind # "comment" => Created' = Created
  BY <1>2 DEF Created
<1>7. CASE ShowArrives(a)
  <2>1. /\ a.call.kind = "show" /\ a.call.mine /\ sent' = sent /\ SameComments
        /\ win'.own /\ win'.loaded = win.loaded /\ win'.ready = a.data.ready
    BY <1>3, <1>7 DEF ShowArrives
  <2>2. Starting("show") /\ Idle("show")'
    BY <1>1, <2>1, TakenOnce DEF Began, Begun
  <2>3. ~win.own
    BY <1>1, <1>2, <2>1 DEF Began, Begun, Idle
  <2>4. Begun("comments", win.loaded)'
    <3>1. Idle("comments") => Idle("comments")'
      BY <1>2, <2>1 DEF Idle
    <3>2. Starting("comments") => Starting("comments")'
      BY <2>1, StillStarting
    <3> QED BY <1>1, <2>1, <3>1, <3>2 DEF Began, Begun
  <2>5. Began'
    BY <2>1, <2>2, <2>4 DEF Began, Begun
  <2>6. /\ \A r \in BagToSet(sent) : r.kind \in {"show", "comments"}
        /\ \A b \in BagToSet(answers) :
               /\ b.call.kind \in {"show", "comments"}
               /\ b.call.kind = "show" => b.data.ready = issue.ready
               /\ b.call.kind = "comments" => b.comments = comments
    BY <1>1, <2>3 DEF FetchesFirst
  <2>7. FetchesFirst'
    BY <1>2, <2>1, <2>6 DEF FetchesFirst
  <2>8. ReadyAhead'
    <3>1. win'.ready = issue'.ready
      BY <1>2, <2>1, <2>6
    <3>2. Toggles = 0
      <4>1. Request("toggle_ready").kind = "toggle_ready"
        BY DEF Request
      <4>2. Request("toggle_ready") \notin BagToSet(sent)
        BY <2>6, <4>1
      <4> QED BY <4>2 DEF Toggles, Copies, BagIn
    <3>3. ~Odd(Toggles)'
      BY <1>5, <2>1, <3>2, Parity DEF Odd
    <3> QED BY <3>1, <3>3 DEF ReadyAhead
  <2>9. CommentsAhead'
    BY <1>1, <1>2, <1>5, <1>6, <2>1 DEF CommentsAhead, SameComments
  <2> QED BY <1>4, <1>5, <2>1, <2>5, <2>7, <2>8, <2>9
<1>8. CASE CommentsArrive(a)
  <2>1. /\ a.call.kind = "comments" /\ a.call.mine /\ sent' = sent
        /\ win'.own = win.own /\ win'.loaded /\ win'.ready = win.ready
        /\ DOMAIN win'.comps = DOMAIN a.comments
    BY <1>3, <1>8 DEF CommentsArrive, Lists
  <2>2. Starting("comments") /\ Idle("comments")'
    BY <1>1, <2>1, TakenOnce DEF Began, Begun
  <2>3. ~win.loaded
    BY <1>1, <1>2, <2>1 DEF Began, Begun, Idle
  <2>4. Begun("show", win.own)'
    <3>1. Idle("show") => Idle("show")'
      BY <1>2, <2>1 DEF Idle
    <3>2. Starting("show") => Starting("show")'
      BY <2>1, StillStarting
    <3> QED BY <1>1, <2>1, <3>1, <3>2 DEF Began, Begun
  <2>5. Began'
    BY <2>1, <2>2, <2>4 DEF Began, Begun
  <2>6. /\ \A r \in BagToSet(sent) : r.kind \in {"show", "comments"}
        /\ \A b \in BagToSet(answers) :
               /\ b.call.kind \in {"show", "comments"}
               /\ b.call.kind = "show" => b.data.ready = issue.ready
               /\ b.call.kind = "comments" => b.comments = comments
    BY <1>1, <2>3 DEF FetchesFirst
  <2>7. FetchesFirst'
    BY <1>2, <2>1, <2>6 DEF FetchesFirst
  <2>8. ReadyAhead'
    BY <1>1, <1>2, <1>5, <2>1 DEF ReadyAhead, Odd
  <2>9. Created' = {} /\ Deleted' = {}
    BY <1>2, <1>5, <2>1, <2>6 DEF Created, Deleted
  <2>10. DOMAIN win'.comps = DOMAIN comments
    BY <1>2, <2>1, <2>6
  <2>11. CommentsAhead'
    BY <1>2, <2>9, <2>10 DEF CommentsAhead
  <2> QED BY <1>4, <1>5, <2>1, <2>5, <2>7, <2>8, <2>11
<1>9. CASE SameFields /\ a.call.kind \notin {"show", "comments"}
  <2>1. win.own /\ win.loaded /\ win'.own /\ win'.loaded /\ win'.ready = win.ready
    BY <1>1, <1>2, <1>9 DEF FetchesFirst, SameFields
  <2>2. FetchesFirst'
    BY <2>1 DEF FetchesFirst
  <2>3. /\ OwnCalls' /\ DeletedOnce' /\ Toggles' = Toggles /\ Deleted' = Deleted
        /\ \A kind \in {"show", "comments"} : Idle(kind) => Idle(kind)'
    <3>1. CASE sent' = sent
      BY <1>2, <1>5, <3>1 DEF Idle
    <3>2. CASE UpdateArrives(a)
      <4>1. sent' = sent (+) SetToBag({Again(a)}) /\ a.call.mine
        BY <1>3, <3>2 DEF UpdateArrives
      <4>2. Again(a).kind = "fetch_miniature" /\ Again(a).mine
        BY <4>1 DEF Again, Request
      <4>3. Request("toggle_ready").kind = "toggle_ready"
        BY DEF Request
      <4>4. /\ BagToSet(sent') = BagToSet(sent) \cup {Again(a)}
            /\ \A e : e # Again(a) => Copies(e, sent') = Copies(e, sent)
        BY <4>1, OneMore DEF TypeInv
      <4>5. OwnCalls'
        BY <1>1, <1>2, <4>2, <4>4 DEF OwnCalls
      <4>6. DeletedOnce'
        BY <1>1, <4>2, <4>4 DEF DeletedOnce
      <4>7. Toggles' = Toggles
        BY <4>2, <4>3, <4>4 DEF Toggles
      <4>8. Deleted' = Deleted
        BY <4>2, <4>4 DEF Deleted
      <4> QED BY <1>2, <4>2, <4>4, <4>5, <4>6, <4>7, <4>8 DEF Idle
    <3> QED BY <1>9, <3>1, <3>2 DEF Brings, ShowArrives, CommentsArrive, CommentArrives,
               ArchiveArrives, ColumnArrives, MiniatureArrives
  <2>4. Began'
    BY <1>1, <2>1, <2>3 DEF Began, Begun
  <2>5. ReadyAhead'
    BY <1>1, <1>2, <2>1, <2>3 DEF ReadyAhead, Odd
  <2>6. /\ DOMAIN win.comps \cup Created = DOMAIN comments \ Deleted
        /\ DOMAIN win.comps \cap Created = {}
        /\ Deleted \subseteq DOMAIN comments
    BY <1>1, <2>1 DEF CommentsAhead
  <2>7. CommentsAhead'
    <3>1. CASE CommentArrives(a)
      <4>1. /\ a.call.kind = "comment"
            /\ DOMAIN win'.comps = DOMAIN win.comps \cup {a.call.comment}
        BY <1>3, <3>1 DEF CommentArrives
      <4>2. Created' = Created \ {a.call.comment}
        <5>1. Copies(a, answers) = 1
              /\ \A b \in BagToSet(answers) :
                     b.call.kind = "comment" /\ b.call.comment = a.call.comment => b = a
          BY <1>1, <1>2, <4>1 DEF CreatedOnce
        <5>2. \A b \in BagToSet(answers') :
                  b.call.kind = "comment" => b.call.comment # a.call.comment
          BY <1>2, <5>1
        <5> QED BY <1>2, <5>2 DEF Created
      <4>3. a.call.comment \in Created
        BY <1>2, <4>1 DEF Created
      <4>4. /\ DOMAIN win'.comps \cup Created' = DOMAIN comments \ Deleted
            /\ DOMAIN win'.comps \cap Created' = {}
        BY <2>6, <4>1, <4>2, <4>3
      <4> QED BY <1>2, <2>3, <2>6, <4>4 DEF CommentsAhead
    <3>2. CASE ~CommentArrives(a)
      <4>1. DOMAIN win'.comps = DOMAIN win.comps /\ a.call.kind # "comment"
        BY <1>9, <3>2 DEF Brings, ShowArrives, CommentsArrive, UpdateArrives,
               ArchiveArrives, ColumnArrives, MiniatureArrives, SameComments
      <4> QED BY <1>2, <1>6, <2>3, <2>6, <4>1 DEF CommentsAhead
    <3> QED BY <3>1, <3>2
  <2> QED BY <1>4, <2>2, <2>3, <2>4, <2>5, <2>7
<1> QED BY <1>7, <1>8, <1>9 DEF Brings, CommentArrives, UpdateArrives, ArchiveArrives,
           ColumnArrives, MiniatureArrives, Miniatures

\* A request leaves the bag of those under way; what it causes are reloads.
LEMMA SentAfter ==
    ASSUME TypeInv, NEW r, Executes(r)
    PROVE  /\ \A q \in BagToSet(sent') : q \in BagToSet(sent) \/ (q.kind = "column" /\ ~q.mine)
           /\ Copies(r, sent) \in Nat /\ Copies(r, sent) > 0
           /\ \A e : e.kind # "column" =>
                  /\ Copies(e, sent') = IF e = r THEN Copies(r, sent) - 1 ELSE Copies(e, sent)
                  /\ e \in BagToSet(sent') => Copies(e, sent') > 0
<1>1. /\ r \in BagToSet(sent) /\ RequestOK(r) /\ IsABag(sent) /\ IsABag(sent')
      /\ sent' = (sent (-) SetToBag({r})) (+) Reloads(r)
      /\ BagToSet(sent') \subseteq BagToSet(sent) \cup BagToSet(Reloads(r))
  BY DEF Executes, TypeInv
<1>2. IsABag(Reloads(r)) /\ \A q \in BagToSet(Reloads(r)) : q.kind = "column" /\ ~q.mine
  BY <1>1, ReloadsAre
<1> DEFINE B == sent (-) SetToBag({r})
<1>3. /\ IsABag(B) /\ Copies(r, B) = Copies(r, sent) - 1
      /\ \A e : e # r => Copies(e, B) = Copies(e, sent)
  BY <1>1, OneLess
<1> HIDE DEF B
<1>4. \A e : Copies(e, sent') = Copies(e, B) + Copies(e, Reloads(r))
  BY <1>1, <1>2, <1>3, TogetherBag DEF B
<1>5. \A e : e.kind # "column" => Copies(e, Reloads(r)) = 0
  BY <1>2 DEF Copies, BagIn
<1>6. /\ Copies(r, sent) \in Nat /\ Copies(r, sent) > 0
      /\ \A e : Copies(e, B) \in Nat
      /\ \A e : e \in BagToSet(sent') => Copies(e, sent') > 0
  BY <1>1, <1>3, MemberCopies
<1>7. ASSUME NEW e, e.kind # "column"
      PROVE  Copies(e, sent') = IF e = r THEN Copies(r, sent) - 1 ELSE Copies(e, sent)
  BY <1>3, <1>4, <1>5, <1>6, <1>7
<1> QED BY <1>1, <1>2, <1>6, <1>7

\* A fetch that is made once is not made again by what the server does, and
\* its answer is the only one.
LEMMA ExecutedOnce ==
    ASSUME TypeInv, OwnCalls, NEW r, Executes(r), NEW kind \in {"show", "comments"},
           Begun(kind, FALSE) \/ Begun(kind, TRUE)
    PROVE  /\ r.kind = kind => Starting(kind)
           /\ Starting(kind) => Starting(kind)'
           /\ r.kind # kind /\ Idle(kind) => Idle(kind)'
<1>1. r \in BagToSet(sent) /\ r.kind # "move_to" /\ (r.kind = kind => r = Request(kind))
  BY DEF Executes, OwnCalls
<1>2. PICK a : a = Answer(r, issue')
  OBVIOUS
<1>3. /\ BagToSet(answers') = BagToSet(answers) \cup {a}
      /\ Copies(a, answers') = Copies(a, answers) + 1
      /\ \A e : e # a => Copies(e, answers') = Copies(e, answers)
      /\ a.call.kind = r.kind
  BY <1>1, <1>2, AnswerSent
<1>4. Request(kind).kind = kind /\ kind # "column"
  BY DEF Request
<1>5. /\ \A q \in BagToSet(sent') : q.kind = kind => q \in BagToSet(sent)
      /\ Copies(Request(kind), sent') = IF Request(kind) = r THEN Copies(r, sent) - 1
                                        ELSE Copies(Request(kind), sent)
      /\ Request(kind) \in BagToSet(sent') => Copies(Request(kind), sent') > 0
  BY <1>4, SentAfter
<1>6. r.kind = kind => Starting(kind)
  BY <1>1 DEF Begun, Idle
<1>7. ASSUME r.kind # kind, Idle(kind) PROVE Idle(kind)'
  BY <1>3, <1>5, <1>7 DEF Idle
<1>8. ASSUME Starting(kind) PROVE Starting(kind)'
  <2>1. CASE r.kind = kind
    <3>1. r = Request(kind) /\ Copies(r, sent) = 1
          /\ \A b \in BagToSet(answers) : b.call.kind # kind
      BY <1>1, <1>8, <2>1 DEF Starting
    <3>2. \A q \in BagToSet(sent') : q.kind # kind
      <4> SUFFICES ASSUME NEW q \in BagToSet(sent'), q.kind = kind PROVE FALSE
        OBVIOUS
      <4>1. q = Request(kind)
        BY <1>5 DEF OwnCalls
      <4>2. Copies(Request(kind), sent') = 0
        BY <1>5, <3>1
      <4> QED BY <1>5, <4>1, <4>2
    <3>3. Copies(a, answers) = 0
      <4>1. a \notin BagToSet(answers)
        BY <1>3, <2>1, <3>1
      <4> QED BY <4>1 DEF Copies, BagIn
    <3>4. Copies(a, answers') = 1
      BY <1>3, <3>3
    <3>5. /\ a \in BagToSet(answers') /\ a.call.kind = kind
          /\ \A b \in BagToSet(answers') : b.call.kind = kind => b = a
      BY <1>3, <2>1, <3>1
    <3> QED BY <3>2, <3>4, <3>5 DEF Starting
  <2>2. CASE r.kind # kind
    <3>1. Request(kind) # r
      BY <1>4, <2>2
    <3>2. \A b \in BagToSet(answers) : b.call.kind = kind => Copies(b, answers') = Copies(b, answers)
      BY <1>3, <2>2
    <3> QED BY <1>3, <1>5, <1>8, <2>2, <3>1, <3>2 DEF Starting
  <2> QED BY <2>1, <2>2
<1> QED BY <1>6, <1>7, <1>8

\* The server catches up with a click, or answers one of the fetches.
LEMMA CommuteAfterExecution ==
    ASSUME TypeInv, CommuteInv, NEW r, Executes(r)
    PROVE  CommuteInv'
<1> SUFFICES ASSUME Apart
             PROVE  (/\ Began /\ OwnCalls /\ FetchesFirst /\ ReadyAhead
                     /\ CommentsAhead /\ DeletedOnce /\ CreatedOnce)'
  BY DEF CommuteInv, Executes, Apart
<1>1. /\ Began /\ OwnCalls /\ FetchesFirst /\ ReadyAhead
      /\ CommentsAhead /\ DeletedOnce /\ CreatedOnce
  BY DEF CommuteInv
<1>2. /\ r \in BagToSet(sent) /\ RequestOK(r) /\ ~Refused(r) /\ r.kind # "move_to"
      /\ issue' = After(issue, r) /\ comments' = CommentsAfter(r)
      /\ win' = win /\ issue \in Data
  BY <1>1 DEF Executes, OwnCalls, TypeInv
<1>3. PICK a : a = Answer(r, issue')
  OBVIOUS
<1>4. /\ BagToSet(answers') = BagToSet(answers) \cup {a}
      /\ Copies(a, answers') = Copies(a, answers) + 1
      /\ \A e : e # a => Copies(e, answers') = Copies(e, answers)
      /\ a.call.kind = r.kind /\ a.call.mine = r.mine /\ a.data = issue'
      /\ a.call.comment = IF r.kind = "comment" THEN lastId + 1 ELSE r.comment
      /\ r.kind = "comments" => a.comments = comments
  BY <1>2, <1>3, AnswerSent
<1>5. /\ \A q \in BagToSet(sent') : q \in BagToSet(sent) \/ (q.kind = "column" /\ ~q.mine)
      /\ Copies(r, sent) \in Nat /\ Copies(r, sent) > 0
      /\ \A e : e.kind # "column" =>
             /\ Copies(e, sent') = IF e = r THEN Copies(r, sent) - 1 ELSE Copies(e, sent)
             /\ e \in BagToSet(sent') => Copies(e, sent') > 0
      /\ BagToSet(sent) \ {r} \subseteq BagToSet(sent')
  <2>1. BagToSet(sent) \ {r} \subseteq BagToSet(sent')
    BY DEF Executes
  <2> QED BY <2>1, SentAfter
<1>6. OwnCalls'
  <2>1. \A q \in BagToSet(sent) : /\ q.kind # "column" => q.mine
                                  /\ q.kind # "move_to"
                                  /\ q.kind \in {"show", "comments", "toggle_ready"} => q = Request(q.kind)
    BY <1>1 DEF OwnCalls
  <2>2. \A b \in BagToSet(answers') : b.call.kind # "column" => b.call.mine
    BY <1>1, <1>2, <1>4, <2>1 DEF OwnCalls
  <2> QED BY <1>5, <2>1, <2>2 DEF OwnCalls
<1>7. Began'
  <2>1. \A kind \in {"show", "comments"} :
            Begun(kind, FALSE) \/ Begun(kind, TRUE) =>
                /\ r.kind = kind => Starting(kind)
                /\ Starting(kind) => Starting(kind)'
                /\ r.kind # kind /\ Idle(kind) => Idle(kind)'
    BY <1>1, ExecutedOnce
  <2>2. \A kind \in {"show", "comments"} : r.kind = kind => ~Idle(kind)
    BY <1>2 DEF Idle
  <2>3. ASSUME NEW kind \in {"show", "comments"}, NEW done \in BOOLEAN, Begun(kind, done)
        PROVE  Begun(kind, done)'
    <3>1. Begun(kind, FALSE) \/ Begun(kind, TRUE)
      BY <2>3 DEF Begun
    <3>2. CASE done
      <4>1. Idle(kind)
        BY <2>3, <3>2 DEF Begun
      <4>2. Idle(kind)'
        BY <2>1, <2>2, <3>1, <4>1
      <4> QED BY <3>2, <4>2 DEF Begun
    <3>3. CASE ~done
      <4>1. Starting(kind)
        BY <2>3, <3>3 DEF Begun
      <4>2. Starting(kind)'
        BY <2>1, <3>1, <4>1
      <4> QED BY <3>3, <4>2 DEF Begun
    <3> QED BY <3>2, <3>3
  <2>4. win.own \in BOOLEAN /\ win.loaded \in BOOLEAN
    BY DEF TypeInv, WindowOK
  <2>5. PICK o \in BOOLEAN, l \in BOOLEAN : o = win.own /\ l = win.loaded
    BY <2>4
  <2>6. Begun("show", o) /\ Begun("comments", l)
    BY <1>1, <2>5 DEF Began
  <2>7. Begun("show", o)' /\ Begun("comments", l)'
    BY <2>3, <2>6
  <2> QED BY <1>2, <2>5, <2>7 DEF Began
<1>8. FetchesFirst'
  <2> SUFFICES ASSUME ~(win.own /\ win.loaded)
               PROVE  /\ \A q \in BagToSet(sent') : q.kind \in {"show", "comments"}
                      /\ \A b \in BagToSet(answers') :
                             /\ b.call.kind \in {"show", "comments"}
                             /\ b.call.kind = "show" => b.data.ready = issue'.ready
                             /\ b.call.kind = "comments" => b.comments = comments'
    BY <1>2 DEF FetchesFirst
  <2>1. /\ \A q \in BagToSet(sent) : q.kind \in {"show", "comments"}
        /\ \A b \in BagToSet(answers) :
               /\ b.call.kind \in {"show", "comments"}
               /\ b.call.kind = "show" => b.data.ready = issue.ready
               /\ b.call.kind = "comments" => b.comments = comments
    BY <1>1 DEF FetchesFirst
  <2>2. r.kind \in {"show", "comments"}
    BY <1>2, <2>1
  <2>3. issue' = issue /\ comments' = comments
    BY <1>2, <2>2, AfterStays DEF CommentsAfter, Fetches
  <2>4. BagToSet(Reloads(r)) = {}
    BY <1>2, <2>2, ReloadsAre
  <2>5. BagToSet(sent') \subseteq BagToSet(sent)
    BY <2>4 DEF Executes
  <2> QED BY <1>4, <2>1, <2>2, <2>3, <2>5
<1>9. ReadyAhead'
  <2> SUFFICES ASSUME win.own PROVE win.ready # issue'.ready <=> Odd(Toggles')
    BY <1>2 DEF ReadyAhead, Odd
  <2>1. win.ready # issue.ready <=> Odd(Toggles)
    BY <1>1 DEF ReadyAhead
  <2>2. win.ready \in BOOLEAN /\ issue.ready \in BOOLEAN
    BY DEF TypeInv, WindowOK, Data
  <2>3. issue'.ready = IF r.kind = "toggle_ready" THEN ~issue.ready ELSE issue.ready
    BY <1>2, AfterFields
  <2>4. Request("toggle_ready").kind = "toggle_ready"
    BY DEF Request
  <2>5. CASE r.kind = "toggle_ready"
    <3>1. r = Request("toggle_ready")
      BY <1>1, <1>2, <2>5 DEF OwnCalls
    <3>2. Toggles' = Toggles - 1 /\ Toggles \in Nat /\ Toggles > 0
      BY <1>5, <2>4, <3>1 DEF Toggles
    <3>3. Odd(Toggles') <=> ~Odd(Toggles)
      BY <3>2, Parity
    <3>4. win.ready # issue'.ready <=> ~(win.ready # issue.ready)
      BY <2>2, <2>3, <2>5
    <3> QED BY <2>1, <3>3, <3>4
  <2>6. CASE r.kind # "toggle_ready"
    <3>1. Toggles' = Toggles
      BY <1>5, <2>4, <2>6 DEF Toggles
    <3> QED BY <2>1, <2>3, <2>6, <3>1
  <2> QED BY <2>5, <2>6
<1>10. \A q \in BagToSet(sent') : q.kind # "column" => q \in BagToSet(sent)
  BY <1>5
<1>11. DeletedOnce'
  <2> SUFFICES ASSUME NEW q \in BagToSet(sent'), q.kind = "delete_comment"
               PROVE  /\ Copies(q, sent') = 1
                      /\ \A e \in BagToSet(sent') :
                             e.kind = "delete_comment" /\ e.comment = q.comment => e = q
    BY DEF DeletedOnce
  <2>1. q \in BagToSet(sent) /\ Copies(q, sent) = 1
    BY <1>1, <1>10 DEF DeletedOnce
  <2>2. Copies(q, sent') > 0 /\ Copies(q, sent') = IF q = r THEN Copies(r, sent) - 1 ELSE Copies(q, sent)
    BY <1>5
  <2>3. Copies(q, sent') = 1
    BY <2>1, <2>2
  <2> QED BY <1>1, <1>10, <2>1, <2>3 DEF DeletedOnce
<1>12. \A b \in BagToSet(answers) : b.call.kind = "comment" => b.call.comment \in 1..lastId
  BY DEF TypeInv, AnswerOK
<1>13. CreatedOnce'
  <2>1. CASE r.kind = "comment"
    <3>1. a.call.comment = lastId + 1 /\ lastId \in Nat
      BY <1>4, <2>1 DEF TypeInv
    <3>2. \A b \in BagToSet(answers) : b.call.kind = "comment" => b.call.comment # a.call.comment
      BY <1>12, <3>1
    <3>3. Copies(a, answers) = 0
      <4>1. a \notin BagToSet(answers)
        BY <1>4, <2>1, <3>2
      <4> QED BY <4>1 DEF Copies, BagIn
    <3>4. Copies(a, answers') = 1
      BY <1>4, <3>3
    <3>5. \A b \in BagToSet(answers) : b.call.kind = "comment" => b # a
      BY <3>2
    <3> QED BY <1>1, <1>4, <3>2, <3>4, <3>5 DEF CreatedOnce
  <2>2. CASE r.kind # "comment"
    BY <1>1, <1>4, <2>2 DEF CreatedOnce
  <2> QED BY <2>1, <2>2
<1>14. CommentsAhead'
  <2> SUFFICES ASSUME win.loaded
               PROVE  /\ DOMAIN win.comps \cup Created' = DOMAIN comments' \ Deleted'
                      /\ DOMAIN win.comps \cap Created' = {}
                      /\ Deleted' \subseteq DOMAIN comments'
    BY <1>2 DEF CommentsAhead
  <2>1. /\ DOMAIN win.comps \cup Created = DOMAIN comments \ Deleted
        /\ DOMAIN win.comps \cap Created = {}
        /\ Deleted \subseteq DOMAIN comments
    BY <1>1 DEF CommentsAhead
  <2>2. /\ DOMAIN comments' =
               CASE r.kind = "comment" -> DOMAIN comments \cup {lastId + 1}
                 [] r.kind = "delete_comment" -> DOMAIN comments \ {r.comment}
                 [] OTHER -> DOMAIN comments
        /\ r.kind = "delete_comment" => r.comment \in DOMAIN comments
        /\ r.kind = "comment" => lastId + 1 \notin DOMAIN comments
    BY <1>2, CommentsAfterAre
  <2>3. r.kind # "delete_comment" => Deleted' = Deleted
    BY <1>5, <1>10 DEF Deleted
  <2>4. r.kind # "comment" => Created' = Created
    BY <1>4 DEF Created
  <2>5. CASE r.kind = "comment"
    <3>1. Created' = Created \cup {lastId + 1}
      BY <1>4, <2>5 DEF Created
    <3>2. lastId + 1 \notin DOMAIN win.comps
      BY DEF TypeInv, WindowOK, Partial
    <3> QED BY <2>1, <2>2, <2>3, <2>5, <3>1, <3>2
  <2>6. CASE r.kind = "delete_comment"
    <3>1. \A q \in BagToSet(sent') : q.kind = "delete_comment" => q # r
      <4>1. Copies(r, sent) = 1
        BY <1>1, <1>2, <2>6 DEF DeletedOnce
      <4>2. Copies(r, sent') = 0
        BY <1>5, <2>6, <4>1
      <4> QED BY <1>5, <4>2
    <3>2. \A q \in BagToSet(sent') : q.kind = "delete_comment" => q.comment # r.comment
      BY <1>1, <1>2, <1>10, <2>6, <3>1 DEF DeletedOnce
    <3>3. Deleted' = Deleted \ {r.comment}
      BY <1>5, <1>10, <3>2 DEF Deleted
    <3>4. r.comment \in Deleted
      BY <1>2, <2>6 DEF Deleted
    <3> QED BY <2>1, <2>2, <2>4, <2>6, <3>3, <3>4
  <2>7. CASE r.kind \notin {"comment", "delete_comment"}
    BY <2>1, <2>2, <2>3, <2>4, <2>7
  <2> QED BY <2>5, <2>6, <2>7
<1> QED BY <1>6, <1>7, <1>8, <1>9, <1>11, <1>13, <1>14

\* Nobody deletes a comment that is gone: a refusal changes nothing the
\* window is ahead by.
LEMMA CommuteAfterRefusal ==
    ASSUME TypeInv, CommuteInv, NEW r, Drops(r)
    PROVE  CommuteInv'
<1> SUFFICES ASSUME Apart'
             PROVE  (/\ Began /\ OwnCalls /\ FetchesFirst /\ ReadyAhead
                     /\ CommentsAhead /\ DeletedOnce /\ CreatedOnce)'
  BY DEF CommuteInv
<1>1. /\ Apart /\ Refused(r) /\ r \in BagToSet(sent)
      /\ UNCHANGED <<issue, comments, win, answers>>
      /\ r.kind \in {"archive", "unarchive", "delete_comment", "update_comment"}
  BY DEF Apart, Drops, Refused
<1>2. /\ Began /\ OwnCalls /\ FetchesFirst /\ ReadyAhead
      /\ CommentsAhead /\ DeletedOnce /\ CreatedOnce
  BY <1>1 DEF CommuteInv
<1>3. /\ BagToSet(sent') \subseteq BagToSet(sent)
      /\ BagToSet(sent) \ {r} \subseteq BagToSet(sent')
      /\ \A e : e # r => Copies(e, sent') = Copies(e, sent)
      /\ Copies(r, sent) = 1 => r \notin BagToSet(sent')
  BY OneLess DEF Drops, TypeInv
<1>4. win.own /\ win.loaded
  BY <1>1, <1>2 DEF FetchesFirst
<1>5. r.kind # "delete_comment"
  BY <1>1, <1>2, <1>4 DEF CommentsAhead, Deleted, Refused
<1>6. Began' /\ OwnCalls' /\ FetchesFirst' /\ CreatedOnce'
  BY <1>1, <1>2, <1>3, <1>4 DEF Began, Begun, Idle, OwnCalls, FetchesFirst, CreatedOnce
<1>7. ReadyAhead'
  <2>1. Request("toggle_ready").kind = "toggle_ready"
    BY DEF Request
  <2>2. Request("toggle_ready") # r
    BY <1>1, <2>1
  <2>3. Toggles' = Toggles
    BY <1>3, <2>2 DEF Toggles
  <2> QED BY <1>1, <1>2, <2>3 DEF ReadyAhead, Odd
<1>8. Deleted' = Deleted /\ Created' = Created
  BY <1>1, <1>3, <1>5 DEF Deleted, Created
<1>9. CommentsAhead'
  BY <1>1, <1>2, <1>8 DEF CommentsAhead
<1>10. DeletedOnce'
  BY <1>2, <1>3, <1>5 DEF DeletedOnce
<1> QED BY <1>6, <1>7, <1>9, <1>10

\* Every step keeps the window ahead of the server by what is under way.
LEMMA CommuteStep == TypeInv /\ CommuteInv /\ [Next]_vars => CommuteInv'
<1>1. ASSUME CommuteInv, /\ UNCHANGED <<issue, comments, sent, answers, met>>
                         /\ win'.own = win.own /\ win'.loaded = win.loaded
                         /\ win'.ready = win.ready
                         /\ DOMAIN win'.comps = DOMAIN win.comps
      PROVE  CommuteInv'
  <2>1. Began => Began'
    BY <1>1 DEF Began, Begun, Starting, Idle
  <2>2. (OwnCalls => OwnCalls') /\ (FetchesFirst => FetchesFirst')
    BY <1>1 DEF OwnCalls, FetchesFirst
  <2>3. ReadyAhead => ReadyAhead'
    BY <1>1 DEF ReadyAhead, Toggles, Odd
  <2>4. CommentsAhead => CommentsAhead'
    BY <1>1 DEF CommentsAhead, Deleted, Created
  <2>5. (DeletedOnce => DeletedOnce') /\ (CreatedOnce => CreatedOnce')
    BY <1>1 DEF DeletedOnce, CreatedOnce
  <2> QED BY <1>1, <2>1, <2>2, <2>3, <2>4, <2>5 DEF CommuteInv, Apart
<1>2. ASSUME CommuteInv, UNCHANGED vars PROVE CommuteInv'
  BY <1>1, <1>2 DEF vars, server, net, history
<1>3. ASSUME CommuteInv, Writes PROVE CommuteInv'
  BY <1>1, <1>3 DEF Writes, SameFields, SameComments
<1>4. ASSUME NEW c, Opens(c) PROVE CommuteInv'
  <2>1. CASE Apart'
    <3>1. Quiet
      BY <1>4, <2>1 DEF Apart, Opens
    <3>2. OnlyBegun'
      BY <1>4, <3>1 DEF OnlyBegun, Opens, FreshWindow
    <3> QED BY <3>2, CommuteWhenOpened
  <2>2. CASE ~Apart'
    BY <2>2 DEF CommuteInv
  <2> QED BY <2>1, <2>2
<1>5. ASSUME (\E a : Forgets(a)) \/ Interferes PROVE CommuteInv'
  BY <1>5 DEF Forgets, Interferes, CommuteInv, Apart
<1>6. ASSUME TypeInv, CommuteInv, Effect PROVE CommuteInv'
  BY <1>3, <1>4, <1>5, <1>6, CommuteAfterClick, CommuteAfterArrival, CommuteAfterExecution,
     CommuteAfterRefusal DEF Effect
<1> QED BY <1>2, <1>6, StepHasEffect

\* A user who has waited for the first two answers may click as fast as they
\* like: toggles of "ready" and comments created and deleted may overtake each
\* other, be refused or be answered in any order, and when nothing is under way
\* the label and the list of comments are those of the server.
THEOREM ClicksCommuteHolds == Spec => []ClicksCommute
<1>1. Init => CommuteInv
  <2> SUFFICES ASSUME Init PROVE CommuteInv
    OBVIOUS
  <2>1. OnlyBegun
    BY DEF OnlyBegun, Init, Beginning, FreshWindow
  <2> QED BY <2>1, CommuteAtFirst
<1>2. Init => TypeInv /\ CommuteInv
  BY <1>1, TypesAtFirst
<1>3. TypeInv /\ CommuteInv /\ [Next]_vars => (TypeInv /\ CommuteInv)'
  BY TypesStep, CommuteStep
<1> QED BY <1>2, <1>3, QuietCommuted, PTL DEF Spec
=============================================================================
