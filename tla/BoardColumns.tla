----------------------------- MODULE BoardColumns -----------------------------
(***************************************************************************)
(* The columns of a board under its settings page: ColumnsController and   *)
(* ColumnTransporter, statement by statement, with the requests that put   *)
(* cards into columns.  A request keeps the copy of the columns it loaded, *)
(* and no lock or transaction spans its statements.                        *)
(*                                                                         *)
(* issue_stats.column_id has no foreign key, lifetimes.column_id has one.  *)
(* Names, limits and the manual order of the cards are left out.           *)
(***************************************************************************)
EXTENDS Integers, SequencesExt

CONSTANTS
    Ids,        \* columns.id, never given out twice
    Initial,    \* the columns the board was created with, from left to right
    NoColumn,   \* a column_id that is nil
    Cards,      \* the issues of the board
    Procs,      \* Unicorn processes and Sidekiq threads
    MaxCrashes  \* bound: requests and jobs that die half way

ASSUME ColumnsAssumption ==
    /\ IsFiniteSet(Ids)
    /\ Initial \in Seq(Ids) /\ IsInjective(Initial) /\ Len(Initial) >= 2
    /\ NoColumn \notin Ids
    /\ MaxCrashes \in Nat

VARIABLES
    columns,   \* ids of the rows in columns
    rank,      \* columns.order; New before the row exists, Gone after it
    tracked,   \* cards with a row in issue_stats
    place,     \* issue_stats.column_id
    archived,  \* cards whose archived_at is set
    req,       \* what each process works on, and what it has read
    lone,      \* history: requests that no other request overlaps
    raced,     \* history: requests have overlapped, or one has died
    crashes    \* history: requests and jobs that died

colVars  == <<columns, rank>>
cardVars == <<tracked, place, archived>>
reqVars  == <<req, lone, raced, crashes>>
vars     == <<colVars, cardVars, reqVars>>

New  == 0
Gone == -1

Idle == [kind |-> "none", at |-> "idle", id |-> NoColumn, card |-> NoColumn,
         last |-> 0, todo |-> {}]

At(p, label)   == req[p].at = label
Goto(p, label) == req' = [req EXCEPT ![p].at = label]
Done(p)        == req' = [req EXCEPT ![p] = Idle]

\* The history of a step that neither starts a request nor kills one.
Working == /\ lone' = {p \in lone : req'[p] # Idle}
           /\ UNCHANGED <<raced, crashes>>

Arrive(p, r) ==
    LET rivals == {q \in Procs : req[q] # Idle} IN
    /\ req[p] = Idle
    /\ req' = [req EXCEPT ![p] = r]
    /\ lone' = IF rivals = {} THEN {p} ELSE {}
    /\ raced' = (raced \/ rivals # {})
    /\ UNCHANGED <<colVars, cardVars, crashes>>

-----------------------------------------------------------------------------
(* The order of the columns.  Neither SQL nor sort_by says which of two     *)
(* columns with the same order comes first.                                 *)

Sortings(S, key) ==
    {s \in SetToSeqs(S) : \A i, j \in 1..Len(s) : i < j => key[s[i]] <= key[s[j]]}

FirstColumns == IF columns = {} THEN {NoColumn}
                ELSE {Head(s) : s \in Sortings(columns, rank)}
LastColumns  == IF columns = {} THEN {}
                ELSE {Last(s) : s \in Sortings(columns, rank)}

-----------------------------------------------------------------------------
(* ColumnsController#create                                                 *)

LastRank == CHOOSE r \in {rank[c] : c \in columns} :
                \A c \in columns : rank[c] <= r

\* The board is loaded with its columns; without any, nil.order raises.
ArriveAdd(p) ==
    /\ columns # {}
    /\ Arrive(p, [Idle EXCEPT !.kind = "add", !.at = "insert", !.last = LastRank])

NextRank(r) == r.last + 1

InsertColumn(p) ==
    /\ At(p, "insert")
    /\ \E c \in Ids :
           /\ rank[c] = New
           /\ columns' = columns \cup {c}
           /\ rank' = [rank EXCEPT ![c] = NextRank(req[p])]
    /\ Done(p)
    /\ Working
    /\ UNCHANGED cardVars

-----------------------------------------------------------------------------
(* ColumnsController#destroy                                                *)

ArriveRemove(p, c) ==
    /\ c \in columns
    /\ Arrive(p, [Idle EXCEPT !.kind = "remove", !.at = "blank", !.id = c])

\* @column.issue_stats.blank? loads the cards, the archived ones as well.
VisibleIn(c) == {n \in tracked \ archived : place[n] = c}         \* mutant
CardsIn(c)   == {n \in tracked : place[n] = c}
Taken        == {place[n] : n \in tracked} \ {NoColumn}

Blank(p) ==
    /\ At(p, "blank")
    /\ IF CardsIn(req[p].id) = {} THEN Goto(p, "delete") ELSE Done(p)
    /\ Working
    /\ UNCHANGED <<colVars, cardVars>>

\* dependent: :destroy goes over the cards that were loaded: none.  Cards that
\* were moved in since then keep the id of the column.
CardsReloaded(c) == tracked \ CardsIn(c)                          \* mutant
CardsLeft(c)     == tracked

DeleteColumn(p) ==
    LET c == req[p].id IN
    /\ At(p, "delete")
    /\ columns' = columns \ {c}
    /\ rank' = [rank EXCEPT ![c] = Gone]
    /\ tracked' = CardsLeft(c)
    /\ Done(p)
    /\ Working
    /\ UNCHANGED <<place, archived>>

-----------------------------------------------------------------------------
(* ColumnsController#move_left, #move_right: ColumnTransporter.             *)

Transports == {"left", "right"}

ArriveTransport(p, kind, c) ==
    /\ c \in columns
    /\ Arrive(p, [Idle EXCEPT !.kind = kind, !.at = "can_move", !.id = c])

CanMove(p) ==
    /\ At(p, "can_move")
    /\ IF \A n \in CardsIn(req[p].id) : n \in archived THEN Goto(p, "load")
                                                       ELSE Done(p)
    /\ Working
    /\ UNCHANGED <<colVars, cardVars>>

TooFar(kind)    == IF kind = "left" THEN -21 ELSE 21              \* mutant
TooNear(kind)   == IF kind = "left" THEN -9 ELSE 9                \* mutant
OrderDiff(kind) == IF kind = "left" THEN -11 ELSE 11

Key(r) == [c \in columns |-> 10 * rank[c] + (IF c = r.id THEN OrderDiff(r.kind)
                                                         ELSE 0)]

\* The columns in their new order become the work to do: the orders that
\* change, one update each, from left to right.
Numbered(s)      == {[id |-> s[i], rank |-> i] : i \in 1..Len(s)}
AllButLast(s)    == Numbered(Front(s))                            \* mutant
NumberedFrom0(s) == {[id |-> s[i], rank |-> i - 1] : i \in 1..Len(s)} \* mutant
Renumbered(s)    == Numbered(s)

Load(p) ==
    LET r == req[p] IN
    /\ At(p, "load")
    /\ \E s \in Sortings(columns, Key(r)) :
           LET todo == {w \in Renumbered(s) : rank[w.id] # w.rank}
           IN req' = IF todo = {} THEN [req EXCEPT ![p] = Idle]
                     ELSE [req EXCEPT ![p].at = "write", ![p].todo = todo]
    /\ Working
    /\ UNCHANGED <<colVars, cardVars>>

\* Updating a column that is gone changes no row.
WriteOrder(p) ==
    \E w \in req[p].todo :
        /\ At(p, "write")
        /\ \A v \in req[p].todo : w.rank <= v.rank
        /\ rank' = IF w.id \in columns THEN [rank EXCEPT ![w.id] = w.rank] ELSE rank
        /\ IF req[p].todo = {w} THEN Done(p)
           ELSE req' = [req EXCEPT ![p].todo = @ \ {w}]
        /\ Working
        /\ UNCHANGED <<columns, cardVars>>

-----------------------------------------------------------------------------
(* Requests that put cards into columns.                                    *)

\* IssueStatService.create: a board read, or a new issue.  The default column
\* is the first of the columns loaded with the board.
ArriveCard(p, n) ==
    /\ n \notin tracked
    /\ \E c \in FirstColumns :
           Arrive(p, [Idle EXCEPT !.kind = "card", !.at = "row", !.id = c,
                                  !.card = n])

InsertCard(p) ==
    LET r == req[p] IN
    /\ At(p, "row")
    /\ IF r.card \in tracked THEN UNCHANGED <<tracked, place>>
       ELSE /\ tracked' = tracked \cup {r.card}
            /\ place' = [place EXCEPT ![r.card] = r.id]
    /\ Done(p)
    /\ Working
    /\ UNCHANGED <<colVars, archived>>

\* IssueStats::Mover.  The column is found when the request arrives.
ArriveMove(p, n, c) ==
    /\ n \in tracked
    /\ c \in columns \ {place[n]}
    /\ Arrive(p, [Idle EXCEPT !.kind = "move", !.at = "start", !.id = c,
                              !.card = n])

\* Lifetimes::Starter: the foreign key refuses a column that is gone.
Start(p) ==
    /\ At(p, "start")
    /\ IF req[p].id \in columns THEN Goto(p, "place") ELSE Done(p)
    /\ Working
    /\ UNCHANGED <<colVars, cardVars>>

Place(p) ==
    /\ At(p, "place")
    /\ place' = [place EXCEPT ![req[p].card] = req[p].id]
    /\ Done(p)
    /\ Working
    /\ UNCHANGED <<colVars, tracked, archived>>

\* IssueStats::Archiver and Unarchiver.
Shelve(n) ==
    /\ n \in tracked
    /\ archived' = IF n \in archived THEN archived \ {n} ELSE archived \cup {n}
    /\ UNCHANGED <<colVars, tracked, place, reqVars>>

\* Boards::Synchronizer reads the last column, then updates every archived
\* card with it.
ArriveSweep(p) ==
    \E c \in LastColumns :
        Arrive(p, [Idle EXCEPT !.kind = "sweep", !.at = "sweep", !.id = c])

Sweep(p) ==
    /\ At(p, "sweep")
    /\ place' = [n \in Cards |-> IF n \in tracked \cap archived THEN req[p].id
                                                               ELSE place[n]]
    /\ Done(p)
    /\ Working
    /\ UNCHANGED <<colVars, tracked, archived>>

-----------------------------------------------------------------------------
Crash(p) ==
    /\ req[p] # Idle
    /\ crashes < MaxCrashes
    /\ crashes' = crashes + 1
    /\ Done(p)
    /\ lone' = lone \ {p}
    /\ raced' = TRUE
    /\ UNCHANGED <<colVars, cardVars>>

\* BoardsController#create numbers the columns from 1.
Init ==
    /\ columns = ToSet(Initial)
    /\ rank = [c \in Ids |-> IF c \in columns
                             THEN CHOOSE i \in 1..Len(Initial) : Initial[i] = c
                             ELSE New]
    /\ tracked = {}
    /\ place = [n \in Cards |-> NoColumn]
    /\ archived = {}
    /\ req = [p \in Procs |-> Idle]
    /\ lone = {}
    /\ raced = FALSE
    /\ crashes = 0

Begin(p) ==
    \/ ArriveAdd(p)
    \/ \E c \in Ids : ArriveRemove(p, c)
    \/ \E c \in Ids, kind \in Transports : ArriveTransport(p, kind, c)
    \/ \E n \in Cards : ArriveCard(p, n)
    \/ \E n \in Cards, c \in Ids : ArriveMove(p, n, c)
    \/ ArriveSweep(p)

Continue(p) ==
    \/ InsertColumn(p)  \/ Blank(p)       \/ DeleteColumn(p)
    \/ CanMove(p)       \/ Load(p)        \/ WriteOrder(p)
    \/ InsertCard(p)    \/ Start(p)       \/ Place(p)       \/ Sweep(p)

Next ==
    \/ \E p \in Procs : Begin(p) \/ Continue(p) \/ Crash(p)
    \/ \E n \in Cards : Shelve(n)

Spec == Init /\ [][Next]_vars

-----------------------------------------------------------------------------
(* The list the orders stand for, with the updates under way applied.       *)

Settled ==
    LET writes == UNION {req[p].todo : p \in Procs}
    IN [c \in Ids |-> IF \E w \in writes : w.id = c
                      THEN (CHOOSE w \in writes : w.id = c).rank
                      ELSE rank[c]]
List == CHOOSE s \in Sortings(columns, Settled) : TRUE

Position(s, c) == CHOOSE i \in 1..Len(s) : s[i] = c

Swapped(s, c, kind) ==
    LET i == Position(s, c)
        j == IF kind = "left" THEN i - 1 ELSE i + 1
    IN IF j \in 1..Len(s) THEN [s EXCEPT ![i] = s[j], ![j] = c] ELSE s

-----------------------------------------------------------------------------
ColumnsTypeOK ==
    /\ columns \subseteq Ids
    /\ rank \in [Ids -> Nat \cup {Gone}]
    /\ columns = {c \in Ids : rank[c] > 0}
    /\ tracked \subseteq Cards
    /\ place \in [Cards -> Ids \cup {NoColumn}]
    /\ archived \subseteq tracked
    /\ lone \subseteq {p \in Procs : req[p] # Idle}
    /\ raced \in BOOLEAN
    /\ crashes \in 0..MaxCrashes
    /\ \A p \in Procs :
           /\ req[p].id \in Ids \cup {NoColumn}
           /\ req[p].card \in Cards \cup {NoColumn}
           /\ req[p].last \in Nat
           /\ req[p].todo \subseteq [id : Ids, rank : Nat \ {0}]

\* However a removal overlaps with moves into the column, it deletes no card:
\* the dependent: :destroy of the column's cards never has anything to do.
RemovalKeepsCards == [][tracked \subseteq tracked']_vars

\* A column moved while no other request runs leaves the columns numbered
\* from 1 without gaps and without two of the same order, and the other
\* columns keep their order among themselves: a single move repairs what
\* removals, racing requests and interrupted moves have done to the orders.
LoneTransportRenumbers ==
    [][\A p \in lone :
           req[p].kind \in Transports /\ ~At(p, "can_move") /\ crashes' = crashes
           => /\ req'[p] = Idle =>
                     {rank'[c] : c \in columns} = 1..Cardinality(columns)
              /\ \A c, d \in columns \ {req[p].id} :
                     rank[c] < rank[d] /\ At(p, "load")
                         => Settled'[c] < Settled'[d]]_vars

\* app/views/columns/_columns_settings.html.slim: "only empty column can be
\* moved and removed".  No card is left in a column that was removed.  (A
\* board whose last column was removed gives its new cards no column.)
CardsStandInColumns == Taken \subseteq columns

\* The same as long as requests come one after the other.
SerialCardsStandInColumns == ~raced => CardsStandInColumns

\* While the orders are 1, 2, 3, ... a column moved while no other request
\* runs moves past its neighbour, and the first and the last stay where they
\* are, also on orders that races and deaths have left behind.
DenseTransportSwaps ==
    [][\A p \in lone :
           At(p, "load") /\ {rank[c] : c \in columns} = 1..Cardinality(columns)
               /\ crashes' = crashes /\ req'[p] # req[p]
           => List' = Swapped(List, req[p].id, req[p].kind)]_vars

Columns == INSTANCE ColumnList WITH list <- List, taken <- Taken

\* Until requests overlap or die, the orders stand for the list ColumnList:
\* it changes by one column at the end, one empty column less, or two
\* neighbours swapped.
SerialImplementsColumnList ==
    /\ Columns!ListInit
    /\ [][~raced' => Columns!ListNext \/ UNCHANGED Columns!listVars]_vars
=============================================================================
