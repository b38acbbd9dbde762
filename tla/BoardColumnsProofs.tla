-------------------------- MODULE BoardColumnsProofs --------------------------
(***************************************************************************)
(* Theorems about BoardColumns, for any columns, cards and processes.      *)
(***************************************************************************)
EXTENDS BoardColumns, OrderLemmas

Labels == {"idle", "insert", "blank", "delete", "can_move", "load", "write",
           "row", "start", "place", "sweep"}

Kinds == {"none", "add", "remove", "card", "move", "sweep"} \cup Transports

Writes == [id : Ids, rank : Nat \ {0}]

Requests == [kind : Kinds, at : Labels, id : Ids \cup {NoColumn},
             card : Cards \cup {NoColumn}, last : Nat, todo : SUBSET Writes]

\* What a request is, tells what it can be at.
LabelTells(r) ==
    /\ r.at = "idle" => r = Idle
    /\ r.kind \in Transports <=> r.at \in {"can_move", "load", "write"}
    /\ r.at = "write" <=> r.todo # {}
    /\ r.at \in {"blank", "delete"} => r.id \in Ids
    /\ r.at \in {"row", "start", "place"} => r.card \in Cards

TypeInv ==
    /\ ColumnsTypeOK
    /\ req \in [Procs -> Requests]
    /\ \A p \in Procs : LabelTells(req[p])

\* Requests that come one after the other: one at a time, the column that is
\* about to be deleted has no cards, and whoever is about to put cards into a
\* column found it there.
SerialInv ==
    /\ \A p, q \in Procs : req[p] # Idle /\ req[q] # Idle => p = q
    /\ Taken \subseteq columns
    /\ \A p \in Procs :
           /\ At(p, "delete") => CardsIn(req[p].id) = {}
           /\ At(p, "row") => req[p].id \in columns \cup {NoColumn}
           /\ req[p].at \in {"place", "sweep"} => req[p].id \in columns

\* The updates a transport has left take the columns from their orders to the
\* places they have in s.
LeadsTo(r, s) ==
    /\ s \in SetToSeqs(columns)
    /\ r.todo \subseteq Numbered(s)
    /\ \A i \in 1..Len(s) :
           rank[s[i]] = i \/ [id |-> s[i], rank |-> i] \in r.todo

\* A request that no other one overlaps is the only one, its column is there,
\* and what it writes still fits the columns.
LoneInv ==
    \A p \in lone :
        /\ req[p] # Idle
        /\ \A q \in Procs \ {p} : req[q] = Idle
        /\ req[p].at \in {"blank", "delete", "can_move", "load"}
               => req[p].id \in columns
        /\ At(p, "write") => \E s \in SetToSeqs(columns) : LeadsTo(req[p], s)

\* The columns from left to right, no two of the same order.
InOrder(s) ==
    /\ s \in SetToSeqs(columns)
    /\ \A i, j \in 1..Len(s) : i < j => rank[s[i]] < rank[s[j]]

\* Requests that come one after the other overlap no other one; a new column
\* comes after those there are, and between two transports no two columns have
\* the same order.
ListInv ==
    /\ \A p \in Procs : req[p] # Idle => p \in lone
    /\ \A p \in Procs : At(p, "insert") => \A c \in columns : rank[c] <= req[p].last
    /\ (\A p \in Procs : ~At(p, "write")) => \E s \in SetToSeqs(columns) : InOrder(s)

ColumnsInv ==
    /\ TypeInv
    /\ ~raced => SerialInv
    /\ LoneInv

-----------------------------------------------------------------------------
(***************************************************************************)
(* Columns and lists of columns.                                           *)
(***************************************************************************)

\* A board has finitely many columns.
LEMMA FinitelyManyColumns ==
    ASSUME ColumnsTypeOK
    PROVE  /\ IsFiniteSet(columns)
           /\ Cardinality(columns) \in Nat
           /\ columns # {} => Cardinality(columns) > 0
<1>1. IsFiniteSet(columns)
  BY ColumnsAssumption, FS_Subset DEF ColumnsAssumption, ColumnsTypeOK
<1>2. Cardinality(columns) \in Nat
  BY <1>1, FS_CardinalityType
<1>3. Cardinality(columns) = 0 <=> columns = {}
  BY <1>1, FS_EmptySet
<1> QED BY <1>1, <1>2, <1>3

\* columns.last of a board with columns has an order.
LEMMA LastRankIsGreatest ==
    ASSUME ColumnsTypeOK, columns # {}
    PROVE  /\ LastRank \in Nat \ {0}
           /\ \E c \in columns : LastRank = rank[c]
           /\ \A c \in columns : rank[c] <= LastRank
<1> DEFINE R == {rank[c] : c \in columns}
<1>1. /\ columns \subseteq Ids
      /\ \A c \in columns : rank[c] \in Nat \ {0}
  BY DEF ColumnsTypeOK, Gone
<1>2. R \in SUBSET Nat /\ R # {}
  BY <1>1
<1>3. IsFiniteSet(R)
  <2> DEFINE f == [c \in columns |-> rank[c]]
  <2>1. f \in Surjection(columns, R)
    BY DEF Surjection
  <2> HIDE DEF f, R
  <2> QED BY <2>1, FinitelyManyColumns, FS_Surjection
<1>4. PICK m \in R : \A n \in R : n <= m
  <2> HIDE DEF R
  <2> QED BY <1>2, <1>3, GreatestOfFinite
<1>5. \A c \in columns : rank[c] <= m
  BY <1>4
<1>6. LastRank \in R /\ \A c \in columns : rank[c] <= LastRank
  BY <1>4, <1>5 DEF LastRank
<1> QED BY <1>1, <1>6

\* The columns from left to right are a list of the columns.
LEMMA SortedColumns ==
    ASSUME ColumnsTypeOK, NEW key, NEW s \in Sortings(columns, key)
    PROVE  /\ s \in SetToSeqs(columns)
           /\ s \in Seq(columns)
           /\ Len(s) = Cardinality(columns) /\ Len(s) \in Nat
           /\ \A i \in 1..Len(s) : s[i] \in columns
           /\ \A i, j \in 1..Len(s) : s[i] = s[j] => i = j
           /\ \A c \in columns : \E i \in 1..Len(s) : s[i] = c
           /\ \A i, j \in 1..Len(s) : i < j => key[s[i]] <= key[s[j]]
<1>1. /\ s \in SetToSeqs(columns)
      /\ \A i, j \in 1..Len(s) : i < j => key[s[i]] <= key[s[j]]
  BY DEF Sortings
<1> QED BY <1>1, FinitelyManyColumns, ListOfMembers

\* The first and the last column are columns.
LEMMA EndColumns ==
    ASSUME ColumnsTypeOK
    PROVE  /\ FirstColumns \subseteq columns \cup {NoColumn}
           /\ LastColumns \subseteq columns
<1>1. ASSUME columns # {}, NEW s \in Sortings(columns, rank)
      PROVE  Head(s) \in columns /\ Last(s) \in columns
  <2>1. Len(s) >= 1
    BY <1>1, SortedColumns, FinitelyManyColumns
  <2>2. s[1] \in columns /\ s[Len(s)] \in columns
    BY <2>1, SortedColumns
  <2>3. Head(s) = s[1]
    BY <2>1, SortedColumns, HeadTailProperties, EmptySeq
  <2> QED BY <2>2, <2>3 DEF Last
<1> QED BY <1>1 DEF FirstColumns, LastColumns

\* The numbers a transport gives are the places of a list.
LEMMA NumberedPlaces ==
    ASSUME ColumnsTypeOK, NEW s \in SetToSeqs(columns)
    PROVE  Numbered(s) \subseteq Writes
<1>1. Len(s) \in Nat /\ \A i \in 1..Len(s) : s[i] \in Ids
  BY FinitelyManyColumns, ListOfMembers DEF ColumnsTypeOK
<1> QED BY <1>1 DEF Numbered, Writes

-----------------------------------------------------------------------------
(***************************************************************************)
(* Types.                                                                  *)
(***************************************************************************)

\* An idle process has no request.
LEMMA IdleIsRequest == Idle \in Requests /\ LabelTells(Idle)
BY DEF Idle, Requests, Kinds, Transports, Labels, LabelTells

\* The board is created with its columns, numbered from 1.
LEMMA TypeInit == Init => TypeInv
<1> SUFFICES ASSUME Init PROVE TypeInv
  OBVIOUS
<1>1. columns = {Initial[i] : i \in 1..Len(Initial)}
  BY ColumnsAssumption DEF Init, ToSet, ColumnsAssumption
<1>2. columns \subseteq Ids
  BY <1>1, ColumnsAssumption DEF ColumnsAssumption
<1>3. \A c \in columns : /\ rank[c] \in 1..Len(Initial)
                         /\ Initial[rank[c]] = c
  BY <1>1, <1>2 DEF Init
<1>4. \A c \in Ids \ columns : rank[c] = 0
  BY DEF Init, New
<1>5. rank \in [Ids -> Nat \cup {Gone}]
  <2>1. DOMAIN rank = Ids /\ rank = [c \in Ids |-> rank[c]]
    BY DEF Init
  <2>2. \A c \in Ids : rank[c] \in Nat
    BY <1>3, <1>4, ColumnsAssumption DEF ColumnsAssumption
  <2> QED BY <2>1, <2>2
<1>6. columns = {c \in Ids : rank[c] > 0}
  BY <1>2, <1>3, <1>4, ColumnsAssumption DEF ColumnsAssumption
<1>7. /\ tracked \subseteq Cards /\ archived \subseteq tracked
      /\ place \in [Cards -> Ids \cup {NoColumn}]
      /\ lone \subseteq {p \in Procs : req[p] # Idle}
      /\ raced \in BOOLEAN
  BY DEF Init
<1>0. crashes \in 0..MaxCrashes
  BY ColumnsAssumption DEF Init, ColumnsAssumption
<1>8. req \in [Procs -> Requests] /\ \A p \in Procs : LabelTells(req[p])
  BY IdleIsRequest DEF Init
<1>9. \A p \in Procs : /\ req[p].id \in Ids \cup {NoColumn}
                       /\ req[p].card \in Cards \cup {NoColumn}
                       /\ req[p].last \in Nat
                       /\ req[p].todo \subseteq Writes
  BY <1>8 DEF Requests
<1> QED BY <1>0, <1>2, <1>5, <1>6, <1>7, <1>8, <1>9 DEF TypeInv, ColumnsTypeOK, Writes

\* A step that changes one request, and keeps the types of the rest.
LEMMA TypeOfOneRequest ==
    ASSUME TypeInv, NEW p \in Procs, NEW r \in Requests, LabelTells(r),
           req' = [req EXCEPT ![p] = r]
    PROVE  /\ req' \in [Procs -> Requests]
           /\ \A q \in Procs : LabelTells(req'[q])
           /\ \A q \in Procs : /\ req'[q].id \in Ids \cup {NoColumn}
                                /\ req'[q].card \in Cards \cup {NoColumn}
                                /\ req'[q].last \in Nat
                                /\ req'[q].todo \subseteq Writes
<1>1. /\ req' \in [Procs -> Requests]
      /\ \A q \in Procs : LabelTells(req'[q])
  BY DEF TypeInv
<1> QED BY <1>1 DEF Requests

\* A request that arrives is not idle, and only the requests change.
LEMMA TypeArrive ==
    ASSUME TypeInv, NEW p \in Procs, NEW r \in Requests, LabelTells(r),
           r.at # "idle", Arrive(p, r)
    PROVE  TypeInv'
<1>1. req' = [req EXCEPT ![p] = r] /\ req'[p] = r /\ r # Idle
  BY DEF Arrive, TypeInv, Idle
<1>2. lone' \subseteq {q \in Procs : req'[q] # Idle}
  BY <1>1 DEF Arrive
<1>3. raced' \in BOOLEAN
  BY DEF Arrive, TypeInv, ColumnsTypeOK
<1>4. UNCHANGED <<columns, rank, tracked, place, archived, crashes>>
  BY DEF Arrive, colVars, cardVars
<1> QED
  BY <1>1, <1>2, <1>3, <1>4, TypeOfOneRequest DEF TypeInv, ColumnsTypeOK, Writes

\* A request that works on: of the history only lone changes.
LEMMA TypeWorking ==
    ASSUME TypeInv, NEW p \in Procs, NEW r \in Requests, LabelTells(r),
           req' = [req EXCEPT ![p] = r], Working,
           /\ columns' \subseteq Ids
           /\ rank' \in [Ids -> Nat \cup {Gone}]
           /\ columns' = {c \in Ids : rank'[c] > 0},
           /\ tracked' \subseteq Cards
           /\ place' \in [Cards -> Ids \cup {NoColumn}]
           /\ archived' \subseteq tracked'
    PROVE  TypeInv'
<1>1. lone' \subseteq {q \in Procs : req'[q] # Idle}
  BY DEF Working, TypeInv, ColumnsTypeOK
<1>2. UNCHANGED <<raced, crashes>>
  BY DEF Working
<1> QED
  BY <1>1, <1>2, TypeOfOneRequest DEF TypeInv, ColumnsTypeOK, Writes

\* Every request arrives well typed.
LEMMA TypeBegin ==
    ASSUME TypeInv, NEW p \in Procs, Begin(p)
    PROVE  TypeInv'
<1>0. ColumnsTypeOK /\ columns \subseteq Ids /\ tracked \subseteq Cards
  BY DEF TypeInv, ColumnsTypeOK
<1> USE DEF Requests, Kinds, Transports, Labels, LabelTells, Idle
<1>1. CASE ArriveAdd(p)
  <2> DEFINE r == [Idle EXCEPT !.kind = "add", !.at = "insert",
                               !.last = LastRank]
  <2>1. r \in Requests /\ LabelTells(r) /\ r.at # "idle"
    BY <1>0, <1>1, LastRankIsGreatest DEF ArriveAdd
  <2> QED BY <1>1, <2>1, TypeArrive DEF ArriveAdd
<1>2. ASSUME NEW c \in Ids, ArriveRemove(p, c) PROVE TypeInv'
  <2> DEFINE r == [Idle EXCEPT !.kind = "remove", !.at = "blank", !.id = c]
  <2>1. r \in Requests /\ LabelTells(r) /\ r.at # "idle"
    OBVIOUS
  <2> QED BY <1>2, <2>1, TypeArrive DEF ArriveRemove
<1>3. ASSUME NEW c \in Ids, NEW kind \in Transports, ArriveTransport(p, kind, c)
      PROVE  TypeInv'
  <2> DEFINE r == [Idle EXCEPT !.kind = kind, !.at = "can_move", !.id = c]
  <2>1. r \in Requests /\ LabelTells(r) /\ r.at # "idle"
    OBVIOUS
  <2> QED BY <1>3, <2>1, TypeArrive DEF ArriveTransport
<1>4. ASSUME NEW n \in Cards, ArriveCard(p, n) PROVE TypeInv'
  <2>1. PICK c \in FirstColumns :
            Arrive(p, [Idle EXCEPT !.kind = "card", !.at = "row", !.id = c,
                                   !.card = n])
    BY <1>4 DEF ArriveCard
  <2> DEFINE r == [Idle EXCEPT !.kind = "card", !.at = "row", !.id = c,
                               !.card = n]
  <2>2. c \in Ids \cup {NoColumn}
    BY <1>0, EndColumns
  <2>3. r \in Requests /\ LabelTells(r) /\ r.at # "idle"
    BY <2>2
  <2> QED BY <2>1, <2>3, TypeArrive
<1>5. ASSUME NEW n \in Cards, NEW c \in Ids, ArriveMove(p, n, c) PROVE TypeInv'
  <2> DEFINE r == [Idle EXCEPT !.kind = "move", !.at = "start", !.id = c,
                               !.card = n]
  <2>1. r \in Requests /\ LabelTells(r) /\ r.at # "idle"
    OBVIOUS
  <2> QED BY <1>5, <2>1, TypeArrive DEF ArriveMove
<1>6. CASE ArriveSweep(p)
  <2>1. PICK c \in LastColumns :
            Arrive(p, [Idle EXCEPT !.kind = "sweep", !.at = "sweep", !.id = c])
    BY <1>6 DEF ArriveSweep
  <2> DEFINE r == [Idle EXCEPT !.kind = "sweep", !.at = "sweep", !.id = c]
  <2>2. c \in Ids
    BY <1>0, EndColumns
  <2>3. r \in Requests /\ LabelTells(r) /\ r.at # "idle"
    BY <2>2
  <2> QED BY <2>1, <2>3, TypeArrive
<1> QED BY <1>1, <1>2, <1>3, <1>4, <1>5, <1>6 DEF Begin

\* Every statement of a request keeps the types.
LEMMA TypeContinue ==
    ASSUME TypeInv, NEW p \in Procs, Continue(p)
    PROVE  TypeInv'
<1>0. /\ columns \subseteq Ids
      /\ rank \in [Ids -> Nat \cup {Gone}]
      /\ columns = {c \in Ids : rank[c] > 0}
      /\ tracked \subseteq Cards
      /\ place \in [Cards -> Ids \cup {NoColumn}]
      /\ archived \subseteq tracked
      /\ req \in [Procs -> Requests]
      /\ req[p] \in Requests /\ LabelTells(req[p])
      /\ ColumnsTypeOK
  BY DEF TypeInv, ColumnsTypeOK
\* Requests that only go on to another label, or finish.
<1>1. ASSUME NEW r \in Requests, LabelTells(r), req' = [req EXCEPT ![p] = r],
             Working, UNCHANGED <<colVars, cardVars>>
      PROVE  TypeInv'
  BY <1>0, <1>1, TypeWorking DEF colVars, cardVars
<1>2. ASSUME Done(p), Working, UNCHANGED <<colVars, cardVars>>
      PROVE  TypeInv'
  BY <1>1, <1>2, IdleIsRequest DEF Done
<1>3. CASE InsertColumn(p)
  <2>1. PICK c \in Ids : /\ rank[c] = New
                         /\ columns' = columns \cup {c}
                         /\ rank' = [rank EXCEPT ![c] = NextRank(req[p])]
    BY <1>3 DEF InsertColumn
  <2>2. NextRank(req[p]) \in Nat /\ NextRank(req[p]) > 0
    BY <1>0 DEF NextRank, Requests
  <2>3. /\ columns' \subseteq Ids
        /\ rank' \in [Ids -> Nat \cup {Gone}]
        /\ columns' = {d \in Ids : rank'[d] > 0}
    BY <1>0, <2>1, <2>2 DEF Gone
  <2> QED BY <1>0, <1>3, <2>3, IdleIsRequest, TypeWorking
          DEF InsertColumn, Done, cardVars
<1>4. CASE Blank(p)
  <2>1. CASE Done(p)
    BY <1>2, <1>4, <2>1 DEF Blank
  <2>2. CASE Goto(p, "delete")
    <3> DEFINE r == [req[p] EXCEPT !.at = "delete"]
    <3>1. req' = [req EXCEPT ![p] = r]
      BY <2>2 DEF Goto
    <3>2. r \in Requests /\ LabelTells(r)
      BY <1>0, <1>4 DEF Blank, At, Requests, LabelTells, Labels
    <3> QED BY <1>1, <1>4, <3>1, <3>2 DEF Blank
  <2> QED BY <1>4, <2>1, <2>2 DEF Blank
<1>5. CASE DeleteColumn(p)
  <2> DEFINE c == req[p].id
  <2>1. c \in Ids
    BY <1>0, <1>5 DEF DeleteColumn, At, LabelTells
  <2>2. /\ columns' \subseteq Ids
        /\ rank' \in [Ids -> Nat \cup {Gone}]
        /\ columns' = {d \in Ids : rank'[d] > 0}
    <3>1. columns' = columns \ {c} /\ rank' = [rank EXCEPT ![c] = Gone]
      BY <1>5 DEF DeleteColumn
    <3> HIDE DEF c
    <3> QED BY <1>0, <2>1, <3>1 DEF Gone
  <2> QED BY <1>0, <1>5, <2>2, IdleIsRequest, TypeWorking
          DEF DeleteColumn, Done, CardsLeft
<1>6. CASE CanMove(p)
  <2>1. CASE Done(p)
    BY <1>2, <1>6, <2>1 DEF CanMove
  <2>2. CASE Goto(p, "load")
    <3> DEFINE r == [req[p] EXCEPT !.at = "load"]
    <3>1. req' = [req EXCEPT ![p] = r]
      BY <2>2 DEF Goto
    <3>2. r \in Requests /\ LabelTells(r)
      BY <1>0, <1>6 DEF CanMove, At, Requests, LabelTells, Labels
    <3> QED BY <1>1, <1>6, <3>1, <3>2 DEF CanMove
  <2> QED BY <1>6, <2>1, <2>2 DEF CanMove
<1>7. CASE Load(p)
  <2>1. CASE Done(p)
    BY <1>2, <1>7, <2>1 DEF Load
  <2>2. CASE ~Done(p)
    <3>1. PICK s \in Sortings(columns, Key(req[p])) :
              LET todo == {w \in Renumbered(s) : rank[w.id] # w.rank}
              IN /\ todo # {}
                 /\ req' = [req EXCEPT ![p].at = "write", ![p].todo = todo]
      BY <1>7, <2>2 DEF Load, Done
    <3> DEFINE todo == {w \in Renumbered(s) : rank[w.id] # w.rank}
               r == [req[p] EXCEPT !.at = "write", !.todo = todo]
    <3>2. todo \in SUBSET Writes /\ todo # {}
      BY <1>0, <3>1, SortedColumns, NumberedPlaces DEF Renumbered
    <3>3. req' = [req EXCEPT ![p] = r]
      BY <3>1
    <3>4. r \in Requests /\ LabelTells(r)
      <4>1. At(p, "load")
        BY <1>7 DEF Load
      <4> HIDE DEF todo
      <4> QED BY <1>0, <3>2, <4>1 DEF At, Requests, LabelTells, Labels
    <3> QED BY <1>1, <1>7, <3>3, <3>4 DEF Load
  <2> QED BY <2>1, <2>2
<1>8. CASE WriteOrder(p)
  <2>1. PICK w \in req[p].todo :
            /\ At(p, "write")
            /\ rank' = IF w.id \in columns THEN [rank EXCEPT ![w.id] = w.rank]
                       ELSE rank
            /\ IF req[p].todo = {w} THEN Done(p)
               ELSE req' = [req EXCEPT ![p].todo = @ \ {w}]
            /\ Working
            /\ UNCHANGED <<columns, cardVars>>
    BY <1>8 DEF WriteOrder
  <2>2. w.id \in Ids /\ w.rank \in Nat \ {0}
    BY <1>0 DEF Requests, Writes
  <2>3. /\ columns' \subseteq Ids
        /\ rank' \in [Ids -> Nat \cup {Gone}]
        /\ columns' = {d \in Ids : rank'[d] > 0}
    BY <1>0, <2>1, <2>2
  <2>4. CASE Done(p)
    BY <1>0, <2>1, <2>3, <2>4, IdleIsRequest, TypeWorking DEF Done, cardVars
  <2>5. CASE req[p].todo # {w}
    <3> DEFINE r == [req[p] EXCEPT !.todo = @ \ {w}]
    <3>1. req' = [req EXCEPT ![p] = r]
      BY <2>1, <2>5
    <3>2. r \in Requests /\ LabelTells(r)
      BY <1>0, <2>1, <2>5 DEF At, Requests, LabelTells, Labels
    <3> HIDE DEF r
    <3> QED BY <1>0, <2>1, <2>3, <3>1, <3>2, TypeWorking DEF cardVars
  <2> QED BY <2>1, <2>4, <2>5
<1>9. CASE InsertCard(p)
  <2>1. req[p].card \in Cards /\ req[p].id \in Ids \cup {NoColumn}
    BY <1>0, <1>9 DEF InsertCard, At, LabelTells, Requests
  <2>2. /\ tracked' \subseteq Cards
        /\ place' \in [Cards -> Ids \cup {NoColumn}]
        /\ archived' \subseteq tracked'
    BY <1>0, <1>9, <2>1 DEF InsertCard
  <2> QED BY <1>0, <1>9, <2>2, IdleIsRequest, TypeWorking
          DEF InsertCard, Done, colVars
<1>10. CASE Start(p)
  <2>1. CASE Done(p)
    BY <1>2, <1>10, <2>1 DEF Start
  <2>2. CASE Goto(p, "place")
    <3> DEFINE r == [req[p] EXCEPT !.at = "place"]
    <3>1. req' = [req EXCEPT ![p] = r]
      BY <2>2 DEF Goto
    <3>2. r \in Requests /\ LabelTells(r)
      BY <1>0, <1>10 DEF Start, At, Requests, LabelTells, Labels
    <3> QED BY <1>1, <1>10, <3>1, <3>2 DEF Start
  <2> QED BY <1>10, <2>1, <2>2 DEF Start
<1>11. CASE Place(p)
  <2>1. req[p].card \in Cards /\ req[p].id \in Ids \cup {NoColumn}
    BY <1>0, <1>11 DEF Place, At, LabelTells, Requests
  <2>2. place' \in [Cards -> Ids \cup {NoColumn}]
    BY <1>0, <1>11, <2>1 DEF Place
  <2> QED BY <1>0, <1>11, <2>2, IdleIsRequest, TypeWorking
          DEF Place, Done, colVars
<1>12. CASE Sweep(p)
  <2>1. req[p].id \in Ids \cup {NoColumn}
    BY <1>0 DEF Requests
  <2>2. place' \in [Cards -> Ids \cup {NoColumn}]
    BY <1>0, <1>12, <2>1 DEF Sweep
  <2> QED BY <1>0, <1>12, <2>2, IdleIsRequest, TypeWorking
          DEF Sweep, Done, colVars
<1> QED
  BY <1>3, <1>4, <1>5, <1>6, <1>7, <1>8, <1>9, <1>10, <1>11, <1>12 DEF Continue

\* No step breaks the types.
LEMMA TypeStep == TypeInv /\ [Next]_vars => TypeInv'
<1> SUFFICES ASSUME TypeInv, [Next]_vars
             PROVE  TypeInv'
  OBVIOUS
<1>1. ASSUME NEW p \in Procs, Crash(p) PROVE TypeInv'
  <2>1. req' = [req EXCEPT ![p] = Idle]
    BY <1>1 DEF Crash, Done
  <2>2. lone' \subseteq {q \in Procs : req'[q] # Idle}
    BY <1>1, <2>1 DEF Crash, TypeInv, ColumnsTypeOK
  <2>3. crashes' \in 0..MaxCrashes /\ raced' \in BOOLEAN
    BY <1>1, ColumnsAssumption
       DEF Crash, TypeInv, ColumnsTypeOK, ColumnsAssumption
  <2>4. UNCHANGED <<columns, rank, tracked, place, archived>>
    BY <1>1 DEF Crash, colVars, cardVars
  <2> QED BY <2>1, <2>2, <2>3, <2>4, IdleIsRequest, TypeOfOneRequest
          DEF TypeInv, ColumnsTypeOK, Writes
<1>2. ASSUME NEW n \in Cards, Shelve(n) PROVE TypeInv'
  <2>1. UNCHANGED <<columns, rank, tracked, place, req, lone, raced, crashes>>
    BY <1>2 DEF Shelve, colVars, reqVars
  <2>2. archived' \subseteq tracked
    BY <1>2 DEF Shelve, TypeInv, ColumnsTypeOK
  <2> QED BY <2>1, <2>2 DEF TypeInv, ColumnsTypeOK
<1>3. CASE UNCHANGED vars
  BY <1>3 DEF vars, colVars, cardVars, reqVars, TypeInv, ColumnsTypeOK
<1> QED BY <1>1, <1>2, <1>3, TypeBegin, TypeContinue DEF Next

\* A column has a positive order from the moment its row is written until it
\* is gone, no row is left without a card's issue, and what a transport still
\* has to write are orders from 1 on.
THEOREM ColumnsTypes == Spec => []ColumnsTypeOK
<1>1. TypeInv => ColumnsTypeOK
  BY DEF TypeInv
<1> QED BY <1>1, TypeInit, TypeStep, PTL DEF Spec

-----------------------------------------------------------------------------
\* No step removes a card, whatever overlaps: a removal loads the cards of its
\* column only to find that there are none.
THEOREM RemovalKeepsCardsHolds == Spec => RemovalKeepsCards
<1>1. [Next]_vars => tracked \subseteq tracked' \/ UNCHANGED vars
  BY DEF Next, vars, Begin, Continue, Arrive, ArriveAdd, ArriveRemove,
         ArriveTransport, ArriveCard, ArriveMove, ArriveSweep, InsertColumn,
         Blank, DeleteColumn, CardsLeft, CanMove, Load, WriteOrder, InsertCard,
         Start, Place, Sweep, Crash, Shelve, cardVars
<1> QED BY <1>1, PTL DEF Spec, RemovalKeepsCards

-----------------------------------------------------------------------------
(***************************************************************************)
(* Requests one after the other.                                           *)
(***************************************************************************)

\* A request that overlaps no other one finds all processes idle.
LEMMA SerialArrive ==
    ASSUME TypeInv, ~raced => SerialInv, NEW p \in Procs, NEW r,
           r.at \notin {"delete", "place"},
           r.at = "row" => r.id \in columns \cup {NoColumn},
           r.at = "sweep" => r.id \in columns,
           Arrive(p, r)
    PROVE  ~raced' => SerialInv'
<1> SUFFICES ASSUME ~raced' PROVE SerialInv'
  OBVIOUS
<1>1. ~raced /\ \A q \in Procs : req[q] = Idle
  BY DEF Arrive
<1>2. /\ req' = [req EXCEPT ![p] = r]
      /\ UNCHANGED <<columns, tracked, place>>
  BY DEF Arrive, colVars, cardVars
<1>3. /\ req'[p] = r
      /\ \A q \in Procs \ {p} : req'[q] = Idle
  BY <1>1, <1>2 DEF TypeInv
<1>4. Taken' \subseteq columns'
  BY <1>1, <1>2 DEF SerialInv, Taken
<1>5. Idle.at = "idle"
  BY DEF Idle
<1> QED BY <1>2, <1>3, <1>4, <1>5 DEF SerialInv, At

\* Requests arrive with columns that were just loaded.
LEMMA SerialBegin ==
    ASSUME TypeInv, ~raced => SerialInv, NEW p \in Procs, Begin(p)
    PROVE  ~raced' => SerialInv'
<1> USE DEF Idle
<1>0. ColumnsTypeOK
  BY DEF TypeInv
<1>1. CASE ArriveAdd(p)
  BY <1>1, SerialArrive DEF ArriveAdd
<1>2. ASSUME NEW c \in Ids, ArriveRemove(p, c) PROVE ~raced' => SerialInv'
  BY <1>2, SerialArrive DEF ArriveRemove
<1>3. ASSUME NEW c \in Ids, NEW kind \in Transports, ArriveTransport(p, kind, c)
      PROVE  ~raced' => SerialInv'
  BY <1>3, SerialArrive DEF ArriveTransport
<1>4. ASSUME NEW n \in Cards, ArriveCard(p, n) PROVE ~raced' => SerialInv'
  <2>1. PICK c \in FirstColumns :
            Arrive(p, [Idle EXCEPT !.kind = "card", !.at = "row", !.id = c,
                                   !.card = n])
    BY <1>4 DEF ArriveCard
  <2>2. c \in columns \cup {NoColumn}
    BY <1>0, EndColumns
  <2> QED BY <2>1, <2>2, SerialArrive
<1>5. ASSUME NEW n \in Cards, NEW c \in Ids, ArriveMove(p, n, c)
      PROVE  ~raced' => SerialInv'
  BY <1>5, SerialArrive DEF ArriveMove
<1>6. CASE ArriveSweep(p)
  <2>1. PICK c \in LastColumns :
            Arrive(p, [Idle EXCEPT !.kind = "sweep", !.at = "sweep", !.id = c])
    BY <1>6 DEF ArriveSweep
  <2>2. c \in columns
    BY <1>0, EndColumns
  <2> QED BY <2>1, <2>2, SerialArrive
<1> QED BY <1>1, <1>2, <1>3, <1>4, <1>5, <1>6 DEF Begin

\* The label a working request leaves.
LEMMA WorksAtLabel ==
    ASSUME TypeInv, NEW p \in Procs, Continue(p)
    PROVE  req[p].at # "idle" /\ req[p] # Idle /\ raced' = raced
BY DEF Continue, InsertColumn, Blank, DeleteColumn, CanMove, Load, WriteOrder,
       InsertCard, Start, Place, Sweep, At, Working, Idle

\* What one request does between its statements, nobody else disturbs.
LEMMA SerialContinue ==
    ASSUME TypeInv, SerialInv, NEW p \in Procs, Continue(p)
    PROVE  SerialInv'
<1>0. /\ req \in [Procs -> Requests]
      /\ place \in [Cards -> Ids \cup {NoColumn}]
      /\ tracked \subseteq Cards
      /\ LabelTells(req[p])
  BY DEF TypeInv, ColumnsTypeOK
<1>1. \A q \in Procs \ {p} : req[q] = Idle /\ req[q].at = "idle"
  BY WorksAtLabel DEF SerialInv, Idle
\* It finishes.
<1>2. ASSUME Done(p), Taken' \subseteq columns' PROVE SerialInv'
  <2>1. \A q \in Procs : req'[q] = Idle
    BY <1>0, <1>1, <1>2 DEF Done
  <2>2. Idle.at = "idle"
    BY DEF Idle
  <2> QED BY <1>2, <2>1, <2>2 DEF SerialInv, At
\* It goes on to another label.
<1>3. ASSUME NEW r, req' = [req EXCEPT ![p] = r],
             UNCHANGED <<columns, tracked, place>>,
             r.at = "delete" => CardsIn(r.id) = {},
             r.at # "row",
             r.at \in {"place", "sweep"} => r.id \in columns
      PROVE  SerialInv'
  <2>1. req'[p] = r /\ \A q \in Procs \ {p} : req'[q] = Idle
    BY <1>0, <1>1, <1>3
  <2>2. Taken' \subseteq columns'
    BY <1>3 DEF SerialInv, Taken
  <2>3. r.at = "delete" => {n \in tracked' : place'[n] = r.id} = {}
    BY <1>3 DEF CardsIn
  <2>4. Idle.at = "idle"
    BY DEF Idle
  <2> QED BY <1>3, <2>1, <2>2, <2>3, <2>4 DEF SerialInv, At, CardsIn
<1>4. CASE InsertColumn(p)
  BY <1>2, <1>4 DEF InsertColumn, SerialInv, Taken, cardVars
<1>5. CASE Blank(p)
  <2>1. CASE Done(p)
    BY <1>2, <1>5, <2>1 DEF Blank, SerialInv, Taken, cardVars, colVars
  <2>2. CASE CardsIn(req[p].id) = {} /\ Goto(p, "delete")
    <3> DEFINE r == [req[p] EXCEPT !.at = "delete"]
    <3>1. req' = [req EXCEPT ![p] = r]
      BY <2>2 DEF Goto
    <3>2. r.at = "delete" /\ r.id = req[p].id
      BY <1>0 DEF Requests
    <3> HIDE DEF r
    <3> QED BY <1>3, <1>5, <2>2, <3>1, <3>2 DEF Blank, cardVars, colVars
  <2> QED BY <1>5, <2>1, <2>2 DEF Blank
<1>6. CASE DeleteColumn(p)
  <2>1. CardsIn(req[p].id) = {}
    BY <1>6 DEF DeleteColumn, SerialInv
  <2>2. Taken' \subseteq columns'
    BY <1>6, <2>1 DEF DeleteColumn, CardsLeft, SerialInv, Taken, CardsIn
  <2> QED BY <1>2, <1>6, <2>2 DEF DeleteColumn
<1>7. CASE CanMove(p)
  <2>1. CASE Done(p)
    BY <1>2, <1>7, <2>1 DEF CanMove, SerialInv, Taken, cardVars, colVars
  <2>2. CASE Goto(p, "load")
    <3> DEFINE r == [req[p] EXCEPT !.at = "load"]
    <3>1. req' = [req EXCEPT ![p] = r]
      BY <2>2 DEF Goto
    <3>2. r.at = "load"
      BY <1>0 DEF Requests
    <3> HIDE DEF r
    <3> QED BY <1>3, <1>7, <3>1, <3>2 DEF CanMove, cardVars, colVars
  <2> QED BY <1>7, <2>1, <2>2 DEF CanMove
<1>8. CASE Load(p)
  <2>1. CASE Done(p)
    BY <1>2, <1>8, <2>1 DEF Load, SerialInv, Taken, cardVars, colVars
  <2>2. CASE ~Done(p)
    <3>1. PICK todo : req' = [req EXCEPT ![p].at = "write", ![p].todo = todo]
      BY <1>8, <2>2 DEF Load, Done
    <3> DEFINE r == [req[p] EXCEPT !.at = "write", !.todo = todo]
    <3>2. req' = [req EXCEPT ![p] = r] /\ r.at = "write"
      BY <1>0, <3>1 DEF Requests
    <3> HIDE DEF r
    <3> QED BY <1>3, <1>8, <3>2 DEF Load, cardVars, colVars
  <2> QED BY <2>1, <2>2
<1>9. CASE WriteOrder(p)
  <2>0. UNCHANGED <<columns, tracked, place>> /\ At(p, "write")
    BY <1>9 DEF WriteOrder, cardVars
  <2>1. CASE Done(p)
    BY <1>2, <2>0, <2>1 DEF SerialInv, Taken
  <2>2. CASE ~Done(p)
    <3>1. PICK w : req' = [req EXCEPT ![p].todo = @ \ {w}]
      BY <1>9, <2>2 DEF WriteOrder
    <3> DEFINE r == [req[p] EXCEPT !.todo = @ \ {w}]
    <3>2. req' = [req EXCEPT ![p] = r] /\ r.at = "write"
      BY <1>0, <2>0, <3>1 DEF At, Requests
    <3> HIDE DEF r
    <3> QED BY <1>3, <2>0, <3>2
  <2> QED BY <2>1, <2>2
<1>10. CASE InsertCard(p)
  <2>1. req[p].id \in columns \cup {NoColumn} /\ req[p].card \in Cards
    BY <1>0, <1>10 DEF InsertCard, At, SerialInv, LabelTells
  <2>2. Taken' \subseteq columns'
    BY <1>0, <1>10, <2>1 DEF InsertCard, SerialInv, Taken, colVars
  <2> QED BY <1>2, <1>10, <2>2 DEF InsertCard
<1>11. CASE Start(p)
  <2>1. CASE Done(p)
    BY <1>2, <1>11, <2>1 DEF Start, SerialInv, Taken, cardVars, colVars
  <2>2. CASE req[p].id \in columns /\ Goto(p, "place")
    <3> DEFINE r == [req[p] EXCEPT !.at = "place"]
    <3>1. req' = [req EXCEPT ![p] = r]
      BY <2>2 DEF Goto
    <3>2. r.at = "place" /\ r.id = req[p].id
      BY <1>0 DEF Requests
    <3> HIDE DEF r
    <3> QED BY <1>3, <1>11, <2>2, <3>1, <3>2 DEF Start, cardVars, colVars
  <2> QED BY <1>11, <2>1, <2>2 DEF Start
<1>12. CASE Place(p)
  <2>1. req[p].id \in columns /\ req[p].card \in Cards
    BY <1>0, <1>12 DEF Place, At, SerialInv, LabelTells
  <2>2. Taken' \subseteq columns'
    BY <1>0, <1>12, <2>1 DEF Place, SerialInv, Taken, colVars
  <2> QED BY <1>2, <1>12, <2>2 DEF Place
<1>13. CASE Sweep(p)
  <2>1. req[p].id \in columns
    BY <1>13 DEF Sweep, At, SerialInv
  <2>2. Taken' \subseteq columns'
    BY <1>0, <1>13, <2>1 DEF Sweep, SerialInv, Taken, colVars
  <2> QED BY <1>2, <1>13, <2>2 DEF Sweep
<1> QED
  BY <1>4, <1>5, <1>6, <1>7, <1>8, <1>9, <1>10, <1>11, <1>12, <1>13
     DEF Continue

\* Every step: a crash ends the time of requests one after the other.
LEMMA SerialStep ==
    ASSUME TypeInv, ~raced => SerialInv, [Next]_vars
    PROVE  ~raced' => SerialInv'
<1>1. ASSUME NEW p \in Procs, Continue(p) PROVE ~raced' => SerialInv'
  BY <1>1, WorksAtLabel, SerialContinue
<1>2. ASSUME NEW p \in Procs, Crash(p) PROVE ~raced' => SerialInv'
  BY <1>2 DEF Crash
<1>3. ASSUME \/ \E n \in Cards : Shelve(n)
             \/ UNCHANGED vars
      PROVE  ~raced' => SerialInv'
  <2>1. UNCHANGED <<columns, tracked, place, req, raced>>
    BY <1>3 DEF Shelve, vars, colVars, cardVars, reqVars
  <2> QED BY <2>1 DEF SerialInv, Taken, At, CardsIn
<1> QED BY <1>1, <1>2, <1>3, SerialBegin DEF Next

-----------------------------------------------------------------------------
(***************************************************************************)
(* A request that no other one overlaps.                                   *)
(***************************************************************************)

\* Its updates lead to the places of the list it has sorted.
LEMMA LoadLeads ==
    ASSUME TypeInv, NEW p \in Procs, NEW s \in Sortings(columns, Key(req[p])),
           req' = [req EXCEPT
                       ![p].at = "write",
                       ![p].todo = {w \in Renumbered(s) : rank[w.id] # w.rank}],
           UNCHANGED <<columns, rank>>
    PROVE  LeadsTo(req[p], s)'
<1> DEFINE todo == {w \in Renumbered(s) : rank[w.id] # w.rank}
<1>1. s \in SetToSeqs(columns)
  BY DEF Sortings
<1>2. req'[p].todo = todo
  <2> HIDE DEF todo
  <2> QED BY DEF TypeInv, Requests, todo
<1>3. \A i \in 1..Len(s) :
          rank[s[i]] = i \/ [id |-> s[i], rank |-> i] \in todo
  BY DEF Renumbered, Numbered
<1> HIDE DEF todo
<1>4. todo \subseteq Numbered(s)
  BY DEF todo, Renumbered
<1> QED BY <1>1, <1>2, <1>3, <1>4 DEF LeadsTo

\* One update brings the orders one step closer to those places.
LEMMA WriteLeads ==
    ASSUME TypeInv, NEW p \in Procs, NEW s, LeadsTo(req[p], s),
           NEW w \in req[p].todo,
           rank' = IF w.id \in columns THEN [rank EXCEPT ![w.id] = w.rank]
                   ELSE rank,
           UNCHANGED columns
    PROVE  /\ s \in SetToSeqs(columns)
           /\ \A i \in 1..Len(s) :
                  \/ rank'[s[i]] = i
                  \/ [id |-> s[i], rank |-> i] \in req[p].todo \ {w}
<1>1. /\ s \in SetToSeqs(columns)
      /\ w \in Numbered(s)
      /\ \A i \in 1..Len(s) :
             rank[s[i]] = i \/ [id |-> s[i], rank |-> i] \in req[p].todo
  BY DEF LeadsTo
<1>2. /\ \A i \in 1..Len(s) : s[i] \in columns
      /\ \A i, j \in 1..Len(s) : s[i] = s[j] => i = j
      /\ columns \subseteq Ids
      /\ DOMAIN rank = Ids
  BY <1>1, FinitelyManyColumns, ListOfMembers DEF TypeInv, ColumnsTypeOK
<1>3. PICK k \in 1..Len(s) : w = [id |-> s[k], rank |-> k]
  BY <1>1 DEF Numbered
<1>4. rank' = [rank EXCEPT ![s[k]] = k]
  BY <1>2, <1>3
<1>5. ASSUME NEW i \in 1..Len(s)
      PROVE  \/ rank'[s[i]] = i
             \/ [id |-> s[i], rank |-> i] \in req[p].todo \ {w}
  <2>1. CASE i = k
    BY <1>2, <1>4, <2>1
  <2>2. CASE i # k
    <3>1. s[i] # s[k] /\ rank'[s[i]] = rank[s[i]]
      BY <1>2, <1>4, <2>2
    <3>2. [id |-> s[i], rank |-> i] # w
      BY <1>3, <3>1
    <3> QED BY <1>1, <3>1, <3>2
  <2> QED BY <2>1, <2>2
<1> QED BY <1>1, <1>5

\* Nobody disturbs it.
LEMMA LoneStep ==
    ASSUME TypeInv, LoneInv, [Next]_vars
    PROVE  LoneInv'
<1>0. req \in [Procs -> Requests] /\ lone \subseteq Procs
  BY DEF TypeInv, ColumnsTypeOK
<1> DEFINE Aims == {"blank", "delete", "can_move", "load"}
<1>1. ASSUME NEW p \in Procs, NEW r, Arrive(p, r), r.at # "write", r # Idle,
             r.at \in Aims => r.id \in columns
      PROVE  LoneInv'
  BY <1>0, <1>1 DEF Arrive, LoneInv, At, colVars
<1>2. ASSUME NEW p \in Procs, Begin(p) PROVE LoneInv'
  <2> USE DEF Idle
  <2>1. CASE ArriveAdd(p)
    BY <1>1, <2>1 DEF ArriveAdd
  <2>2. CASE \E c \in Ids : ArriveRemove(p, c)
    BY <1>1, <2>2 DEF ArriveRemove
  <2>3. CASE \E c \in Ids, kind \in Transports : ArriveTransport(p, kind, c)
    BY <1>1, <2>3 DEF ArriveTransport
  <2>4. CASE \E n \in Cards : ArriveCard(p, n)
    BY <1>1, <2>4 DEF ArriveCard
  <2>5. CASE \E n \in Cards, c \in Ids : ArriveMove(p, n, c)
    BY <1>1, <2>5 DEF ArriveMove
  <2>6. CASE ArriveSweep(p)
    BY <1>1, <2>6 DEF ArriveSweep
  <2> QED BY <1>2, <2>1, <2>2, <2>3, <2>4, <2>5, <2>6 DEF Begin
<1>3. ASSUME NEW p \in Procs, Continue(p) PROVE LoneInv'
  <2>1. req[p] # Idle /\ req[p].at # "idle"
    BY <1>3, WorksAtLabel
  <2>2. lone' = {q \in lone : req'[q] # Idle}
    BY <1>3 DEF Continue, InsertColumn, Blank, DeleteColumn, CanMove, Load,
                WriteOrder, InsertCard, Start, Place, Sweep, Working
  <2>3. \A q \in lone : q = p
    BY <1>0, <2>1 DEF LoneInv
  <2>4. \A q \in Procs \ {p} : req'[q] = req[q]
    BY <1>0, <1>3
       DEF Continue, InsertColumn, Blank, DeleteColumn, CanMove, Load,
           WriteOrder, InsertCard, Start, Place, Sweep, Done, Goto
  <2>a. ASSUME p \in lone, req'[p].at \in Aims
        PROVE  req'[p].id \in columns'
    <3>1. /\ req[p].at \in Aims
          /\ req'[p].id = req[p].id
          /\ columns' = columns
      BY <1>0, <1>3, <2>a
         DEF Continue, InsertColumn, Blank, DeleteColumn, CanMove, Load,
             WriteOrder, InsertCard, Start, Place, Sweep, Done, Goto, At,
             Requests, Idle, colVars
    <3> QED BY <2>a, <3>1 DEF LoneInv
  <2> SUFFICES ASSUME p \in lone, req'[p] # Idle, req'[p].at = "write"
               PROVE  \E s \in SetToSeqs(columns') : LeadsTo(req[p], s)'
    BY <2>2, <2>3, <2>4, <2>a DEF LoneInv, At
  <2>5. CASE Load(p)
    <3> DEFINE Todo(s) == {w \in Renumbered(s) : rank[w.id] # w.rank}
    <3>0. PICK s \in Sortings(columns, Key(req[p])) :
              req' = IF Todo(s) = {} THEN [req EXCEPT ![p] = Idle]
                     ELSE [req EXCEPT ![p].at = "write", ![p].todo = Todo(s)]
      BY <2>5 DEF Load
    <3>1. req' = [req EXCEPT ![p].at = "write", ![p].todo = Todo(s)]
      BY <1>0, <3>0
    <3>2. UNCHANGED <<columns, rank>>
      BY <2>5 DEF Load, colVars
    <3>3. LeadsTo(req[p], s)'
      BY <3>1, <3>2, LoadLeads
    <3> QED BY <3>3 DEF LeadsTo
  <2>6. CASE WriteOrder(p)
    <3>1. PICK w \in req[p].todo :
              /\ At(p, "write")
              /\ rank' = IF w.id \in columns THEN [rank EXCEPT ![w.id] = w.rank]
                         ELSE rank
              /\ req' = [req EXCEPT ![p].todo = @ \ {w}]
              /\ UNCHANGED columns
      BY <1>0, <2>6 DEF WriteOrder, Done
    <3>2. PICK s \in SetToSeqs(columns) : LeadsTo(req[p], s)
      BY <3>1 DEF LoneInv
    <3>3. req'[p].todo = req[p].todo \ {w}
      BY <1>0, <3>1 DEF Requests
    <3>4. LeadsTo(req[p], s)'
      BY <3>1, <3>2, <3>3, WriteLeads DEF LeadsTo
    <3> QED BY <3>1, <3>2, <3>4
  <2>7. CASE ~Load(p) /\ ~WriteOrder(p)
    <3>1. req'[p].at # "write"
      BY <1>0, <1>3, <2>7
         DEF Continue, InsertColumn, Blank, DeleteColumn, CanMove,
             InsertCard, Start, Place, Sweep, Done, Goto, Requests, Idle
    <3> QED BY <3>1
  <2> QED BY <2>5, <2>6, <2>7
<1>4. ASSUME NEW p \in Procs, Crash(p) PROVE LoneInv'
  <2>1. lone' = {}
    BY <1>0, <1>4 DEF Crash, LoneInv
  <2> QED BY <2>1 DEF LoneInv
<1>5. ASSUME \/ \E n \in Cards : Shelve(n)
             \/ UNCHANGED vars
      PROVE  LoneInv'
  <2>1. UNCHANGED <<columns, rank, req, lone>>
    BY <1>5 DEF Shelve, vars, colVars, reqVars
  <2> QED BY <2>1 DEF LoneInv, LeadsTo, At
<1> QED BY <1>2, <1>3, <1>4, <1>5 DEF Next

-----------------------------------------------------------------------------
\* The invariant holds at first: there is no request and no card.
LEMMA ColumnsInvInit == Init => ColumnsInv
<1> SUFFICES ASSUME Init PROVE ColumnsInv
  OBVIOUS
<1>1. TypeInv
  BY TypeInit
<1>2. SerialInv
  <2>1. \A p \in Procs : req[p] = Idle /\ req[p].at = "idle"
    BY DEF Init, Idle
  <2>2. Taken = {}
    BY DEF Init, Taken
  <2> QED BY <2>1, <2>2 DEF SerialInv, At
<1>3. LoneInv
  BY DEF Init, LoneInv
<1> QED BY <1>1, <1>2, <1>3 DEF ColumnsInv

\* The inductive invariant.
LEMMA ColumnsInvariant == Spec => []ColumnsInv
<1>1. ColumnsInv /\ [Next]_vars => ColumnsInv'
  BY TypeStep, SerialStep, LoneStep DEF ColumnsInv
<1> QED BY <1>1, ColumnsInvInit, PTL DEF Spec

\* "Only empty column can be moved and removed": as long as requests come one
\* after the other, no card is left in a column that was removed, from the
\* check for cards to the deletion and from a card's request to its row.
THEOREM SerialCardsStandInColumnsHolds == Spec => []SerialCardsStandInColumns
<1>1. ColumnsInv => SerialCardsStandInColumns
  BY DEF ColumnsInv, SerialInv, SerialCardsStandInColumns, CardsStandInColumns
<1> QED BY <1>1, ColumnsInvariant, PTL

-----------------------------------------------------------------------------
(***************************************************************************)
(* Sorting.                                                                *)
(***************************************************************************)

\* When no two columns have the same key there is one way to sort them.
LEMMA SortingUnique ==
    ASSUME NEW S, IsFiniteSet(S), NEW key,
           \A c \in S : key[c] \in Int,
           \A c, d \in S : key[c] = key[d] => c = d,
           NEW s \in Sortings(S, key), NEW t \in Sortings(S, key)
    PROVE  s = t
<1> DEFINE N == Cardinality(S)
           D == {i \in 1..N : s[i] # t[i]}
<1>1. /\ s \in SetToSeqs(S) /\ t \in SetToSeqs(S)
      /\ \A i, j \in 1..Len(s) : i < j => key[s[i]] <= key[s[j]]
      /\ \A i, j \in 1..Len(t) : i < j => key[t[i]] <= key[t[j]]
  BY DEF Sortings
<1>2. /\ N \in Nat
      /\ Len(s) = N /\ s \in [1..N -> S]
      /\ \A i, j \in 1..N : s[i] = s[j] => i = j
      /\ \A c \in S : \E i \in 1..N : s[i] = c
      /\ Len(t) = N /\ t \in [1..N -> S]
      /\ \A i, j \in 1..N : t[i] = t[j] => i = j
      /\ \A c \in S : \E i \in 1..N : t[i] = c
  <2>0. N \in Nat
    BY FS_CardinalityType
  <2>1. /\ Len(s) = N /\ s \in [1..N -> S]
        /\ \A i, j \in 1..Len(s) : s[i] = s[j] => i = j
        /\ \A c \in S : \E i \in 1..Len(s) : s[i] = c
    BY <1>1, ListOfMembers
  <2>2. /\ Len(t) = N /\ t \in [1..N -> S]
        /\ \A i, j \in 1..Len(t) : t[i] = t[j] => i = j
        /\ \A c \in S : \E i \in 1..Len(t) : t[i] = c
    BY <1>1, ListOfMembers
  <2> HIDE DEF N
  <2> QED BY <2>0, <2>1, <2>2
<1> HIDE DEF N
<1>3. CASE D = {}
  <2>1. \A i \in 1..N : s[i] = t[i]
    BY <1>3
  <2> QED BY <1>2, <2>1
<1>4. CASE D # {}
  <2>1. D \in SUBSET Nat
    BY <1>2
  <2>2. PICK i \in D : \A j \in D : i <= j
    <3> HIDE DEF D
    <3> QED BY <1>4, <2>1, LeastNatural
  <2>3. i \in 1..N /\ s[i] # t[i] /\ s[i] \in S /\ t[i] \in S
    BY <1>2
  <2>4. \A j \in 1..N : j < i => s[j] = t[j]
    BY <1>2, <2>2
  <2>5. PICK k \in 1..N : t[k] = s[i]
    BY <1>2, <2>3
  <2>6. PICK l \in 1..N : s[l] = t[i]
    BY <1>2, <2>3
  <2>7. i < k
    <3>1. k # i
      BY <2>3, <2>5
    <3>2. ~(k < i)
      BY <1>2, <2>3, <2>4, <2>5
    <3> QED BY <1>2, <2>3, <3>1, <3>2
  <2>8. i < l
    <3>1. l # i
      BY <2>3, <2>6
    <3>2. ~(l < i)
      BY <1>2, <2>3, <2>4, <2>6
    <3> QED BY <1>2, <2>3, <3>1, <3>2
  <2>9. key[s[i]] <= key[t[i]] /\ key[t[i]] <= key[s[i]]
    BY <1>1, <1>2, <2>3, <2>5, <2>6, <2>7, <2>8
  <2> QED BY <2>3, <2>9
<1> QED BY <1>3, <1>4

\* A list whose keys grow is the way to sort.
LEMMA StrictlySorted ==
    ASSUME NEW S, IsFiniteSet(S), NEW key, \A c \in S : key[c] \in Int,
           NEW s \in SetToSeqs(S),
           \A i, j \in 1..Len(s) : i < j => key[s[i]] < key[s[j]]
    PROVE  /\ s \in Sortings(S, key)
           /\ \A t \in Sortings(S, key) : t = s
<1>1. /\ Len(s) \in Nat /\ \A i \in 1..Len(s) : s[i] \in S
      /\ \A c \in S : \E i \in 1..Len(s) : s[i] = c
  BY ListOfMembers
<1>2. s \in Sortings(S, key)
  <2>1. \A i, j \in 1..Len(s) : i < j => key[s[i]] <= key[s[j]]
    BY <1>1
  <2> QED BY <2>1 DEF Sortings
<1>3. ASSUME NEW c \in S, NEW d \in S, key[c] = key[d]
      PROVE  c = d
  <2>1. PICK i \in 1..Len(s) : s[i] = c
    BY <1>1
  <2>2. PICK j \in 1..Len(s) : s[j] = d
    BY <1>1
  <2>3. ~(i < j) /\ ~(j < i)
    BY <1>1, <1>3, <2>1, <2>2
  <2>4. i = j
    BY <1>1, <2>3
  <2> QED BY <2>1, <2>2, <2>4
<1> QED BY <1>2, <1>3, SortingUnique

\* A way to sort distinct keys is strictly sorted.
LEMMA SortedStrictly ==
    ASSUME NEW S, IsFiniteSet(S), NEW key, \A c \in S : key[c] \in Int,
           \A c, d \in S : key[c] = key[d] => c = d,
           NEW s \in Sortings(S, key)
    PROVE  /\ s \in SetToSeqs(S)
           /\ \A i, j \in 1..Len(s) : i < j => key[s[i]] < key[s[j]]
<1>1. /\ s \in SetToSeqs(S)
      /\ \A i, j \in 1..Len(s) : i < j => key[s[i]] <= key[s[j]]
  BY DEF Sortings
<1>2. /\ Len(s) \in Nat /\ \A i \in 1..Len(s) : s[i] \in S
      /\ \A i, j \in 1..Len(s) : s[i] = s[j] => i = j
  BY <1>1, ListOfMembers
<1>3. ASSUME NEW i \in 1..Len(s), NEW j \in 1..Len(s), i < j
      PROVE  key[s[i]] < key[s[j]]
  <2>1. key[s[i]] <= key[s[j]] /\ key[s[i]] # key[s[j]]
    BY <1>1, <1>2, <1>3
  <2>2. key[s[i]] \in Int /\ key[s[j]] \in Int
    BY <1>2
  <2> QED BY <2>1, <2>2
<1> QED BY <1>1, <1>3

\* Two neighbours of a list change places.
SwapAt(t, j) == [t EXCEPT ![j] = t[j + 1], ![j + 1] = t[j]]

\* Two neighbours that change places leave a list of the same members.
LEMMA SwapIsList ==
    ASSUME NEW S, IsFiniteSet(S), NEW t \in SetToSeqs(S),
           NEW j \in 1..(Len(t) - 1)
    PROVE  /\ SwapAt(t, j) \in SetToSeqs(S)
           /\ Len(SwapAt(t, j)) = Len(t)
           /\ SwapAt(t, j)[j] = t[j + 1] /\ SwapAt(t, j)[j + 1] = t[j]
           /\ \A i \in 1..Len(t) : i # j /\ i # j + 1 => SwapAt(t, j)[i] = t[i]
<1> DEFINE N == Cardinality(S)
           u == SwapAt(t, j)
<1>1. /\ N \in Nat /\ Len(t) = N /\ t \in [1..N -> S]
      /\ \A i, k \in 1..N : i # k => t[i] # t[k]
  BY FS_CardinalityType, ListOfMembers DEF SetToSeqs
<1> HIDE DEF N
<1>2. j \in 1..N /\ j + 1 \in 1..N
  BY <1>1
<1>3. /\ u \in [1..N -> S]
      /\ u[j] = t[j + 1] /\ u[j + 1] = t[j]
      /\ \A i \in 1..N : i # j /\ i # j + 1 => u[i] = t[i]
  BY <1>1, <1>2 DEF SwapAt
<1> HIDE DEF u
<1>4. Len(u) = N
  BY <1>1, <1>3
<1>5. \A i, k \in 1..N : i # k => u[i] # u[k]
  BY <1>1, <1>2, <1>3
<1>6. u \in SetToSeqs(S)
  BY <1>3, <1>5 DEF SetToSeqs, N
<1> QED BY <1>1, <1>3, <1>4, <1>6 DEF u

\* A column that takes 11 off ten times its order comes before its left
\* neighbour if the neighbour's order is one less, and stays otherwise.
LEMMA MovedLeft ==
    ASSUME NEW S, IsFiniteSet(S), NEW rk, \A c \in S : rk[c] \in Int,
           NEW t \in SetToSeqs(S),
           \A i, j \in 1..Len(t) : i < j => rk[t[i]] < rk[t[j]],
           NEW m \in 1..Len(t), NEW key,
           \A c \in S : key[c] = 10 * rk[c] + (IF c = t[m] THEN -11 ELSE 0),
           NEW s \in Sortings(S, key)
    PROVE  s = IF m > 1 /\ rk[t[m - 1]] = rk[t[m]] - 1 THEN SwapAt(t, m - 1)
                                                      ELSE t
<1>1. /\ Len(t) \in Nat /\ \A i \in 1..Len(t) : t[i] \in S
      /\ \A i, j \in 1..Len(t) : t[i] = t[j] => i = j
  BY ListOfMembers
<1>2. \A i \in 1..Len(t) : /\ rk[t[i]] \in Int
                          /\ key[t[i]] = 10 * rk[t[i]] + (IF i = m THEN -11 ELSE 0)
  BY <1>1
<1>3. \A c \in S : key[c] \in Int
  OBVIOUS
<1>4. CASE m > 1 /\ rk[t[m - 1]] = rk[t[m]] - 1
  <2> DEFINE u == SwapAt(t, m - 1)
  <2>1. m - 1 \in 1..(Len(t) - 1) /\ m - 1 + 1 = m /\ m - 1 \in 1..Len(t)
    BY <1>1, <1>4
  <2>2. /\ u \in SetToSeqs(S) /\ Len(u) = Len(t)
        /\ u[m - 1] = t[m] /\ u[m] = t[m - 1]
        /\ \A i \in 1..Len(t) : i # m - 1 /\ i # m => u[i] = t[i]
    BY <2>1, SwapIsList
  <2> HIDE DEF u
  <2>3. /\ \A i \in 1..Len(t) : i # m - 1 /\ i # m => key[u[i]] = 10 * rk[t[i]]
        /\ key[u[m - 1]] = 10 * rk[t[m]] - 11
        /\ key[u[m]] = 10 * rk[t[m - 1]]
    <3>1. \A i \in 1..Len(t) : i # m => key[t[i]] = 10 * rk[t[i]]
      BY <1>2
    <3>2. key[t[m]] = 10 * rk[t[m]] - 11
      BY <1>2
    <3> QED BY <2>1, <2>2, <3>1, <3>2
  <2>4. ASSUME NEW i \in 1..Len(t), NEW j \in 1..Len(t), i < j
        PROVE  key[u[i]] < key[u[j]]
    <3> DEFINE a == rk[t[m]]  b == rk[t[m - 1]]  x == rk[t[i]]  y == rk[t[j]]
    <3>1. a \in Int /\ b \in Int /\ x \in Int /\ y \in Int /\ b = a - 1
      BY <1>2, <1>4, <2>1
    <3>2. /\ x < y
          /\ i < m - 1 => x < b
          /\ i < m => x < a
          /\ j > m => a < y /\ b < y
      BY <2>1, <2>4
    <3>3. i # m - 1 /\ i # m => key[u[i]] = 10 * x
      BY <2>3
    <3>4. j # m - 1 /\ j # m => key[u[j]] = 10 * y
      BY <2>3
    <3>5. /\ i = m - 1 => key[u[i]] = 10 * a - 11
          /\ i = m => key[u[i]] = 10 * b
          /\ j = m - 1 => key[u[j]] = 10 * a - 11
          /\ j = m => key[u[j]] = 10 * b
      BY <2>3
    <3>6. m \in Int /\ i \in Int /\ j \in Int
      BY <1>1
    <3> HIDE DEF a, b, x, y
    <3>7. CASE i < m - 1
      BY <2>4, <3>1, <3>2, <3>3, <3>4, <3>5, <3>6, <3>7
    <3>8. CASE i = m - 1
      BY <2>4, <3>1, <3>2, <3>3, <3>4, <3>5, <3>6, <3>8
    <3>9. CASE i >= m
      BY <2>4, <3>1, <3>2, <3>3, <3>4, <3>5, <3>6, <3>9
    <3> QED BY <3>6, <3>7, <3>8, <3>9
  <2>5. s = u
    BY <1>3, <2>2, <2>4, StrictlySorted
  <2> QED BY <1>4, <2>5 DEF u
<1>5. CASE ~(m > 1 /\ rk[t[m - 1]] = rk[t[m]] - 1)
  <2>1. ASSUME NEW i \in 1..Len(t), NEW j \in 1..Len(t), i < j
        PROVE  key[t[i]] < key[t[j]]
    <3>1. rk[t[i]] < rk[t[j]]
      BY <2>1
    <3>2. CASE j # m
      BY <1>2, <3>1, <3>2
    <3>3. CASE j = m
      <4>1. m - 1 \in 1..Len(t) /\ m > 1
        BY <1>1, <2>1, <3>3
      <4>2. rk[t[m - 1]] < rk[t[m]] /\ rk[t[m - 1]] # rk[t[m]] - 1
        BY <1>1, <1>5, <4>1
      <4>3. rk[t[i]] <= rk[t[m - 1]]
        <5>1. CASE i = m - 1
          BY <1>2, <4>1, <5>1
        <5>2. CASE i < m - 1
          BY <1>2, <4>1, <5>2
        <5> QED BY <1>1, <2>1, <3>3, <5>1, <5>2
      <4>4. rk[t[i]] \in Int /\ rk[t[m - 1]] \in Int /\ rk[t[m]] \in Int
        BY <1>2, <4>1
      <4>5. rk[t[i]] <= rk[t[m]] - 2
        BY <4>2, <4>3, <4>4
      <4>6. key[t[i]] = 10 * rk[t[i]] /\ key[t[m]] = 10 * rk[t[m]] - 11
        BY <1>2, <2>1, <3>3, <4>4
      <4> QED BY <3>3, <4>4, <4>5, <4>6
    <3> QED BY <3>2, <3>3
  <2>2. s = t
    BY <1>3, <2>1, StrictlySorted
  <2> QED BY <1>5, <2>2
<1> QED BY <1>4, <1>5

\* A column that adds 11 to ten times its order comes after its right
\* neighbour if the neighbour's order is one more, and stays otherwise.
LEMMA MovedRight ==
    ASSUME NEW S, IsFiniteSet(S), NEW rk, \A c \in S : rk[c] \in Int,
           NEW t \in SetToSeqs(S),
           \A i, j \in 1..Len(t) : i < j => rk[t[i]] < rk[t[j]],
           NEW m \in 1..Len(t), NEW key,
           \A c \in S : key[c] = 10 * rk[c] + (IF c = t[m] THEN 11 ELSE 0),
           NEW s \in Sortings(S, key)
    PROVE  s = IF m < Len(t) /\ rk[t[m + 1]] = rk[t[m]] + 1 THEN SwapAt(t, m)
                                                           ELSE t
<1>1. /\ Len(t) \in Nat /\ \A i \in 1..Len(t) : t[i] \in S
      /\ \A i, j \in 1..Len(t) : t[i] = t[j] => i = j
  BY ListOfMembers
<1>2. \A i \in 1..Len(t) : /\ rk[t[i]] \in Int
                          /\ key[t[i]] = 10 * rk[t[i]] + (IF i = m THEN 11 ELSE 0)
  BY <1>1
<1>3. \A c \in S : key[c] \in Int
  OBVIOUS
<1>4. CASE m < Len(t) /\ rk[t[m + 1]] = rk[t[m]] + 1
  <2> DEFINE u == SwapAt(t, m)
  <2>1. m \in 1..(Len(t) - 1) /\ m + 1 \in 1..Len(t)
    BY <1>1, <1>4
  <2>2. /\ u \in SetToSeqs(S) /\ Len(u) = Len(t)
        /\ u[m] = t[m + 1] /\ u[m + 1] = t[m]
        /\ \A i \in 1..Len(t) : i # m /\ i # m + 1 => u[i] = t[i]
    BY <2>1, SwapIsList
  <2> HIDE DEF u
  <2>3. /\ \A i \in 1..Len(t) : i # m /\ i # m + 1 => key[u[i]] = 10 * rk[t[i]]
        /\ key[u[m]] = 10 * rk[t[m + 1]]
        /\ key[u[m + 1]] = 10 * rk[t[m]] + 11
    <3>1. \A i \in 1..Len(t) : i # m => key[t[i]] = 10 * rk[t[i]]
      BY <1>2
    <3>2. key[t[m]] = 10 * rk[t[m]] + 11
      BY <1>2
    <3> QED BY <2>1, <2>2, <3>1, <3>2
  <2>4. ASSUME NEW i \in 1..Len(t), NEW j \in 1..Len(t), i < j
        PROVE  key[u[i]] < key[u[j]]
    <3> DEFINE a == rk[t[m]]  b == rk[t[m + 1]]  x == rk[t[i]]  y == rk[t[j]]
    <3>1. a \in Int /\ b \in Int /\ x \in Int /\ y \in Int /\ b = a + 1
      BY <1>2, <1>4, <2>1
    <3>2. /\ x < y
          /\ i < m => x < a /\ x < b
          /\ j > m => a < y
          /\ j > m + 1 => b < y
      BY <2>1, <2>4
    <3>3. i # m /\ i # m + 1 => key[u[i]] = 10 * x
      BY <2>3
    <3>4. j # m /\ j # m + 1 => key[u[j]] = 10 * y
      BY <2>3
    <3>5. /\ i = m => key[u[i]] = 10 * b
          /\ i = m + 1 => key[u[i]] = 10 * a + 11
          /\ j = m => key[u[j]] = 10 * b
          /\ j = m + 1 => key[u[j]] = 10 * a + 11
      BY <2>3
    <3>6. m \in Int /\ i \in Int /\ j \in Int
      BY <1>1
    <3> HIDE DEF a, b, x, y
    <3>7. CASE i < m
      BY <2>4, <3>1, <3>2, <3>3, <3>4, <3>5, <3>6, <3>7
    <3>8. CASE i = m
      BY <2>4, <3>1, <3>2, <3>3, <3>4, <3>5, <3>6, <3>8
    <3>9. CASE i > m
      BY <2>4, <3>1, <3>2, <3>3, <3>4, <3>5, <3>6, <3>9
    <3> QED BY <3>6, <3>7, <3>8, <3>9
  <2>5. s = u
    BY <1>3, <2>2, <2>4, StrictlySorted
  <2> QED BY <1>4, <2>5 DEF u
<1>5. CASE ~(m < Len(t) /\ rk[t[m + 1]] = rk[t[m]] + 1)
  <2>1. ASSUME NEW i \in 1..Len(t), NEW j \in 1..Len(t), i < j
        PROVE  key[t[i]] < key[t[j]]
    <3>1. rk[t[i]] < rk[t[j]]
      BY <2>1
    <3>2. CASE i # m
      BY <1>2, <3>1, <3>2
    <3>3. CASE i = m
      <4>1. m + 1 \in 1..Len(t) /\ m < Len(t)
        BY <1>1, <2>1, <3>3
      <4>2. rk[t[m]] < rk[t[m + 1]] /\ rk[t[m + 1]] # rk[t[m]] + 1
        BY <1>1, <1>5, <4>1
      <4>3. rk[t[m + 1]] <= rk[t[j]]
        <5>1. CASE j = m + 1
          BY <1>2, <4>1, <5>1
        <5>2. CASE j > m + 1
          BY <1>2, <4>1, <5>2
        <5> QED BY <1>1, <2>1, <3>3, <5>1, <5>2
      <4>4. rk[t[j]] \in Int /\ rk[t[m + 1]] \in Int /\ rk[t[m]] \in Int
        BY <1>2, <4>1
      <4>5. rk[t[m]] + 2 <= rk[t[j]]
        BY <4>2, <4>3, <4>4
      <4>6. key[t[j]] = 10 * rk[t[j]] /\ key[t[m]] = 10 * rk[t[m]] + 11
        BY <1>2, <2>1, <3>3, <4>4
      <4> QED BY <3>3, <4>4, <4>5, <4>6
    <3> QED BY <3>2, <3>3
  <2>2. s = t
    BY <1>3, <2>1, StrictlySorted
  <2> QED BY <1>5, <2>2
<1> QED BY <1>4, <1>5

-----------------------------------------------------------------------------
(***************************************************************************)
(* The orders with the updates under way applied.                          *)
(***************************************************************************)

Resolved(W, rk) == [c \in Ids |-> IF \E w \in W : w.id = c
                                  THEN (CHOOSE w \in W : w.id = c).rank
                                  ELSE rk[c]]

\* Updates that lead to the places in a list settle the columns there.
LEMMA ResolvedPlaces ==
    ASSUME NEW S \in SUBSET Ids, IsFiniteSet(S), NEW s \in SetToSeqs(S),
           NEW rk, NEW W \in SUBSET Numbered(s),
           \A i \in 1..Len(s) : rk[s[i]] = i \/ [id |-> s[i], rank |-> i] \in W
    PROVE  \A i \in 1..Len(s) : Resolved(W, rk)[s[i]] = i
<1>1. /\ \A i \in 1..Len(s) : s[i] \in S
      /\ \A i, j \in 1..Len(s) : s[i] = s[j] => i = j
  BY ListOfMembers
<1>2. ASSUME NEW i \in 1..Len(s) PROVE Resolved(W, rk)[s[i]] = i
  <2> DEFINE w == CHOOSE v \in W : v.id = s[i]
  <2>1. s[i] \in Ids
    BY <1>1
  <2>2. CASE \E v \in W : v.id = s[i]
    <3>1. w \in W /\ w.id = s[i]
      BY <2>2
    <3>2. Resolved(W, rk)[s[i]] = w.rank
      BY <2>1, <2>2 DEF Resolved
    <3> HIDE DEF w
    <3>3. PICK k \in 1..Len(s) : w = [id |-> s[k], rank |-> k]
      BY <3>1 DEF Numbered
    <3> QED BY <1>1, <3>1, <3>2, <3>3
  <2>3. CASE ~\E v \in W : v.id = s[i]
    <3>1. Resolved(W, rk)[s[i]] = rk[s[i]]
      BY <2>1, <2>3 DEF Resolved
    <3>2. [id |-> s[i], rank |-> i].id = s[i]
      OBVIOUS
    <3> QED BY <2>3, <3>1, <3>2
  <2> QED BY <2>2, <2>3
<1> QED BY <1>2

\* Without updates under way the orders are settled.
LEMMA ResolvedByNothing ==
    ASSUME NEW rk, NEW c \in Ids
    PROVE  Resolved({}, rk)[c] = rk[c]
BY DEF Resolved

\* When each column has its place for its order, the orders are 1, 2, 3, ...
LEMMA PlacesAreDense ==
    ASSUME NEW S, IsFiniteSet(S), NEW s \in SetToSeqs(S), NEW rk,
           \A i \in 1..Len(s) : rk[s[i]] = i
    PROVE  {rk[c] : c \in S} = 1..Cardinality(S)
<1>1. /\ Len(s) = Cardinality(S)
      /\ \A i \in 1..Len(s) : s[i] \in S
      /\ \A c \in S : \E i \in 1..Len(s) : s[i] = c
  BY ListOfMembers
<1> QED BY <1>1

\* The updates under way are those of the only request there is.
LEMMA WritesOfTheOnlyRequest ==
    ASSUME NEW rq, NEW p \in Procs, \A q \in Procs \ {p} : rq[q].todo = {}
    PROVE  UNION {rq[q].todo : q \in Procs} = rq[p].todo
OBVIOUS

\* What a lone transport that has passed its check does next: it sorts, or it
\* writes, or it waits.
LEMMA LoneTransportStep ==
    ASSUME TypeInv, LoneInv, [Next]_vars, crashes' = crashes,
           NEW p \in lone, req[p].at \in {"load", "write"}
    PROVE  \/ Load(p)
           \/ WriteOrder(p)
           \/ /\ req'[p] = req[p]
              /\ UNCHANGED <<columns, rank>>
              /\ \A q \in Procs \ {p} : req'[q].todo = {}
<1>0. /\ req \in [Procs -> Requests] /\ p \in Procs /\ crashes \in Nat
      /\ req[p] # Idle /\ \A q \in Procs \ {p} : req[q] = Idle
  BY ColumnsAssumption DEF TypeInv, ColumnsTypeOK, LoneInv, ColumnsAssumption
<1> DEFINE Waits == /\ req'[p] = req[p]
                    /\ UNCHANGED <<columns, rank>>
                    /\ \A q \in Procs \ {p} : req'[q].todo = {}
<1>a. ASSUME NEW q \in Procs, NEW r, Arrive(q, r), r.todo = {} PROVE Waits
  <2>1. q # p /\ req' = [req EXCEPT ![q] = r] /\ UNCHANGED <<columns, rank>>
    BY <1>0, <1>a DEF Arrive, colVars
  <2>2. Idle.todo = {}
    BY DEF Idle
  <2> QED BY <1>0, <1>a, <2>1, <2>2
<1> HIDE DEF Waits
<1>1. ASSUME NEW q \in Procs, Begin(q) PROVE Waits
  <2> USE DEF Idle
  <2>1. CASE ArriveAdd(q)
    BY <1>a, <2>1 DEF ArriveAdd
  <2>2. CASE \E c \in Ids : ArriveRemove(q, c)
    BY <1>a, <2>2 DEF ArriveRemove
  <2>3. CASE \E c \in Ids, kind \in Transports : ArriveTransport(q, kind, c)
    BY <1>a, <2>3 DEF ArriveTransport
  <2>4. CASE \E n \in Cards : ArriveCard(q, n)
    BY <1>a, <2>4 DEF ArriveCard
  <2>5. CASE \E n \in Cards, c \in Ids : ArriveMove(q, n, c)
    BY <1>a, <2>5 DEF ArriveMove
  <2>6. CASE ArriveSweep(q)
    BY <1>a, <2>6 DEF ArriveSweep
  <2> QED BY <1>1, <2>1, <2>2, <2>3, <2>4, <2>5, <2>6 DEF Begin
<1>2. ASSUME NEW q \in Procs, Continue(q)
      PROVE  Load(p) \/ WriteOrder(p)
  <2>1. q = p
    BY <1>0, <1>2, WorksAtLabel
  <2> QED BY <1>2, <2>1 DEF Continue, InsertColumn, Blank, DeleteColumn, CanMove,
                            InsertCard, Start, Place, Sweep, At
<1>3. ASSUME NEW q \in Procs, Crash(q) PROVE FALSE
  BY <1>0, <1>3 DEF Crash
<1>4. ASSUME \/ \E n \in Cards : Shelve(n)
             \/ UNCHANGED vars
      PROVE  Waits
  <2>1. UNCHANGED <<columns, rank, req>>
    BY <1>4 DEF Shelve, vars, colVars, reqVars
  <2> QED BY <1>0, <2>1 DEF Idle, Waits
<1> QED BY <1>1, <1>2, <1>3, <1>4 DEF Next, Waits

\* What a lone transport's sorting does.
LEMMA LoneLoad ==
    ASSUME TypeInv, LoneInv, NEW p \in lone, Load(p)
    PROVE  \E s \in Sortings(columns, Key(req[p])) :
               /\ \A i \in 1..Len(s) : Settled'[s[i]] = i
               /\ req'[p] = Idle => \A i \in 1..Len(s) : rank'[s[i]] = i
<1>0. /\ req \in [Procs -> Requests] /\ p \in Procs
      /\ \A q \in Procs \ {p} : req[q] = Idle
      /\ columns \in SUBSET Ids /\ IsFiniteSet(columns)
      /\ UNCHANGED <<columns, rank>>
  BY FinitelyManyColumns DEF TypeInv, ColumnsTypeOK, LoneInv, Load, colVars
<1> DEFINE Todo(s) == {w \in Renumbered(s) : rank[w.id] # w.rank}
<1>1. PICK s \in Sortings(columns, Key(req[p])) :
          req' = IF Todo(s) = {} THEN [req EXCEPT ![p] = Idle]
                 ELSE [req EXCEPT ![p].at = "write", ![p].todo = Todo(s)]
  BY DEF Load
<1>2. s \in SetToSeqs(columns)
  BY DEF Sortings
<1>3. /\ Todo(s) \in SUBSET Numbered(s)
      /\ \A i \in 1..Len(s) :
             rank[s[i]] = i \/ [id |-> s[i], rank |-> i] \in Todo(s)
  BY DEF Renumbered, Numbered
<1> HIDE DEF Todo
<1>4. /\ req'[p].todo = Todo(s)
      /\ \A q \in Procs \ {p} : req'[q].todo = {}
  <2>1. Idle.todo = {}
    BY DEF Idle
  <2>2. \A q \in Procs \ {p} : req'[q] = req[q]
    BY <1>0, <1>1
  <2>3. CASE Todo(s) = {}
    <3>1. req'[p] = Idle
      BY <1>0, <1>1, <2>3
    <3> QED BY <1>0, <2>1, <2>2, <2>3, <3>1
  <2>4. CASE Todo(s) # {}
    <3>1. req'[p] = [req[p] EXCEPT !.at = "write", !.todo = Todo(s)]
      BY <1>0, <1>1, <2>4
    <3>2. req'[p].todo = Todo(s)
      BY <1>0, <3>1 DEF Requests
    <3> QED BY <1>0, <2>1, <2>2, <3>2
  <2> QED BY <2>3, <2>4
<1>5. Settled' = Resolved(Todo(s), rank')
  <2>1. UNION {req'[q].todo : q \in Procs} = Todo(s)
    BY <1>0, <1>4, WritesOfTheOnlyRequest
  <2> QED BY <2>1 DEF Settled, Resolved
<1>6. \A i \in 1..Len(s) : Settled'[s[i]] = i
  BY <1>0, <1>2, <1>3, <1>5, ResolvedPlaces
<1>7. ASSUME req'[p] = Idle PROVE \A i \in 1..Len(s) : rank'[s[i]] = i
  <2>1. Todo(s) = {}
    BY <1>4, <1>7 DEF Idle
  <2> QED BY <1>0, <1>3, <2>1
<1> QED BY <1>6, <1>7

\* What a lone transport's last update does.
LEMMA LoneLastWrite ==
    ASSUME TypeInv, LoneInv, NEW p \in lone, WriteOrder(p), req'[p] = Idle
    PROVE  \E s \in SetToSeqs(columns) : \A i \in 1..Len(s) : rank'[s[i]] = i
<1>0. req \in [Procs -> Requests] /\ p \in Procs
  BY DEF TypeInv, ColumnsTypeOK
<1>1. PICK w \in req[p].todo :
          /\ At(p, "write")
          /\ rank' = IF w.id \in columns THEN [rank EXCEPT ![w.id] = w.rank]
                     ELSE rank
          /\ \/ req[p].todo = {w}
             \/ req' = [req EXCEPT ![p].todo = @ \ {w}]
          /\ UNCHANGED columns
  BY DEF WriteOrder
<1>2. req[p].todo \ {w} = {}
  <2>1. CASE req' = [req EXCEPT ![p].todo = @ \ {w}]
    <3>1. req'[p].at = "write"
      BY <1>0, <1>1, <2>1 DEF Requests, At
    <3> QED BY <3>1 DEF Idle
  <2> QED BY <1>1, <2>1
<1>3. PICK s \in SetToSeqs(columns) : LeadsTo(req[p], s)
  BY <1>1 DEF LoneInv
<1>4. \A i \in 1..Len(s) :
          rank'[s[i]] = i \/ [id |-> s[i], rank |-> i] \in req[p].todo \ {w}
  BY <1>0, <1>1, <1>3, WriteLeads
<1> QED BY <1>2, <1>3, <1>4

\* Sorting by the keys of a transport keeps the other columns in order.
LEMMA KeysKeepOrder ==
    ASSUME TypeInv, NEW r, NEW s \in Sortings(columns, Key(r)),
           NEW c \in columns \ {r.id}, NEW d \in columns \ {r.id},
           rank[c] < rank[d],
           NEW i \in 1..Len(s), s[i] = c, NEW j \in 1..Len(s), s[j] = d
    PROVE  i < j
<1>1. /\ Len(s) \in Nat
      /\ \A k, l \in 1..Len(s) : k < l => Key(r)[s[k]] <= Key(r)[s[l]]
  BY FinitelyManyColumns, ListOfMembers DEF Sortings
<1>2. rank[c] \in Int /\ rank[d] \in Int
  BY DEF TypeInv, ColumnsTypeOK, Gone
<1>3. Key(r)[c] = 10 * rank[c] /\ Key(r)[d] = 10 * rank[d]
  BY <1>2 DEF Key
<1>4. CASE j < i
  <2>1. Key(r)[d] <= Key(r)[c]
    BY <1>1, <1>4
  <2> QED BY <1>2, <1>3, <2>1
<1>5. CASE i = j
  BY <1>2, <1>5
<1> QED BY <1>1, <1>4, <1>5

\* A single move repairs the orders: whatever removals, races and deaths have
\* made of them, a column moved while no other request runs leaves them 1, 2,
\* 3, ..., and the other columns in the order they had.
THEOREM LoneTransportRenumbersHolds == Spec => LoneTransportRenumbers
<1> DEFINE Dense == {rank'[c] : c \in columns} = 1..Cardinality(columns)
           Keeps(p) == \A c, d \in columns \ {req[p].id} :
                           rank[c] < rank[d] /\ At(p, "load")
                               => Settled'[c] < Settled'[d]
           Repairs == \A p \in lone :
               req[p].kind \in Transports /\ ~At(p, "can_move") /\ crashes' = crashes
                   => (req'[p] = Idle => Dense) /\ Keeps(p)
<1>1. ASSUME TypeInv, LoneInv, [Next]_vars, NEW p \in lone,
             req[p].kind \in Transports, ~At(p, "can_move"), crashes' = crashes
      PROVE  (req'[p] = Idle => Dense) /\ Keeps(p)
  <2>0. /\ req \in [Procs -> Requests] /\ p \in Procs /\ LabelTells(req[p])
        /\ columns \in SUBSET Ids /\ IsFiniteSet(columns) /\ DOMAIN rank = Ids
        /\ req[p] # Idle /\ \A q \in Procs \ {p} : req[q] = Idle
    BY <1>1, FinitelyManyColumns DEF TypeInv, ColumnsTypeOK, LoneInv
  <2>1. req[p].at \in {"load", "write"}
    BY <1>1, <2>0 DEF LabelTells, At
  <2>2. CASE Load(p)
    <3>1. PICK s \in Sortings(columns, Key(req[p])) :
              /\ \A i \in 1..Len(s) : Settled'[s[i]] = i
              /\ req'[p] = Idle => \A i \in 1..Len(s) : rank'[s[i]] = i
      BY <1>1, <2>2, LoneLoad
    <3>2. s \in SetToSeqs(columns)
      BY DEF Sortings
    <3>3. req'[p] = Idle => Dense
      BY <2>0, <3>1, <3>2, PlacesAreDense
    <3>4. ASSUME NEW c \in columns \ {req[p].id}, NEW d \in columns \ {req[p].id},
                 rank[c] < rank[d]
          PROVE  Settled'[c] < Settled'[d]
      <4>1. \A e \in columns : \E i \in 1..Len(s) : s[i] = e
        BY <2>0, <3>2, ListOfMembers
      <4>2. PICK i \in 1..Len(s) : s[i] = c
        BY <4>1
      <4>3. PICK j \in 1..Len(s) : s[j] = d
        BY <4>1
      <4>4. i < j
        BY <1>1, <3>4, <4>2, <4>3, KeysKeepOrder
      <4> QED BY <3>1, <4>2, <4>3, <4>4
    <3> QED BY <3>3, <3>4
  <2>3. CASE WriteOrder(p)
    <3>1. ASSUME req'[p] = Idle PROVE Dense
      BY <1>1, <2>0, <2>3, <3>1, LoneLastWrite, PlacesAreDense
    <3>2. ~At(p, "load")
      BY <2>3 DEF WriteOrder, At
    <3> QED BY <3>1, <3>2
  <2>4. CASE /\ req'[p] = req[p]
             /\ UNCHANGED <<columns, rank>>
             /\ \A q \in Procs \ {p} : req'[q].todo = {}
    <3>1. req'[p] # Idle
      BY <2>0, <2>4
    <3>2. ASSUME At(p, "load"), NEW c \in columns PROVE Settled'[c] = rank[c]
      <4>1. req'[p].todo = {}
        BY <2>0, <2>4, <3>2 DEF LabelTells, At
      <4>2. UNION {req'[q].todo : q \in Procs} = {}
        BY <2>0, <2>4, <4>1, WritesOfTheOnlyRequest
      <4>3. Settled' = Resolved({}, rank')
        BY <4>2 DEF Settled, Resolved
      <4> QED BY <2>0, <2>4, <4>3, ResolvedByNothing
    <3> QED BY <3>1, <3>2
  <2> QED BY <1>1, <2>1, <2>2, <2>3, <2>4, LoneTransportStep
<1>2. ColumnsInv /\ [Next]_vars => [Repairs]_vars
  BY <1>1 DEF ColumnsInv
<1>3. [][Repairs]_vars => LoneTransportRenumbers
  <2>1. Repairs => \A p \in lone :
           req[p].kind \in Transports /\ ~At(p, "can_move") /\ crashes' = crashes
           => /\ req'[p] = Idle =>
                     {rank'[c] : c \in columns} = 1..Cardinality(columns)
              /\ \A c, d \in columns \ {req[p].id} :
                     rank[c] < rank[d] /\ At(p, "load")
                         => Settled'[c] < Settled'[d]
    OBVIOUS
  <2> QED BY <2>1, PTL DEF LoneTransportRenumbers
<1> QED BY <1>2, <1>3, ColumnsInvariant, PTL DEF Spec

-----------------------------------------------------------------------------
(***************************************************************************)
(* The list of the columns.                                                *)
(***************************************************************************)

\* Columns that are settled in the places of a list make up that list.
LEMMA ListOfPlaces ==
    ASSUME NEW S, IsFiniteSet(S), NEW s \in SetToSeqs(S), NEW key,
           \A i \in 1..Len(s) : key[s[i]] = i
    PROVE  (CHOOSE t \in Sortings(S, key) : TRUE) = s
<1>1. Len(s) \in Nat /\ \A c \in S : \E i \in 1..Len(s) : s[i] = c
  BY ListOfMembers
<1>2. \A c \in S : key[c] \in Int
  BY <1>1
<1>3. \A i, j \in 1..Len(s) : i < j => key[s[i]] < key[s[j]]
  OBVIOUS
<1> QED BY <1>2, <1>3, StrictlySorted

\* Without updates under way the list is the columns in their order.
LEMMA ListInOrder ==
    ASSUME NEW S \in SUBSET Ids, IsFiniteSet(S), NEW s \in SetToSeqs(S), NEW rk,
           \A c \in S : rk[c] \in Int,
           \A i, j \in 1..Len(s) : i < j => rk[s[i]] < rk[s[j]]
    PROVE  (CHOOSE t \in Sortings(S, Resolved({}, rk)) : TRUE) = s
<1> DEFINE key == Resolved({}, rk)
<1>1. \A c \in S : key[c] = rk[c]
  BY ResolvedByNothing
<1>2. \A i \in 1..Len(s) : s[i] \in S
  BY ListOfMembers
<1> HIDE DEF key
<1>3. \A i, j \in 1..Len(s) : i < j => key[s[i]] < key[s[j]]
  BY <1>1, <1>2
<1> QED BY <1>1, <1>3, StrictlySorted DEF key

\* Orders without gaps and without two of the same order put the columns in
\* the places they say.
LEMMA DenseOrders ==
    ASSUME NEW S, IsFiniteSet(S), NEW rk,
           {rk[c] : c \in S} = 1..Cardinality(S)
    PROVE  \E t \in SetToSeqs(S) : \A i \in 1..Len(t) : rk[t[i]] = i
<1> DEFINE N == Cardinality(S)
           t == [i \in 1..N |-> CHOOSE c \in S : rk[c] = i]
<1>1. \A i \in 1..N : t[i] \in S /\ rk[t[i]] = i
  <2>1. \A i \in 1..N : \E c \in S : rk[c] = i
    OBVIOUS
  <2> QED BY <2>1
<1>2. t \in [1..N -> S]
  BY <1>1
<1> HIDE DEF t
<1>3. \A i, j \in 1..N : i # j => t[i] # t[j]
  BY <1>1
<1>4. t \in SetToSeqs(S)
  BY <1>2, <1>3 DEF SetToSeqs
<1>5. Len(t) = N
  BY <1>4, ListOfMembers
<1> QED BY <1>1, <1>4, <1>5

\* The place of a column in a list.
LEMMA PositionInList ==
    ASSUME NEW S, IsFiniteSet(S), NEW t \in SetToSeqs(S), NEW m \in 1..Len(t)
    PROVE  Position(t, t[m]) = m
<1>1. \A i, j \in 1..Len(t) : t[i] = t[j] => i = j
  BY ListOfMembers
<1> QED BY <1>1 DEF Position

\* A transport sorts the columns past one neighbour of the column it moves, or
\* not at all; past the neighbour whenever the orders have no gap there.
LEMMA MovesPastNeighbour ==
    ASSUME TypeInv, NEW p \in Procs, At(p, "load"), req[p].id \in columns,
           NEW t, InOrder(t),
           NEW s \in Sortings(columns, Key(req[p]))
    PROVE  /\ s = t \/ \E j \in 1..(Len(t) - 1) : s = SwapAt(t, j)
           /\ (\A i \in 1..Len(t) : rank[t[i]] = i)
                  => s = Swapped(t, req[p].id, req[p].kind)
<1> DEFINE r == req[p]
           key == Key(r)
<1>0. /\ r \in Requests /\ LabelTells(r) /\ r.at = "load"
      /\ IsFiniteSet(columns) /\ columns \subseteq Ids
      /\ \A c \in columns : rank[c] \in Int
      /\ t \in SetToSeqs(columns)
      /\ \A i, j \in 1..Len(t) : i < j => rank[t[i]] < rank[t[j]]
  BY FinitelyManyColumns DEF TypeInv, ColumnsTypeOK, Gone, At, InOrder
<1>1. r.kind \in {"left", "right"}
  BY <1>0 DEF LabelTells, Transports
<1>2. /\ Len(t) \in Nat
      /\ \A i \in 1..Len(t) : t[i] \in columns
      /\ \A c \in columns : \E i \in 1..Len(t) : t[i] = c
      /\ t \in [1..Len(t) -> columns]
  BY <1>0, ListOfMembers
<1>3. PICK m \in 1..Len(t) : t[m] = r.id
  BY <1>2
<1>4. Position(t, r.id) = m
  BY <1>0, <1>3, PositionInList
<1>5. s \in Sortings(columns, key)
  OBVIOUS
<1>6. CASE r.kind = "left"
  <2>1. \A c \in columns : key[c] = 10 * rank[c] + (IF c = t[m] THEN -11 ELSE 0)
    BY <1>3, <1>6 DEF Key, OrderDiff
  <2> HIDE DEF key, r
  <2>2. s = IF m > 1 /\ rank[t[m - 1]] = rank[t[m]] - 1 THEN SwapAt(t, m - 1)
                                                       ELSE t
    BY <1>0, <1>5, <2>1, MovedLeft
  <2>3. m > 1 => m - 1 \in 1..(Len(t) - 1) /\ m - 1 + 1 = m
    BY <1>2
  <2>4. ASSUME \A i \in 1..Len(t) : rank[t[i]] = i
        PROVE  s = Swapped(t, r.id, r.kind)
    <3>1. CASE m > 1
      <4>1. s = SwapAt(t, m - 1)
        BY <1>2, <2>2, <2>3, <2>4, <3>1
      <4>2. SwapAt(t, m - 1) = [t EXCEPT ![m] = t[m - 1], ![m - 1] = t[m]]
        BY <1>2, <2>3, <3>1 DEF SwapAt
      <4>3. m - 1 \in 1..Len(t)
        BY <1>2, <2>3, <3>1
      <4>4. Swapped(t, r.id, r.kind) = [t EXCEPT ![m] = t[m - 1], ![m - 1] = r.id]
        BY <1>4, <1>6, <4>3 DEF Swapped
      <4> QED BY <1>3, <4>1, <4>2, <4>4
    <3>2. CASE ~(m > 1)
      <4>1. m - 1 \notin 1..Len(t)
        BY <1>2, <3>2
      <4> QED BY <1>4, <1>6, <2>2, <3>2, <4>1 DEF Swapped
    <3> QED BY <3>1, <3>2
  <2> QED BY <2>2, <2>3, <2>4 DEF r
<1>7. CASE r.kind = "right"
  <2>1. \A c \in columns : key[c] = 10 * rank[c] + (IF c = t[m] THEN 11 ELSE 0)
    BY <1>3, <1>7 DEF Key, OrderDiff
  <2> HIDE DEF key, r
  <2>2. s = IF m < Len(t) /\ rank[t[m + 1]] = rank[t[m]] + 1 THEN SwapAt(t, m)
                                                            ELSE t
    BY <1>0, <1>5, <2>1, MovedRight
  <2>3. m < Len(t) => m \in 1..(Len(t) - 1) /\ m + 1 \in 1..Len(t)
    BY <1>2
  <2>4. ASSUME \A i \in 1..Len(t) : rank[t[i]] = i
        PROVE  s = Swapped(t, r.id, r.kind)
    <3>1. CASE m < Len(t)
      <4>1. s = SwapAt(t, m)
        BY <1>2, <2>2, <2>3, <2>4, <3>1
      <4>2. SwapAt(t, m) = [t EXCEPT ![m] = t[m + 1], ![m + 1] = t[m]]
        BY DEF SwapAt
      <4> QED BY <1>3, <1>4, <1>7, <2>3, <3>1, <4>1, <4>2 DEF Swapped
    <3>2. CASE ~(m < Len(t))
      <4>1. m + 1 \notin 1..Len(t)
        BY <1>2, <3>2
      <4> QED BY <1>4, <1>7, <2>2, <3>2, <4>1 DEF Swapped
    <3> QED BY <3>1, <3>2
  <2> QED BY <2>2, <2>3, <2>4 DEF r
<1> QED BY <1>1, <1>6, <1>7

\* While the orders are 1, 2, 3, ... a lone transport moves its column past its
\* neighbour, and the first and the last column stay where they are.
THEOREM DenseTransportSwapsHolds == Spec => DenseTransportSwaps
<1>1. ASSUME ColumnsInv, [Next]_vars, NEW p \in lone, At(p, "load"),
             {rank[c] : c \in columns} = 1..Cardinality(columns),
             crashes' = crashes, req'[p] # req[p]
      PROVE  List' = Swapped(List, req[p].id, req[p].kind)
  <2>0. /\ TypeInv /\ LoneInv /\ p \in Procs
        /\ columns \in SUBSET Ids /\ IsFiniteSet(columns)
        /\ \A c \in columns : rank[c] \in Int
        /\ req[p].id \in columns
        /\ \A q \in Procs : req[q].todo = {}
    <3>1. /\ TypeInv /\ LoneInv /\ p \in Procs
          /\ columns \in SUBSET Ids /\ IsFiniteSet(columns)
          /\ \A c \in columns : rank[c] \in Int
      BY <1>1, FinitelyManyColumns DEF ColumnsInv, TypeInv, ColumnsTypeOK, Gone
    <3>2. req[p].id \in columns /\ \A q \in Procs \ {p} : req[q] = Idle
      BY <1>1 DEF ColumnsInv, LoneInv, At
    <3>3. req[p].todo = {} /\ Idle.todo = {}
      BY <1>1, <3>1 DEF TypeInv, LabelTells, At, Idle
    <3> QED BY <3>1, <3>2, <3>3
  <2>1. Load(p)
    BY <1>1, <2>0, LoneTransportStep DEF At, WriteOrder
  <2>2. PICK t \in SetToSeqs(columns) : \A i \in 1..Len(t) : rank[t[i]] = i
    BY <1>1, <2>0, DenseOrders
  <2>3. Len(t) \in Nat /\ InOrder(t)
    BY <2>0, <2>2, ListOfMembers DEF InOrder
  <2>4. List = t
    <3>1. Settled = Resolved({}, rank)
      <4>1. UNION {req[q].todo : q \in Procs} = {}
        BY <2>0
      <4> QED BY <4>1 DEF Settled, Resolved
    <3>2. \A i \in 1..Len(t) : t[i] \in Ids
      BY <2>0, <2>2, ListOfMembers
    <3>3. \A i \in 1..Len(t) : Settled[t[i]] = i
      BY <2>2, <3>1, <3>2, ResolvedByNothing
    <3> QED BY <2>0, <2>2, <3>3, ListOfPlaces DEF List
  <2>5. PICK s \in Sortings(columns, Key(req[p])) :
            \A i \in 1..Len(s) : Settled'[s[i]] = i
    BY <2>0, <2>1, LoneLoad
  <2>6. List' = s
    <3>1. s \in SetToSeqs(columns)
      BY DEF Sortings
    <3>2. columns' = columns
      BY <2>1 DEF Load, colVars
    <3> QED BY <2>0, <2>5, <3>1, <3>2, ListOfPlaces DEF List
  <2>7. s = Swapped(t, req[p].id, req[p].kind)
    BY <1>1, <2>0, <2>2, <2>3, MovesPastNeighbour
  <2> QED BY <2>4, <2>6, <2>7
<1> DEFINE Swaps ==
        \A p \in lone :
            At(p, "load") /\ {rank[c] : c \in columns} = 1..Cardinality(columns)
                /\ crashes' = crashes /\ req'[p] # req[p]
            => List' = Swapped(List, req[p].id, req[p].kind)
<1>2. ColumnsInv /\ [Next]_vars => [Swaps]_vars
  BY <1>1
<1>3. [][Swaps]_vars => DenseTransportSwaps
  BY PTL DEF DenseTransportSwaps
<1> QED BY <1>2, <1>3, ColumnsInvariant, PTL DEF Spec

-----------------------------------------------------------------------------
(***************************************************************************)
(* As long as requests come one after the other, the orders stand for the  *)
(* list of ColumnList.                                                     *)
(***************************************************************************)

\* Between two transports the list is the columns in their order.
LEMMA QuietList ==
    ASSUME TypeInv, NEW s, InOrder(s), \A q \in Procs : req[q].todo = {}
    PROVE  List = s /\ ToSet(List) = columns
<1>1. /\ columns \in SUBSET Ids /\ IsFiniteSet(columns)
      /\ \A c \in columns : rank[c] \in Int
      /\ s \in SetToSeqs(columns)
      /\ \A i, j \in 1..Len(s) : i < j => rank[s[i]] < rank[s[j]]
  BY FinitelyManyColumns DEF TypeInv, ColumnsTypeOK, Gone, InOrder
<1>2. Settled = Resolved({}, rank)
  <2>1. UNION {req[q].todo : q \in Procs} = {}
    OBVIOUS
  <2> QED BY <2>1 DEF Settled, Resolved
<1>3. List = s
  BY <1>1, <1>2, ListInOrder DEF List
<1>4. ToSet(s) = columns
  <2>1. /\ DOMAIN s = 1..Len(s)
        /\ \A i \in 1..Len(s) : s[i] \in columns
        /\ \A c \in columns : \E i \in 1..Len(s) : s[i] = c
    BY <1>1, ListOfMembers
  <2> QED BY <2>1 DEF ToSet
<1> QED BY <1>3, <1>4

\* Orders that stay, stand for the same list.
LEMMA ListStays ==
    ASSUME UNCHANGED <<columns, rank>>,
           UNION {req[q].todo : q \in Procs} = {},
           UNION {req'[q].todo : q \in Procs} = {}
    PROVE  List' = List
<1>1. Settled = Resolved({}, rank) /\ Settled' = Resolved({}, rank)
  BY DEF Settled, Resolved
<1> QED BY <1>1 DEF List

\* Cards come and go in the columns of the list.
LEMMA CardsArePlaced ==
    ASSUME List' = List, Taken' \subseteq columns', columns' = columns,
           ToSet(List) = columns
    PROVE  Columns!ListNext
BY DEF Columns!ListNext, Columns!PlaceCards, Columns!ToSet, ToSet

\* A request arrives when no other one is there.
LEMMA ListArrive ==
    ASSUME TypeInv, ListInv, NEW p \in Procs, NEW r, Arrive(p, r), ~raced',
           r.todo = {}, r.at # "write",
           r.at = "insert" => \A c \in columns : rank[c] <= r.last
    PROVE  ListInv' /\ UNCHANGED Columns!listVars
<1>1. /\ req \in [Procs -> Requests]
      /\ \A q \in Procs : req[q] = Idle
      /\ req' = [req EXCEPT ![p] = r] /\ lone' = {p}
      /\ UNCHANGED <<columns, rank, tracked, place>>
  BY DEF Arrive, TypeInv, colVars, cardVars
<1>2. Idle.todo = {} /\ Idle.at = "idle"
  BY DEF Idle
<1>3. \A q \in Procs : /\ req'[q] # Idle => q = p
                      /\ req'[q] = IF q = p THEN r ELSE Idle
  BY <1>1
<1>4. ListInv'
  <2>1. \E s \in SetToSeqs(columns) : InOrder(s)
    BY <1>1, <1>2 DEF ListInv, At
  <2>2. \E s \in SetToSeqs(columns') : InOrder(s)'
    BY <1>1, <2>1 DEF InOrder
  <2> QED BY <1>1, <1>2, <1>3, <2>2 DEF ListInv, At
<1>5. List' = List
  <2>1. \A q \in Procs : req[q].todo = {} /\ req'[q].todo = {}
    BY <1>1, <1>2, <1>3
  <2>2. UNION {req[q].todo : q \in Procs} = {} /\ UNION {req'[q].todo : q \in Procs} = {}
    BY <2>1
  <2> QED BY <1>1, <2>2, ListStays
<1>6. Taken' = Taken
  BY <1>1 DEF Taken
<1> QED BY <1>4, <1>5, <1>6 DEF Columns!listVars

\* Every request that arrives alone keeps the list.
LEMMA ListBegin ==
    ASSUME TypeInv, ListInv, NEW p \in Procs, Begin(p), ~raced'
    PROVE  ListInv' /\ UNCHANGED Columns!listVars
<1> DEFINE Goal == ListInv' /\ UNCHANGED Columns!listVars
<1>1. ASSUME NEW r, Arrive(p, r), r.todo = {}, r.at # "write",
             r.at = "insert" => \A c \in columns : rank[c] <= r.last
      PROVE  Goal
  BY <1>1, ListArrive
<1> SUFFICES Goal
  OBVIOUS
<1> HIDE DEF Goal
<1> USE DEF Idle
<1>2. CASE ArriveAdd(p)
  <2>1. \A c \in columns : rank[c] <= LastRank
    BY <1>2, LastRankIsGreatest DEF ArriveAdd, TypeInv
  <2> QED BY <1>1, <1>2, <2>1 DEF ArriveAdd
<1>3. CASE \E c \in Ids : ArriveRemove(p, c)
  BY <1>1, <1>3 DEF ArriveRemove
<1>4. CASE \E c \in Ids, kind \in Transports : ArriveTransport(p, kind, c)
  BY <1>1, <1>4 DEF ArriveTransport
<1>5. CASE \E n \in Cards : ArriveCard(p, n)
  BY <1>1, <1>5 DEF ArriveCard
<1>6. CASE \E n \in Cards, c \in Ids : ArriveMove(p, n, c)
  BY <1>1, <1>6 DEF ArriveMove
<1>7. CASE ArriveSweep(p)
  BY <1>1, <1>7 DEF ArriveSweep
<1> QED BY <1>2, <1>3, <1>4, <1>5, <1>6, <1>7 DEF Begin

\* One request works, and all others are idle before and after.
LEMMA OnlyOneWorks ==
    ASSUME TypeInv, LoneInv, ListInv, NEW p \in Procs, Continue(p)
    PROVE  /\ p \in lone
           /\ \A q \in Procs \ {p} : /\ req[q] = Idle /\ req'[q] = Idle
                                     /\ req[q].todo = {} /\ req'[q].todo = {}
           /\ \A q \in Procs : req'[q] # Idle => q \in lone'
           /\ \A q \in Procs : req'[q].at # "insert"
           /\ req[p].at # "write" => \A q \in Procs : req[q].todo = {}
           /\ req'[p] = Idle => \A q \in Procs : req'[q].todo = {}
<1>0. /\ req \in [Procs -> Requests] /\ LabelTells(req[p])
      /\ Idle.todo = {} /\ Idle.at = "idle"
  BY DEF TypeInv, Idle
<1>1. req[p] # Idle
  BY WorksAtLabel
<1>2. p \in lone /\ \A q \in Procs \ {p} : req[q] = Idle
  BY <1>1 DEF ListInv, LoneInv
<1>3. \A q \in Procs \ {p} : req'[q] = req[q]
  BY <1>0 DEF Continue, InsertColumn, Blank, DeleteColumn, CanMove, Load,
              WriteOrder, InsertCard, Start, Place, Sweep, Done, Goto
<1>4. lone' = {q \in lone : req'[q] # Idle}
  BY DEF Continue, InsertColumn, Blank, DeleteColumn, CanMove, Load,
         WriteOrder, InsertCard, Start, Place, Sweep, Working
<1>5. req'[p].at # "insert"
  <2>1. CASE Load(p)
    BY <1>0, <2>1 DEF Load, Requests
  <2>2. CASE WriteOrder(p)
    BY <1>0, <2>2 DEF WriteOrder, At, Done, Requests
  <2>3. CASE ~Load(p) /\ ~WriteOrder(p)
    BY <1>0, <2>3 DEF Continue, InsertColumn, Blank, DeleteColumn, CanMove,
              InsertCard, Start, Place, Sweep, Done, Goto, Requests
  <2> QED BY <2>1, <2>2, <2>3
<1> QED BY <1>0, <1>2, <1>3, <1>4, <1>5 DEF LabelTells

\* A new column is the last one of the list.
LEMMA ListInsert ==
    ASSUME TypeInv, LoneInv, ListInv, NEW p \in Procs, InsertColumn(p)
    PROVE  ListInv' /\ Columns!ListNext
<1>0. /\ columns \in SUBSET Ids /\ IsFiniteSet(columns)
      /\ rank \in [Ids -> Int]
      /\ columns = {c \in Ids : rank[c] > 0}
      /\ req[p].last \in Nat
  BY FinitelyManyColumns DEF TypeInv, ColumnsTypeOK, Gone
<1>1. PICK c \in Ids : /\ rank[c] = New
                      /\ columns' = columns \cup {c}
                      /\ rank' = [rank EXCEPT ![c] = NextRank(req[p])]
  BY DEF InsertColumn
<1>2. /\ At(p, "insert") /\ req' = [req EXCEPT ![p] = Idle] /\ Continue(p)
      /\ UNCHANGED <<tracked, place>>
  BY DEF InsertColumn, Done, Continue, cardVars
<1>3. req'[p] = Idle
  BY <1>2 DEF TypeInv
<1>4. /\ \A q \in Procs : req[q].todo = {} /\ req'[q].todo = {}
      /\ \A q \in Procs : req'[q] # Idle => q \in lone'
      /\ \A q \in Procs : req'[q].at # "insert"
  BY <1>2, <1>3, OnlyOneWorks DEF At
<1>5. PICK s \in SetToSeqs(columns) : InOrder(s)
  <2>1. \A q \in Procs \ {p} : req[q].at # "write"
    BY <1>2, OnlyOneWorks DEF Idle
  <2>2. \A q \in Procs : ~At(q, "write")
    BY <1>2, <2>1 DEF At
  <2> QED BY <2>2 DEF ListInv
<1>6. c \notin columns /\ List = s
  BY <1>0, <1>1, <1>4, <1>5, QuietList DEF New
<1> DEFINE u == Append(s, c)
<1>7. /\ u \in SetToSeqs(columns')
      /\ Len(s) \in Nat /\ \A i \in 1..Len(s) : s[i] \in columns
      /\ Len(u) = Len(s) + 1
      /\ \A i \in 1..Len(s) : u[i] = s[i]
      /\ u[Len(s) + 1] = c
  BY <1>0, <1>1, <1>5, <1>6, AppendedMember, ListOfMembers
<1> HIDE DEF u
<1>8. \A i, j \in 1..Len(u) : i < j => rank'[u[i]] < rank'[u[j]]
  <2>1. \A d \in columns : rank'[d] = rank[d] /\ rank[d] < rank'[c]
    BY <1>0, <1>1, <1>2, <1>6 DEF ListInv, NextRank
  <2>2. ASSUME NEW i \in 1..Len(u), NEW j \in 1..Len(u), i < j
        PROVE  rank'[u[i]] < rank'[u[j]]
    <3>1. i \in 1..Len(s) /\ u[i] = s[i] /\ s[i] \in columns
      BY <1>7, <2>2
    <3>2. CASE j = Len(s) + 1
      BY <1>7, <2>1, <3>1, <3>2
    <3>3. CASE j # Len(s) + 1
      <4>1. j \in 1..Len(s) /\ u[j] = s[j] /\ s[j] \in columns
        BY <1>7, <3>3
      <4>2. rank[s[i]] < rank[s[j]]
        BY <1>5, <2>2, <3>1, <4>1 DEF InOrder
      <4> QED BY <2>1, <3>1, <4>1, <4>2
    <3> QED BY <3>2, <3>3
  <2> QED BY <2>2
<1>9. ListInv'
  BY <1>4, <1>7, <1>8 DEF ListInv, InOrder, At
<1>10. List' = u
  <2>1. UNION {req'[q].todo : q \in Procs} = {}
    BY <1>4
  <2>2. Settled' = Resolved({}, rank')
    BY <2>1 DEF Settled, Resolved
  <2>3. columns' \in SUBSET Ids /\ IsFiniteSet(columns')
    BY <1>0, <1>1, FS_AddElement
  <2>4. \A d \in columns' : rank'[d] \in Int
    BY <1>0, <1>1 DEF NextRank
  <2> QED BY <1>7, <1>8, <2>2, <2>3, <2>4, ListInOrder DEF List
<1>11. Columns!AppendColumn(c)
  <2>1. ~\E i \in 1..Len(s) : s[i] = c
    BY <1>6, <1>7
  <2>2. Taken' = Taken
    BY <1>2 DEF Taken
  <2> QED BY <1>6, <1>10, <2>1, <2>2
          DEF Columns!AppendColumn, Columns!Contains, u
<1> QED BY <1>9, <1>11 DEF Columns!ListNext

\* Only an empty column leaves the list.
LEMMA ListDelete ==
    ASSUME TypeInv, SerialInv, LoneInv, ListInv, NEW p \in Procs, DeleteColumn(p)
    PROVE  ListInv' /\ Columns!ListNext
<1> DEFINE c == req[p].id
<1>0. /\ columns \in SUBSET Ids /\ IsFiniteSet(columns)
      /\ rank \in [Ids -> Int]
  BY FinitelyManyColumns DEF TypeInv, ColumnsTypeOK, Gone
<1>1. /\ columns' = columns \ {c}
      /\ rank' = [rank EXCEPT ![c] = Gone]
      /\ At(p, "delete") /\ req' = [req EXCEPT ![p] = Idle] /\ Continue(p)
      /\ UNCHANGED <<tracked, place>>
  BY DEF DeleteColumn, CardsLeft, Done, Continue
<1>2. req'[p] = Idle
  BY <1>1 DEF TypeInv
<1>3. /\ \A q \in Procs : req[q].todo = {} /\ req'[q].todo = {}
      /\ \A q \in Procs : req'[q] # Idle => q \in lone'
      /\ \A q \in Procs : req'[q].at # "insert"
      /\ p \in lone
  BY <1>1, <1>2, OnlyOneWorks DEF At
<1>4. c \in columns
  BY <1>1, <1>3 DEF LoneInv, At
<1>5. PICK s \in SetToSeqs(columns) : InOrder(s)
  <2>1. \A q \in Procs \ {p} : req[q].at # "write"
    BY <1>1, OnlyOneWorks DEF Idle
  <2>2. \A q \in Procs : ~At(q, "write")
    BY <1>1, <2>1 DEF At
  <2> QED BY <2>2 DEF ListInv
<1>6. List = s
  BY <1>3, <1>5, QuietList
<1> DEFINE u == RemoveFirst(s, c)
<1> HIDE DEF c
<1>7. PICK k \in 1..Len(s) :
          /\ s[k] = c
          /\ u \in SetToSeqs(columns')
          /\ Len(u) = Len(s) - 1
          /\ \A i \in 1..(Len(s) - 1) : u[i] = IF i < k THEN s[i] ELSE s[i + 1]
  BY <1>0, <1>1, <1>4, <1>5, RemovedMember
<1>8. /\ Len(s) \in Nat /\ \A i \in 1..Len(s) : s[i] \in columns
      /\ \A i, j \in 1..Len(s) : s[i] = s[j] => i = j
      /\ \A i, j \in 1..Len(s) : i < j => rank[s[i]] < rank[s[j]]
  <2>1. s \in Seq(columns) /\ Len(s) \in Nat
        /\ \A i, j \in 1..Len(s) : s[i] = s[j] => i = j
    BY <1>0, <1>5, ListOfMembers
  <2>2. \A i \in 1..Len(s) : s[i] \in columns
    BY <2>1
  <2> QED BY <1>5, <2>1, <2>2 DEF InOrder
<1> HIDE DEF u
<1>9. \A i, j \in 1..Len(u) : i < j => rank'[u[i]] < rank'[u[j]]
  <2>1. \A d \in columns \ {c} : rank'[d] = rank[d]
    BY <1>0, <1>1
  <2>2. ASSUME NEW i \in 1..Len(u), NEW j \in 1..Len(u), i < j
        PROVE  rank'[u[i]] < rank'[u[j]]
    <3> DEFINE ii == IF i < k THEN i ELSE i + 1
               jj == IF j < k THEN j ELSE j + 1
    <3>1. /\ ii \in 1..Len(s) /\ jj \in 1..Len(s) /\ ii < jj
          /\ ii # k /\ jj # k
          /\ u[i] = s[ii] /\ u[j] = s[jj]
      BY <1>7, <1>8, <2>2
    <3> HIDE DEF ii, jj
    <3>2. s[ii] \in columns \ {c} /\ s[jj] \in columns \ {c}
      BY <1>7, <1>8, <3>1
    <3>3. rank[s[ii]] < rank[s[jj]]
      BY <1>8, <3>1
    <3> QED BY <2>1, <3>1, <3>2, <3>3
  <2> QED BY <2>2
<1>10. ListInv'
  BY <1>3, <1>7, <1>9 DEF ListInv, InOrder, At
<1>11. List' = u
  <2>1. UNION {req'[q].todo : q \in Procs} = {}
    BY <1>3
  <2>2. Settled' = Resolved({}, rank')
    BY <2>1 DEF Settled, Resolved
  <2>3. columns' \in SUBSET Ids /\ IsFiniteSet(columns')
    BY <1>0, <1>1, FS_Subset
  <2>4. \A d \in columns' : rank'[d] \in Int
    BY <1>0, <1>1
  <2> QED BY <1>7, <1>9, <2>2, <2>3, <2>4, ListInOrder DEF List
<1>12. Columns!RemoveColumn(c)
  <2>1. Taken' = Taken
    BY <1>1 DEF Taken
  <2>2. c \notin Taken
    BY <1>1 DEF SerialInv, CardsIn, Taken, c
  <2>3. Columns!RemoveFirst(s, c) = RemoveFirst(s, c)
    BY DEF Columns!RemoveFirst, RemoveFirst, Columns!RemoveAt, RemoveAt,
           Columns!SelectInSeq, SelectInSeq, Columns!Min, Min
  <2> QED BY <1>6, <1>11, <2>1, <2>2, <2>3 DEF Columns!RemoveColumn, u
<1> QED BY <1>0, <1>4, <1>10, <1>12 DEF Columns!ListNext

\* A transport sorts its column past one neighbour, or leaves the list as it is.
LEMMA ListLoad ==
    ASSUME TypeInv, SerialInv, SerialInv', LoneInv, ListInv,
           NEW p \in Procs, Load(p)
    PROVE  ListInv' /\ Columns!ListNext
<1>0. /\ columns \in SUBSET Ids /\ IsFiniteSet(columns)
      /\ rank \in [Ids -> Int]
  BY FinitelyManyColumns DEF TypeInv, ColumnsTypeOK, Gone
<1>1. /\ At(p, "load") /\ Continue(p)
      /\ UNCHANGED <<columns, rank, tracked, place>>
  BY DEF Load, Continue, colVars, cardVars
<1>2. /\ \A q \in Procs : req[q].todo = {}
      /\ \A q \in Procs : req'[q] # Idle => q \in lone'
      /\ \A q \in Procs : req'[q].at # "insert"
      /\ p \in lone
  BY <1>1, OnlyOneWorks DEF At
<1>3. req[p].id \in columns
  BY <1>1, <1>2 DEF LoneInv, At
<1>4. PICK t \in SetToSeqs(columns) : InOrder(t)
  <2>1. \A q \in Procs \ {p} : req[q].at # "write"
    BY <1>1, OnlyOneWorks DEF Idle
  <2>2. \A q \in Procs : ~At(q, "write")
    BY <1>1, <2>1 DEF At
  <2> QED BY <2>2 DEF ListInv
<1>5. List = t /\ ToSet(List) = columns
  BY <1>2, <1>4, QuietList
<1>6. PICK s \in Sortings(columns, Key(req[p])) :
          /\ \A i \in 1..Len(s) : Settled'[s[i]] = i
          /\ req'[p] = Idle => \A i \in 1..Len(s) : rank'[s[i]] = i
  BY <1>2, LoneLoad
<1>7. s \in SetToSeqs(columns) /\ Len(s) \in Nat
  BY <1>0, ListOfMembers DEF Sortings
<1>8. List' = s
  BY <1>0, <1>1, <1>6, <1>7, ListOfPlaces DEF List
<1>9. req'[p].at = "write" \/ req'[p] = Idle
  BY DEF Load, TypeInv, Requests
<1>10. ListInv'
  <2>1. req'[p] = Idle => InOrder(s)'
    BY <1>1, <1>6, <1>7 DEF InOrder
  <2> QED BY <1>1, <1>2, <1>7, <1>9, <2>1 DEF ListInv, At
<1>11. Taken' = Taken
  BY <1>1 DEF Taken
<1>12. CASE s = t
  BY <1>1, <1>5, <1>8, <1>10, <1>12, CardsArePlaced DEF SerialInv
<1>13. CASE \E j \in 1..(Len(t) - 1) : s = SwapAt(t, j)
  <2>1. PICK j \in 1..(Len(t) - 1) : s = SwapAt(t, j)
    BY <1>13
  <2>2. Columns!SwapNeighbours(j)
    BY <1>5, <1>8, <1>11, <2>1 DEF Columns!SwapNeighbours, SwapAt
  <2> QED BY <1>5, <1>10, <2>2 DEF Columns!ListNext
<1> QED BY <1>1, <1>3, <1>4, <1>12, <1>13, MovesPastNeighbour

\* An update under way has been applied already.
LEMMA ListWrite ==
    ASSUME TypeInv, SerialInv', LoneInv, ListInv, NEW p \in Procs, WriteOrder(p)
    PROVE  ListInv' /\ Columns!ListNext
<1>0. /\ columns \in SUBSET Ids /\ IsFiniteSet(columns)
      /\ req \in [Procs -> Requests]
  BY FinitelyManyColumns DEF TypeInv, ColumnsTypeOK
<1>1. PICK w \in req[p].todo :
          /\ rank' = IF w.id \in columns THEN [rank EXCEPT ![w.id] = w.rank]
                     ELSE rank
          /\ \/ req[p].todo = {w} /\ req' = [req EXCEPT ![p] = Idle]
             \/ req' = [req EXCEPT ![p].todo = @ \ {w}]
          /\ At(p, "write") /\ Continue(p)
          /\ UNCHANGED <<columns, tracked, place>>
  BY DEF WriteOrder, Done, Continue, cardVars
<1>2. /\ \A q \in Procs \ {p} : req[q].todo = {} /\ req'[q].todo = {}
      /\ \A q \in Procs : req'[q] # Idle => q \in lone'
      /\ \A q \in Procs : req'[q].at # "insert"
      /\ p \in lone
  BY <1>1, OnlyOneWorks
<1>3. /\ req'[p].todo = req[p].todo \ {w}
      /\ req'[p] = Idle \/ req'[p].at = "write"
  BY <1>0, <1>1 DEF Requests, Idle, At
<1>4. PICK s \in SetToSeqs(columns) : LeadsTo(req[p], s)
  BY <1>1, <1>2 DEF LoneInv
<1>5. \A i \in 1..Len(s) :
          rank'[s[i]] = i \/ [id |-> s[i], rank |-> i] \in req'[p].todo
  BY <1>1, <1>3, <1>4, WriteLeads
<1>6. /\ req[p].todo \in SUBSET Numbered(s) /\ req'[p].todo \in SUBSET Numbered(s)
      /\ \A i \in 1..Len(s) :
             rank[s[i]] = i \/ [id |-> s[i], rank |-> i] \in req[p].todo
  BY <1>3, <1>4 DEF LeadsTo
<1>7. List = s /\ ToSet(s) = columns
  <2>1. Settled = Resolved(req[p].todo, rank)
    <3>1. UNION {req[q].todo : q \in Procs} = req[p].todo
      BY <1>2, WritesOfTheOnlyRequest
    <3> QED BY <3>1 DEF Settled, Resolved
  <2>2. \A i \in 1..Len(s) : Settled[s[i]] = i
    BY <1>0, <1>4, <1>6, <2>1, ResolvedPlaces
  <2>3. List = s
    BY <1>0, <1>4, <2>2, ListOfPlaces DEF List
  <2>4. /\ DOMAIN s = 1..Len(s)
        /\ \A i \in 1..Len(s) : s[i] \in columns
        /\ \A c \in columns : \E i \in 1..Len(s) : s[i] = c
    BY <1>0, <1>4, ListOfMembers
  <2> QED BY <2>3, <2>4 DEF ToSet
<1>8. List' = s
  <2>1. Settled' = Resolved(req'[p].todo, rank')
    <3>1. UNION {req'[q].todo : q \in Procs} = req'[p].todo
      BY <1>2, WritesOfTheOnlyRequest
    <3> QED BY <3>1 DEF Settled, Resolved
  <2>2. \A i \in 1..Len(s) : Settled'[s[i]] = i
    BY <1>0, <1>4, <1>5, <1>6, <2>1, ResolvedPlaces
  <2> QED BY <1>0, <1>1, <1>4, <2>2, ListOfPlaces DEF List
<1>9. ListInv'
  <2>1. ASSUME req'[p] = Idle PROVE InOrder(s)'
    <3>1. req'[p].todo = {}
      BY <2>1 DEF Idle
    <3>2. \A i \in 1..Len(s) : rank'[s[i]] = i
      BY <1>5, <3>1
    <3>3. Len(s) \in Nat
      BY <1>0, <1>4, ListOfMembers
    <3> QED BY <1>1, <1>4, <3>2, <3>3 DEF InOrder
  <2> QED BY <1>1, <1>2, <1>3, <1>4, <2>1 DEF ListInv, At
<1> QED BY <1>1, <1>7, <1>8, <1>9, CardsArePlaced DEF SerialInv

\* The other statements leave the columns alone.
LEMMA ListOther ==
    ASSUME TypeInv, SerialInv', LoneInv, ListInv, NEW p \in Procs,
           Blank(p) \/ CanMove(p) \/ InsertCard(p) \/ Start(p) \/ Place(p) \/ Sweep(p)
    PROVE  ListInv' /\ Columns!ListNext
<1>0. req \in [Procs -> Requests] /\ LabelTells(req[p])
  BY DEF TypeInv
<1>1. Continue(p) /\ UNCHANGED <<columns, rank>>
  BY DEF Continue, Blank, CanMove, InsertCard, Start, Place, Sweep, colVars
<1>2. /\ req[p].at # "write"
      /\ req'[p].at # "write" /\ req'[p].todo = {}
  BY <1>0 DEF Blank, CanMove, InsertCard, Start, Place, Sweep, At, Done, Goto,
              Requests, Idle, LabelTells
<1>3. /\ \A q \in Procs : req[q].todo = {}
      /\ \A q \in Procs \ {p} : req[q] = Idle /\ req'[q].todo = {}
      /\ \A q \in Procs : req'[q] # Idle => q \in lone'
      /\ \A q \in Procs : req'[q].at # "insert"
  BY <1>1, <1>2, OnlyOneWorks
<1>4. PICK s \in SetToSeqs(columns) : InOrder(s)
  <2>1. \A q \in Procs : ~At(q, "write")
    BY <1>2, <1>3 DEF At, Idle
  <2> QED BY <2>1 DEF ListInv
<1>5. ToSet(List) = columns
  BY <1>3, <1>4, QuietList
<1>6. List' = List
  <2>1. UNION {req[q].todo : q \in Procs} = {} /\ UNION {req'[q].todo : q \in Procs} = {}
    BY <1>2, <1>3
  <2> QED BY <1>1, <2>1, ListStays
<1>7. InOrder(s)'
  BY <1>1, <1>4 DEF InOrder
<1>8. ListInv'
  BY <1>1, <1>3, <1>4, <1>7 DEF ListInv, At
<1> QED BY <1>1, <1>5, <1>6, <1>8, CardsArePlaced DEF SerialInv

\* Every step as long as requests come one after the other.
LEMMA ListStep ==
    ASSUME ColumnsInv, ColumnsInv', ~raced => ListInv, [Next]_vars, ~raced'
    PROVE  ListInv' /\ (Columns!ListNext \/ UNCHANGED Columns!listVars)
<1>0. /\ TypeInv /\ LoneInv /\ SerialInv'
      /\ ~raced => SerialInv /\ ListInv
  BY DEF ColumnsInv
<1>1. ASSUME NEW p \in Procs, Begin(p)
      PROVE  ListInv' /\ (Columns!ListNext \/ UNCHANGED Columns!listVars)
  <2>1. \A r : Arrive(p, r) => ~raced
    BY DEF Arrive
  <2>2. ~raced
    BY <1>1, <2>1 DEF Begin, ArriveAdd, ArriveRemove, ArriveTransport,
                      ArriveCard, ArriveMove, ArriveSweep
  <2> QED BY <1>0, <1>1, <2>2, ListBegin
<1>2. ASSUME NEW p \in Procs, Continue(p)
      PROVE  ListInv' /\ (Columns!ListNext \/ UNCHANGED Columns!listVars)
  <2>1. ~raced
    BY <1>0, <1>2, WorksAtLabel
  <2> QED BY <1>0, <1>2, <2>1, ListInsert, ListDelete, ListLoad, ListWrite,
             ListOther DEF Continue
<1>3. ASSUME NEW p \in Procs, Crash(p) PROVE FALSE
  BY <1>3 DEF Crash
<1>4. ASSUME \/ \E n \in Cards : Shelve(n)
             \/ UNCHANGED vars
      PROVE  ListInv' /\ (Columns!ListNext \/ UNCHANGED Columns!listVars)
  <2>1. UNCHANGED <<columns, rank, tracked, place, req, lone, raced>>
    BY <1>4 DEF Shelve, vars, colVars, cardVars, reqVars
  <2>2. ListInv'
    BY <1>0, <2>1 DEF ListInv, InOrder, At
  <2>3. List' = List
    <3>1. Settled' = Settled
      BY <2>1 DEF Settled
    <3> QED BY <2>1, <3>1 DEF List
  <2>4. Taken' = Taken
    BY <2>1 DEF Taken
  <2> QED BY <2>2, <2>3, <2>4 DEF Columns!listVars
<1> QED BY <1>1, <1>2, <1>3, <1>4 DEF Next

\* The board is created with its columns in order.
LEMMA ListFirst ==
    ASSUME Init
    PROVE  ListInv /\ Columns!ListInit
<1>0. /\ Initial \in Seq(Ids) /\ IsFiniteSet(Ids)
      /\ \A i, j \in 1..Len(Initial) : Initial[i] = Initial[j] => i = j
  BY ColumnsAssumption, InjectiveList DEF ColumnsAssumption
<1>1. columns = {Initial[i] : i \in 1..Len(Initial)}
  BY <1>0 DEF Init, ToSet
<1>2. \A i \in 1..Len(Initial) : Initial[i] \in Ids /\ rank[Initial[i]] = i
  BY <1>0, <1>1 DEF Init
<1>3. Initial \in SetToSeqs(columns)
  <2> DEFINE N == Len(Initial)
  <2>1. N \in Nat /\ Initial \in [1..N -> columns]
    BY <1>0, <1>1
  <2>2. Initial \in Bijection(1..N, columns)
    BY <1>0, <1>1, <2>1 DEF Bijection, Injection, Surjection, IsInjective
  <2>3. IsFiniteSet(1..N) /\ Cardinality(1..N) = N
    <3> HIDE DEF N
    <3> QED BY <2>1, FS_Interval
  <2> HIDE DEF N
  <2>4. Cardinality(columns) = N
    BY <2>2, <2>3, FS_Bijection DEF ExistsBijection
  <2>5. \A i, j \in 1..N : i # j => Initial[i] # Initial[j]
    BY <1>0 DEF N
  <2> QED BY <2>1, <2>4, <2>5 DEF SetToSeqs
<1>4. InOrder(Initial)
  BY <1>0, <1>2, <1>3 DEF InOrder
<1>5. \A q \in Procs : req[q] = Idle /\ req[q].todo = {} /\ req[q].at = "idle"
  BY DEF Init, Idle
<1>6. List = Initial
  BY <1>4, <1>5, TypeInit, QuietList
<1>7. ListInv
  BY <1>3, <1>4, <1>5 DEF ListInv, At
<1>8. Taken = {}
  BY DEF Init, Taken
<1> QED BY <1>6, <1>7, <1>8 DEF Columns!ListInit

\* BoardColumns implements ColumnList until requests overlap or die: the
\* orders stand for a list that changes by one column at the end, one empty
\* column less, or two neighbours swapped.
THEOREM ColumnsImplementColumnList == Spec => SerialImplementsColumnList
<1>1. Init => ColumnsInv /\ (~raced => ListInv) /\ Columns!ListInit
  BY ColumnsInvInit, ListFirst
<1>2. /\ ColumnsInv /\ ColumnsInv' /\ (~raced => ListInv) /\ [Next]_vars
      => /\ ~raced' => ListInv'
         /\ [~raced' => Columns!ListNext \/ UNCHANGED Columns!listVars]_vars
  BY ListStep
<1>3. Spec => [](~raced => ListInv)
  BY <1>1, <1>2, ColumnsInvariant, PTL DEF Spec
<1>4. Spec => [][~raced' => Columns!ListNext \/ UNCHANGED Columns!listVars]_vars
  BY <1>2, <1>3, ColumnsInvariant, PTL DEF Spec
<1>5. Spec => Columns!ListInit
  BY <1>1 DEF Spec
<1> QED BY <1>4, <1>5 DEF SerialImplementsColumnList
=============================================================================
