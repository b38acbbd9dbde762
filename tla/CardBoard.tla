------------------------------- MODULE CardBoard -------------------------------
(***************************************************************************)
(* What the board promises of its cards, whatever GitHub, lifetimes and    *)
(* lists do: a card appears on the board, never disappears again, changes  *)
(* its column by a move only while it is shown, and is put on the shelf    *)
(* (archived) and taken back.  Only a sweep moves cards nobody moved, and  *)
(* it moves shelved cards to the last column and no others.                *)
(***************************************************************************)
CONSTANTS Numbers, Columns, DefaultColumn, LastColumn

VARIABLES
    shown,    \* cards on the board
    shelved,  \* archived cards
    place     \* the column of a card; a card to come has the default column

boardVars == <<shown, shelved, place>>

Cards == shown \cup shelved

BoardInit ==
    /\ shown = {}
    /\ shelved = {}
    /\ place = [n \in Numbers |-> DefaultColumn]

Appear(S) ==
    /\ S \cap Cards = {}
    /\ shown' = shown \cup S
    /\ UNCHANGED <<shelved, place>>

\* A card that is not there yet appears as it is moved.
MoveCard(n, c) ==
    /\ shown' = IF n \in shelved THEN shown ELSE shown \cup {n}
    /\ place' = [place EXCEPT ![n] = c]
    /\ UNCHANGED shelved

Shelve(n) ==
    /\ shown' = shown \ {n}
    /\ shelved' = shelved \cup {n}
    /\ UNCHANGED place

Restore(n) ==
    /\ n \in shelved
    /\ shown' = shown \cup {n}
    /\ shelved' = shelved \ {n}
    /\ UNCHANGED place

Sweep(S) ==
    /\ S \subseteq shown
    /\ shown' = shown \ S
    /\ shelved' = shelved \cup S
    /\ place' = [n \in Numbers |-> IF n \in shelved' THEN LastColumn
                                                     ELSE place[n]]

BoardNext ==
    \/ \E S \in SUBSET Numbers : Appear(S) \/ Sweep(S)
    \/ \E n \in Numbers : Shelve(n) \/ Restore(n)
    \/ \E n \in Numbers, c \in Columns : MoveCard(n, c)

BoardSpec == BoardInit /\ [][BoardNext]_boardVars
=============================================================================
