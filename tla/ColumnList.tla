------------------------------ MODULE ColumnList ------------------------------
(***************************************************************************)
(* What the settings of a board promise of its columns: they are a list;   *)
(* a new column is the last one, a column moves past one neighbour at a    *)
(* time, and only an empty column leaves the list.                         *)
(***************************************************************************)
EXTENDS SequencesExt

CONSTANTS Ids, Initial

VARIABLES
    list,   \* the columns from left to right
    taken   \* the columns with cards in them

listVars == <<list, taken>>

ListInit == list = Initial /\ taken = {}

AppendColumn(c) ==
    /\ ~Contains(list, c)
    /\ list' = Append(list, c)
    /\ UNCHANGED taken

RemoveColumn(c) ==
    /\ c \notin taken
    /\ list' = RemoveFirst(list, c)
    /\ UNCHANGED taken

SwapNeighbours(i) ==
    /\ list' = [list EXCEPT ![i] = list[i + 1], ![i + 1] = list[i]]
    /\ UNCHANGED taken

\* Cards come and go, and stand in columns of the list.
PlaceCards ==
    /\ taken' \subseteq ToSet(list)
    /\ UNCHANGED list

ListNext ==
    \/ \E c \in Ids : AppendColumn(c) \/ RemoveColumn(c)
    \/ \E i \in 1..(Len(list) - 1) : SwapNeighbours(i)
    \/ PlaceCards

ListSpec == ListInit /\ [][ListNext]_listVars
=============================================================================
