------------------------------ MODULE ReactIds ------------------------------
(***************************************************************************)
(* The ids React 0.14 gives to the DOM nodes it renders (data-reactid),    *)
(* and the walks over them, as the copy in react/bundle.js computes them:  *)
(* ".0" is a root, ".0.$a" the child of it with the key "a", ".0.0" its    *)
(* first child without a key.  Parents, roots and event paths are read off *)
(* the id, never off the page.  An id is a sequence of characters, each a  *)
(* string of length one, <<>> is JavaScript's '' and also the id of what   *)
(* is not mounted (null).  Indexes count from 0, as in the code.           *)
(***************************************************************************)
EXTENDS Naturals, Sequences, SequencesExt

Separator == "."

CharAt(id, index) == IF index < Len(id) THEN id[index + 1] ELSE ""

Prefix(id, length) == SubSeq(id, 1, length)

IsBoundary(id, index) == CharAt(id, index) = Separator \/ index = Len(id)

\* ".0.$a" begins like ".0.$ab", and is no ancestor of it.
IsAncestorIDOf(ancestorID, descendantID) ==
    /\ IsPrefix(ancestorID, descendantID)
    /\ IsBoundary(descendantID, Len(ancestorID))

\* The positions of the separators of an id.
Marks(id) == {i \in 0..Len(id) : CharAt(id, i) = Separator}

GetParentID(id) ==
    IF Marks(id) = {} THEN <<>>
    ELSE Prefix(id, CHOOSE i \in Marks(id) : \A j \in Marks(id) : j <= i)

GetNextDescendantID(ancestorID, destinationID) ==
    LET ends == {i \in Len(ancestorID) + 1 .. Len(destinationID) :
                    IsBoundary(destinationID, i)}
    IN  IF ancestorID = destinationID THEN ancestorID
        ELSE Prefix(destinationID, CHOOSE i \in ends : \A j \in ends : i <= j)

(***************************************************************************)
(* The ids between two ids, from start to stop, of which one is an         *)
(* ancestor of the other (the callers have no other pairs; the code throws *)
(* otherwise).  Each turn of the loop goes at least one character on.      *)
(***************************************************************************)
TraverseParentPath(start, stop, skipFirst, skipLast) ==
    LET up == IsAncestorIDOf(stop, start)
        traverse(id) == IF up THEN GetParentID(id)
                              ELSE GetNextDescendantID(id, stop)
        onward(ids) == IF Last(ids) = stop THEN ids
                                           ELSE Append(ids, traverse(Last(ids)))
        after[turns \in 0..Len(start) + Len(stop)] ==
            IF turns = 0 THEN <<start>> ELSE onward(after[turns - 1])
        visited == after[Len(start) + Len(stop)]
    IN  SubSeq(visited, IF skipFirst THEN 2 ELSE 1,
                        IF skipLast THEN Len(visited) - 1 ELSE Len(visited))

\* Capture goes from the root down to the target, bubbling back up.
TraverseTwoPhase(targetID) ==
    [captured |-> TraverseParentPath(<<>>, targetID, TRUE, FALSE),
     bubbled |-> TraverseParentPath(targetID, <<>>, FALSE, TRUE)]

TraverseAncestors(targetID) == TraverseParentPath(<<>>, targetID, TRUE, FALSE)

Digits == <<"0", "1", "2", "3", "4", "5", "6", "7", "8", "9">>

CreateReactRootID(index) == <<Separator, Digits[index + 1]>>

CreateReactID(rootID, name) == rootID \o name

GetReactRootIDFromNodeID(id) ==
    LET later == {i \in Marks(id) : i > 0}
    IN  IF CharAt(id, 0) # Separator \/ Len(id) < 2 THEN <<>>
        ELSE IF later = {} THEN id
        ELSE Prefix(id, CHOOSE i \in later : \A j \in later : i <= j)

-----------------------------------------------------------------------------
(***************************************************************************)
(* Names of children: the key the program gave, marked by "$" and escaped  *)
(* so that it can hold no separator, else the index.  A key of <<>> is no  *)
(* key.                                                                    *)
(***************************************************************************)
\* Mutant of EscapeUserProvidedKey: keys as they come.
UnescapedKey(text) == text

EscapeUserProvidedKey(text) ==
    FlattenSeq([i \in 1..Len(text) |->
                   CASE text[i] = "=" -> <<"=", "0">>
                     [] text[i] = "." -> <<"=", "1">>
                     [] text[i] = ":" -> <<"=", "2">>
                     [] OTHER -> <<text[i]>>])

WrapUserProvidedKey(key) == <<"$">> \o EscapeUserProvidedKey(key)

GetComponentKey(key, index) ==
    IF key # <<>> THEN WrapUserProvidedKey(key) ELSE <<Digits[index + 1]>>

(***************************************************************************)
(* The children of an element with the names they mount under, in order;   *)
(* of two with one key the first stays.                                    *)
(***************************************************************************)
TraverseAllChildren(children) ==
    [i \in 1..Len(children) |->
        [name |-> <<Separator>> \o GetComponentKey(children[i].key, i - 1),
         el |-> children[i]]]

FlattenChildren(children) ==
    LET named == TraverseAllChildren(children)
        with(result, child) ==
            IF \E k \in 1..Len(result) : result[k].name = child.name THEN result
            ELSE Append(result, child)
        upTo[i \in 0..Len(children)] ==
            IF i = 0 THEN <<>> ELSE with(upTo[i - 1], named[i])
    IN  upTo[Len(children)]
=============================================================================
