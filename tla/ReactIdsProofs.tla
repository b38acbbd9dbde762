---------------------------- MODULE ReactIdsProofs ----------------------------
(***************************************************************************)
(* Theorems about the ids of React's nodes (ReactIds), for ids and keys of *)
(* any length: an id tells the parent and the name of a node, keys cannot  *)
(* collide however they are escaped, events go through exactly the         *)
(* ancestors of their target, and no child of an element is lost.          *)
(***************************************************************************)
EXTENDS ReactIds, OrderLemmas

-----------------------------------------------------------------------------
(* Cutting ids.                                                             *)

LEMMA PrefixProperties ==
    ASSUME NEW C, NEW id \in Seq(C), NEW n \in 0..Len(id)
    PROVE  /\ Prefix(id, n) \in Seq(C)
           /\ Len(Prefix(id, n)) = n
           /\ \A i \in 1..n : Prefix(id, n)[i] = id[i]
           /\ \A i \in Nat : CharAt(Prefix(id, n), i) = IF i < n THEN CharAt(id, i)
                                                                 ELSE ""
<1>1. /\ Prefix(id, n) \in Seq(C)
      /\ Len(Prefix(id, n)) = n
      /\ \A i \in 1..n : Prefix(id, n)[i] = id[i]
  BY DEF Prefix
<1>2. n \in Nat /\ n <= Len(id) /\ Len(id) \in Nat
  OBVIOUS
<1>3. ASSUME NEW i \in Nat
      PROVE  CharAt(Prefix(id, n), i) = IF i < n THEN CharAt(id, i) ELSE ""
  <2>1. CASE i < n
    <3>1. i + 1 \in 1..n /\ i < Len(id)
      BY <1>2, <2>1
    <3> QED BY <1>1, <2>1, <3>1 DEF CharAt
  <2>2. CASE ~(i < n)
    BY <1>1, <2>2 DEF CharAt
  <2> QED BY <2>1, <2>2
<1> QED BY <1>1, <1>3

\* Two prefixes of one id are the same when they are of one length.
LEMMA PrefixOfLength ==
    ASSUME NEW C, NEW id \in Seq(C), NEW a \in Seq(C), IsPrefix(a, id)
    PROVE  Len(a) \in 0..Len(id) /\ a = Prefix(id, Len(a))
BY DEF IsPrefix, Prefix

LEMMA PrefixIsPrefix ==
    ASSUME NEW C, NEW id \in Seq(C), NEW n \in 0..Len(id)
    PROVE  IsPrefix(Prefix(id, n), id)
<1> DEFINE a == Prefix(id, n)
<1>1. a \in Seq(C) /\ Len(a) = n /\ \A i \in 1..n : a[i] = id[i]
  BY PrefixProperties
<1>2. n \in Nat /\ n <= Len(id)
  OBVIOUS
<1> HIDE DEF a
<1>3. SubSeq(a, 1, n) = SubSeq(id, 1, n)
  <2>1. SubSeq(a, 1, n) = a
    BY <1>1, <1>2
  <2>2. SubSeq(id, 1, n) = a
    BY DEF a, Prefix
  <2> QED BY <2>1, <2>2
<1> QED BY <1>1, <1>2, <1>3 DEF IsPrefix, a

\* The parent of an id is cut off at its last separator.
LEMMA ParentCut ==
    ASSUME NEW C, NEW id \in Seq(C), Marks(id) # {}
    PROVE  \E m \in Marks(id) : /\ \A j \in Marks(id) : j <= m
                                /\ GetParentID(id) = Prefix(id, m)
<1>1. Marks(id) \in SUBSET Nat /\ Len(id) \in Nat /\ \A j \in Marks(id) : j <= Len(id)
  BY DEF Marks
<1>2. \E m \in Marks(id) : \A j \in Marks(id) : j <= m
  BY <1>1, GreatestBelow
<1> QED BY <1>2 DEF GetParentID

\* The next id on the way down is cut off at the next boundary.
LEMMA NextCut ==
    ASSUME NEW C, NEW id \in Seq(C), NEW n \in 0..(Len(id) - 1)
    PROVE  \E e \in (n + 1)..Len(id) :
               /\ IsBoundary(id, e)
               /\ \A j \in (n + 1)..Len(id) : IsBoundary(id, j) => e <= j
               /\ GetNextDescendantID(Prefix(id, n), id) = Prefix(id, e)
<1> DEFINE ends == {i \in (n + 1)..Len(id) : IsBoundary(id, i)}
<1>1. Len(id) \in Nat /\ n \in Nat /\ n < Len(id) /\ n \in 0..Len(id)
  OBVIOUS
<1>2. Len(id) \in ends
  BY <1>1 DEF IsBoundary
<1>3. \E e \in ends : \A j \in ends : e <= j
  <2>1. ends \in SUBSET Nat
    BY <1>1
  <2> HIDE DEF ends
  <2> QED BY <1>2, <2>1, LeastNatural
<1>4. Len(Prefix(id, n)) = n
  BY <1>1, PrefixProperties
<1>5. Prefix(id, n) # id
  BY <1>1, <1>4
<1>6. GetNextDescendantID(Prefix(id, n), id)
          = Prefix(id, CHOOSE e \in ends : \A j \in ends : e <= j)
  BY <1>4, <1>5 DEF GetNextDescendantID
<1> QED BY <1>3, <1>6

-----------------------------------------------------------------------------
(* A child below its parent.                                                *)

\* What follows the separator in a name.
NoSeparator(key) == \A i \in 1..Len(key) : key[i] # Separator

\* The id of a child, character by character.
Extends(child, id, key, C) ==
    /\ child \in Seq(C)
    /\ Len(child) = Len(id) + 1 + Len(key)
    /\ \A i \in 1..Len(id) : child[i] = id[i]
    /\ child[Len(id) + 1] = Separator
    /\ \A i \in 1..Len(key) : child[Len(id) + 1 + i] = key[i]
    /\ CharAt(child, Len(id)) = Separator
    /\ \A i \in 0..(Len(id) - 1) : CharAt(child, i) = CharAt(id, i)
    /\ \A i \in (Len(id) + 1)..Len(child) : CharAt(child, i) # Separator
    /\ Prefix(child, Len(id)) = id

LEMMA ChildProperties ==
    ASSUME NEW C, Separator \in C,
           NEW id \in Seq(C), NEW key \in Seq(C), NoSeparator(key)
    PROVE  Extends(CreateReactID(id, <<Separator>> \o key), id, key, C)
<1> DEFINE name == <<Separator>> \o key
           child == id \o name
           N == Len(id)
           K == Len(key)
<1>0. N \in Nat /\ K \in Nat
  OBVIOUS
<1>1. /\ name \in Seq(C) /\ Len(name) = K + 1 /\ name[1] = Separator
      /\ \A i \in 1..K : name[i + 1] = key[i]
  <2>1. <<Separator>> \in Seq(C)
    OBVIOUS
  <2> QED BY <2>1
<1> HIDE DEF name
<1>2. /\ child \in Seq(C) /\ Len(child) = N + 1 + K
      /\ \A i \in 1..N : child[i] = id[i]
      /\ \A i \in 1..(K + 1) : child[N + i] = name[i]
  BY <1>1
<1>3. Prefix(child, N) = id
  BY <1>1 DEF Prefix
<1> HIDE DEF child, N, K
<1>4. child[N + 1] = Separator /\ \A i \in 1..K : child[N + 1 + i] = key[i]
  <2>1. child[N + 1] = Separator
    BY <1>0, <1>1, <1>2
  <2>2. ASSUME NEW i \in 1..K
        PROVE  child[N + 1 + i] = key[i]
    <3>1. i + 1 \in 1..(K + 1) /\ N + (i + 1) = N + 1 + i
      BY <1>0
    <3> QED BY <1>1, <1>2, <3>1
  <2> QED BY <2>1, <2>2
<1>5. CharAt(child, N) = Separator
  <2>1. N < Len(child)
    BY <1>0, <1>2
  <2> QED BY <1>4, <2>1 DEF CharAt
<1>6. ASSUME NEW i \in 0..(N - 1)
      PROVE  CharAt(child, i) = CharAt(id, i)
  <2>1. i + 1 \in 1..N /\ i < N /\ i < Len(child)
    BY <1>0, <1>2
  <2> QED BY <1>2, <2>1 DEF CharAt, N
<1>7. ASSUME NEW i \in (N + 1)..Len(child)
      PROVE  CharAt(child, i) # Separator
  <2>1. CASE i < Len(child)
    <3>1. i - N \in 1..K /\ N + 1 + (i - N) = i + 1
      BY <1>0, <1>2, <2>1
    <3>2. CharAt(child, i) = key[i - N]
      BY <1>4, <2>1, <3>1 DEF CharAt
    <3> QED BY <3>1, <3>2 DEF NoSeparator, K
  <2>2. CASE ~(i < Len(child))
    BY <2>2 DEF CharAt, Separator
  <2> QED BY <2>1, <2>2
<1> QED BY <1>2, <1>3, <1>4, <1>5, <1>6, <1>7
       DEF Extends, CreateReactID, child, name, N, K

\* The parent ReactInstanceHandles.getParentID reads off the id of a child is
\* the node it was created under, whatever the ids and names are.
THEOREM ParentOfChild ==
    ASSUME NEW C, Separator \in C,
           NEW id \in Seq(C), NEW key \in Seq(C), NoSeparator(key)
    PROVE  GetParentID(CreateReactID(id, <<Separator>> \o key)) = id
<1> DEFINE child == CreateReactID(id, <<Separator>> \o key)
           N == Len(id)
<1>1. /\ child \in Seq(C) /\ Len(child) = N + 1 + Len(key)
      /\ CharAt(child, N) = Separator
      /\ \A i \in (N + 1)..Len(child) : CharAt(child, i) # Separator
      /\ Prefix(child, N) = id
  <2>1. Extends(child, id, key, C)
    BY ChildProperties
  <2> QED BY <2>1 DEF Extends
<1>2. N \in Nat /\ Len(key) \in Nat
  OBVIOUS
<1> HIDE DEF child, N
<1>3. N \in Marks(child)
  BY <1>1, <1>2 DEF Marks
<1>4. PICK m \in Marks(child) : /\ \A j \in Marks(child) : j <= m
                                /\ GetParentID(child) = Prefix(child, m)
  BY <1>1, <1>3, ParentCut
<1>5. m = N
  <2>1. m \in 0..Len(child) /\ CharAt(child, m) = Separator /\ N <= m
    BY <1>3, <1>4 DEF Marks
  <2>2. m \notin (N + 1)..Len(child)
    BY <1>1, <2>1
  <2> QED BY <1>1, <1>2, <2>1, <2>2
<1> QED BY <1>1, <1>4, <1>5 DEF child

\* createReactID gives no id to two nodes: an id tells the parent and the name.
THEOREM IdTellsParentAndName ==
    ASSUME NEW C, Separator \in C,
           NEW id \in Seq(C), NEW key \in Seq(C), NoSeparator(key),
           NEW id2 \in Seq(C), NEW key2 \in Seq(C), NoSeparator(key2),
           CreateReactID(id, <<Separator>> \o key)
               = CreateReactID(id2, <<Separator>> \o key2)
    PROVE  id = id2 /\ key = key2
<1>1. id = id2
  BY ParentOfChild
<1> DEFINE child == CreateReactID(id, <<Separator>> \o key)
<1>2. /\ Len(child) = Len(id) + 1 + Len(key)
      /\ \A i \in 1..Len(key) : child[Len(id) + 1 + i] = key[i]
  <2>1. Extends(child, id, key, C)
    BY ChildProperties
  <2> QED BY <2>1 DEF Extends
<1>3. child = CreateReactID(id, <<Separator>> \o key2)
  BY <1>1
<1>4. /\ Len(child) = Len(id) + 1 + Len(key2)
      /\ \A i \in 1..Len(key2) : child[Len(id) + 1 + i] = key2[i]
  <2> DEFINE child2 == CreateReactID(id, <<Separator>> \o key2)
  <2>1. /\ Len(child2) = Len(id) + 1 + Len(key2)
        /\ \A i \in 1..Len(key2) : child2[Len(id) + 1 + i] = key2[i]
    <3>1. Extends(child2, id, key2, C)
      BY ChildProperties
    <3> QED BY <3>1 DEF Extends
  <2> QED BY <1>3, <2>1
<1> HIDE DEF child
<1>5. Len(id) \in Nat /\ Len(key) \in Nat /\ Len(key2) \in Nat
  OBVIOUS
<1>6. Len(key) = Len(key2)
  BY <1>2, <1>4, <1>5
<1>7. \A i \in 1..Len(key) : key[i] = key2[i]
  BY <1>2, <1>4, <1>6
<1>8. key = key2
  BY <1>6, <1>7, SeqEqual
<1> QED BY <1>1, <1>8

\* isAncestorIDOf: the ancestors of a child are itself and those of its parent,
\* and so never a sibling whose id begins like its own.
THEOREM AncestorsOfChild ==
    ASSUME NEW C, Separator \in C,
           NEW id \in Seq(C), NEW key \in Seq(C), NoSeparator(key),
           NEW a \in Seq(C)
    PROVE  LET child == CreateReactID(id, <<Separator>> \o key)
           IN  IsAncestorIDOf(a, child) <=> a = child \/ IsAncestorIDOf(a, id)
<1> DEFINE child == CreateReactID(id, <<Separator>> \o key)
           N == Len(id)
<1>1. /\ child \in Seq(C) /\ Len(child) = N + 1 + Len(key)
      /\ CharAt(child, N) = Separator
      /\ \A i \in 0..(N - 1) : CharAt(child, i) = CharAt(id, i)
      /\ \A i \in (N + 1)..Len(child) : CharAt(child, i) # Separator
      /\ Prefix(child, N) = id
      /\ \A i \in 1..N : child[i] = id[i]
  <2>1. Extends(child, id, key, C)
    BY ChildProperties
  <2> QED BY <2>1 DEF Extends
<1>2. N \in Nat /\ Len(key) \in Nat /\ Len(a) \in Nat
  OBVIOUS
<1> HIDE DEF child
<1>3. ASSUME NEW n \in 0..N
      PROVE  Prefix(child, n) = Prefix(id, n)
  <2>1. /\ Prefix(child, n) \in Seq(C) /\ Len(Prefix(child, n)) = n
        /\ \A i \in 1..n : Prefix(child, n)[i] = child[i]
    <3>1. n \in 0..Len(child)
      BY <1>1, <1>2
    <3> QED BY <1>1, <3>1, PrefixProperties
  <2>2. /\ Prefix(id, n) \in Seq(C) /\ Len(Prefix(id, n)) = n
        /\ \A i \in 1..n : Prefix(id, n)[i] = id[i]
    BY PrefixProperties
  <2>3. \A i \in 1..n : Prefix(child, n)[i] = Prefix(id, n)[i]
    <3>1. \A i \in 1..n : i \in 1..N
      BY <1>2
    <3> QED BY <1>1, <2>1, <2>2, <3>1
  <2> QED BY <2>1, <2>2, <2>3, SeqEqual
<1>4. ASSUME IsAncestorIDOf(a, child), a # child
      PROVE  IsAncestorIDOf(a, id)
  <2>1. Len(a) \in 0..Len(child) /\ a = Prefix(child, Len(a))
    BY <1>1, <1>4, PrefixOfLength DEF IsAncestorIDOf
  <2>2. Len(a) # Len(child)
    <3>1. Prefix(child, Len(child)) = child
      BY <1>1 DEF Prefix
    <3> QED BY <1>4, <2>1, <3>1
  <2>3. CharAt(child, Len(a)) = Separator
    BY <1>4, <2>2 DEF IsAncestorIDOf, IsBoundary
  <2>4. Len(a) \in 0..N
    BY <1>1, <1>2, <2>1, <2>3
  <2>5. IsPrefix(a, id)
    BY <1>3, <2>1, <2>4, PrefixIsPrefix
  <2>6. IsBoundary(id, Len(a))
    <3>1. CASE Len(a) = N
      BY <3>1 DEF IsBoundary
    <3>2. CASE Len(a) # N
      <4>1. Len(a) \in 0..(N - 1)
        BY <1>2, <2>4, <3>2
      <4> QED BY <1>1, <2>3, <4>1 DEF IsBoundary
    <3> QED BY <3>1, <3>2
  <2> QED BY <2>5, <2>6 DEF IsAncestorIDOf
<1>5. IsAncestorIDOf(child, child)
  BY <1>1 DEF IsAncestorIDOf, IsBoundary, IsPrefix
<1>6. ASSUME IsAncestorIDOf(a, id)
      PROVE  IsAncestorIDOf(a, child)
  <2>1. Len(a) \in 0..N /\ a = Prefix(id, Len(a))
    BY <1>6, PrefixOfLength DEF IsAncestorIDOf
  <2>2. IsPrefix(a, child)
    <3>1. a = Prefix(child, Len(a)) /\ Len(a) \in 0..Len(child)
      BY <1>1, <1>2, <1>3, <2>1
    <3> QED BY <1>1, <3>1, PrefixIsPrefix
  <2>3. CharAt(child, Len(a)) = Separator
    <3>1. CASE Len(a) = N
      BY <1>1, <3>1
    <3>2. CASE Len(a) # N
      <4>1. Len(a) \in 0..(N - 1)
        BY <1>2, <2>1, <3>2
      <4>2. CharAt(id, Len(a)) = Separator
        BY <1>6, <3>2 DEF IsAncestorIDOf, IsBoundary
      <4> QED BY <1>1, <4>1, <4>2
    <3> QED BY <3>1, <3>2
  <2> QED BY <2>2, <2>3 DEF IsAncestorIDOf, IsBoundary
<1> QED BY <1>4, <1>5, <1>6 DEF child

\* A separator at the head, and one character after it.
BelowRoot(id) == CharAt(id, 0) = Separator /\ Len(id) >= 2

\* getReactRootIDFromNodeID: a child belongs to the window its parent belongs
\* to.
THEOREM RootOfChild ==
    ASSUME NEW C, Separator \in C,
           NEW id \in Seq(C), NEW key \in Seq(C), NoSeparator(key), BelowRoot(id)
    PROVE  LET child == CreateReactID(id, <<Separator>> \o key)
           IN  /\ BelowRoot(child)
               /\ GetReactRootIDFromNodeID(child) = GetReactRootIDFromNodeID(id)
<1> DEFINE child == CreateReactID(id, <<Separator>> \o key)
           N == Len(id)
           above == {i \in Marks(id) : i > 0}
           below == {i \in Marks(child) : i > 0}
           first(S) == CHOOSE i \in S : \A j \in S : i <= j
<1>1. /\ child \in Seq(C) /\ Len(child) = N + 1 + Len(key)
      /\ CharAt(child, N) = Separator
      /\ \A i \in 0..(N - 1) : CharAt(child, i) = CharAt(id, i)
      /\ \A i \in (N + 1)..Len(child) : CharAt(child, i) # Separator
      /\ Prefix(child, N) = id
      /\ \A i \in 1..N : child[i] = id[i]
  <2>1. Extends(child, id, key, C)
    BY ChildProperties
  <2> QED BY <2>1 DEF Extends
<1>2. N \in Nat /\ Len(key) \in Nat /\ N >= 2
  BY DEF BelowRoot
<1> HIDE DEF child
<1>3. BelowRoot(child)
  <2>1. 0 \in 0..(N - 1)
    BY <1>2
  <2> QED BY <1>1, <1>2, <2>1 DEF BelowRoot
<1>4. /\ GetReactRootIDFromNodeID(child) =
             (IF below = {} THEN child ELSE Prefix(child, first(below)))
      /\ GetReactRootIDFromNodeID(id) =
             (IF above = {} THEN id ELSE Prefix(id, first(above)))
  BY <1>2, <1>3 DEF BelowRoot, GetReactRootIDFromNodeID
<1>5. CharAt(id, N) # Separator
  BY DEF CharAt, Separator
<1>6. below = above \cup {N}
  <2>1. ASSUME NEW i \in below PROVE i \in above \cup {N}
    <3>1. i \in 0..Len(child) /\ i > 0 /\ CharAt(child, i) = Separator
      BY DEF Marks
    <3>2. i \notin (N + 1)..Len(child)
      BY <1>1, <3>1
    <3>3. i = N \/ i \in 0..(N - 1)
      BY <1>1, <1>2, <3>1, <3>2
    <3>4. ASSUME i \in 0..(N - 1) PROVE i \in above
      <4>1. CharAt(id, i) = Separator /\ i \in 0..N
        BY <1>1, <1>2, <3>1, <3>4
      <4> QED BY <3>1, <4>1 DEF Marks
    <3> QED BY <3>3, <3>4
  <2>2. ASSUME NEW i \in above PROVE i \in below
    <3>1. i \in 0..N /\ i > 0 /\ CharAt(id, i) = Separator
      BY DEF Marks
    <3>2. i \in 0..(N - 1)
      BY <1>2, <1>5, <3>1
    <3>3. CharAt(child, i) = Separator /\ i \in 0..Len(child)
      BY <1>1, <1>2, <3>1, <3>2
    <3> QED BY <3>1, <3>3 DEF Marks
  <2>3. N \in below
    <3>1. N \in 0..Len(child) /\ N > 0
      BY <1>1, <1>2
    <3> QED BY <1>1, <3>1 DEF Marks
  <2> QED BY <2>1, <2>2, <2>3
<1>7. above \in SUBSET (1..(N - 1))
  <2>1. ASSUME NEW i \in above PROVE i \in 1..(N - 1)
    <3>1. i \in 0..N /\ i > 0 /\ CharAt(id, i) = Separator
      BY DEF Marks
    <3> QED BY <1>2, <1>5, <3>1
  <2> QED BY <2>1
<1> HIDE DEF above, below
<1>8. CASE above = {}
  <2>1. below = {N}
    BY <1>6, <1>8
  <2>2. first(below) = N
    BY <1>2, <2>1
  <2> HIDE DEF first
  <2> QED BY <1>1, <1>3, <1>4, <1>8, <2>1, <2>2 DEF child
<1>9. CASE above # {}
  <2>1. above \in SUBSET Nat
    BY <1>7
  <2>2. \E m \in above : \A j \in above : m <= j
    BY <1>9, <2>1, LeastNatural
  <2>3. PICK m \in above : \A j \in above : m <= j
    BY <2>2
  <2>4. m \in 1..(N - 1) /\ m <= N
    BY <1>2, <1>7, <2>3
  <2>5. first(above) = m
    <3>1. \A i \in above : (\A j \in above : i <= j) => i = m
      <4>1. ASSUME NEW i \in above, \A j \in above : i <= j PROVE i = m
        <5>1. i <= m /\ m <= i /\ i \in Nat /\ m \in Nat
          BY <2>1, <2>3, <4>1
        <5> QED BY <5>1
      <4> QED BY <4>1
    <3> QED BY <2>3, <3>1
  <2>6. first(below) = m
    <3>1. m \in below /\ \A j \in below : m <= j
      BY <1>6, <2>3, <2>4
    <3>2. \A i \in below : (\A j \in below : i <= j) => i = m
      <4>1. ASSUME NEW i \in below, \A j \in below : i <= j PROVE i = m
        <5>1. i <= m /\ m <= i /\ i \in Nat /\ m \in Nat
          BY <1>2, <1>6, <2>1, <3>1, <4>1
        <5> QED BY <5>1
      <4> QED BY <4>1
    <3> QED BY <3>1, <3>2
  <2>7. Prefix(child, m) = Prefix(id, m)
    <3>1. m \in 0..N /\ m \in 0..Len(child)
      BY <1>1, <1>2, <2>4
    <3>2. /\ Prefix(child, m) \in Seq(C) /\ Len(Prefix(child, m)) = m
          /\ \A i \in 1..m : Prefix(child, m)[i] = child[i]
      BY <1>1, <3>1, PrefixProperties
    <3>3. /\ Prefix(id, m) \in Seq(C) /\ Len(Prefix(id, m)) = m
          /\ \A i \in 1..m : Prefix(id, m)[i] = id[i]
      BY <3>1, PrefixProperties
    <3>4. \A i \in 1..m : i \in 1..N
      BY <1>2, <2>4
    <3> QED BY <1>1, <3>2, <3>3, <3>4, SeqEqual
  <2>8. below # {}
    BY <1>6
  <2> HIDE DEF first
  <2> QED BY <1>3, <1>4, <1>9, <2>5, <2>6, <2>7, <2>8 DEF child
<1> QED BY <1>8, <1>9

-----------------------------------------------------------------------------
(* The walk along the ids.                                                  *)

Step(id, stop, up) == IF up THEN GetParentID(id) ELSE GetNextDescendantID(id, stop)

Onward(ids, stop, up) == IF Last(ids) = stop THEN ids
                         ELSE Append(ids, Step(Last(ids), stop, up))

\* All ids on the way are in P.
CanWalk(C, start, stop, up, P) ==
    /\ start \in Seq(C) /\ stop \in Seq(C) /\ start \in P
    /\ up = IsAncestorIDOf(stop, start)
    /\ \A id \in P : id # stop => Step(id, stop, up) \in P

\* f[i] is what traverseParentPath has seen after i turns.
Walk(f, start, stop, up, P) ==
    /\ f \in [0..(Len(start) + Len(stop)) -> Seq(P) \ {<<>>}]
    /\ f[0] = <<start>>
    /\ \A i \in 1..(Len(start) + Len(stop)) : f[i] = Onward(f[i - 1], stop, up)

Cut(v, skipFirst, skipLast) == SubSeq(v, IF skipFirst THEN 2 ELSE 1,
                                         IF skipLast THEN Len(v) - 1 ELSE Len(v))

LEMMA PathWalked ==
    ASSUME NEW C, NEW start, NEW stop, NEW P, NEW up,
           CanWalk(C, start, stop, up, P),
           NEW skipFirst, NEW skipLast
    PROVE  \E f : /\ Walk(f, start, stop, up, P)
                  /\ TraverseParentPath(start, stop, skipFirst, skipLast)
                         = Cut(f[Len(start) + Len(stop)], skipFirst, skipLast)
<1> DEFINE N == Len(start) + Len(stop)
           A == Seq(P) \ {<<>>}
           next == [p \in (1..N) \X A |-> Onward(p[2], stop, up)]
           Fits(f) == f = [turns \in 0..N |->
                              IF turns = 0 THEN <<start>>
                              ELSE Onward(f[turns - 1], stop, up)]
<1>0. /\ start \in Seq(C) /\ stop \in Seq(C) /\ start \in P
      /\ \A id \in P : id # stop => Step(id, stop, up) \in P
  BY DEF CanWalk
<1>1. N \in Nat
  BY <1>0
<1>2. <<start>> \in A
  BY <1>0
<1>3. ASSUME NEW ids \in A
      PROVE  Onward(ids, stop, up) \in A
  <2>1. Len(ids) \in Nat \ {0} /\ Last(ids) \in P
    BY DEF Last
  <2>2. CASE Last(ids) = stop
    BY <2>2 DEF Onward
  <2>3. CASE Last(ids) # stop
    <3>1. Step(Last(ids), stop, up) \in P
      BY <1>0, <2>1, <2>3
    <3> DEFINE x == Step(Last(ids), stop, up)
    <3> HIDE DEF x
    <3>2. Append(ids, x) \in Seq(P) /\ Len(Append(ids, x)) # 0
      BY <2>1, <3>1 DEF x
    <3>3. Append(ids, x) # <<>>
      BY <3>2
    <3> QED BY <2>3, <3>2, <3>3 DEF Onward, x
  <2> QED BY <2>2, <2>3
<1>4. next \in [(1..N) \X A -> A]
  <2> HIDE DEF A, N
  <2> QED BY <1>3
<1>5. PICK g : CountsUp(g, N, A, <<start>>, next)
  <2> HIDE DEF A, N, next
  <2>1. CanCount(N, A, <<start>>, next)
    BY <1>1, <1>2, <1>4 DEF CanCount
  <2> QED BY <2>1, RecursionOnNumbers
<1> HIDE DEF A, N
<1>6. /\ g \in [0..N -> A] /\ g[0] = <<start>>
      /\ \A i \in 1..N : g[i] = Onward(g[i - 1], stop, up)
  <2>1. /\ g \in [0..N -> A] /\ g[0] = <<start>>
        /\ \A i \in 1..N : g[i] = next[<<i, g[i - 1]>>]
    BY <1>5 DEF CountsUp
  <2>2. ASSUME NEW i \in 1..N
        PROVE  next[<<i, g[i - 1]>>] = Onward(g[i - 1], stop, up)
    <3>1. g[i - 1] \in A
      BY <1>1, <2>1
    <3> QED BY <3>1
  <2> QED BY <2>1, <2>2
<1>7. Fits(g)
  <2>1. ASSUME NEW i \in 0..N
        PROVE  g[i] = IF i = 0 THEN <<start>> ELSE Onward(g[i - 1], stop, up)
    <3>1. i = 0 \/ i \in 1..N
      BY <1>1
    <3> QED BY <1>6, <3>1
  <2> QED BY <1>6, <2>1
<1> DEFINE after == CHOOSE f : Fits(f)
<1>8. Fits(after)
  BY <1>7
<1> HIDE DEF after
<1>9. after = g
  <2> DEFINE Same == {i \in 0..N : after[i] = g[i]}
  <2>1. 0 \in Same
    BY <1>1, <1>6, <1>8
  <2>2. ASSUME NEW i \in 0..N, i \in Same, i < N
        PROVE  i + 1 \in Same
    <3>1. i + 1 \in 1..N /\ (i + 1) - 1 = i /\ i + 1 \in 0..N /\ i + 1 # 0
      BY <1>1, <2>2
    <3>2. after[i + 1] = Onward(after[i], stop, up)
      BY <1>8, <3>1
    <3> QED BY <1>6, <2>2, <3>1, <3>2
  <2> HIDE DEF Same
  <2>3. \A i \in 0..N : i \in Same
    <3>1. \A i \in 0..N : i \in Same /\ i < N => i + 1 \in Same
      BY <2>2
    <3> QED BY <1>1, <2>1, <3>1, CountingUp
  <2>4. \A i \in 0..N : after[i] = g[i]
    BY <2>3 DEF Same
  <2>5. DOMAIN after = 0..N /\ after = [i \in 0..N |-> after[i]]
    BY <1>8
  <2> QED BY <1>6, <2>4, <2>5
<1>10. TraverseParentPath(start, stop, skipFirst, skipLast)
           = Cut(after[N], skipFirst, skipLast)
  <2>1. up = IsAncestorIDOf(stop, start)
    BY DEF CanWalk
  <2> QED BY <2>1 DEF TraverseParentPath, Cut, after, Fits, Onward, Step, N
<1> QED BY <1>6, <1>9, <1>10 DEF Walk, A, N

-----------------------------------------------------------------------------
(* What the walk has come through.                                          *)

\* The beginnings of an id.
Beginnings(id) == {Prefix(id, n) : n \in 0..Len(id)}

\* The ids on the way, those nearer to the root first.
DownTo(v, id) ==
    /\ v \in Seq(Beginnings(id)) /\ v # <<>>
    /\ Len(v[1]) = 0
    /\ \A i \in 1..Len(v) : IsBoundary(id, Len(v[i]))
    /\ \A i, j \in 1..Len(v) : i < j => Len(v[i]) < Len(v[j])
    /\ \A b \in 0..Len(Last(v)) :
           IsBoundary(id, b) => \E i \in 1..Len(v) : Len(v[i]) = b

\* The same, from the other end.
UpFrom(v, id) ==
    /\ v \in Seq(Beginnings(id)) /\ v # <<>>
    /\ v[1] = id
    /\ \A i \in 1..Len(v) : IsBoundary(id, Len(v[i]))
    /\ \A i, j \in 1..Len(v) : i < j => Len(v[j]) < Len(v[i])
    /\ \A b \in Len(Last(v))..Len(id) :
           IsBoundary(id, b) => \E i \in 1..Len(v) : Len(v[i]) = b

LEMMA BeginningProperties ==
    ASSUME NEW C, NEW id \in Seq(C), NEW p \in Beginnings(id)
    PROVE  p \in Seq(C) /\ Len(p) \in 0..Len(id) /\ p = Prefix(id, Len(p))
<1>1. PICK n \in 0..Len(id) : p = Prefix(id, n)
  BY DEF Beginnings
<1> QED BY <1>1, PrefixProperties

LEMMA WholePrefix ==
    ASSUME NEW C, NEW id \in Seq(C)
    PROVE  Prefix(id, Len(id)) = id /\ Prefix(id, 0) = <<>>
BY DEF Prefix

\* One more id on the way down.
LEMMA OneDown ==
    ASSUME NEW C, NEW id \in Seq(C), NEW v, DownTo(v, id), Last(v) # id
    PROVE  /\ Step(Last(v), id, FALSE) \in Beginnings(id)
           /\ Len(Last(v)) < Len(Step(Last(v), id, FALSE))
           /\ DownTo(Append(v, Step(Last(v), id, FALSE)), id)
<1> DEFINE n == Len(Last(v))
           K == Len(v)
           L == Len(id)
           P == Beginnings(id)
<1>1. /\ v \in Seq(P) /\ K \in Nat \ {0} /\ Last(v) = v[K] /\ L \in Nat
      /\ \A i \in 1..K : v[i] \in P
  BY DEF DownTo, Last
<1>2. \A i \in 1..K : Len(v[i]) \in 0..L /\ v[i] = Prefix(id, Len(v[i]))
  BY <1>1, BeginningProperties
<1>3. n \in 0..(L - 1) /\ Last(v) = Prefix(id, n)
  <2>1. n \in 0..L /\ Last(v) = Prefix(id, n)
    BY <1>1, <1>2
  <2>2. n # L
    BY <2>1, WholePrefix
  <2> QED BY <1>1, <2>1, <2>2
<1> HIDE DEF n, K, L, P
<1>4. PICK e \in (n + 1)..L :
          /\ IsBoundary(id, e)
          /\ \A j \in (n + 1)..L : IsBoundary(id, j) => e <= j
          /\ GetNextDescendantID(Prefix(id, n), id) = Prefix(id, e)
  BY <1>3, NextCut DEF L
<1> DEFINE x == Prefix(id, e)
           w == Append(v, x)
<1>5. Step(Last(v), id, FALSE) = x
  BY <1>3, <1>4 DEF Step
<1>6. n \in Nat /\ e \in 0..L /\ n < e
  BY <1>1, <1>3, <1>4
<1>7. x \in P /\ Len(x) = e
  BY <1>6, PrefixProperties DEF Beginnings, P, L
<1> HIDE DEF x
<1>8. /\ w \in Seq(P) /\ Len(w) = K + 1 /\ w[K + 1] = x
      /\ \A i \in 1..K : w[i] = v[i]
  BY <1>1, <1>7 DEF K
<1> HIDE DEF w
<1>9. 1..(K + 1) = 1..K \cup {K + 1} /\ 1 \in 1..K /\ K \in 1..K
  BY <1>1
<1>10. w # <<>> /\ Len(w[1]) = 0 /\ Last(w) = x
  <2>1. Len(v[1]) = 0
    BY DEF DownTo
  <2>2. w # <<>>
    BY <1>1, <1>8
  <2> QED BY <1>8, <1>9, <2>1, <2>2 DEF Last
<1>11. \A i \in 1..Len(w) : IsBoundary(id, Len(w[i]))
  <2>1. \A i \in 1..K : IsBoundary(id, Len(v[i]))
    BY DEF DownTo, K
  <2> QED BY <1>4, <1>7, <1>8, <1>9, <2>1
<1>12. ASSUME NEW i \in 1..K
       PROVE  Len(v[i]) <= n
  <2>1. \A j, k \in 1..K : j < k => Len(v[j]) < Len(v[k])
    BY DEF DownTo, K
  <2>2. n = Len(v[K])
    BY <1>1 DEF n
  <2>3. CASE i = K
    BY <1>6, <2>2, <2>3
  <2>4. CASE i # K
    <3>1. i < K
      BY <1>1, <2>4
    <3>2. Len(v[i]) < n
      BY <1>9, <2>1, <2>2, <3>1
    <3> QED BY <1>2, <1>6, <3>2
  <2> QED BY <2>3, <2>4
<1>13. ASSUME NEW i \in 1..Len(w), NEW j \in 1..Len(w), i < j
       PROVE  Len(w[i]) < Len(w[j])
  <2>1. i \in 1..K
    BY <1>1, <1>8, <1>13
  <2>2. CASE j \in 1..K
    <3>1. Len(v[i]) < Len(v[j])
      BY <1>13, <2>1, <2>2 DEF DownTo, K
    <3> QED BY <1>8, <2>1, <2>2, <3>1
  <2>3. CASE j = K + 1
    <3>1. Len(v[i]) <= n /\ Len(v[i]) \in Nat
      BY <1>1, <1>2, <1>12, <2>1
    <3> QED BY <1>6, <1>7, <1>8, <2>1, <2>3, <3>1
  <2> QED BY <1>8, <1>9, <2>2, <2>3
<1>14. ASSUME NEW b \in 0..Len(Last(w)), IsBoundary(id, b)
       PROVE  \E i \in 1..Len(w) : Len(w[i]) = b
  <2>1. b \in 0..e
    BY <1>7, <1>10
  <2>2. CASE b <= n
    <3>1. b \in 0..n
      BY <1>6, <2>1, <2>2
    <3>2. PICK i \in 1..K : Len(v[i]) = b
      BY <1>14, <3>1 DEF DownTo, n, K
    <3> QED BY <1>8, <1>9, <3>2
  <2>3. CASE ~(b <= n)
    <3>1. b = e
      BY <1>1, <1>4, <1>6, <1>14, <2>1, <2>3
    <3> QED BY <1>7, <1>8, <1>9, <3>1
  <2> QED BY <2>2, <2>3
<1>15. DownTo(w, id)
  BY <1>8, <1>10, <1>11, <1>13, <1>14 DEF DownTo, P
<1> QED BY <1>5, <1>6, <1>7, <1>15 DEF n, w, P

\* One more id on the way up.
LEMMA OneUp ==
    ASSUME NEW C, NEW id \in Seq(C), CharAt(id, 0) = Separator,
           NEW v, UpFrom(v, id), Last(v) # <<>>
    PROVE  /\ Step(Last(v), <<>>, TRUE) \in Beginnings(id)
           /\ Len(Step(Last(v), <<>>, TRUE)) < Len(Last(v))
           /\ UpFrom(Append(v, Step(Last(v), <<>>, TRUE)), id)
<1> DEFINE n == Len(Last(v))
           K == Len(v)
           L == Len(id)
           P == Beginnings(id)
<1>1. /\ v \in Seq(P) /\ K \in Nat \ {0} /\ Last(v) = v[K] /\ L \in Nat
      /\ \A i \in 1..K : v[i] \in P
  BY DEF UpFrom, Last
<1>2. \A i \in 1..K : Len(v[i]) \in 0..L /\ v[i] = Prefix(id, Len(v[i]))
  BY <1>1, BeginningProperties
<1>3. n \in 1..L /\ Last(v) = Prefix(id, n)
  <2>1. n \in 0..L /\ Last(v) = Prefix(id, n)
    BY <1>1, <1>2
  <2>2. n # 0
    BY <2>1, WholePrefix
  <2> QED BY <1>1, <2>1, <2>2
<1> HIDE DEF n, K, L, P
<1> DEFINE q == Prefix(id, n)
<1>0. n \in Nat /\ n <= L /\ n \in 0..L /\ n # 0
  BY <1>1, <1>3
<1>4. /\ q \in Seq(C) /\ Len(q) = n
      /\ \A i \in 1..n : q[i] = id[i]
  BY <1>0, PrefixProperties DEF L
<1>40. /\ \A i \in Nat : i < n => CharAt(q, i) = CharAt(id, i)
       /\ CharAt(q, n) # Separator
  <2>1. \A i \in Nat : CharAt(q, i) = IF i < n THEN CharAt(id, i) ELSE ""
    BY <1>0, PrefixProperties DEF L
  <2>2. ~(n < n)
    BY <1>0
  <2> QED BY <1>0, <2>1, <2>2 DEF Separator
<1> HIDE DEF q
<1>5. 0 \in Marks(q)
  BY <1>0, <1>3, <1>4, <1>40 DEF Marks
<1>6. PICK e \in Marks(q) : /\ \A j \in Marks(q) : j <= e
                            /\ GetParentID(q) = Prefix(q, e)
  BY <1>0, <1>4, <1>40, <1>5, ParentCut
<1>7. e \in 0..L /\ e < n /\ e \in Nat /\ CharAt(id, e) = Separator
  BY <1>0, <1>1, <1>4, <1>40, <1>6 DEF Marks
<1>8. \A j \in 0..(n - 1) : IsBoundary(id, j) => j <= e
  <2> SUFFICES ASSUME NEW j \in 0..(n - 1), IsBoundary(id, j)
               PROVE  j <= e
    OBVIOUS
  <2>1. j \in Nat /\ j < n /\ j # L
    BY <1>0, <1>1
  <2>2. CharAt(id, j) = Separator
    BY <2>1 DEF IsBoundary, L
  <2>3. j \in Marks(q)
    BY <1>0, <1>4, <1>40, <2>1, <2>2 DEF Marks
  <2> QED BY <1>6, <2>3
<1> DEFINE x == Prefix(id, e)
           w == Append(v, x)
<1>9. x \in P /\ Len(x) = e
  BY <1>7, PrefixProperties DEF Beginnings, P, L
<1>10. Prefix(q, e) = x
  <2>1. /\ Prefix(q, e) \in Seq(C) /\ Len(Prefix(q, e)) = e
        /\ \A i \in 1..e : Prefix(q, e)[i] = q[i]
    <3>1. e \in 0..Len(q)
      BY <1>0, <1>4, <1>7
    <3> QED BY <1>0, <1>4, <3>1, PrefixProperties
  <2>2. /\ x \in Seq(C)
        /\ \A i \in 1..e : x[i] = id[i]
    BY <1>7, PrefixProperties DEF L
  <2>3. \A i \in 1..n : q[i] = id[i]
    BY <1>4
  <2>4. \A i \in 1..e : Prefix(q, e)[i] = x[i]
    <3>1. \A i \in 1..e : i \in 1..n
      BY <1>0, <1>7
    <3> QED BY <2>1, <2>2, <2>3, <3>1
  <2> HIDE DEF x
  <2> QED BY <1>9, <2>1, <2>2, <2>4, SeqEqual
<1>11. Step(Last(v), <<>>, TRUE) = x
  BY <1>3, <1>6, <1>10 DEF Step, q
<1> HIDE DEF x
<1>12. /\ w \in Seq(P) /\ Len(w) = K + 1 /\ w[K + 1] = x
       /\ \A i \in 1..K : w[i] = v[i]
  BY <1>1, <1>9 DEF K
<1> HIDE DEF w
<1>13. 1..(K + 1) = 1..K \cup {K + 1} /\ 1 \in 1..K /\ K \in 1..K
  BY <1>1
<1>14. w # <<>> /\ w[1] = id /\ Last(w) = x
  <2>1. v[1] = id
    BY DEF UpFrom
  <2>2. w # <<>>
    BY <1>1, <1>12
  <2> QED BY <1>12, <1>13, <2>1, <2>2 DEF Last
<1>15. \A i \in 1..Len(w) : IsBoundary(id, Len(w[i]))
  <2>1. \A i \in 1..K : IsBoundary(id, Len(v[i]))
    BY DEF UpFrom, K
  <2>2. IsBoundary(id, e)
    BY <1>7 DEF IsBoundary
  <2> QED BY <1>9, <1>12, <1>13, <2>1, <2>2
<1>16. ASSUME NEW i \in 1..K
       PROVE  n <= Len(v[i])
  <2>1. \A j, k \in 1..K : j < k => Len(v[k]) < Len(v[j])
    BY DEF UpFrom, K
  <2>2. n = Len(v[K])
    BY <1>1 DEF n
  <2>3. CASE i = K
    BY <1>0, <2>2, <2>3
  <2>4. CASE i # K
    <3>1. i < K
      BY <1>1, <2>4
    <3>2. n < Len(v[i])
      BY <1>13, <2>1, <2>2, <3>1
    <3> QED BY <1>0, <1>2, <3>2
  <2> QED BY <2>3, <2>4
<1>17. ASSUME NEW i \in 1..Len(w), NEW j \in 1..Len(w), i < j
       PROVE  Len(w[j]) < Len(w[i])
  <2>1. i \in 1..K
    BY <1>1, <1>12, <1>17
  <2>2. CASE j \in 1..K
    <3>1. Len(v[j]) < Len(v[i])
      BY <1>17, <2>1, <2>2 DEF UpFrom, K
    <3> QED BY <1>12, <2>1, <2>2, <3>1
  <2>3. CASE j = K + 1
    <3>1. n <= Len(v[i]) /\ Len(v[i]) \in Nat
      BY <1>0, <1>1, <1>2, <1>16, <2>1
    <3> QED BY <1>0, <1>7, <1>9, <1>12, <2>1, <2>3, <3>1
  <2> QED BY <1>12, <1>13, <2>2, <2>3
<1>18. ASSUME NEW b \in Len(Last(w))..L, IsBoundary(id, b)
       PROVE  \E i \in 1..Len(w) : Len(w[i]) = b
  <2>1. b \in e..L
    BY <1>9, <1>14
  <2>2. CASE n <= b
    <3>1. b \in n..L
      BY <1>0, <1>7, <2>1, <2>2
    <3>2. PICK i \in 1..K : Len(v[i]) = b
      BY <1>18, <3>1 DEF UpFrom, n, K, L
    <3> QED BY <1>12, <1>13, <3>2
  <2>3. CASE ~(n <= b)
    <3>1. b \in 0..(n - 1)
      BY <1>0, <1>7, <2>1, <2>3
    <3>2. b = e
      BY <1>7, <1>8, <1>18, <2>1, <3>1
    <3> QED BY <1>9, <1>12, <1>13, <3>2
  <2> QED BY <2>2, <2>3
<1>19. UpFrom(w, id)
  BY <1>12, <1>14, <1>15, <1>17, <1>18 DEF UpFrom, P, L
<1> QED BY <1>0, <1>7, <1>9, <1>11, <1>19 DEF n, w, P

LEMMA BeginningsStay ==
    ASSUME NEW C, NEW id \in Seq(C), CharAt(id, 0) = Separator, NEW p \in Beginnings(id)
    PROVE  /\ p # id => Step(p, id, FALSE) \in Beginnings(id)
           /\ p # <<>> => Step(p, <<>>, TRUE) \in Beginnings(id)
<1>1. /\ Len(p) \in 0..Len(id) /\ p = Prefix(id, Len(p)) /\ Len(id) \in Nat
  BY BeginningProperties
<1>2. ASSUME p # id
      PROVE  Step(p, id, FALSE) \in Beginnings(id)
  <2>1. Len(p) # Len(id)
    BY <1>1, <1>2, WholePrefix
  <2>2. Len(p) \in 0..(Len(id) - 1)
    BY <1>1, <2>1
  <2> DEFINE n == Len(p)
  <2> HIDE DEF n
  <2>3. PICK e \in (n + 1)..Len(id) :
            GetNextDescendantID(Prefix(id, n), id) = Prefix(id, e)
    BY <2>2, NextCut DEF n
  <2>4. e \in 0..Len(id)
    BY <2>2 DEF n
  <2> QED BY <1>1, <2>3, <2>4 DEF Step, Beginnings, n
<1>3. ASSUME p # <<>>
      PROVE  Step(p, <<>>, TRUE) \in Beginnings(id)
  <2> DEFINE n == Len(p)
  <2>0. p \in Seq(C) /\ n \in Nat /\ n # 0 /\ n \in 0..Len(id)
    BY <1>1, <1>3, BeginningProperties
  <2>1. \A i \in 1..n : p[i] = id[i]
    BY <1>1, <2>0, PrefixProperties
  <2> HIDE DEF n
  <2>2. CharAt(p, 0) = Separator
    <3>0. 0 < Len(id) /\ 0 < Len(p) /\ 1 \in 1..n
      BY <1>1, <2>0 DEF n
    <3>1. CharAt(id, 0) = id[1] /\ CharAt(p, 0) = p[1] /\ 1 \in 1..n
      BY <3>0 DEF CharAt
    <3> QED BY <2>1, <3>1
  <2>3. 0 \in Marks(p)
    BY <2>0, <2>2 DEF Marks
  <2>4. PICK e \in Marks(p) : GetParentID(p) = Prefix(p, e)
    BY <2>0, <2>3, ParentCut
  <2>5. e \in 0..n
    BY DEF Marks, n
  <2>6. Prefix(p, e) = Prefix(id, e)
    <3>1. /\ Prefix(p, e) \in Seq(C) /\ Len(Prefix(p, e)) = e
          /\ \A i \in 1..e : Prefix(p, e)[i] = p[i]
      BY <2>0, <2>5, PrefixProperties DEF n
    <3>2. e \in 0..Len(id) /\ \A i \in 1..e : i \in 1..n
      BY <2>0, <2>5
    <3>3. /\ Prefix(id, e) \in Seq(C) /\ Len(Prefix(id, e)) = e
          /\ \A i \in 1..e : Prefix(id, e)[i] = id[i]
      BY <3>2, PrefixProperties
    <3>4. \A i \in 1..e : Prefix(p, e)[i] = Prefix(id, e)[i]
      BY <2>1, <3>1, <3>2, <3>3
    <3> QED BY <3>1, <3>3, <3>4, SeqEqual
  <2>7. e \in 0..Len(id)
    BY <2>0, <2>5
  <2> QED BY <2>4, <2>6, <2>7 DEF Step, Beginnings
<1> QED BY <1>2, <1>3

\* The ancestors of an id are its beginnings up to a boundary.
LEMMA AncestorsAreBeginnings ==
    ASSUME NEW C, NEW id \in Seq(C), NEW a \in Seq(C)
    PROVE  IsAncestorIDOf(a, id)
               <=> a \in Beginnings(id) /\ IsBoundary(id, Len(a))
<1>1. ASSUME IsAncestorIDOf(a, id)
      PROVE  a \in Beginnings(id) /\ IsBoundary(id, Len(a))
  <2>1. Len(a) \in 0..Len(id) /\ a = Prefix(id, Len(a))
    BY <1>1, PrefixOfLength DEF IsAncestorIDOf
  <2> QED BY <1>1, <2>1 DEF IsAncestorIDOf, Beginnings
<1>2. ASSUME a \in Beginnings(id), IsBoundary(id, Len(a))
      PROVE  IsAncestorIDOf(a, id)
  <2>1. Len(a) \in 0..Len(id) /\ a = Prefix(id, Len(a))
    BY <1>2, BeginningProperties
  <2>2. IsPrefix(a, id)
    BY <2>1, PrefixIsPrefix
  <2> QED BY <1>2, <2>2 DEF IsAncestorIDOf
<1> QED BY <1>1, <1>2

\* traverseTwoPhase: an event is captured by the target and every ancestor of
\* it, by no other node, from the root down and by each once.
THEOREM EventsGoDown ==
    ASSUME NEW C, NEW target \in Seq(C), CharAt(target, 0) = Separator
    PROVE  LET path == TraverseTwoPhase(target).captured
           IN  /\ \A a \in Seq(C) : Contains(path, a)
                                        <=> a # <<>> /\ IsAncestorIDOf(a, target)
               /\ \A i, j \in 1..Len(path) : i < j => Len(path[i]) < Len(path[j])
<1> DEFINE L == Len(target)
           P == Beginnings(target)
           path == TraverseParentPath(<<>>, target, TRUE, FALSE)
<1>1. L \in Nat \ {0} /\ <<>> \in Seq(C) /\ Len(<<>>) = 0
  <2>1. L # 0
    BY DEF CharAt, Separator
  <2> QED BY <2>1
<1>2. IsAncestorIDOf(target, <<>>) = FALSE
  BY <1>1 DEF IsAncestorIDOf, IsPrefix
<1>3. <<>> \in P
  <2>1. 0 \in 0..L
    BY <1>1
  <2> QED BY <2>1, WholePrefix DEF Beginnings
<1>4. \A id \in P : id # target => Step(id, target, FALSE) \in P
  BY BeginningsStay
<1> HIDE DEF P
<1>50. CanWalk(C, <<>>, target, FALSE, P)
  BY <1>1, <1>2, <1>3, <1>4 DEF CanWalk
<1>5. PICK f : /\ Walk(f, <<>>, target, FALSE, P)
               /\ path = Cut(f[Len(<<>>) + Len(target)], TRUE, FALSE)
  <2> DEFINE from == <<>>
             to == target
             up == FALSE
             skipFirst == TRUE
             skipLast == FALSE
  <2>1. CanWalk(C, from, to, up, P)
    BY <1>50
  <2> HIDE DEF from, to, up, skipFirst, skipLast, path
  <2>2. \E f : /\ Walk(f, from, to, up, P)
               /\ TraverseParentPath(from, to, skipFirst, skipLast)
                      = Cut(f[Len(from) + Len(to)], skipFirst, skipLast)
    BY <2>1, PathWalked
  <2> QED BY <2>2 DEF path, from, to, up, skipFirst, skipLast
<1> HIDE DEF path
<1>51. Len(<<>>) + Len(target) = L
  BY <1>1
<1>6. /\ f \in [0..L -> Seq(P) \ {<<>>}]
      /\ f[0] = << <<>> >>
      /\ \A i \in 1..L : f[i] = Onward(f[i - 1], target, FALSE)
  BY <1>5, <1>51 DEF Walk
<1>7. path = SubSeq(f[L], 2, Len(f[L]))
  BY <1>5, <1>51 DEF Cut
<1> HIDE DEF L
<1> DEFINE Good == {t \in 0..L : /\ DownTo(f[t], target)
                                 /\ Last(f[t]) = target \/ t <= Len(Last(f[t]))}
<1>8. 0 \in Good
  <2> DEFINE v == << <<>> >>
  <2>1. v \in Seq(P) /\ v # <<>> /\ Len(v) = 1 /\ v[1] = <<>> /\ Last(v) = <<>>
    BY <1>3 DEF Last
  <2>2. IsBoundary(target, 0)
    BY DEF IsBoundary
  <2> HIDE DEF v
  <2>3. DownTo(v, target)
    BY <1>1, <2>1, <2>2 DEF DownTo, P
  <2>4. f[0] = v
    BY <1>6 DEF v
  <2>5. 0 \in 0..L /\ DownTo(f[0], target) /\ 0 <= Len(Last(f[0]))
    BY <1>1, <2>1, <2>3, <2>4
  <2> QED BY <2>5
<1>9. ASSUME NEW t \in 0..L, t \in Good, t < L
      PROVE  t + 1 \in Good
  <2>1. t + 1 \in 1..L /\ (t + 1) - 1 = t /\ t + 1 \in 0..L /\ t \in Nat
    BY <1>1, <1>9
  <2>2. f[t + 1] = Onward(f[t], target, FALSE)
    BY <1>6, <2>1
  <2> DEFINE v == f[t]
  <2>3. DownTo(v, target) /\ (Last(v) = target \/ t <= Len(Last(v)))
    BY <1>9
  <2> HIDE DEF v
  <2>4. CASE Last(v) = target
    <3>1. f[t + 1] = v
      BY <2>2, <2>4 DEF Onward, v
    <3> QED BY <2>1, <2>3, <2>4, <3>1
  <2>5. CASE Last(v) # target
    <3> DEFINE x == Step(Last(v), target, FALSE)
    <3>1. /\ x \in Beginnings(target)
          /\ Len(Last(v)) < Len(x)
          /\ DownTo(Append(v, x), target)
      BY <2>3, <2>5, OneDown
    <3>2. f[t + 1] = Append(v, x)
      BY <2>2, <2>5 DEF Onward, v
    <3> HIDE DEF x
    <3>3. Last(Append(v, x)) = x
      <4>1. v \in Seq(Beginnings(target))
        BY <2>3 DEF DownTo
      <4> QED BY <3>1, <4>1 DEF Last
    <3>4. Len(Last(v)) \in Nat /\ Len(x) \in Nat
      <4>1. v \in Seq(Beginnings(target)) /\ v # <<>>
        BY <2>3 DEF DownTo
      <4>2. Last(v) \in Beginnings(target)
        BY <4>1 DEF Last
      <4> QED BY <3>1, <4>2, BeginningProperties
    <3>5. t + 1 <= Len(x)
      BY <2>1, <2>3, <2>5, <3>1, <3>4
    <3> QED BY <2>1, <3>1, <3>2, <3>3, <3>5
  <2> QED BY <2>4, <2>5
<1>10. L \in Good
  <2> HIDE DEF Good
  <2>1. \A t \in 0..L : t \in Good /\ t < L => t + 1 \in Good
    BY <1>9
  <2>2. \A t \in 0..L : t \in Good
    BY <1>1, <1>8, <2>1, CountingUp
  <2> QED BY <1>1, <2>2
<1> DEFINE v == f[L]
           K == Len(v)
<1>11. /\ DownTo(v, target)
       /\ Last(v) = target \/ L <= Len(Last(v))
  BY <1>10
<1> HIDE DEF v
<1>12. /\ v \in Seq(Beginnings(target)) /\ K \in Nat \ {0}
       /\ Last(v) = v[K]
       /\ \A i \in 1..K : v[i] \in Beginnings(target)
  BY <1>11 DEF DownTo, Last
<1>13. \A i \in 1..K : /\ v[i] \in Seq(C) /\ Len(v[i]) \in 0..L
                       /\ v[i] = Prefix(target, Len(v[i]))
  BY <1>12, BeginningProperties DEF L
<1> HIDE DEF K
<1>14. Last(v) = target
  <2>1. Len(v[K]) \in 0..L /\ v[K] = Prefix(target, Len(v[K]))
    BY <1>12, <1>13
  <2>2. Len(v[K]) = L \/ v[K] = target
    BY <1>1, <1>11, <1>12, <2>1
  <2> QED BY <1>12, <2>1, <2>2, WholePrefix DEF L
<1>15. /\ Len(v[1]) = 0
       /\ \A i \in 1..K : IsBoundary(target, Len(v[i]))
       /\ \A i, j \in 1..K : i < j => Len(v[i]) < Len(v[j])
       /\ \A b \in 0..L : IsBoundary(target, b) => \E i \in 1..K : Len(v[i]) = b
  BY <1>11, <1>14 DEF DownTo, K, L
<1>16. K \in Nat /\ 2 <= K
  <2>1. K # 1
    BY <1>1, <1>12, <1>14, <1>15 DEF L
  <2> QED BY <1>12, <2>1
<1>17. /\ path \in Seq(Beginnings(target)) /\ Len(path) = K - 1
       /\ \A i \in 1..(K - 1) : path[i] = v[i + 1]
  <2>1. path = SubSeq(v, 2, K)
    BY <1>7 DEF v, K
  <2>2. /\ SubSeq(v, 2, K) \in Seq(Beginnings(target))
        /\ Len(SubSeq(v, 2, K)) = K - 1
        /\ \A i \in 1..(K - 1) : SubSeq(v, 2, K)[i] = v[i + 1]
    BY <1>12, <1>16 DEF K
  <2> QED BY <2>1, <2>2
<1>18. ASSUME NEW a \in Seq(C), Contains(path, a)
       PROVE  a # <<>> /\ IsAncestorIDOf(a, target)
  <2>1. PICK i \in 1..(K - 1) : v[i + 1] = a
    BY <1>17, <1>18 DEF Contains
  <2>2. i + 1 \in 1..K /\ 1 < i + 1 /\ 1 \in 1..K
    BY <1>16
  <2>3. Len(v[1]) < Len(a)
    BY <1>15, <2>1, <2>2
  <2>4. a # <<>>
    BY <1>15, <2>3
  <2>5. a \in Beginnings(target) /\ IsBoundary(target, Len(a))
    BY <1>12, <1>15, <2>1, <2>2
  <2> QED BY <2>4, <2>5, AncestorsAreBeginnings
<1>19. ASSUME NEW a \in Seq(C), a # <<>>, IsAncestorIDOf(a, target)
       PROVE  Contains(path, a)
  <2>1. a \in Beginnings(target) /\ IsBoundary(target, Len(a))
    BY <1>19, AncestorsAreBeginnings
  <2>2. Len(a) \in 0..L /\ a = Prefix(target, Len(a)) /\ Len(a) # 0
    BY <1>19, <2>1, BeginningProperties DEF L
  <2>3. PICK i \in 1..K : Len(v[i]) = Len(a)
    BY <1>15, <2>1, <2>2
  <2>4. v[i] = a /\ i # 1
    BY <1>13, <1>15, <2>2, <2>3
  <2>5. i - 1 \in 1..(K - 1) /\ (i - 1) + 1 = i
    BY <1>16, <2>4
  <2>6. path[i - 1] = a
    BY <1>17, <2>4, <2>5
  <2> QED BY <1>17, <2>5, <2>6 DEF Contains
<1>20. ASSUME NEW i \in 1..Len(path), NEW j \in 1..Len(path), i < j
       PROVE  Len(path[i]) < Len(path[j])
  <2>1. i + 1 \in 1..K /\ j + 1 \in 1..K /\ i + 1 < j + 1
    BY <1>16, <1>17, <1>20
  <2>2. Len(v[i + 1]) < Len(v[j + 1])
    BY <1>15, <2>1
  <2> QED BY <1>17, <1>20, <2>2
<1>21. TraverseTwoPhase(target).captured = path
  BY DEF TraverseTwoPhase, path
<1> QED BY <1>18, <1>19, <1>20, <1>21

\* traverseTwoPhase: it bubbles through the same ids, from the target up.
THEOREM EventsBubbleUp ==
    ASSUME NEW C, NEW target \in Seq(C), CharAt(target, 0) = Separator
    PROVE  LET path == TraverseTwoPhase(target).bubbled
           IN  /\ \A a \in Seq(C) : Contains(path, a)
                                        <=> a # <<>> /\ IsAncestorIDOf(a, target)
               /\ \A i, j \in 1..Len(path) : i < j => Len(path[j]) < Len(path[i])
<1> DEFINE L == Len(target)
           P == Beginnings(target)
           path == TraverseParentPath(target, <<>>, FALSE, TRUE)
<1>1. L \in Nat \ {0} /\ <<>> \in Seq(C) /\ Len(<<>>) = 0
  <2>1. L # 0
    BY DEF CharAt, Separator
  <2> QED BY <2>1
<1>2. IsAncestorIDOf(<<>>, target) = TRUE
  <2>1. IsPrefix(<<>>, target)
    BY DEF IsPrefix
  <2>2. IsBoundary(target, 0)
    BY DEF IsBoundary
  <2> QED BY <1>1, <2>1, <2>2 DEF IsAncestorIDOf
<1>3. target \in P
  <2>1. L \in 0..L
    BY <1>1
  <2> QED BY <2>1, WholePrefix DEF Beginnings
<1>4. \A id \in P : id # <<>> => Step(id, <<>>, TRUE) \in P
  BY BeginningsStay
<1> HIDE DEF P
<1>50. CanWalk(C, target, <<>>, TRUE, P)
  BY <1>1, <1>2, <1>3, <1>4 DEF CanWalk
<1>5. PICK f : /\ Walk(f, target, <<>>, TRUE, P)
               /\ path = Cut(f[Len(target) + Len(<<>>)], FALSE, TRUE)
  <2> DEFINE from == target
             to == <<>>
             up == TRUE
             skipFirst == FALSE
             skipLast == TRUE
  <2>1. CanWalk(C, from, to, up, P)
    BY <1>50
  <2> HIDE DEF from, to, up, skipFirst, skipLast, path
  <2>2. \E f : /\ Walk(f, from, to, up, P)
               /\ TraverseParentPath(from, to, skipFirst, skipLast)
                      = Cut(f[Len(from) + Len(to)], skipFirst, skipLast)
    BY <2>1, PathWalked
  <2> QED BY <2>2 DEF path, from, to, up, skipFirst, skipLast
<1> HIDE DEF path
<1>51. Len(target) + Len(<<>>) = L
  BY <1>1
<1>6. /\ f \in [0..L -> Seq(P) \ {<<>>}]
      /\ f[0] = <<target>>
      /\ \A i \in 1..L : f[i] = Onward(f[i - 1], <<>>, TRUE)
  BY <1>5, <1>51 DEF Walk
<1>7. path = SubSeq(f[L], 1, Len(f[L]) - 1)
  BY <1>5, <1>51 DEF Cut
<1> HIDE DEF L
<1> DEFINE Good == {t \in 0..L : /\ UpFrom(f[t], target)
                                 /\ Last(f[t]) = <<>> \/ t + Len(Last(f[t])) <= L}
<1>8. 0 \in Good
  <2> DEFINE v == <<target>>
  <2>1. v \in Seq(P) /\ v # <<>> /\ Len(v) = 1 /\ v[1] = target /\ Last(v) = target
    BY <1>3 DEF Last
  <2>2. IsBoundary(target, Len(target))
    BY DEF IsBoundary
  <2> HIDE DEF v
  <2>3. UpFrom(v, target)
    BY <1>1, <2>1, <2>2 DEF UpFrom, P, L
  <2> QED BY <1>1, <1>6, <2>1, <2>3 DEF v, L
<1>9. ASSUME NEW t \in 0..L, t \in Good, t < L
      PROVE  t + 1 \in Good
  <2>1. t + 1 \in 1..L /\ (t + 1) - 1 = t /\ t + 1 \in 0..L /\ t \in Nat /\ L \in Nat
    BY <1>1, <1>9
  <2>2. f[t + 1] = Onward(f[t], <<>>, TRUE)
    BY <1>6, <2>1
  <2> DEFINE v == f[t]
  <2>3. UpFrom(v, target) /\ (Last(v) = <<>> \/ t + Len(Last(v)) <= L)
    BY <1>9
  <2> HIDE DEF v
  <2>4. CASE Last(v) = <<>>
    <3>1. f[t + 1] = v
      BY <2>2, <2>4 DEF Onward, v
    <3> QED BY <2>1, <2>3, <2>4, <3>1
  <2>5. CASE Last(v) # <<>>
    <3> DEFINE x == Step(Last(v), <<>>, TRUE)
    <3>1. /\ x \in Beginnings(target)
          /\ Len(x) < Len(Last(v))
          /\ UpFrom(Append(v, x), target)
      BY <2>3, <2>5, OneUp
    <3>2. f[t + 1] = Append(v, x)
      BY <2>2, <2>5 DEF Onward, v
    <3> HIDE DEF x
    <3>3. Last(Append(v, x)) = x
      <4>1. v \in Seq(Beginnings(target))
        BY <2>3 DEF UpFrom
      <4> QED BY <3>1, <4>1 DEF Last
    <3>4. Len(Last(v)) \in Nat /\ Len(x) \in Nat
      <4>1. v \in Seq(Beginnings(target)) /\ v # <<>>
        BY <2>3 DEF UpFrom
      <4>2. Last(v) \in Beginnings(target)
        BY <4>1 DEF Last
      <4> QED BY <3>1, <4>2, BeginningProperties
    <3>5. (t + 1) + Len(x) <= L
      BY <2>1, <2>3, <2>5, <3>1, <3>4
    <3> QED BY <2>1, <3>1, <3>2, <3>3, <3>5
  <2> QED BY <2>4, <2>5
<1>10. L \in Good
  <2> HIDE DEF Good
  <2>1. \A t \in 0..L : t \in Good /\ t < L => t + 1 \in Good
    BY <1>9
  <2>2. \A t \in 0..L : t \in Good
    BY <1>1, <1>8, <2>1, CountingUp
  <2> QED BY <1>1, <2>2
<1> DEFINE v == f[L]
           K == Len(v)
<1>11. /\ UpFrom(v, target)
       /\ Last(v) = <<>> \/ L + Len(Last(v)) <= L
  BY <1>10
<1> HIDE DEF v
<1>12. /\ v \in Seq(Beginnings(target)) /\ K \in Nat \ {0}
       /\ Last(v) = v[K]
       /\ \A i \in 1..K : v[i] \in Beginnings(target)
  BY <1>11 DEF UpFrom, Last
<1>13. \A i \in 1..K : /\ v[i] \in Seq(C) /\ Len(v[i]) \in 0..L
                       /\ v[i] = Prefix(target, Len(v[i]))
  BY <1>12, BeginningProperties DEF L
<1> HIDE DEF K
<1>14. Last(v) = <<>> /\ Len(v[K]) = 0
  <2>1. Len(v[K]) \in 0..L /\ v[K] = Prefix(target, Len(v[K]))
    BY <1>12, <1>13
  <2>2. Len(v[K]) = 0 \/ v[K] = <<>>
    BY <1>1, <1>11, <1>12, <2>1
  <2> QED BY <1>1, <1>12, <2>1, <2>2, WholePrefix
<1>15. /\ v[1] = target
       /\ \A i \in 1..K : IsBoundary(target, Len(v[i]))
       /\ \A i, j \in 1..K : i < j => Len(v[j]) < Len(v[i])
       /\ \A b \in 0..L : IsBoundary(target, b) => \E i \in 1..K : Len(v[i]) = b
  BY <1>1, <1>11, <1>14 DEF UpFrom, K, L
<1>16. K \in Nat /\ 2 <= K
  <2>1. K # 1
    BY <1>1, <1>14, <1>15 DEF L
  <2> QED BY <1>12, <2>1
<1>17. /\ path \in Seq(Beginnings(target)) /\ Len(path) = K - 1
       /\ \A i \in 1..(K - 1) : path[i] = v[i]
  <2>1. path = SubSeq(v, 1, K - 1)
    BY <1>7 DEF v, K
  <2>2. /\ SubSeq(v, 1, K - 1) \in Seq(Beginnings(target))
        /\ Len(SubSeq(v, 1, K - 1)) = K - 1
        /\ \A i \in 1..(K - 1) : SubSeq(v, 1, K - 1)[i] = v[i]
    BY <1>12, <1>16 DEF K
  <2> QED BY <2>1, <2>2
<1>18. ASSUME NEW a \in Seq(C), Contains(path, a)
       PROVE  a # <<>> /\ IsAncestorIDOf(a, target)
  <2>1. PICK i \in 1..(K - 1) : v[i] = a
    BY <1>17, <1>18 DEF Contains
  <2>2. i \in 1..K /\ i < K /\ K \in 1..K
    BY <1>16
  <2>3. Len(v[K]) < Len(a)
    BY <1>15, <2>1, <2>2
  <2>4. a # <<>>
    BY <1>14, <2>3
  <2>5. a \in Beginnings(target) /\ IsBoundary(target, Len(a))
    BY <1>12, <1>15, <2>1, <2>2
  <2> QED BY <2>4, <2>5, AncestorsAreBeginnings
<1>19. ASSUME NEW a \in Seq(C), a # <<>>, IsAncestorIDOf(a, target)
       PROVE  Contains(path, a)
  <2>1. a \in Beginnings(target) /\ IsBoundary(target, Len(a))
    BY <1>19, AncestorsAreBeginnings
  <2>2. Len(a) \in 0..L /\ a = Prefix(target, Len(a)) /\ Len(a) # 0
    BY <1>19, <2>1, BeginningProperties DEF L
  <2>3. PICK i \in 1..K : Len(v[i]) = Len(a)
    BY <1>15, <2>1, <2>2
  <2>4. v[i] = a /\ i # K
    BY <1>13, <1>14, <2>2, <2>3
  <2>5. i \in 1..(K - 1)
    BY <1>16, <2>4
  <2>6. path[i] = a
    BY <1>17, <2>4, <2>5
  <2> QED BY <1>17, <2>5, <2>6 DEF Contains
<1>20. ASSUME NEW i \in 1..Len(path), NEW j \in 1..Len(path), i < j
       PROVE  Len(path[j]) < Len(path[i])
  <2>1. i \in 1..K /\ j \in 1..K
    BY <1>16, <1>17, <1>20
  <2>2. Len(v[j]) < Len(v[i])
    BY <1>15, <1>20, <2>1
  <2> QED BY <1>17, <1>20, <2>2
<1>21. TraverseTwoPhase(target).bubbled = path
  BY DEF TraverseTwoPhase, path
<1> QED BY <1>18, <1>19, <1>20, <1>21

-----------------------------------------------------------------------------
(* Escaping keys.                                                           *)

\* What becomes of one character of a key.
Escaped(c) == CASE c = "=" -> <<"=", "0">>
                [] c = "." -> <<"=", "1">>
                [] c = ":" -> <<"=", "2">>
                [] OTHER -> <<c>>

EscapeChars == {"=", "0", "1", "2"}

LEMMA EscapedProperties ==
    ASSUME NEW C, EscapeChars \subseteq C, NEW c \in C
    PROVE  /\ Escaped(c) \in Seq(C)
           /\ Len(Escaped(c)) \in 1..2
           /\ Len(Escaped(c)) = 2 <=> Escaped(c)[1] = "="
           /\ \A i \in 1..Len(Escaped(c)) : Escaped(c)[i] # Separator
<1>1. CASE c = "="
  <2>1. Escaped(c) = <<"=", "0">>
    BY <1>1 DEF Escaped
  <2> QED BY <2>1 DEF Separator, EscapeChars
<1>2. CASE c = "."
  <2>1. Escaped(c) = <<"=", "1">>
    BY <1>2 DEF Escaped
  <2> QED BY <2>1 DEF Separator, EscapeChars
<1>3. CASE c = ":"
  <2>1. Escaped(c) = <<"=", "2">>
    BY <1>3 DEF Escaped
  <2> QED BY <2>1 DEF Separator, EscapeChars
<1>4. CASE c \notin {"=", ".", ":"}
  <2>1. Escaped(c) = <<c>>
    BY <1>4 DEF Escaped
  <2> QED BY <1>4, <2>1 DEF Separator
<1> QED BY <1>1, <1>2, <1>3, <1>4

LEMMA EscapedInjective ==
    ASSUME NEW c, NEW d, Escaped(c) = Escaped(d)
    PROVE  c = d
<1> DEFINE Marked == {"=", ".", ":"}
<1>1. /\ c = "=" => Escaped(c) = <<"=", "0">>
      /\ c = "." => Escaped(c) = <<"=", "1">>
      /\ c = ":" => Escaped(c) = <<"=", "2">>
      /\ c \notin Marked => Escaped(c) = <<c>>
  BY DEF Escaped
<1>2. /\ d = "=" => Escaped(d) = <<"=", "0">>
      /\ d = "." => Escaped(d) = <<"=", "1">>
      /\ d = ":" => Escaped(d) = <<"=", "2">>
      /\ d \notin Marked => Escaped(d) = <<d>>
  BY DEF Escaped
<1>3. \A x, y, z : <<x, y>> # <<z>>
  OBVIOUS
<1>4. CASE c \in Marked /\ d \in Marked
  BY <1>1, <1>2, <1>4
<1>5. CASE c \notin Marked /\ d \notin Marked
  BY <1>1, <1>2, <1>5
<1>6. CASE c \in Marked /\ d \notin Marked
  BY <1>1, <1>2, <1>3, <1>6
<1>7. CASE c \notin Marked /\ d \in Marked
  BY <1>1, <1>2, <1>3, <1>7
<1> QED BY <1>4, <1>5, <1>6, <1>7

\* g[i] is what the first i characters of the key have become.
Escaping(g, text, C) ==
    /\ g \in [0..Len(text) -> Seq(C)]
    /\ g[0] = <<>>
    /\ \A i \in 1..Len(text) : g[i] = g[i - 1] \o Escaped(text[i])

LEMMA EscapedByPlace ==
    ASSUME NEW C, EscapeChars \subseteq C, NEW text \in Seq(C)
    PROVE  \E g : /\ Escaping(g, text, C)
                  /\ EscapeUserProvidedKey(text) = g[Len(text)]
<1> DEFINE n == Len(text)
           A == Seq(C)
           next == [p \in (1..n) \X A |-> p[2] \o Escaped(text[p[1]])]
           pieces == [i \in 1..n |-> Escaped(text[i])]
           Fits(h) == h = [i \in 1..n |-> IF i = 1 THEN pieces[i]
                                                  ELSE h[i - 1] \o pieces[i]]
<1>1. n \in Nat /\ \A i \in 1..n : text[i] \in C
  OBVIOUS
<1>2. \A i \in 1..n : Escaped(text[i]) \in Seq(C)
  BY <1>1, EscapedProperties
<1> HIDE DEF n
<1>3. next \in [(1..n) \X A -> A]
  BY <1>2
<1>4. PICK g : CountsUp(g, n, A, <<>>, next)
  <2> HIDE DEF A, next
  <2>1. <<>> \in A
    BY DEF A
  <2>2. CanCount(n, A, <<>>, next)
    BY <1>1, <1>3, <2>1 DEF CanCount
  <2> QED BY <2>2, RecursionOnNumbers
<1> HIDE DEF A
<1>5. /\ g \in [0..n -> A] /\ g[0] = <<>>
      /\ \A i \in 1..n : g[i] = g[i - 1] \o Escaped(text[i])
  <2>1. /\ g \in [0..n -> A] /\ g[0] = <<>>
        /\ \A i \in 1..n : g[i] = next[<<i, g[i - 1]>>]
    BY <1>4 DEF CountsUp
  <2>2. ASSUME NEW i \in 1..n
        PROVE  next[<<i, g[i - 1]>>] = g[i - 1] \o Escaped(text[i])
    <3>1. g[i - 1] \in A
      BY <1>1, <2>1
    <3> QED BY <3>1
  <2> QED BY <2>1, <2>2
<1> DEFINE h == [i \in 1..n |-> g[i]]
<1>6. Fits(h)
  <2>1. ASSUME NEW i \in 1..n
        PROVE  h[i] = IF i = 1 THEN pieces[i] ELSE h[i - 1] \o pieces[i]
    <3>1. pieces[i] = Escaped(text[i])
      OBVIOUS
    <3>2. CASE i = 1
      <4>0. 1 \in 1..n /\ 1 - 1 = 0
        BY <3>2
      <4>1. g[1] = g[0] \o Escaped(text[1])
        BY <1>5, <4>0
      <4>2. <<>> \o Escaped(text[i]) = Escaped(text[i])
        BY <1>2
      <4> QED BY <1>5, <3>1, <3>2, <4>1, <4>2
    <3>3. CASE i # 1
      <4>1. i - 1 \in 1..n
        BY <1>1, <3>3
      <4>2. h[i] = g[i] /\ h[i - 1] = g[i - 1]
        BY <4>1
      <4> QED BY <1>5, <3>1, <3>3, <4>2
    <3> QED BY <3>2, <3>3
  <2> QED BY <2>1
<1> HIDE DEF pieces
<1> DEFINE flatten == CHOOSE k : Fits(k)
<1>7. Fits(flatten)
  BY <1>6
<1>8. EscapeUserProvidedKey(text) = IF Len(pieces) = 0 THEN pieces ELSE flatten[Len(pieces)]
  <2>1. Len(pieces) = n
    BY <1>1 DEF pieces
  <2>2. EscapeUserProvidedKey(text) = FlattenSeq(pieces)
    BY DEF EscapeUserProvidedKey, pieces, Escaped, n
  <2>3. FlattenSeq(pieces)
            = IF Len(pieces) = 0 THEN pieces ELSE flatten[Len(pieces)]
    BY <2>1 DEF FlattenSeq, flatten, Fits
  <2> QED BY <2>2, <2>3
<1> HIDE DEF flatten
<1>9. \A i \in 1..n : flatten[i] = g[i]
  <2> DEFINE Same == {i \in 0..n : i = 0 \/ flatten[i] = h[i]}
  <2>1. 0 \in Same
    BY <1>1
  <2>2. ASSUME NEW i \in 0..n, i \in Same, i < n
        PROVE  i + 1 \in Same
    <3>1. i + 1 \in 1..n /\ (i + 1) - 1 = i /\ i + 1 \in 0..n
      BY <1>1, <2>2
    <3>2. flatten[i + 1] = IF i + 1 = 1 THEN pieces[i + 1]
                                        ELSE flatten[i] \o pieces[i + 1]
      BY <1>7, <3>1
    <3>3. h[i + 1] = IF i + 1 = 1 THEN pieces[i + 1] ELSE h[i] \o pieces[i + 1]
      <4> HIDE DEF h
      <4> QED BY <1>6, <3>1
    <3> HIDE DEF h
    <3>4. i = 0 => i + 1 = 1
      OBVIOUS
    <3>5. flatten[i + 1] = h[i + 1]
      BY <2>2, <3>2, <3>3, <3>4
    <3> QED BY <3>1, <3>5
  <2> HIDE DEF Same, h
  <2>3. \A i \in 0..n : i \in Same
    <3>1. \A i \in 0..n : i \in Same /\ i < n => i + 1 \in Same
      BY <2>2
    <3> QED BY <1>1, <2>1, <3>1, CountingUp
  <2>4. \A i \in 1..n : i \in 0..n /\ i # 0
    BY <1>1
  <2>5. \A i \in 1..n : flatten[i] = h[i]
    BY <2>3, <2>4 DEF Same
  <2> QED BY <2>5 DEF h
<1>10. EscapeUserProvidedKey(text) = g[n]
  <2>1. Len(pieces) = n
    BY <1>1 DEF pieces
  <2>2. CASE n = 0
    <3>1. pieces = <<>>
      BY <2>2 DEF pieces
    <3> QED BY <1>5, <1>8, <2>1, <2>2, <3>1
  <2>3. CASE n # 0
    <3>1. n \in 1..n
      BY <1>1, <2>3
    <3> QED BY <1>8, <1>9, <2>1, <2>3, <3>1
  <2> QED BY <2>2, <2>3
<1> QED BY <1>5, <1>10 DEF Escaping, n, A

\* An escaped key holds no separator.
LEMMA EscapedKeyHasNoSeparator ==
    ASSUME NEW C, EscapeChars \subseteq C, NEW text \in Seq(C)
    PROVE  /\ EscapeUserProvidedKey(text) \in Seq(C)
           /\ NoSeparator(EscapeUserProvidedKey(text))
<1> DEFINE n == Len(text)
<1>1. PICK g : Escaping(g, text, C) /\ EscapeUserProvidedKey(text) = g[Len(text)]
  BY EscapedByPlace
<1>2. /\ g \in [0..n -> Seq(C)] /\ g[0] = <<>>
      /\ \A i \in 1..n : g[i] = g[i - 1] \o Escaped(text[i])
  BY <1>1 DEF Escaping
<1>3. n \in Nat /\ \A i \in 1..n : text[i] \in C
  OBVIOUS
<1> DEFINE T == {i \in 0..n : NoSeparator(g[i])}
<1> HIDE DEF n
<1>4. 0 \in T
  BY <1>2, <1>3 DEF NoSeparator
<1>5. ASSUME NEW i \in 0..n, i \in T, i < n
      PROVE  i + 1 \in T
  <2>1. i + 1 \in 1..n /\ (i + 1) - 1 = i /\ i + 1 \in 0..n
    BY <1>3, <1>5
  <2> DEFINE a == g[i]
             b == Escaped(text[i + 1])
  <2>2. g[i + 1] = a \o b /\ a \in Seq(C) /\ NoSeparator(a)
    BY <1>2, <1>5, <2>1
  <2>3. b \in Seq(C) /\ \A j \in 1..Len(b) : b[j] # Separator
    BY <1>3, <2>1, EscapedProperties
  <2> HIDE DEF a, b
  <2>4. /\ Len(a) \in Nat /\ Len(b) \in Nat
        /\ Len(a \o b) = Len(a) + Len(b)
        /\ \A j \in 1..(Len(a) + Len(b)) :
               (a \o b)[j] = IF j <= Len(a) THEN a[j] ELSE b[j - Len(a)]
    BY <2>2, <2>3, ConcatProperties
  <2>5. ASSUME NEW j \in 1..Len(a \o b)
        PROVE  (a \o b)[j] # Separator
    <3>1. CASE j <= Len(a)
      <4>1. j \in 1..Len(a)
        BY <2>4, <3>1
      <4> QED BY <2>2, <2>4, <3>1, <4>1 DEF NoSeparator
    <3>2. CASE ~(j <= Len(a))
      <4>1. j - Len(a) \in 1..Len(b)
        BY <2>4, <3>2
      <4> QED BY <2>3, <2>4, <3>2, <4>1
    <3> QED BY <3>1, <3>2
  <2>6. NoSeparator(g[i + 1])
    BY <2>2, <2>5 DEF NoSeparator
  <2> QED BY <2>1, <2>6
<1>6. n \in T
  <2> HIDE DEF T
  <2>1. \A i \in 0..n : i \in T /\ i < n => i + 1 \in T
    BY <1>5
  <2>2. \A i \in 0..n : i \in T
    BY <1>3, <1>4, <2>1, CountingUp
  <2> QED BY <1>3, <2>2
<1> QED BY <1>1, <1>2, <1>3, <1>6 DEF n

\* What the first characters have become stays, and the next comes after it.
Grown(g, k, text) ==
    LET l == Len(g[k])
        p == Escaped(text[k + 1])
        e == g[Len(text)]
    IN  /\ l \in Nat
        /\ l + Len(p) <= Len(e)
        /\ \A x \in 1..Len(p) : e[l + x] = p[x]

LEMMA EscapingGrows ==
    ASSUME NEW C, EscapeChars \subseteq C, NEW text \in Seq(C), NEW g,
           Escaping(g, text, C), NEW k \in 0..(Len(text) - 1)
    PROVE  Grown(g, k, text)
<1> DEFINE n == Len(text)
           u == g[k + 1]
           l == Len(g[k])
           p == Escaped(text[k + 1])
<1>1. /\ g \in [0..n -> Seq(C)]
      /\ \A i \in 1..n : g[i] = g[i - 1] \o Escaped(text[i])
  BY DEF Escaping
<1>2. n \in Nat /\ (\A i \in 1..n : text[i] \in C) /\ k \in Nat /\ k < n
  OBVIOUS
<1>3. k + 1 \in 1..n /\ k \in 0..n /\ k + 1 \in 0..n /\ (k + 1) - 1 = k
  BY <1>2
<1> HIDE DEF n
<1>4. g[k] \in Seq(C) /\ u \in Seq(C) /\ p \in Seq(C) /\ u = g[k] \o p
  BY <1>1, <1>2, <1>3, EscapedProperties
<1>5. /\ l \in Nat /\ Len(p) \in Nat /\ Len(u) = l + Len(p)
      /\ \A x \in 1..Len(p) : u[l + x] = p[x]
  <2> DEFINE a == g[k]
  <2> HIDE DEF a, p, u
  <2>1. a \in Seq(C) /\ p \in Seq(C) /\ u = a \o p
    BY <1>4 DEF a
  <2>2. /\ Len(a) \in Nat /\ Len(p) \in Nat /\ Len(u) = Len(a) + Len(p)
        /\ \A x \in 1..Len(p) : u[Len(a) + x] = p[x]
    BY <2>1
  <2> QED BY <2>2 DEF a
<1>5a. Len(u) \in Nat
  <2> HIDE DEF l, p, u
  <2> QED BY <1>5
<1> DEFINE T == {j \in 0..n : j < k + 1 \/ /\ Len(u) <= Len(g[j])
                                           /\ \A x \in 1..Len(u) : g[j][x] = u[x]}
<1>6. 0 \in T
  BY <1>2
<1>7. ASSUME NEW j \in 0..n, j \in T, j < n
      PROVE  j + 1 \in T
  <2>1. j + 1 \in 1..n /\ (j + 1) - 1 = j /\ j + 1 \in 0..n /\ j \in Nat
    BY <1>2, <1>7
  <2>2. CASE j + 1 < k + 1
    BY <2>1, <2>2
  <2>3. CASE j + 1 = k + 1
    <3>1. Len(u) <= Len(u)
      BY <1>5
    <3>2. g[j + 1] = u
      BY <2>3
    <3> HIDE DEF u
    <3> QED BY <2>1, <3>1, <3>2
  <2>4. CASE k + 1 < j + 1
    <3> DEFINE a == g[j]
               b == Escaped(text[j + 1])
    <3>1. ~(j < k + 1)
      BY <1>2, <2>1, <2>4
    <3>2. Len(u) <= Len(a) /\ \A x \in 1..Len(u) : a[x] = u[x]
      BY <1>7, <3>1
    <3>3. a \in Seq(C) /\ b \in Seq(C) /\ g[j + 1] = a \o b
      BY <1>1, <1>2, <2>1, EscapedProperties
    <3> HIDE DEF a, b, u
    <3>4. /\ Len(a) \in Nat /\ Len(b) \in Nat
          /\ Len(a \o b) = Len(a) + Len(b)
          /\ \A x \in 1..Len(a) : (a \o b)[x] = a[x]
      BY <3>3
    <3>5. Len(u) \in Nat
      BY <1>5a
    <3>6. Len(u) <= Len(a \o b) /\ \A x \in 1..Len(u) : (a \o b)[x] = u[x]
      <4>1. \A x \in 1..Len(u) : x \in 1..Len(a)
        BY <3>2, <3>4, <3>5
      <4> QED BY <3>2, <3>4, <3>5, <4>1
    <3> QED BY <2>1, <3>3, <3>6
  <2> QED BY <1>2, <2>1, <2>2, <2>3, <2>4
<1>8. n \in T
  <2> HIDE DEF T
  <2>1. \A j \in 0..n : j \in T /\ j < n => j + 1 \in T
    BY <1>7
  <2>2. \A j \in 0..n : j \in T
    BY <1>2, <1>6, <2>1, CountingUp
  <2> QED BY <1>2, <2>2
<1>9. Len(u) <= Len(g[n]) /\ \A x \in 1..Len(u) : g[n][x] = u[x]
  BY <1>2, <1>8
<1> HIDE DEF u, l, p
<1>10. \A x \in 1..Len(p) : l + x \in 1..Len(u)
  BY <1>5
<1>11. \A x \in 1..Len(p) : g[n][l + x] = p[x]
  BY <1>5, <1>9, <1>10
<1> QED BY <1>5, <1>9, <1>11 DEF n, l, p, Grown

\* Two keys that come to the same have come to the same so far.
SameSoFar(k, g, text, h, text2, C) ==
    /\ Escaping(g, text, C) /\ EscapeUserProvidedKey(text) = g[Len(text)]
    /\ Escaping(h, text2, C) /\ EscapeUserProvidedKey(text2) = h[Len(text2)]
    /\ k \in Nat /\ k < Len(text) /\ k < Len(text2) /\ g[k] = h[k]

\* Where two keys have come to the same, the next characters are the same.
LEMMA SameNextCharacter ==
    ASSUME NEW C, EscapeChars \subseteq C,
           NEW text \in Seq(C), NEW text2 \in Seq(C),
           EscapeUserProvidedKey(text) = EscapeUserProvidedKey(text2),
           NEW g, NEW h, NEW k, SameSoFar(k, g, text, h, text2, C)
    PROVE  text[k + 1] = text2[k + 1] /\ g[k + 1] = h[k + 1]
<1> DEFINE p == Escaped(text[k + 1])
           q == Escaped(text2[k + 1])
           e == EscapeUserProvidedKey(text)
           l == Len(g[k])
<1>0. /\ Escaping(g, text, C) /\ EscapeUserProvidedKey(text) = g[Len(text)]
      /\ Escaping(h, text2, C) /\ EscapeUserProvidedKey(text2) = h[Len(text2)]
      /\ k \in Nat /\ k < Len(text) /\ k < Len(text2) /\ g[k] = h[k]
  BY DEF SameSoFar
<1>1. /\ Len(text) \in Nat /\ Len(text2) \in Nat
      /\ k \in 0..(Len(text) - 1) /\ k \in 0..(Len(text2) - 1)
      /\ k + 1 \in 1..Len(text) /\ k + 1 \in 1..Len(text2) /\ (k + 1) - 1 = k
      /\ text[k + 1] \in C /\ text2[k + 1] \in C
  BY <1>0
<1>2. l \in Nat /\ \A x \in 1..Len(p) : e[l + x] = p[x]
  <2>1. Grown(g, k, text)
    BY <1>0, <1>1, EscapingGrows
  <2> QED BY <1>0, <2>1 DEF Grown
<1>3. \A x \in 1..Len(q) : e[l + x] = q[x]
  <2>1. Grown(h, k, text2)
    BY <1>0, <1>1, EscapingGrows
  <2> QED BY <1>0, <2>1 DEF Grown
<1>4. /\ p \in Seq(C) /\ Len(p) \in 1..2
      /\ Len(p) = 2 <=> p[1] = "="
  BY <1>1, EscapedProperties
<1>5. /\ q \in Seq(C) /\ Len(q) \in 1..2
      /\ Len(q) = 2 <=> q[1] = "="
  BY <1>1, EscapedProperties
<1>6. /\ g[k + 1] = g[k] \o p
      /\ h[k + 1] = h[k] \o q
  BY <1>0, <1>1 DEF Escaping
<1>7. p = q => text[k + 1] = text2[k + 1]
  BY EscapedInjective
<1> HIDE DEF p, q, e, l
<1>8. 1 \in 1..Len(p) /\ 1 \in 1..Len(q)
  BY <1>4, <1>5
<1>9. p[1] = q[1]
  BY <1>2, <1>3, <1>8
<1>10. Len(p) = Len(q)
  <2>1. Len(p) = 2 <=> Len(q) = 2
    BY <1>4, <1>5, <1>9
  <2> QED BY <1>4, <1>5, <2>1
<1>11. \A x \in 1..Len(p) : p[x] = q[x]
  BY <1>2, <1>3, <1>10
<1>12. p = q
  BY <1>4, <1>5, <1>10, <1>11, SeqEqual
<1> QED BY <1>0, <1>6, <1>7, <1>12

LEMMA EscapingIsInjective ==
    ASSUME NEW C, EscapeChars \subseteq C,
           NEW text \in Seq(C), NEW text2 \in Seq(C),
           EscapeUserProvidedKey(text) = EscapeUserProvidedKey(text2)
    PROVE  text = text2
<1> DEFINE n == Len(text)
           m == Len(text2)
<1>1. n \in Nat /\ m \in Nat
  OBVIOUS
<1>2. PICK g : Escaping(g, text, C) /\ EscapeUserProvidedKey(text) = g[n]
  BY EscapedByPlace
<1>3. PICK h : Escaping(h, text2, C) /\ EscapeUserProvidedKey(text2) = h[m]
  BY EscapedByPlace
<1> DEFINE Agree(k) == g[k] = h[k] /\ \A i \in 1..k : text[i] = text2[i]
           T == {k \in 0..n : k <= m => Agree(k)}
<1>4. 0 \in T
  <2>1. g[0] = h[0]
    BY <1>2, <1>3 DEF Escaping
  <2> QED BY <1>1, <2>1
<1>5. ASSUME NEW k \in 0..n, k \in T, k < n
      PROVE  k + 1 \in T
  <2>1. k \in Nat /\ k + 1 \in 0..n
    BY <1>1, <1>5
  <2>2. ASSUME k + 1 <= m
        PROVE  Agree(k + 1)
    <3>1. k <= m /\ k < m
      BY <1>1, <2>1, <2>2
    <3>2. Agree(k)
      BY <1>5, <3>1
    <3>3. text[k + 1] = text2[k + 1] /\ g[k + 1] = h[k + 1]
      <4>1. SameSoFar(k, g, text, h, text2, C)
        BY <1>2, <1>3, <1>5, <2>1, <3>1, <3>2 DEF SameSoFar
      <4> QED BY <4>1, SameNextCharacter
    <3>4. \A i \in 1..(k + 1) : i \in 1..k \/ i = k + 1
      BY <2>1
    <3> QED BY <3>2, <3>3, <3>4
  <2> QED BY <2>1, <2>2
<1>6. \A k \in 0..n : k <= m => Agree(k)
  <2>1. \A k \in 0..n : k \in T /\ k < n => k + 1 \in T
    BY <1>5
  <2>2. \A k \in 0..n : k \in T
    <3> HIDE DEF T, n
    <3> QED BY <1>1, <1>4, <2>1, CountingUp
  <2> QED BY <2>2
<1>7. ~(n < m)
  <2> SUFFICES ASSUME n < m PROVE FALSE
    OBVIOUS
  <2>1. n \in 0..n /\ n <= m /\ n \in 0..(m - 1) /\ n + 1 \in 1..m
    BY <1>1
  <2>2. g[n] = h[n]
    BY <1>6, <2>1
  <2>3. Grown(h, n, text2)
    BY <1>3, <2>1, EscapingGrows
  <2>4. Len(Escaped(text2[n + 1])) \in 1..2
    <3>1. text2[n + 1] \in C
      BY <2>1
    <3> QED BY <3>1, EscapedProperties
  <2>5. h[Len(text2)] = h[n]
    BY <1>2, <1>3, <2>2
  <2> HIDE DEF n
  <2> DEFINE a == Len(h[n])
             b == Len(Escaped(text2[n + 1]))
             c == Len(h[Len(text2)])
  <2>6. a \in Nat /\ a + b <= c /\ b \in 1..2 /\ c = a
    BY <2>3, <2>4, <2>5 DEF Grown
  <2> HIDE DEF a, b, c
  <2> QED BY <2>6
<1>8. ~(m < n)
  <2> SUFFICES ASSUME m < n PROVE FALSE
    OBVIOUS
  <2>1. m \in 0..n /\ m <= m /\ m \in 0..(n - 1) /\ m + 1 \in 1..n
    BY <1>1
  <2>2. g[m] = h[m]
    BY <1>6, <2>1
  <2>3. Grown(g, m, text)
    BY <1>2, <2>1, EscapingGrows
  <2>4. Len(Escaped(text[m + 1])) \in 1..2
    <3>1. text[m + 1] \in C
      BY <2>1
    <3> QED BY <3>1, EscapedProperties
  <2>5. g[Len(text)] = g[m]
    BY <1>2, <1>3, <2>2
  <2> HIDE DEF m
  <2> DEFINE a == Len(g[m])
             b == Len(Escaped(text[m + 1]))
             c == Len(g[Len(text)])
  <2>6. a \in Nat /\ a + b <= c /\ b \in 1..2 /\ c = a
    BY <2>3, <2>4, <2>5 DEF Grown
  <2> HIDE DEF a, b, c
  <2> QED BY <2>6
<1>9. n = m
  <2> HIDE DEF n, m
  <2> QED BY <1>1, <1>7, <1>8
<1>10. \A i \in 1..n : text[i] = text2[i]
  <2>1. n \in 0..n /\ n <= m
    BY <1>1, <1>9
  <2> QED BY <1>6, <2>1
<1> QED BY <1>9, <1>10, SeqEqual

\* wrapUserProvidedKey: no key, whatever characters it has, comes out with a
\* separator in it, and no two keys come out the same.
THEOREM KeysStayApart ==
    ASSUME NEW C, EscapeChars \cup {"$"} \subseteq C, NEW key \in Seq(C)
    PROVE  /\ WrapUserProvidedKey(key) \in Seq(C)
           /\ NoSeparator(WrapUserProvidedKey(key))
           /\ \A other \in Seq(C) :
                  WrapUserProvidedKey(other) = WrapUserProvidedKey(key) => other = key
<1> DEFINE e == EscapeUserProvidedKey(key)
           w == <<"$">> \o e
<1>1. e \in Seq(C) /\ NoSeparator(e)
  BY EscapedKeyHasNoSeparator
<1>2. w = WrapUserProvidedKey(key)
  BY DEF WrapUserProvidedKey
<1> HIDE DEF e
<1>3. <<"$">> \in Seq(C)
  OBVIOUS
<1>4. /\ w \in Seq(C) /\ Len(w) = 1 + Len(e) /\ Len(e) \in Nat
      /\ w[1] = "$" /\ \A i \in 1..Len(e) : w[1 + i] = e[i]
  BY <1>1, <1>3
<1> HIDE DEF w
<1>5. NoSeparator(w)
  <2> SUFFICES ASSUME NEW i \in 1..Len(w)
               PROVE  w[i] # Separator
    BY DEF NoSeparator
  <2>1. CASE i = 1
    BY <1>4, <2>1 DEF Separator
  <2>2. CASE i # 1
    <3>1. i - 1 \in 1..Len(e) /\ 1 + (i - 1) = i
      BY <1>4, <2>2
    <3>2. w[i] = e[i - 1]
      BY <1>4, <3>1
    <3> QED BY <1>1, <3>1, <3>2 DEF NoSeparator
  <2> QED BY <2>1, <2>2
<1>6. ASSUME NEW other \in Seq(C), WrapUserProvidedKey(other) = WrapUserProvidedKey(key)
      PROVE  other = key
  <2> DEFINE f == EscapeUserProvidedKey(other)
             v == <<"$">> \o f
  <2>1. f \in Seq(C) /\ v = w
    BY <1>2, <1>6, EscapedKeyHasNoSeparator DEF WrapUserProvidedKey
  <2> HIDE DEF f
  <2>2. /\ Len(v) = 1 + Len(f) /\ Len(f) \in Nat
        /\ \A i \in 1..Len(f) : v[1 + i] = f[i]
    BY <1>3, <2>1
  <2> HIDE DEF v
  <2>3. Len(e) = Len(f) /\ \A i \in 1..Len(e) : e[i] = f[i]
    BY <1>4, <2>1, <2>2
  <2>4. e = f
    BY <1>1, <2>1, <2>3, SeqEqual
  <2> QED BY <2>4, EscapingIsInjective DEF e, f
<1> QED BY <1>2, <1>4, <1>5, <1>6

-----------------------------------------------------------------------------
(* The names of the children of an element.                                 *)

KeyChars == EscapeChars \cup {"$", "3", "4", "5", "6", "7", "8", "9"}

LEMMA DigitProperties ==
    /\ \A i \in 1..10 : Digits[i] \in KeyChars \ {"$", "."}
    /\ \A i, j \in 1..10 : Digits[i] = Digits[j] => i = j
<1>1. \A i \in 1..10 : i = 1 \/ i = 2 \/ i = 3 \/ i = 4 \/ i = 5
                       \/ i = 6 \/ i = 7 \/ i = 8 \/ i = 9 \/ i = 10
  OBVIOUS
<1>2. /\ Digits[1] = "0" /\ Digits[2] = "1" /\ Digits[3] = "2" /\ Digits[4] = "3"
      /\ Digits[5] = "4" /\ Digits[6] = "5" /\ Digits[7] = "6" /\ Digits[8] = "7"
      /\ Digits[9] = "8" /\ Digits[10] = "9"
  BY DEF Digits
<1>3. \A i \in 1..10 : Digits[i] \in KeyChars \ {"$", "."}
  BY <1>1, <1>2 DEF KeyChars, EscapeChars
<1>4. \A i, j \in 1..10 : Digits[i] = Digits[j] => i = j
  BY <1>1, <1>2
<1> QED BY <1>3, <1>4

\* The top node of a window belongs to the window itself.
LEMMA RootOfRoot ==
    ASSUME NEW index \in 0..9
    PROVE  LET root == CreateReactRootID(index)
           IN  BelowRoot(root) /\ GetReactRootIDFromNodeID(root) = root
<1> DEFINE digit == Digits[index + 1]
           root == <<Separator, digit>>
<1>1. digit # Separator
  <2>1. index + 1 \in 1..10
    OBVIOUS
  <2>2. Digits[index + 1] \in KeyChars \ {"$", "."}
    BY <2>1, DigitProperties
  <2> QED BY <2>2 DEF Separator
<1>2. Len(root) = 2 /\ root[1] = Separator /\ root[2] = digit
  OBVIOUS
<1> HIDE DEF digit, root
<1>3. CharAt(root, 0) = Separator /\ CharAt(root, 1) = digit /\ CharAt(root, 2) = ""
  BY <1>2 DEF CharAt
<1>4. {i \in Marks(root) : i > 0} = {}
  <2>1. \A i \in 0..2 : i > 0 => i = 1 \/ i = 2
    OBVIOUS
  <2>2. "" # Separator
    BY DEF Separator
  <2> QED BY <1>1, <1>2, <1>3, <2>1, <2>2 DEF Marks
<1>5. CharAt(root, 0) = Separator /\ Len(root) >= 2 /\ ~(Len(root) < 2)
  <2>1. Len(root) >= 2 /\ ~(Len(root) < 2)
    BY <1>2
  <2> QED BY <1>3, <2>1, Zenon
<1>6. GetReactRootIDFromNodeID(root) = root
  BY <1>4, <1>5, Zenon DEF GetReactRootIDFromNodeID
<1> QED BY <1>5, <1>6 DEF BelowRoot, CreateReactRootID, digit, root

LEMMA ComponentKeys ==
    ASSUME NEW C, KeyChars \subseteq C, NEW key \in Seq(C), NEW index \in 0..9
    PROVE  /\ GetComponentKey(key, index) \in Seq(C)
           /\ NoSeparator(GetComponentKey(key, index))
<1>1. CASE key # <<>>
  <2>1. GetComponentKey(key, index) = WrapUserProvidedKey(key)
    BY <1>1 DEF GetComponentKey
  <2>2. EscapeChars \cup {"$"} \subseteq C
    BY DEF KeyChars
  <2> QED BY <2>1, <2>2, KeysStayApart
<1>2. CASE key = <<>>
  <2> DEFINE d == Digits[index + 1]
  <2>1. GetComponentKey(key, index) = <<d>>
    BY <1>2 DEF GetComponentKey
  <2>2. d \in C /\ d # Separator
    <3>1. index + 1 \in 1..10
      OBVIOUS
    <3> QED BY <3>1, DigitProperties DEF Separator
  <2> HIDE DEF d
  <2> QED BY <2>1, <2>2 DEF NoSeparator
<1> QED BY <1>1, <1>2

\* getComponentKey: two children of one element have one name only if they
\* have one key, or neither has a key and they are one.
THEOREM SiblingsHaveTheirOwnNames ==
    ASSUME NEW C, KeyChars \subseteq C,
           NEW key \in Seq(C), NEW i \in 0..9,
           NEW key2 \in Seq(C), NEW j \in 0..9,
           GetComponentKey(key, i) = GetComponentKey(key2, j)
    PROVE  key = key2 /\ (key = <<>> => i = j)
<1>0. EscapeChars \cup {"$"} \subseteq C /\ EscapeChars \subseteq C
  BY DEF KeyChars
<1>1. ASSUME NEW k \in Seq(C)
      PROVE  WrapUserProvidedKey(k) \in Seq(C) /\ WrapUserProvidedKey(k)[1] = "$"
  <2> DEFINE e == EscapeUserProvidedKey(k)
  <2>1. e \in Seq(C)
    BY <1>0, EscapedKeyHasNoSeparator
  <2> HIDE DEF e
  <2>2. (<<"$">> \o e)[1] = "$"
    BY <2>1
  <2>3. WrapUserProvidedKey(k) \in Seq(C)
    BY <1>0, KeysStayApart
  <2> QED BY <2>2, <2>3 DEF WrapUserProvidedKey, e
<1>2. ASSUME NEW x \in 0..9
      PROVE  x + 1 \in 1..10 /\ Digits[x + 1] # "$" /\ <<Digits[x + 1]>>[1] = Digits[x + 1]
  BY DigitProperties
<1>3. CASE key # <<>> /\ key2 # <<>>
  <2>1. WrapUserProvidedKey(key) = WrapUserProvidedKey(key2)
    BY <1>3 DEF GetComponentKey
  <2> QED BY <1>0, <1>3, <2>1, KeysStayApart
<1>4. CASE key = <<>> /\ key2 = <<>>
  <2>1. <<Digits[i + 1]>> = <<Digits[j + 1]>>
    BY <1>4 DEF GetComponentKey
  <2>2. Digits[i + 1] = Digits[j + 1]
    BY <2>1
  <2>3. i + 1 = j + 1
    BY <1>2, <2>2, DigitProperties
  <2> QED BY <1>4, <2>3
<1>5. CASE key # <<>> /\ key2 = <<>>
  <2>1. WrapUserProvidedKey(key) = <<Digits[j + 1]>>
    BY <1>5 DEF GetComponentKey
  <2> QED BY <1>1, <1>2, <2>1
<1>6. CASE key = <<>> /\ key2 # <<>>
  <2>1. WrapUserProvidedKey(key2) = <<Digits[i + 1]>>
    BY <1>6 DEF GetComponentKey
  <2> QED BY <1>1, <1>2, <2>1
<1> QED BY <1>3, <1>4, <1>5, <1>6

LEMMA NamesOfSiblings ==
    ASSUME NEW C, KeyChars \subseteq C
    PROVE  \A key, key2 \in Seq(C), i, j \in 0..9 :
               GetComponentKey(key, i) = GetComponentKey(key2, j)
                   => key = key2 /\ (key = <<>> => i = j)
<1> TAKE key, key2 \in Seq(C), i, j \in 0..9
<1> HAVE GetComponentKey(key, i) = GetComponentKey(key2, j)
<1> QED BY SiblingsHaveTheirOwnNames

-----------------------------------------------------------------------------
(* Flattening children.                                                     *)

WithChild(result, child) ==
    IF \E k \in 1..Len(result) : result[k].name = child.name THEN result
    ELSE Append(result, child)

Named(children) == {TraverseAllChildren(children)[i] : i \in 1..Len(children)}

\* f[i] is what flattenChildren has made of the first i children.
Flattening(f, children) ==
    /\ f \in [0..Len(children) -> Seq(Named(children))]
    /\ f[0] = <<>>
    /\ \A i \in 1..Len(children) :
           f[i] = WithChild(f[i - 1], TraverseAllChildren(children)[i])

LEMMA FlattenedByPlace ==
    ASSUME NEW E, NEW children \in Seq(E)
    PROVE  \E f : /\ Flattening(f, children)
                  /\ FlattenChildren(children) = f[Len(children)]
<1> DEFINE N == Len(children)
           named == TraverseAllChildren(children)
           A == Seq(Named(children))
           next == [p \in (1..N) \X A |-> WithChild(p[2], named[p[1]])]
           Fits(f) == f = [i \in 0..N |-> IF i = 0 THEN <<>>
                                          ELSE WithChild(f[i - 1], named[i])]
<1>1. N \in Nat
  OBVIOUS
<1>2. ASSUME NEW result \in A, NEW i \in 1..N
      PROVE  WithChild(result, named[i]) \in A
  <2>1. named[i] \in Named(children)
    BY DEF Named
  <2> HIDE DEF named
  <2>2. Append(result, named[i]) \in A
    BY <2>1
  <2> QED BY <2>2 DEF WithChild
<1> HIDE DEF N, named
<1>3. next \in [(1..N) \X A -> A]
  <2> HIDE DEF A
  <2> QED BY <1>2
<1>4. PICK g : CountsUp(g, N, A, <<>>, next)
  <2>1. <<>> \in A
    OBVIOUS
  <2> HIDE DEF A, next
  <2>2. CanCount(N, A, <<>>, next)
    BY <1>1, <1>3, <2>1 DEF CanCount
  <2> QED BY <2>2, RecursionOnNumbers
<1> HIDE DEF A
<1>5. /\ g \in [0..N -> A] /\ g[0] = <<>>
      /\ \A i \in 1..N : g[i] = WithChild(g[i - 1], named[i])
  <2>1. /\ g \in [0..N -> A] /\ g[0] = <<>>
        /\ \A i \in 1..N : g[i] = next[<<i, g[i - 1]>>]
    BY <1>4 DEF CountsUp
  <2>2. ASSUME NEW i \in 1..N
        PROVE  next[<<i, g[i - 1]>>] = WithChild(g[i - 1], named[i])
    <3>1. g[i - 1] \in A
      BY <1>1, <2>1
    <3> QED BY <3>1
  <2> QED BY <2>1, <2>2
<1>6. Fits(g)
  <2>1. ASSUME NEW i \in 0..N
        PROVE  g[i] = IF i = 0 THEN <<>> ELSE WithChild(g[i - 1], named[i])
    <3>1. i = 0 \/ i \in 1..N
      BY <1>1
    <3> QED BY <1>5, <3>1
  <2> QED BY <1>5, <2>1
<1> DEFINE upTo == CHOOSE f : Fits(f)
<1>7. Fits(upTo)
  BY <1>6
<1> HIDE DEF upTo
<1>8. upTo[N] = g[N]
  <2> DEFINE Same == {i \in 0..N : upTo[i] = g[i]}
  <2>1. 0 \in Same
    BY <1>1, <1>5, <1>7
  <2>2. ASSUME NEW i \in 0..N, i \in Same, i < N
        PROVE  i + 1 \in Same
    <3>1. i + 1 \in 1..N /\ (i + 1) - 1 = i /\ i + 1 \in 0..N /\ i + 1 # 0
      BY <1>1, <2>2
    <3>2. upTo[i + 1] = WithChild(upTo[i], named[i + 1])
      BY <1>7, <3>1
    <3> QED BY <1>5, <2>2, <3>1, <3>2
  <2> HIDE DEF Same
  <2>3. \A i \in 0..N : i \in Same
    <3>1. \A i \in 0..N : i \in Same /\ i < N => i + 1 \in Same
      BY <2>2
    <3> QED BY <1>1, <2>1, <3>1, CountingUp
  <2> QED BY <1>1, <2>3 DEF Same
<1>9. FlattenChildren(children) = upTo[N]
  BY DEF FlattenChildren, upTo, Fits, WithChild, named, N
<1> QED BY <1>5, <1>8, <1>9 DEF Flattening, A, named, N

\* What flattening has made of the first i children.
Flattened(result, children, i) ==
    LET named == TraverseAllChildren(children)
    IN  /\ \A k, l \in 1..Len(result) : result[k].name = result[l].name => k = l
        /\ \A j \in 1..i : \E k \in 1..Len(result) : result[k].name = named[j].name
        /\ \A k \in 1..Len(result) :
               \E j \in 1..i : /\ result[k] = named[j]
                               /\ \A h \in 1..(j - 1) : named[h].name # named[j].name

LEMMA OneMoreFlattened ==
    ASSUME NEW E, NEW children \in Seq(E),
           NEW result \in Seq(Named(children)),
           NEW i \in 0..(Len(children) - 1), Flattened(result, children, i)
    PROVE  Flattened(WithChild(result, TraverseAllChildren(children)[i + 1]),
                     children, i + 1)
<1> DEFINE named == TraverseAllChildren(children)
           child == named[i + 1]
           L == Len(result)
<1>1. /\ L \in Nat /\ i \in Nat /\ i + 1 \in 1..(i + 1)
      /\ \A j \in 1..(i + 1) : j \in 1..i \/ j = i + 1
      /\ \A j \in 1..i : j \in 1..(i + 1)
  OBVIOUS
<1>2. /\ \A k, l \in 1..L : result[k].name = result[l].name => k = l
      /\ \A j \in 1..i : \E k \in 1..L : result[k].name = named[j].name
      /\ \A k \in 1..L :
             \E j \in 1..i : /\ result[k] = named[j]
                             /\ \A h \in 1..(j - 1) : named[h].name # named[j].name
  BY DEF Flattened
<1>3. child \in Named(children)
  <2>1. i + 1 \in 1..Len(children)
    OBVIOUS
  <2> QED BY <2>1 DEF Named
<1> HIDE DEF named
<1>4. CASE \E k \in 1..L : result[k].name = child.name
  <2>1. WithChild(result, child) = result
    BY <1>4 DEF WithChild
  <2>2. \A j \in 1..(i + 1) : \E k \in 1..L : result[k].name = named[j].name
    BY <1>1, <1>2, <1>4
  <2>3. \A k \in 1..L :
            \E j \in 1..(i + 1) : /\ result[k] = named[j]
                                  /\ \A h \in 1..(j - 1) : named[h].name # named[j].name
    BY <1>1, <1>2
  <2> QED BY <1>2, <2>1, <2>2, <2>3 DEF Flattened, named
<1>5. CASE ~\E k \in 1..L : result[k].name = child.name
  <2> DEFINE u == Append(result, child)
  <2>1. WithChild(result, child) = u
    BY <1>5 DEF WithChild
  <2>2. /\ Len(u) = L + 1 /\ u[L + 1] = child
        /\ \A k \in 1..L : u[k] = result[k]
    <3> HIDE DEF child
    <3> QED BY <1>3
  <2> HIDE DEF u, L
  <2>3. /\ \A k \in 1..Len(u) : k \in 1..L \/ k = L + 1
        /\ L + 1 \in 1..Len(u) /\ \A k \in 1..L : k \in 1..Len(u)
    BY <1>1, <2>2
  <2>4. \A k, l \in 1..Len(u) : u[k].name = u[l].name => k = l
    BY <1>2, <1>5, <2>2, <2>3
  <2>5. ASSUME NEW j \in 1..(i + 1)
        PROVE  \E k \in 1..Len(u) : u[k].name = named[j].name
    <3>1. CASE j \in 1..i
      <4>1. PICK k \in 1..L : result[k].name = named[j].name
        BY <1>2, <3>1
      <4> QED BY <2>2, <2>3, <4>1
    <3>2. CASE j = i + 1
      BY <2>2, <2>3, <3>2
    <3> QED BY <1>1, <3>1, <3>2
  <2>6. ASSUME NEW h \in 1..i
        PROVE  named[h].name # child.name
    <3>1. PICK k \in 1..L : result[k].name = named[h].name
      BY <1>2
    <3> HIDE DEF child
    <3> QED BY <1>5, <3>1
  <2>7. ASSUME NEW k \in 1..Len(u)
        PROVE  \E j \in 1..(i + 1) :
                   /\ u[k] = named[j]
                   /\ \A h \in 1..(j - 1) : named[h].name # named[j].name
    <3>1. CASE k \in 1..L
      <4>1. PICK j \in 1..i : /\ result[k] = named[j]
                             /\ \A h \in 1..(j - 1) : named[h].name # named[j].name
        BY <1>2, <3>1
      <4>2. j \in 1..(i + 1) /\ u[k] = named[j]
        BY <1>1, <2>2, <3>1, <4>1
      <4> QED BY <4>1, <4>2
    <3>2. CASE k = L + 1
      <4>1. (i + 1) - 1 = i
        BY <1>1
      <4>2. u[k] = named[i + 1] /\ \A h \in 1..((i + 1) - 1) : named[h].name # named[i + 1].name
        BY <2>2, <2>6, <3>2, <4>1
      <4> QED BY <1>1, <4>2
    <3> QED BY <2>3, <3>1, <3>2
  <2>8. Flattened(u, children, i + 1)
    BY <2>4, <2>5, <2>7 DEF Flattened, named
  <2> QED BY <2>1, <2>8 DEF named
<1> QED BY <1>4, <1>5

\* flattenChildren: every child that mounts has a name of its own, no name is
\* lost, and of the children that would have one name the first mounts.
THEOREM ChildrenMountApart ==
    ASSUME NEW E, NEW children \in Seq(E)
    PROVE  Flattened(FlattenChildren(children), children, Len(children))
<1> DEFINE N == Len(children)
<1>1. PICK f : Flattening(f, children) /\ FlattenChildren(children) = f[N]
  BY FlattenedByPlace
<1>2. /\ f \in [0..N -> Seq(Named(children))] /\ f[0] = <<>>
      /\ \A i \in 1..N : f[i] = WithChild(f[i - 1], TraverseAllChildren(children)[i])
  BY <1>1 DEF Flattening
<1>3. N \in Nat
  OBVIOUS
<1> DEFINE T == {i \in 0..N : Flattened(f[i], children, i)}
<1>4. 0 \in T
  <2>1. Flattened(<<>>, children, 0)
    BY DEF Flattened
  <2> QED BY <1>2, <1>3, <2>1
<1>5. ASSUME NEW i \in 0..N, i \in T, i < N
      PROVE  i + 1 \in T
  <2>1. /\ i + 1 \in 1..N /\ (i + 1) - 1 = i /\ i + 1 \in 0..N
        /\ i \in 0..(Len(children) - 1)
    BY <1>3, <1>5
  <2>2. f[i] \in Seq(Named(children)) /\ Flattened(f[i], children, i)
    BY <1>2, <1>5
  <2>3. f[i + 1] = WithChild(f[i], TraverseAllChildren(children)[i + 1])
    BY <1>2, <2>1
  <2>4. Flattened(f[i + 1], children, i + 1)
    BY <2>1, <2>2, <2>3, OneMoreFlattened
  <2> QED BY <2>1, <2>4
<1>6. N \in T
  <2> HIDE DEF T, N
  <2>1. \A i \in 0..N : i \in T /\ i < N => i + 1 \in T
    BY <1>5
  <2>2. \A i \in 0..N : i \in T
    BY <1>3, <1>4, <2>1, CountingUp
  <2> QED BY <1>3, <2>2
<1> QED BY <1>1, <1>6

\* What follows one character.
LEMMA SameRest ==
    ASSUME NEW C, NEW a \in Seq(C), NEW b \in Seq(C), NEW x,
           <<x>> \o a = <<x>> \o b
    PROVE  a = b
<1> DEFINE D == C \cup {x}
           s == <<x>>
<1>1. s \in Seq(D) /\ Len(s) = 1 /\ a \in Seq(D) /\ b \in Seq(D) /\ s \o a = s \o b
  OBVIOUS
<1> HIDE DEF s, D
<1>2. /\ Len(a) \in Nat /\ Len(s \o a) = 1 + Len(a)
      /\ \A i \in 1..Len(a) : (s \o a)[1 + i] = a[i]
  <2>1. /\ Len(s \o a) = Len(s) + Len(a)
        /\ \A k \in 1..(Len(s) + Len(a)) :
               (s \o a)[k] = IF k <= Len(s) THEN s[k] ELSE a[k - Len(s)]
    BY <1>1, ConcatProperties
  <2>2. Len(a) \in Nat
    OBVIOUS
  <2>3. ASSUME NEW i \in 1..Len(a)
        PROVE  (s \o a)[1 + i] = a[i]
    <3>1. 1 + i \in 1..(Len(s) + Len(a)) /\ ~(1 + i <= Len(s)) /\ (1 + i) - Len(s) = i
      BY <1>1, <2>2
    <3> QED BY <2>1, <3>1
  <2> QED BY <1>1, <2>1, <2>2, <2>3
<1>3. /\ Len(b) \in Nat /\ Len(s \o b) = 1 + Len(b)
      /\ \A i \in 1..Len(b) : (s \o b)[1 + i] = b[i]
  <2>1. /\ Len(s \o b) = Len(s) + Len(b)
        /\ \A k \in 1..(Len(s) + Len(b)) :
               (s \o b)[k] = IF k <= Len(s) THEN s[k] ELSE b[k - Len(s)]
    BY <1>1, ConcatProperties
  <2>2. Len(b) \in Nat
    OBVIOUS
  <2>3. ASSUME NEW i \in 1..Len(b)
        PROVE  (s \o b)[1 + i] = b[i]
    <3>1. 1 + i \in 1..(Len(s) + Len(b)) /\ ~(1 + i <= Len(s)) /\ (1 + i) - Len(s) = i
      BY <1>1, <2>2
    <3> QED BY <2>1, <3>1
  <2> QED BY <1>1, <2>1, <2>2, <2>3
<1>4. Len(a) = Len(b) /\ \A i \in 1..Len(a) : a[i] = b[i]
  BY <1>1, <1>2, <1>3
<1> QED BY <1>4, SeqEqual

\* flattenChildren leaves out no child and changes no order, unless two
\* children have one key.
THEOREM NoChildIsLost ==
    ASSUME NEW C, KeyChars \subseteq C,
           NEW E, \A e \in E : e.key \in Seq(C),
           NEW children \in Seq(E), Len(children) <= 10,
           \A i, j \in 1..Len(children) :
               children[i].key = children[j].key /\ i # j => children[i].key = <<>>
    PROVE  FlattenChildren(children) = TraverseAllChildren(children)
<1> DEFINE N == Len(children)
           named == TraverseAllChildren(children)
<1>1. N \in Nat /\ N <= 10 /\ \A i \in 1..N : children[i] \in E
  OBVIOUS
<1>2. /\ DOMAIN named = 1..N /\ named = [i \in 1..N |-> named[i]]
      /\ \A i \in 1..N : named[i].name
                             = <<Separator>> \o GetComponentKey(children[i].key, i - 1)
  BY DEF TraverseAllChildren
<1>3. ASSUME NEW i \in 1..N, NEW j \in 1..N, named[i].name = named[j].name
      PROVE  i = j
  <2> DEFINE a == GetComponentKey(children[i].key, i - 1)
             b == GetComponentKey(children[j].key, j - 1)
  <2>1. /\ children[i].key \in Seq(C) /\ children[j].key \in Seq(C)
        /\ i - 1 \in 0..9 /\ j - 1 \in 0..9
    BY <1>1
  <2>2. a \in Seq(C) /\ b \in Seq(C) /\ NoSeparator(a)
    BY <2>1, ComponentKeys
  <2>3. <<Separator>> \o a = <<Separator>> \o b
    BY <1>2, <1>3
  <2>4. a = b
    <3> HIDE DEF a, b
    <3> QED BY <2>2, <2>3, SameRest
  <2>5. children[i].key = children[j].key /\ (children[i].key = <<>> => i - 1 = j - 1)
    <3> DEFINE k == children[i].key
               l == children[j].key
               x == i - 1
               y == j - 1
    <3>1. /\ k \in Seq(C) /\ x \in 0..9 /\ l \in Seq(C) /\ y \in 0..9
          /\ GetComponentKey(k, x) = GetComponentKey(l, y)
      BY <2>1, <2>4
    <3> HIDE DEF k, l, x, y, a, b, N, named
    <3>2. k = l /\ (k = <<>> => x = y)
      <4>1. KeyChars \subseteq C
        OBVIOUS
      <4>2. \A p, q \in Seq(C), m, n \in 0..9 :
                GetComponentKey(p, m) = GetComponentKey(q, n)
                    => p = q /\ (p = <<>> => m = n)
        BY <4>1, NamesOfSiblings
      <4> QED BY <3>1, <4>2
    <3> QED BY <3>2 DEF k, l, x, y
  <2>6. CASE children[i].key = <<>>
    BY <1>1, <2>5, <2>6
  <2>7. CASE children[i].key # <<>>
    BY <2>5, <2>7
  <2> QED BY <2>6, <2>7
<1>4. PICK f : Flattening(f, children) /\ FlattenChildren(children) = f[N]
  BY FlattenedByPlace
<1>5. /\ f \in [0..N -> Seq(Named(children))] /\ f[0] = <<>>
      /\ \A i \in 1..N : f[i] = WithChild(f[i - 1], named[i])
  BY <1>4 DEF Flattening
<1>6. \A i \in 1..N : named[i] \in Named(children)
  BY DEF Named
<1> HIDE DEF N, named
<1> DEFINE T == {i \in 0..N : Len(f[i]) = i /\ \A k \in 1..i : f[i][k] = named[k]}
<1>7. 0 \in T
  BY <1>1, <1>5
<1>8. ASSUME NEW i \in 0..N, i \in T, i < N
      PROVE  i + 1 \in T
  <2> DEFINE r == f[i]
             u == Append(r, named[i + 1])
  <2>1. /\ i \in Nat /\ i + 1 \in 1..N /\ (i + 1) - 1 = i /\ i + 1 \in 0..N
        /\ \A k \in 1..i : k \in 1..N /\ k # i + 1
        /\ \A k \in 1..(i + 1) : k \in 1..i \/ k = i + 1
    BY <1>1, <1>8
  <2>2. r \in Seq(Named(children)) /\ Len(r) = i /\ \A k \in 1..i : r[k] = named[k]
    BY <1>5, <1>8
  <2>3. f[i + 1] = WithChild(r, named[i + 1])
    BY <1>5, <2>1
  <2> HIDE DEF r
  <2>4. ASSUME NEW k \in 1..Len(r)
        PROVE  r[k].name # named[i + 1].name
    <3>1. k \in 1..N /\ k # i + 1 /\ r[k] = named[k]
      BY <2>1, <2>2
    <3> QED BY <1>3, <2>1, <3>1
  <2>5. f[i + 1] = u
    BY <2>3, <2>4 DEF WithChild
  <2>6. Len(u) = i + 1 /\ u[i + 1] = named[i + 1] /\ \A k \in 1..i : u[k] = r[k]
    BY <1>6, <2>1, <2>2
  <2> HIDE DEF u
  <2> QED BY <2>1, <2>2, <2>5, <2>6
<1>9. N \in T
  <2> HIDE DEF T
  <2>1. \A i \in 0..N : i \in T /\ i < N => i + 1 \in T
    BY <1>8
  <2>2. \A i \in 0..N : i \in T
    BY <1>1, <1>7, <2>1, CountingUp
  <2> QED BY <1>1, <2>2
<1>10. f[N] = named
  <2>1. f[N] \in Seq(Named(children)) /\ Len(f[N]) = N /\ \A k \in 1..N : f[N][k] = named[k]
    BY <1>1, <1>5, <1>9
  <2>2. named \in Seq(Named(children)) /\ Len(named) = N
    BY <1>1, <1>2, <1>6
  <2> QED BY <2>1, <2>2, SeqEqual
<1> QED BY <1>4, <1>10 DEF named

\* No two nodes that React names have one id: an id tells the parent, the key
\* the program gave and, for a child without one, its place.
THEOREM NoTwoNodesWithOneId ==
    ASSUME NEW C, KeyChars \cup {Separator} \subseteq C,
           NEW id \in Seq(C), NEW key \in Seq(C), NEW i \in 0..9,
           NEW id2 \in Seq(C), NEW key2 \in Seq(C), NEW j \in 0..9,
           CreateReactID(id, <<Separator>> \o GetComponentKey(key, i))
               = CreateReactID(id2, <<Separator>> \o GetComponentKey(key2, j))
    PROVE  id = id2 /\ key = key2 /\ (key = <<>> => i = j)
<1> DEFINE a == GetComponentKey(key, i)
           b == GetComponentKey(key2, j)
<1>1. Separator \in C /\ KeyChars \subseteq C
  OBVIOUS
<1>2. a \in Seq(C) /\ NoSeparator(a)
  BY <1>1, ComponentKeys
<1>3. b \in Seq(C) /\ NoSeparator(b)
  BY <1>1, ComponentKeys
<1>4. CreateReactID(id, <<Separator>> \o a) = CreateReactID(id2, <<Separator>> \o b)
  OBVIOUS
<1>5. id = id2 /\ a = b
  <2> HIDE DEF a, b
  <2> QED BY <1>1, <1>2, <1>3, <1>4, IdTellsParentAndName
<1> QED BY <1>1, <1>5, NamesOfSiblings
=============================================================================
