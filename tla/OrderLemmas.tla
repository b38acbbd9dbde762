------------------------------ MODULE OrderLemmas ------------------------------
(***************************************************************************)
(* Facts about sets of numbers, and about the lists of the members of a    *)
(* finite set, on which the proofs of several components rest.  Induction  *)
(* is by the least counterexample.                                         *)
(***************************************************************************)
EXTENDS Integers, SequencesExt, TLAPS, FiniteSetTheorems, FunctionTheorems,
        SequenceTheorems, WellFoundedInduction

\* Every set of natural numbers that is not empty has a least one.
LEMMA LeastNatural ==
    ASSUME NEW T \in SUBSET Nat, T # {}
    PROVE  \E m \in T : \A n \in T : m <= n
<1> DEFINE Less == {p \in Nat \X Nat : p[1] < p[2]}
<1>1. PICK m \in T : \A n \in T : <<n, m>> \notin Less
  <2>1. Less = OpToRel(<, Nat)
    BY DEF OpToRel
  <2>2. IsWellFoundedOn(Less, Nat)
    BY <2>1, NatLessThanWellFounded
  <2> HIDE DEF Less
  <2> QED BY <2>2, WFMin
<1>2. ASSUME NEW n \in T PROVE m <= n
  <2>1. <<n, m>> \notin Less
    BY <1>1
  <2>2. ~(n < m)
    BY <2>1
  <2> QED BY <2>2
<1> QED BY <1>2

\* A set of natural numbers with a bound has a greatest one.
LEMMA GreatestBelow ==
    ASSUME NEW T \in SUBSET Nat, T # {}, NEW b \in Nat, \A n \in T : n <= b
    PROVE  \E m \in T : \A n \in T : n <= m
<1> DEFINE Left == {b - n : n \in T}
<1>1. \A n \in T : b - n \in Nat
  OBVIOUS
<1>2. Left \in SUBSET Nat /\ Left # {}
  <2>1. PICK n \in T : TRUE
    OBVIOUS
  <2>2. b - n \in Left
    OBVIOUS
  <2> QED BY <1>1, <2>2
<1>3. PICK l \in Left : \A k \in Left : l <= k
  <2> HIDE DEF Left
  <2> QED BY <1>2, LeastNatural
<1>4. PICK m \in T : l = b - m
  OBVIOUS
<1>5. ASSUME NEW n \in T PROVE n <= m
  <2>1. l <= b - n
    BY <1>3
  <2> QED BY <1>4, <2>1
<1> QED BY <1>5

\* A finite set of natural numbers that is not empty has a greatest one.
LEMMA GreatestOfFinite ==
    ASSUME NEW S \in SUBSET Nat, IsFiniteSet(S), S # {}
    PROVE  \E m \in S : \A n \in S : n <= m
<1> DEFINE HasGreatest(T) == \E m \in T : \A n \in T : n <= m
           Bad == {k \in Nat : \E T \in SUBSET Nat :
                       /\ IsFiniteSet(T) /\ T # {} /\ Cardinality(T) = k
                       /\ ~HasGreatest(T)}
<1> SUFFICES ASSUME ~HasGreatest(S) PROVE FALSE
  OBVIOUS
<1>1. Bad \in SUBSET Nat /\ Bad # {}
  <2>1. Cardinality(S) \in Nat
    BY FS_CardinalityType
  <2> QED BY <2>1
<1>2. PICK k \in Bad : \A j \in Bad : k <= j
  <2> HIDE DEF Bad
  <2> QED BY <1>1, LeastNatural
<1>3. PICK T \in SUBSET Nat : /\ IsFiniteSet(T) /\ T # {} /\ Cardinality(T) = k
                              /\ ~HasGreatest(T)
  OBVIOUS
<1>4. PICK x \in T : TRUE
  BY <1>3
<1>5. IsFiniteSet(T \ {x}) /\ Cardinality(T \ {x}) = k - 1
  BY <1>3, FS_RemoveElement
<1>6. k - 1 \notin Bad
  BY <1>1, <1>2
<1>7. CASE T \ {x} = {}
  <2>1. \A n \in T : n <= x
    BY <1>7
  <2> QED BY <1>3, <2>1
<1>8. CASE T \ {x} # {}
  <2>1. k - 1 \in Nat
    BY <1>5, FS_CardinalityType
  <2>2. HasGreatest(T \ {x})
    BY <1>5, <1>6, <1>8, <2>1
  <2>3. PICK y \in T \ {x} : \A n \in T \ {x} : n <= y
    BY <2>2
  <2>4. CASE x <= y
    <3>1. \A n \in T : n <= y
      BY <2>3, <2>4
    <3> QED BY <1>3, <3>1
  <2>5. CASE y <= x
    <3>1. \A n \in T : n <= x
      BY <2>3, <2>5
    <3> QED BY <1>3, <3>1
  <2> QED BY <2>4, <2>5
<1> QED BY <1>7, <1>8

-----------------------------------------------------------------------------
\* A list of the members of a finite set has each of them in one place.
LEMMA ListOfMembers ==
    ASSUME NEW S, IsFiniteSet(S), NEW s \in SetToSeqs(S)
    PROVE  /\ s \in Seq(S)
           /\ s \in [1..Cardinality(S) -> S]
           /\ Len(s) = Cardinality(S) /\ Len(s) \in Nat
           /\ \A i, j \in 1..Len(s) : s[i] = s[j] => i = j
           /\ \A c \in S : \E i \in 1..Len(s) : s[i] = c
<1> DEFINE N == Cardinality(S)
           D == 1..N
<1>1. N \in Nat /\ IsFiniteSet(D) /\ Cardinality(D) = N
  BY FS_CardinalityType, FS_Interval
<1>2. s \in [D -> S] /\ \A i, j \in D : i # j => s[i] # s[j]
  BY DEF SetToSeqs
<1>3. s \in Seq(S) /\ Len(s) = N
  <2>1. DOMAIN s = 1..N
    BY <1>2
  <2> QED BY <1>1, <1>2, <2>1
<1> HIDE DEF N
<1>4. s \in Injection(D, S)
  BY <1>2 DEF Injection, IsInjective
<1>5. s \in Surjection(D, S)
  BY <1>1, <1>4, FS_Injection DEF N
<1>6. \A c \in S : \E i \in D : s[i] = c
  BY <1>5 DEF Surjection
<1> QED BY <1>1, <1>2, <1>3, <1>6 DEF N

-----------------------------------------------------------------------------
\* SelectInSeq finds a place of an element that is there.
LEMMA FirstPlace ==
    ASSUME NEW S, NEW s \in Seq(S), NEW n,
           \E i \in 1..Len(s) : s[i] = n
    PROVE  /\ SelectInSeq(s, LAMBDA v : v = n) \in 1..Len(s)
           /\ s[SelectInSeq(s, LAMBDA v : v = n)] = n
<1> DEFINE I == {i \in 1..Len(s) : s[i] = n}
<1>1. I \in SUBSET Nat /\ I # {}
  OBVIOUS
<1>2. PICK m \in I : \A j \in I : m <= j
  <2> HIDE DEF I
  <2> QED BY <1>1, LeastNatural
<1>3. Min(I) \in I
  BY <1>2 DEF Min
<1> QED BY <1>1, <1>3 DEF SelectInSeq

\* A list without duplicates, place by place.
LEMMA InjectiveList ==
    ASSUME NEW S, NEW s \in Seq(S)
    PROVE  IsInjective(s) <=>
               \A i, j \in 1..Len(s) : s[i] = s[j] => i = j
BY LenProperties DEF IsInjective

\* RemoveAt, place by place.
LEMMA OneRemoved ==
    ASSUME NEW S, NEW s \in Seq(S), NEW k \in 1..Len(s)
    PROVE  /\ RemoveAt(s, k) \in Seq(S)
           /\ Len(RemoveAt(s, k)) = Len(s) - 1
           /\ \A i \in 1..(Len(s) - 1) :
                  RemoveAt(s, k)[i] = IF i < k THEN s[i] ELSE s[i + 1]
<1> DEFINE a == SubSeq(s, 1, k - 1)
           b == SubSeq(s, k + 1, Len(s))
<1>2. RemoveAt(s, k) = a \o b
  BY DEF RemoveAt
<1>3. /\ a \in Seq(S)
      /\ Len(a) = k - 1
      /\ \A i \in 1..(k - 1) : a[i] = s[i]
  BY SubSeqProperties
<1>4. /\ b \in Seq(S)
      /\ Len(b) = Len(s) - k
      /\ \A i \in 1..(Len(s) - k) : b[i] = s[k + i]
  BY SubSeqProperties
<1> HIDE DEF a, b
<1>5. /\ a \o b \in Seq(S)
      /\ Len(a \o b) = Len(a) + Len(b)
      /\ \A i \in 1..(Len(a) + Len(b)) :
             (a \o b)[i] = IF i <= Len(a) THEN a[i] ELSE b[i - Len(a)]
  BY <1>3, <1>4, ConcatProperties
<1>6. Len(s) \in Nat /\ k \in Nat /\ 1 <= k /\ k <= Len(s)
  OBVIOUS
<1>7. Len(a \o b) = Len(s) - 1
  BY <1>3, <1>4, <1>5, <1>6
<1>8. ASSUME NEW i \in 1..(Len(s) - 1)
      PROVE  (a \o b)[i] = IF i < k THEN s[i] ELSE s[i + 1]
  <2>1. CASE i < k
    BY <1>3, <1>4, <1>5, <1>6, <2>1
  <2>2. CASE ~(i < k)
    <3>1. (a \o b)[i] = b[i - (k - 1)]
      BY <1>3, <1>4, <1>5, <1>6, <2>2
    <3>2. i - (k - 1) \in 1..(Len(s) - k) /\ k + (i - (k - 1)) = i + 1
      BY <1>6, <2>2
    <3>3. b[i - (k - 1)] = s[k + (i - (k - 1))]
      BY <1>4, <3>2
    <3> QED BY <2>2, <3>1, <3>2, <3>3
  <2> QED BY <2>1, <2>2
<1> QED BY <1>2, <1>5, <1>7, <1>8

\* RemoveFirst, place by place.
LEMMA FirstRemoved ==
    ASSUME NEW S, NEW s \in Seq(S), NEW n,
           \E i \in 1..Len(s) : s[i] = n
    PROVE  \E k \in 1..Len(s) :
               /\ s[k] = n
               /\ RemoveFirst(s, n) \in Seq(S)
               /\ Len(RemoveFirst(s, n)) = Len(s) - 1
               /\ \A i \in 1..(Len(s) - 1) :
                      RemoveFirst(s, n)[i] = IF i < k THEN s[i] ELSE s[i + 1]
<1> DEFINE k == SelectInSeq(s, LAMBDA v : v = n)
<1>1. k \in 1..Len(s) /\ s[k] = n
  BY FirstPlace
<1>2. RemoveFirst(s, n) = RemoveAt(s, k)
  BY <1>1 DEF RemoveFirst
<1> HIDE DEF k
<1> QED BY <1>1, <1>2, OneRemoved

\* One more at the end of a list of members.
LEMMA AppendedMember ==
    ASSUME NEW S, IsFiniteSet(S), NEW s \in SetToSeqs(S), NEW c, c \notin S
    PROVE  /\ Append(s, c) \in SetToSeqs(S \cup {c})
           /\ Len(Append(s, c)) = Len(s) + 1
           /\ \A i \in 1..Len(s) : Append(s, c)[i] = s[i]
           /\ Append(s, c)[Len(s) + 1] = c
<1> DEFINE u == Append(s, c)
           N == Cardinality(S)
<1>1. /\ N \in Nat /\ Len(s) = N
      /\ s \in Seq(S) /\ s \in [1..N -> S]
      /\ \A i, j \in 1..N : s[i] = s[j] => i = j
  BY FS_CardinalityType, ListOfMembers
<1>2. Cardinality(S \cup {c}) = N + 1
  BY FS_AddElement
<1> HIDE DEF N
<1>3. /\ u \in Seq(S \cup {c}) /\ Len(u) = N + 1
      /\ \A i \in 1..N : u[i] = s[i]
      /\ u[N + 1] = c
  BY <1>1, AppendProperties
<1> HIDE DEF u
<1>4. u \in [1..(N + 1) -> S \cup {c}]
  BY <1>3
<1>5. \A i, j \in 1..(N + 1) : i # j => u[i] # u[j]
  BY <1>1, <1>3
<1>6. u \in SetToSeqs(S \cup {c})
  BY <1>2, <1>4, <1>5 DEF SetToSeqs
<1> QED BY <1>1, <1>3, <1>6 DEF u

\* One less in a list of members.
LEMMA RemovedMember ==
    ASSUME NEW S, IsFiniteSet(S), NEW s \in SetToSeqs(S), NEW c \in S
    PROVE  \E k \in 1..Len(s) :
               /\ s[k] = c
               /\ RemoveFirst(s, c) \in SetToSeqs(S \ {c})
               /\ Len(RemoveFirst(s, c)) = Len(s) - 1
               /\ \A i \in 1..(Len(s) - 1) :
                      RemoveFirst(s, c)[i] = IF i < k THEN s[i] ELSE s[i + 1]
<1> DEFINE u == RemoveFirst(s, c)
           N == Cardinality(S)
<1>1. /\ N \in Nat /\ Len(s) = N
      /\ s \in Seq(S) /\ s \in [1..N -> S]
      /\ \A i, j \in 1..N : s[i] = s[j] => i = j
      /\ \E i \in 1..Len(s) : s[i] = c
  BY FS_CardinalityType, ListOfMembers
<1>2. Cardinality(S \ {c}) = N - 1
  BY FS_RemoveElement
<1> HIDE DEF N
<1>3. PICK k \in 1..Len(s) :
          /\ s[k] = c
          /\ u \in Seq(S)
          /\ Len(u) = Len(s) - 1
          /\ \A i \in 1..(Len(s) - 1) : u[i] = IF i < k THEN s[i] ELSE s[i + 1]
  BY <1>1, FirstRemoved
<1> HIDE DEF u
<1>4. \A i \in 1..(N - 1) : u[i] \in S \ {c}
  BY <1>1, <1>3
<1>5. u \in [1..(N - 1) -> S \ {c}]
  BY <1>1, <1>3, <1>4
<1>6. \A i, j \in 1..(N - 1) : i # j => u[i] # u[j]
  BY <1>1, <1>3
<1>7. u \in SetToSeqs(S \ {c})
  BY <1>2, <1>5, <1>6 DEF SetToSeqs
<1> QED BY <1>3, <1>7 DEF u

\* Max is the greatest.
LEMMA MaxIsGreatest ==
    ASSUME NEW u \in SUBSET Nat, IsFiniteSet(u), u # {}
    PROVE  Max(u) \in u /\ \A i \in u : i <= Max(u)
<1>1. \E m \in u : \A i \in u : i <= m
  BY GreatestOfFinite
<1> QED BY <1>1 DEF Max

-----------------------------------------------------------------------------
\* Induction from 0 to n, for a set instead of a predicate.
LEMMA CountingUp ==
    ASSUME NEW n \in Nat, NEW T, 0 \in T,
           \A k \in 0..n : k \in T /\ k < n => k + 1 \in T
    PROVE  \A k \in 0..n : k \in T
<1> DEFINE Left == (0..n) \ T
<1> SUFFICES ASSUME Left # {} PROVE FALSE
  OBVIOUS
<1>1. Left \in SUBSET Nat
  OBVIOUS
<1>2. PICK m \in Left : \A k \in Left : m <= k
  <2> HIDE DEF Left
  <2> QED BY <1>1, LeastNatural
<1>3. m # 0 /\ m \in 0..n
  OBVIOUS
<1>4. m - 1 \in 0..n /\ m - 1 < n /\ ~(m <= m - 1)
  BY <1>3
<1>5. m - 1 \in T
  BY <1>2, <1>4
<1>6. (m - 1) + 1 \in T /\ (m - 1) + 1 = m
  BY <1>3, <1>4, <1>5
<1> QED BY <1>6

\* A recursive function on the subsets of a finite set, which at each set
\* picks an element and goes on with the others, exists.
CanRecurse(S, A, base, pick, next) ==
    /\ IsFiniteSet(S)
    /\ base \in A
    /\ pick \in [(SUBSET S) \ {{}} -> S]
    /\ \A u \in (SUBSET S) \ {{}} : pick[u] \in u
    /\ next \in [S \X A -> A]

Recurses(g, S, A, base, pick, next) ==
    /\ g \in [SUBSET S -> A]
    /\ \A u \in SUBSET S :
           g[u] = IF u = {} THEN base ELSE next[<<pick[u], g[u \ {pick[u]}]>>]

LEMMA RecursionOnSubsets ==
    ASSUME NEW S, NEW A, NEW base, NEW pick, NEW next,
           CanRecurse(S, A, base, pick, next)
    PROVE  \E g : Recurses(g, S, A, base, pick, next)
<1>0. /\ IsFiniteSet(S) /\ base \in A
      /\ pick \in [(SUBSET S) \ {{}} -> S]
      /\ \A u \in (SUBSET S) \ {{}} : pick[u] \in u
      /\ next \in [S \X A -> A]
  BY DEF CanRecurse
<1> DEFINE Level(k) == {u \in SUBSET S : Cardinality(u) <= k}
           Fits(g, u) == g[u] = IF u = {} THEN base
                                ELSE next[<<pick[u], g[u \ {pick[u]}]>>]
           T == {k \in Nat : \E g \in [Level(k) -> A] :
                                 \A u \in Level(k) : Fits(g, u)}
           n == Cardinality(S)
<1>1. n \in Nat /\ \A u \in SUBSET S : Cardinality(u) \in 0..n /\ IsFiniteSet(u)
  BY <1>0, FS_CardinalityType, FS_Subset
<1>2. \A u \in SUBSET S : Cardinality(u) = 0 <=> u = {}
  BY <1>1, FS_EmptySet
<1>3. 0 \in T
  <2> DEFINE g == [u \in Level(0) |-> base]
  <2>1. \A u \in Level(0) : u = {}
    BY <1>1, <1>2
  <2>2. g \in [Level(0) -> A]
    BY <1>0
  <2>3. \A u \in Level(0) : Fits(g, u)
    BY <2>1
  <2> QED BY <2>2, <2>3
<1>4. ASSUME NEW k \in 0..n, k \in T, k < n
      PROVE  k + 1 \in T
  <2>1. PICK g \in [Level(k) -> A] : \A u \in Level(k) : Fits(g, u)
    BY <1>4
  <2> DEFINE h == [u \in Level(k + 1) |->
                      IF u = {} THEN base
                      ELSE next[<<pick[u], g[u \ {pick[u]}]>>]]
  <2>2. k \in Nat /\ k + 1 \in Nat
    BY <1>1
  <2>3. ASSUME NEW u \in Level(k + 1), u # {}
        PROVE  /\ u \ {pick[u]} \in Level(k)
               /\ pick[u] \in S
    <3>1. pick[u] \in u /\ u \in SUBSET S
      BY <1>0, <2>3
    <3>2. Cardinality(u \ {pick[u]}) = Cardinality(u) - 1
      BY <1>1, <3>1, FS_RemoveElement
    <3>3. Cardinality(u) \in Nat /\ Cardinality(u) <= k + 1
      BY <1>1, <3>1
    <3>4. Cardinality(u) - 1 <= k
      BY <2>2, <3>3
    <3> QED BY <3>1, <3>2, <3>4
  <2>4. ASSUME NEW u \in Level(k)
        PROVE  u \in Level(k + 1) /\ h[u] = g[u]
    <3>1. Cardinality(u) \in Nat /\ Cardinality(u) <= k
      BY <1>1
    <3>2. Cardinality(u) <= k + 1
      BY <2>2, <3>1
    <3>3. u \in Level(k + 1)
      BY <3>2
    <3> HIDE DEF Level
    <3> QED BY <2>1, <3>3
  <2>5. h \in [Level(k + 1) -> A]
    <3> SUFFICES ASSUME NEW u \in Level(k + 1)
                 PROVE  (IF u = {} THEN base
                         ELSE next[<<pick[u], g[u \ {pick[u]}]>>]) \in A
      OBVIOUS
    <3> HIDE DEF Level
    <3> QED BY <1>0, <2>1, <2>3
  <2>6. ASSUME NEW u \in Level(k + 1)
        PROVE  Fits(h, u)
    <3>1. CASE u = {}
      BY <3>1
    <3>2. CASE u # {}
      <4>1. u \ {pick[u]} \in Level(k)
        BY <2>3, <3>2
      <4>2. h[u \ {pick[u]}] = g[u \ {pick[u]}]
        BY <2>4, <4>1
      <4>3. h[u] = next[<<pick[u], g[u \ {pick[u]}]>>]
        <5> HIDE DEF Level
        <5> QED BY <3>2
      <4> HIDE DEF h, Level
      <4> QED BY <3>2, <4>2, <4>3
    <3> QED BY <3>1, <3>2
  <2> HIDE DEF h, Level, Fits
  <2> QED BY <2>2, <2>5, <2>6
<1>5. n \in T
  <2> HIDE DEF T
  <2>1. \A k \in 0..n : k \in T /\ k < n => k + 1 \in T
    BY <1>4
  <2> HIDE DEF n
  <2>2. \A k \in 0..n : k \in T
    BY <1>1, <1>3, <2>1, CountingUp
  <2> QED BY <1>1, <2>2
<1>6. Level(n) = SUBSET S
  BY <1>1
<1>7. \E g \in [Level(n) -> A] : \A u \in Level(n) : Fits(g, u)
  <2> HIDE DEF Level, Fits, n
  <2> QED BY <1>5
<1> HIDE DEF Level, n
<1> QED BY <1>6, <1>7 DEF Recurses

\* A recursive function on the numbers up to n, which goes from each to the
\* next, exists.
CanCount(n, A, base, next) ==
    n \in Nat /\ base \in A /\ next \in [(1..n) \X A -> A]

CountsUp(f, n, A, base, next) ==
    /\ f \in [0..n -> A]
    /\ f[0] = base
    /\ \A i \in 1..n : f[i] = next[<<i, f[i - 1]>>]

LEMMA RecursionOnNumbers ==
    ASSUME NEW n, NEW A, NEW base, NEW next, CanCount(n, A, base, next)
    PROVE  \E f : CountsUp(f, n, A, base, next)
<1>0. n \in Nat /\ base \in A /\ next \in [(1..n) \X A -> A]
  BY DEF CanCount
<1> DEFINE T == {k \in 0..n : \E f \in [0..k -> A] :
                     /\ f[0] = base
                     /\ \A i \in 1..k : f[i] = next[<<i, f[i - 1]>>]}
<1>1. 0 \in T
  <2> DEFINE f == [i \in 0..0 |-> base]
  <2>1. f \in [0..0 -> A] /\ f[0] = base
    BY <1>0
  <2>2. 0 \in 0..n /\ 1..0 = {}
    BY <1>0
  <2> HIDE DEF f
  <2> QED BY <2>1, <2>2
<1>2. ASSUME NEW k \in 0..n, k \in T, k < n
      PROVE  k + 1 \in T
  <2>1. PICK g \in [0..k -> A] : /\ g[0] = base
                                 /\ \A i \in 1..k : g[i] = next[<<i, g[i - 1]>>]
    BY <1>2
  <2> DEFINE f == [i \in 0..(k + 1) |-> IF i = k + 1 THEN next[<<k + 1, g[k]>>]
                                                     ELSE g[i]]
  <2>2. k \in Nat /\ k + 1 \in 1..n /\ k + 1 \in 0..n
    BY <1>0, <1>2
  <2>3. f \in [0..(k + 1) -> A]
    <3>1. next[<<k + 1, g[k]>>] \in A
      BY <1>0, <2>1, <2>2
    <3>2. \A i \in 0..(k + 1) : i = k + 1 \/ i \in 0..k
      BY <2>2
    <3> QED BY <2>1, <3>1, <3>2
  <2>4. f[0] = base
    BY <2>1, <2>2
  <2>5. ASSUME NEW i \in 1..(k + 1)
        PROVE  f[i] = next[<<i, f[i - 1]>>]
    <3>1. i - 1 \in 0..(k + 1) /\ i - 1 # k + 1 /\ i \in 0..(k + 1)
      BY <2>2
    <3>2. f[i - 1] = g[i - 1]
      BY <3>1
    <3>3. CASE i = k + 1
      <4>1. f[i] = next[<<k + 1, g[k]>>] /\ i - 1 = k
        BY <2>2, <3>1, <3>3
      <4> HIDE DEF f
      <4> QED BY <3>2, <3>3, <4>1
    <3>4. CASE i # k + 1
      <4>1. f[i] = g[i] /\ i \in 1..k
        BY <2>2, <3>1, <3>4
      <4> HIDE DEF f
      <4> QED BY <2>1, <3>2, <4>1
    <3> QED BY <3>3, <3>4
  <2> HIDE DEF f
  <2> QED BY <2>2, <2>3, <2>4, <2>5
<1>3. n \in T
  <2> HIDE DEF T
  <2>1. \A k \in 0..n : k \in T /\ k < n => k + 1 \in T
    BY <1>2
  <2>2. \A k \in 0..n : k \in T
    BY <1>0, <1>1, <2>1, CountingUp
  <2> QED BY <1>0, <2>2
<1> QED BY <1>3 DEF CountsUp
=============================================================================
