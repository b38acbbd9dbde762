------------------------- MODULE IssueLifecycleProofs -------------------------
(***************************************************************************)
(* Theorems about IssueLifecycle and BoardView, for any set of issues and of columns.    *)
(***************************************************************************)
EXTENDS BoardView, OrderLemmas

(***************************************************************************)
(* Lists.                                                                  *)
(***************************************************************************)

\* unshift and uniq: the result is a list of issues without duplicates that
\* begins with the number put first.
LEMMA PutFirstType ==
    ASSUME NEW S, NEW s \in Seq(S), NEW n \in S
    PROVE  /\ PutFirst(s, n) \in Seq(S)
           /\ IsInjective(s) => IsInjective(PutFirst(s, n))
<1> DEFINE r == RemoveFirst(s, n)
<1>1. /\ r \in Seq(S)
      /\ IsInjective(s) => IsInjective(r) /\ \A i \in 1..Len(r) : r[i] # n
  <2>1. CASE \E i \in 1..Len(s) : s[i] = n
    <3>1. PICK k \in 1..Len(s) :
              /\ s[k] = n
              /\ r \in Seq(S)
              /\ Len(r) = Len(s) - 1
              /\ \A i \in 1..(Len(s) - 1) :
                     r[i] = IF i < k THEN s[i] ELSE s[i + 1]
      BY <2>1, FirstRemoved
    <3> HIDE DEF r
    <3>2. ASSUME IsInjective(s)
          PROVE  IsInjective(r) /\ \A i \in 1..Len(r) : r[i] # n
      <4>0. Len(s) \in Nat
        OBVIOUS
      <4>1. \A i, j \in 1..Len(s) : s[i] = s[j] => i = j
        BY <3>2, InjectiveList
      <4>2. \A i, j \in 1..Len(r) : r[i] = r[j] => i = j
        BY <3>1, <4>0, <4>1
      <4>3. \A i \in 1..Len(r) : r[i] # n
        BY <3>1, <4>0, <4>1
      <4> QED BY <3>1, <4>2, <4>3, InjectiveList
    <3> QED BY <3>1, <3>2
  <2>2. CASE ~ \E i \in 1..Len(s) : s[i] = n
    BY <2>2 DEF RemoveFirst
  <2> QED BY <2>1, <2>2
<1> HIDE DEF r
<1>2. PutFirst(s, n) = <<n>> \o r
  BY DEF PutFirst, Cons, r
<1>3. <<n>> \in Seq(S) /\ Len(<<n>>) = 1 /\ <<n>>[1] = n
  OBVIOUS
<1>4. /\ PutFirst(s, n) \in Seq(S)
      /\ Len(PutFirst(s, n)) = 1 + Len(r)
      /\ \A i \in 1..(1 + Len(r)) :
             PutFirst(s, n)[i] = IF i = 1 THEN n ELSE r[i - 1]
  BY <1>1, <1>2, <1>3, ConcatProperties
<1>5. ASSUME IsInjective(s)
      PROVE  IsInjective(PutFirst(s, n))
  <2>1. /\ \A i, j \in 1..Len(r) : r[i] = r[j] => i = j
        /\ \A i \in 1..Len(r) : r[i] # n
    BY <1>1, <1>5, InjectiveList
  <2>2. \A i, j \in 1..Len(PutFirst(s, n)) :
            PutFirst(s, n)[i] = PutFirst(s, n)[j] => i = j
    <3> SUFFICES ASSUME NEW i \in 1..(1 + Len(r)), NEW j \in 1..(1 + Len(r)),
                        PutFirst(s, n)[i] = PutFirst(s, n)[j]
                 PROVE  i = j
      BY <1>4
    <3>1. Len(r) \in Nat
      BY <1>1
    <3>2. CASE i = 1 \/ j = 1
      BY <1>4, <2>1, <3>1, <3>2
    <3>3. CASE i # 1 /\ j # 1
      <4>1. i - 1 \in 1..Len(r) /\ j - 1 \in 1..Len(r)
        BY <3>1, <3>3
      <4>2. r[i - 1] = r[j - 1]
        BY <1>4, <3>3
      <4>3. i - 1 = j - 1
        BY <2>1, <4>1, <4>2
      <4> QED BY <4>3
    <3> QED BY <3>2, <3>3
  <2> QED BY <1>4, <2>2, InjectiveList
<1> QED
  BY <1>4, <1>5

\* The lists browsers may send are lists of issues without duplicates.
LEMMA BrowserListType ==
    ASSUME NEW list \in BrowserLists
    PROVE  list \in Seq(Numbers) /\ IsInjective(list)
BY InputsAssumption

(***************************************************************************)
(* Type correctness.                                                       *)
(***************************************************************************)

LEMMA InitTypeOK == Init => TypeOK
<1> SUFFICES ASSUME Init
             PROVE  TypeOK
  OBVIOUS
<1>1. /\ ghState \in [Numbers -> {"absent", "open", "closed"}]
      /\ closings \in [Numbers -> Nat]
      /\ aged \subseteq Numbers
  BY DEF Init
<1>2. \A S : <<>> \in Seq(S)
  BY EmptySeq
<1>3. opened \in [Numbers -> Seq(Columns)] /\ order \in [Columns -> Seq(Numbers)]
  BY <1>2 DEF Init
<1> QED
  BY <1>1, <1>3, ColumnsAssumption DEF Init, TypeOK

LEMMA NextTypeOK == TypeOK /\ [Next]_vars => TypeOK'
<1> SUFFICES ASSUME TypeOK, [Next]_vars
             PROVE  TypeOK'
  OBVIOUS
<1> USE ColumnsAssumption, InputsAssumption DEF Restarted, Unready, Synced,
        Swept
<1>1. ASSUME NEW n \in Numbers, Create(n)
      PROVE  TypeOK'
  <2>1. order' \in [Columns -> Seq(Numbers)]
    BY <1>1, PutFirstType DEF Create, TypeOK
  <2> QED BY <1>1, <2>1 DEF Create, TypeOK, Find, AutoAssigned
<1>2. ASSUME NEW n \in Numbers, NEW c \in Columns, NEW force \in Forces,
             Move(n, c, force)
      PROVE  TypeOK'
  <2>1. order' \in [Columns -> Seq(Numbers)]
    BY <1>2, PutFirstType DEF Move, TypeOK
  <2>2. /\ ghState' \in [Numbers -> {"absent", "open", "closed"}]
        /\ closings' \in [Numbers -> Nat]
        /\ closedAt' \in [Numbers -> Nat]
    <3>1. CASE c \in AutoClose /\ ghState[n] = "open"
      <4>1. /\ CloseOnGithub(n)
            /\ closedAt' = [closedAt EXCEPT ![n] = closings[n] + 1]
        BY <1>2, <3>1 DEF Move
      <4>2. closings[n] + 1 \in Nat
        BY DEF TypeOK
      <4> QED BY <4>1, <4>2 DEF CloseOnGithub, TypeOK
    <3>2. CASE ~(c \in AutoClose /\ ghState[n] = "open")
      <4>1. /\ closedAt' = FoundClosedAt(n)
            /\ UNCHANGED <<ghState, closings>>
        BY <1>2, <3>2 DEF Move
      <4>2. GhClosedAt(n) \in Nat
        BY DEF TypeOK, GhClosedAt
      <4> QED BY <4>1, <4>2 DEF FoundClosedAt, TypeOK
    <3> QED BY <3>1, <3>2
  <2>3. opened' \in [Numbers -> Seq(Columns)]
    BY <1>2 DEF Move, TypeOK
  <2>4. drifted' \subseteq Numbers
    BY <1>2 DEF Move, TypeOK, FoundDrift
  <2> QED
    BY <1>2, <2>1, <2>2, <2>3, <2>4
       DEF Move, TypeOK, Find, AutoAssigned, AutoRelisted
<1>3. ASSUME NEW n \in Numbers, Close(n)
      PROVE  TypeOK'
  BY <1>3 DEF Close, TypeOK, CloseOnGithub, Find
<1>4. ASSUME NEW n \in Numbers, Reopen(n)
      PROVE  TypeOK'
  BY <1>4 DEF Reopen, TypeOK, ReopenOnGithub, Find
<1>5. ASSUME NEW n \in Numbers, Archive(n)
      PROVE  TypeOK'
  BY <1>5
     DEF Archive, TypeOK, Find, FoundClosedAt, FoundDrift, GhClosedAt, ghVars
<1>6. ASSUME NEW n \in Numbers, Unarchive(n)
      PROVE  TypeOK'
  <2>1. opened' \in [Numbers -> Seq(Columns)]
    BY <1>6 DEF Unarchive, TypeOK
  <2>2. closedAt' \in [Numbers -> Nat]
    BY <1>6 DEF Unarchive, TypeOK, FoundClosedAt, GhClosedAt
  <2>3. /\ tracked' = tracked \cup {n}
        /\ archived' = archived \ {n}
        /\ drifted' \subseteq Numbers
        /\ UNCHANGED <<ghVars, column, ready, order, statsJob>>
    BY <1>6 DEF Unarchive, Find, FoundDrift, TypeOK
  <2> QED BY <2>1, <2>2, <2>3 DEF TypeOK, ghVars
<1>7. ASSUME NEW n \in Numbers, ToggleReady(n)
      PROVE  TypeOK'
  BY <1>7
     DEF ToggleReady, TypeOK, Find, FoundClosedAt, FoundDrift, GhClosedAt,
         ghVars
<1>8. ASSUME NEW n \in Numbers, Assign(n)
      PROVE  TypeOK'
  BY <1>8
     DEF Assign, TypeOK, Find, FoundClosedAt, FoundDrift, GhClosedAt
<1>9. ASSUME NEW n \in Numbers, External(n)
      PROVE  TypeOK'
  <2>1. CASE GithubCreate(n)
    BY <2>1 DEF GithubCreate, TypeOK, statVars
  <2>2. CASE GithubClose(n)
    BY <2>2 DEF GithubClose, CloseOnGithub, TypeOK, statVars
  <2>3. CASE GithubReopen(n)
    BY <2>3 DEF GithubReopen, ReopenOnGithub, TypeOK, statVars
  <2>4. CASE GithubAge(n)
    BY <2>4 DEF GithubAge, TypeOK, statVars
  <2> QED BY <1>9, <2>1, <2>2, <2>3, <2>4 DEF External
<1>10. ASSUME NEW c \in Columns, NEW list \in BrowserLists,
              SortColumn(c, list)
       PROVE  TypeOK'
  BY <1>10, BrowserListType DEF SortColumn, TypeOK, ghVars, statVars
<1>11. ASSUME NEW looked \in SUBSET Numbers, NEW seenOpen \in SUBSET Numbers,
              NEW earlier \in SUBSET Numbers,
              BoardRead(looked, seenOpen, earlier)
       PROVE  TypeOK'
  BY <1>11 DEF BoardRead, TypeOK, ghVars
<1>12. ASSUME SyncStats
       PROVE  TypeOK'
  BY <1>12 DEF SyncStats, TypeOK, ghVars, Listed, GhClosedAt
<1>13. ASSUME Synchronize
       PROVE  TypeOK'
  <2>1. opened' \in [Numbers -> Seq(Columns)]
    BY <1>13 DEF Synchronize, TypeOK
  <2> QED BY <1>13, <2>1 DEF Synchronize, TypeOK, ghVars
<1>14. CASE UNCHANGED vars
  BY <1>14 DEF TypeOK, vars, ghVars, statVars
<1>15. ASSUME NEW n \in Numbers, Update(n)
       PROVE  TypeOK'
  BY <1>15 DEF Update, TypeOK, statVars
<1> QED
  BY <1>1, <1>2, <1>3, <1>4, <1>5, <1>6, <1>7, <1>8, <1>9, <1>10, <1>11,
     <1>12, <1>13, <1>14, <1>15 DEF Next, Request

\* Every variable keeps its type: among others, only rows are archived or
\* ready, and the lists browsers and forced moves write hold issues only.
THEOREM TypeCorrect == Spec => []TypeOK
BY InitTypeOK, NextTypeOK, PTL DEF Spec

(***************************************************************************)
(* Lifetimes.  LifetimeInv is inductive with TypeOK; rows that do not yet  *)
(* exist are in it because IssueStats::Finder makes a row as it stands:    *)
(* default column, no lifetime.                                            *)
(***************************************************************************)

BlankRows ==
    /\ \A n \in tracked : OnGithub(n)
    /\ \A n \in Numbers \ tracked :
           column[n] = DefaultColumn /\ opened[n] = <<>> /\ closedAt[n] = 0

LifetimeInv ==
    /\ BlankRows
    /\ CurrentLifetimeInColumn
    /\ LifetimeLeakBounded

LEMMA InitLifetimeInv == Init => LifetimeInv
BY DEF Init, LifetimeInv, BlankRows, CurrentLifetimeInColumn,
       LifetimeLeakBounded

\* What a step may do to the cards so that LifetimeInv survives it: new rows
\* are blank or enter the default column, a card that changes its column has
\* the lifetime of the new column only, a card that leaves the shelf gets a
\* lifetime of its column, and a card put on the shelf loses its lifetimes.
CardStep(n) ==
    \/ /\ opened'[n] = opened[n] /\ column'[n] = column[n]
       /\ n \in archived' <=> n \in archived
    \/ /\ opened'[n] = <<column'[n]>>
       /\ n \in archived' <=> n \in archived
       /\ n \in tracked'
    \/ /\ opened'[n] = Append(opened[n], column'[n])
       /\ n \in archived /\ n \notin archived'
    \/ opened'[n] = <<>> /\ n \in archived'
    \/ opened'[n] = opened[n] /\ n \in archived /\ n \in archived'

RowStep(n) ==
    /\ n \in tracked => n \in tracked'
    /\ n \in tracked' => OnGithub(n)'
    /\ n \notin tracked' => /\ column'[n] = column[n]
                            /\ opened'[n] = opened[n]
                            /\ closedAt'[n] = closedAt[n]

LEMMA CardStepKeepsLifetimeInv ==
    ASSUME TypeOK, TypeOK', LifetimeInv,
           \A n \in Numbers : CardStep(n) /\ RowStep(n)
    PROVE  LifetimeInv'
<1>1. BlankRows'
  BY DEF LifetimeInv, BlankRows, RowStep, TypeOK
<1>2. ASSUME NEW n \in Numbers
      PROVE  /\ Len(opened'[n]) <= (IF n \in archived' THEN 1 ELSE 2)
             /\ n \notin archived' /\ opened'[n] # <<>>
                    => opened'[n][Len(opened'[n])] = column'[n]
  <2>1. /\ opened[n] \in Seq(Columns) /\ opened'[n] \in Seq(Columns)
        /\ column'[n] \in Columns
    BY DEF TypeOK
  <2>2. /\ Len(opened[n]) <= (IF n \in archived THEN 1 ELSE 2)
        /\ n \notin archived /\ opened[n] # <<>>
               => opened[n][Len(opened[n])] = column[n]
    BY DEF LifetimeInv, BlankRows, CurrentLifetimeInColumn,
           LifetimeLeakBounded
  <2>3. CASE opened'[n] = Append(opened[n], column'[n]) /\ n \in archived
                                                       /\ n \notin archived'
    BY <2>1, <2>2, <2>3, AppendProperties
  <2>4. CASE opened'[n] = <<column'[n]>>
    BY <2>1, <2>4
  <2> QED BY <2>1, <2>2, <2>3, <2>4 DEF CardStep
<1>3. tracked' \subseteq Numbers
  BY DEF TypeOK
<1> QED
  BY <1>1, <1>2, <1>3
     DEF LifetimeInv, CurrentLifetimeInColumn, LifetimeLeakBounded

LEMMA NextCardStep ==
    ASSUME TypeOK, LifetimeInv, [Next]_vars, NEW m \in Numbers
    PROVE  CardStep(m) /\ RowStep(m)
<1> USE DEF CardStep, RowStep, TypeOK, OnGithub, Restarted, Synced, Swept
<1>b. /\ m \in tracked => OnGithub(m)
      /\ m \notin tracked => column[m] = DefaultColumn /\ opened[m] = <<>>
  BY DEF LifetimeInv, BlankRows
<1>1. ASSUME NEW n \in Numbers, Create(n)
      PROVE  CardStep(m) /\ RowStep(m)
  BY <1>1, <1>b DEF Create, Find
<1>2. ASSUME NEW n \in Numbers, NEW c \in Columns, NEW force \in Forces,
             Move(n, c, force)
      PROVE  CardStep(m) /\ RowStep(m)
  <2>1. /\ tracked' = tracked \cup {n}
        /\ archived' = archived
        /\ OnGithub(n)
        /\ column' = [column EXCEPT ![n] = c]
        /\ opened' = IF c # column[n] THEN [opened EXCEPT ![n] = <<c>>]
                                      ELSE opened
    BY <1>2 DEF Move, Find
  <2>2. \A k \in Numbers : OnGithub(k) => OnGithub(k)'
    BY <1>2 DEF Move, CloseOnGithub
  <2>3. m # n => closedAt'[m] = closedAt[m]
    BY <1>2 DEF Move, FoundClosedAt
  <2> QED BY <1>b, <2>1, <2>2, <2>3
<1>3. ASSUME NEW n \in Numbers, Close(n)
      PROVE  CardStep(m) /\ RowStep(m)
  BY <1>3, <1>b DEF Close, CloseOnGithub, Find
<1>4. ASSUME NEW n \in Numbers, Reopen(n)
      PROVE  CardStep(m) /\ RowStep(m)
  BY <1>4, <1>b DEF Reopen, ReopenOnGithub, Find
<1>5. ASSUME NEW n \in Numbers, Archive(n)
      PROVE  CardStep(m) /\ RowStep(m)
  BY <1>5, <1>b DEF Archive, Find, FoundClosedAt, ghVars
<1>6. ASSUME NEW n \in Numbers, Unarchive(n)
      PROVE  CardStep(m) /\ RowStep(m)
  BY <1>6, <1>b DEF Unarchive, Find, FoundClosedAt, ghVars
<1>7. ASSUME NEW n \in Numbers, ToggleReady(n)
      PROVE  CardStep(m) /\ RowStep(m)
  BY <1>7, <1>b DEF ToggleReady, Find, FoundClosedAt, ghVars
<1>8. ASSUME NEW n \in Numbers, Assign(n)
      PROVE  CardStep(m) /\ RowStep(m)
  BY <1>8, <1>b DEF Assign, Find, FoundClosedAt
<1>9. ASSUME NEW n \in Numbers, External(n)
      PROVE  CardStep(m) /\ RowStep(m)
  BY <1>9, <1>b
     DEF External, GithubCreate, GithubClose, GithubReopen, GithubAge,
         CloseOnGithub, ReopenOnGithub, statVars
<1>10. ASSUME NEW c \in Columns, NEW list \in BrowserLists,
              SortColumn(c, list)
       PROVE  CardStep(m) /\ RowStep(m)
  BY <1>10, <1>b DEF SortColumn, ghVars, statVars
<1>11. ASSUME NEW looked \in SUBSET Numbers, NEW seenOpen \in SUBSET Numbers,
              NEW earlier \in SUBSET Numbers,
              BoardRead(looked, seenOpen, earlier)
       PROVE  CardStep(m) /\ RowStep(m)
  BY <1>11, <1>b DEF BoardRead, ghVars
<1>12. ASSUME SyncStats
       PROVE  CardStep(m) /\ RowStep(m)
  BY <1>12, <1>b DEF SyncStats, Listed, ghVars
<1>13. ASSUME Synchronize
       PROVE  CardStep(m) /\ RowStep(m)
  BY <1>13, <1>b DEF Synchronize, ghVars
<1>14. CASE UNCHANGED vars
  BY <1>14, <1>b DEF vars, ghVars, statVars
<1>15. ASSUME NEW n \in Numbers, Update(n)
       PROVE  CardStep(m) /\ RowStep(m)
  BY <1>15, <1>b DEF Update, statVars
<1> QED
  BY <1>1, <1>2, <1>3, <1>4, <1>5, <1>6, <1>7, <1>8, <1>9, <1>10, <1>11,
     <1>12, <1>13, <1>14, <1>15 DEF Next, Request

LEMMA NextLifetimeInv == TypeOK /\ LifetimeInv /\ [Next]_vars => LifetimeInv'
<1> SUFFICES ASSUME TypeOK, LifetimeInv, [Next]_vars
             PROVE  LifetimeInv'
  OBVIOUS
<1>1. TypeOK'
  BY NextTypeOK
<1>2. \A m \in Numbers : CardStep(m) /\ RowStep(m)
  BY NextCardStep
<1> QED
  BY <1>1, <1>2, CardStepKeepsLifetimeInv

\* The last open lifetime of a visible card is the one of its column.
THEOREM LifetimesFollowColumns == Spec => []CurrentLifetimeInColumn
<1>1. LifetimeInv => CurrentLifetimeInColumn
  BY DEF LifetimeInv
<1> QED
  BY <1>1, InitTypeOK, InitLifetimeInv, NextTypeOK, NextLifetimeInv, PTL
     DEF Spec

\* Unarchiver leaves at most one lifetime too many, however long the board
\* lives.
THEOREM LifetimeLeakIsBounded == Spec => []LifetimeLeakBounded
<1>1. LifetimeInv => LifetimeLeakBounded
  BY DEF LifetimeInv
<1> QED
  BY <1>1, InitTypeOK, InitLifetimeInv, NextTypeOK, NextLifetimeInv, PTL
     DEF Spec

(***************************************************************************)
(* closed_at against GitHub.                                               *)
(***************************************************************************)

LEMMA NextDrift ==
    ASSUME TypeOK, BlankRows, ClosedAtDriftsOnGithubOnly, [Next]_vars
    PROVE  ClosedAtDriftsOnGithubOnly'
<1> SUFFICES ASSUME NEW m \in Numbers, m \in tracked', m \notin drifted'
             PROVE  closedAt'[m] = GhClosedAt(m)'
  BY NextTypeOK DEF ClosedAtDriftsOnGithubOnly, TypeOK
<1> USE DEF TypeOK, GhClosedAt, OnGithub, Synced
<1>b. /\ m \in tracked /\ m \notin drifted => closedAt[m] = GhClosedAt(m)
      /\ m \in tracked => ghState[m] # "absent"
      /\ m \notin tracked => closedAt[m] = 0
  BY DEF BlankRows, ClosedAtDriftsOnGithubOnly
<1>1. ASSUME NEW n \in Numbers, Create(n)
      PROVE  closedAt'[m] = GhClosedAt(m)'
  BY <1>1, <1>b DEF Create, Find
<1>2. ASSUME NEW n \in Numbers, NEW c \in Columns, NEW force \in Forces,
             Move(n, c, force)
      PROVE  closedAt'[m] = GhClosedAt(m)'
  <2>1. tracked' = tracked \cup {n}
    BY <1>2 DEF Move, Find
  <2>2. CASE c \in AutoClose /\ ghState[n] = "open"
    <3>1. /\ CloseOnGithub(n)
          /\ closedAt' = [closedAt EXCEPT ![n] = closings[n] + 1]
          /\ drifted' = drifted \ {n}
      BY <1>2, <2>2 DEF Move
    <3> QED BY <1>b, <2>1, <2>2, <3>1 DEF CloseOnGithub
  <2>3. CASE ~(c \in AutoClose /\ ghState[n] = "open")
    <3>1. /\ closedAt' = FoundClosedAt(n)
          /\ drifted' = FoundDrift(n)
          /\ UNCHANGED <<ghState, closings>>
      BY <1>2, <2>3 DEF Move
    <3> QED BY <1>b, <2>1, <3>1 DEF FoundClosedAt, FoundDrift
  <2> QED BY <2>2, <2>3
<1>3. ASSUME NEW n \in Numbers, Close(n)
      PROVE  closedAt'[m] = GhClosedAt(m)'
  BY <1>3, <1>b DEF Close, CloseOnGithub, Find
<1>4. ASSUME NEW n \in Numbers, Reopen(n)
      PROVE  closedAt'[m] = GhClosedAt(m)'
  BY <1>4, <1>b DEF Reopen, ReopenOnGithub, Find
<1>5. ASSUME NEW n \in Numbers, Archive(n)
      PROVE  closedAt'[m] = GhClosedAt(m)'
  BY <1>5, <1>b DEF Archive, Find, FoundClosedAt, FoundDrift, ghVars
<1>6. ASSUME NEW n \in Numbers, Unarchive(n)
      PROVE  closedAt'[m] = GhClosedAt(m)'
  BY <1>6, <1>b DEF Unarchive, Find, FoundClosedAt, FoundDrift, ghVars
<1>7. ASSUME NEW n \in Numbers, ToggleReady(n)
      PROVE  closedAt'[m] = GhClosedAt(m)'
  BY <1>7, <1>b DEF ToggleReady, Find, FoundClosedAt, FoundDrift, ghVars
<1>8. ASSUME NEW n \in Numbers, Assign(n)
      PROVE  closedAt'[m] = GhClosedAt(m)'
  BY <1>8, <1>b DEF Assign, Find, FoundClosedAt, FoundDrift
<1>9. ASSUME NEW n \in Numbers, External(n)
      PROVE  closedAt'[m] = GhClosedAt(m)'
  BY <1>9, <1>b
     DEF External, GithubCreate, GithubClose, GithubReopen, GithubAge,
         CloseOnGithub, ReopenOnGithub, statVars
<1>10. ASSUME NEW c \in Columns, NEW list \in BrowserLists,
              SortColumn(c, list)
       PROVE  closedAt'[m] = GhClosedAt(m)'
  BY <1>10, <1>b DEF SortColumn, ghVars, statVars
<1>11. ASSUME NEW looked \in SUBSET Numbers, NEW seenOpen \in SUBSET Numbers,
              NEW earlier \in SUBSET Numbers,
              BoardRead(looked, seenOpen, earlier)
       PROVE  closedAt'[m] = GhClosedAt(m)'
  BY <1>11, <1>b DEF BoardRead, ghVars
<1>12. ASSUME SyncStats
       PROVE  closedAt'[m] = GhClosedAt(m)'
  BY <1>12, <1>b DEF SyncStats, ghVars
<1>13. ASSUME Synchronize
       PROVE  closedAt'[m] = GhClosedAt(m)'
  BY <1>13, <1>b DEF Synchronize, ghVars
<1>14. CASE UNCHANGED vars
  BY <1>14, <1>b DEF vars, ghVars, statVars
<1>15. ASSUME NEW n \in Numbers, Update(n)
       PROVE  closedAt'[m] = GhClosedAt(m)'
  BY <1>15, <1>b DEF Update, statVars
<1> QED
  BY <1>1, <1>2, <1>3, <1>4, <1>5, <1>6, <1>7, <1>8, <1>9, <1>10, <1>11,
     <1>12, <1>13, <1>14, <1>15 DEF Next, Request

\* The board's own requests and jobs never make closed_at disagree with
\* GitHub.
THEOREM ClosedAtAgrees == Spec => []ClosedAtDriftsOnGithubOnly
<1>1. Init => ClosedAtDriftsOnGithubOnly
  BY DEF Init, ClosedAtDriftsOnGithubOnly
<1>2. LifetimeInv => BlankRows
  BY DEF LifetimeInv
<1> QED
  BY <1>1, <1>2, InitTypeOK, InitLifetimeInv, NextTypeOK, NextLifetimeInv,
     NextDrift, PTL DEF Spec

(***************************************************************************)
(* The repair of closed_at.                                                *)
(***************************************************************************)

\* What StatsJobRepairsClosedAt rests on, besides that Sidekiq goes on: a
\* queued IssueStatsWorker waits until it runs, whatever people do on the
\* board and on GitHub meanwhile, and the step in which it leaves the queue
\* leaves every listed issue it looks at with GitHub's closed_at.
THEOREM StatsJobWaitsOrRepairs ==
    Spec => [][statsJob => statsJob' \/ ClosedAtRepaired']_vars
<1>1. TypeOK /\ [Next]_vars => [statsJob => statsJob' \/ ClosedAtRepaired']_vars
  <2> SUFFICES ASSUME TypeOK, Next, statsJob, ~statsJob'
               PROVE  ClosedAtRepaired'
    BY DEF TypeOK
  <2>1. SyncStats
    BY DEF Next, Request, External, Create, Move, Close, Reopen, Archive,
           Unarchive, ToggleReady, Assign, Update, SortColumn, BoardRead,
           Synchronize, GithubCreate, GithubClose, GithubReopen, GithubAge
  <2> DEFINE created == {n \in Synced : n > LastNumber(tracked)}
             updated == created \cup (Synced \cap tracked)
  <2>2. /\ tracked' = tracked \cup created
        /\ closedAt' = [n \in Numbers |-> IF n \in updated THEN GhClosedAt(n)
                                                           ELSE closedAt[n]]
        /\ UNCHANGED ghVars
    BY <2>1 DEF SyncStats
  <2>3. ASSUME NEW n \in Listed', ghState'[n] = "open" \/ n \notin Old,
               n \in tracked'
        PROVE  closedAt'[n] = GhClosedAt(n)'
    <3>1. /\ n \in Numbers
          /\ Listed' = Listed /\ ghState' = ghState /\ GhClosedAt(n)' = GhClosedAt(n)
      BY <2>2 DEF Listed, OnGithub, GhClosedAt, ghVars
    <3>2. n \in Synced
      BY <2>3, <3>1 DEF Synced
    <3>3. n \in updated
      BY <2>2, <2>3, <3>2
    <3> HIDE DEF updated
    <3> QED BY <2>2, <3>1, <3>3
  <2> QED BY <2>3 DEF ClosedAtRepaired
<1> QED
  BY <1>1, InitTypeOK, NextTypeOK, PTL DEF Spec

(***************************************************************************)
(* Manual order and moves.                                                 *)
(***************************************************************************)

LEMMA NextOrder ==
    ASSUME TypeOK, OrderHasNoDuplicates, [Next]_vars
    PROVE  OrderHasNoDuplicates'
<1>1. ASSUME NEW n \in Numbers, NEW c \in Columns,
             order' = [order EXCEPT ![c] = PutFirst(@, n)]
      PROVE  OrderHasNoDuplicates'
  BY <1>1, PutFirstType DEF OrderHasNoDuplicates, TypeOK
<1>2. ASSUME NEW c \in Columns, NEW list \in BrowserLists,
             order' = [order EXCEPT ![c] = list]
      PROVE  OrderHasNoDuplicates'
  BY <1>2, BrowserListType DEF OrderHasNoDuplicates, TypeOK
<1>3. CASE order' = order
  BY <1>3 DEF OrderHasNoDuplicates
<1> QED
  BY <1>1, <1>2, <1>3, ColumnsAssumption
     DEF Next, Request, External, Create, Move, Close, Reopen, Archive,
         Unarchive, ToggleReady, Assign, Update, SortColumn, BoardRead, SyncStats,
         Synchronize, GithubCreate, GithubClose, GithubReopen, GithubAge,
         vars

\* No list of a column ever names an issue twice.
THEOREM OrdersAreSets == Spec => []OrderHasNoDuplicates
<1>1. Init => OrderHasNoDuplicates
  BY DEF Init, OrderHasNoDuplicates, IsInjective
<1> QED
  BY <1>1, InitTypeOK, NextTypeOK, NextOrder, PTL DEF Spec

\* A visible card leaves its column unready and with the lifetime of the new
\* column alone.
THEOREM MovesRestartStages == Spec => MoveRestartsStage
<1> DEFINE Restart ==
        \A n \in tracked \ archived :
            column'[n] # column[n] /\ n \notin archived'
                => n \notin ready' /\ opened'[n] = <<column'[n]>>
<1>1. TypeOK /\ [Next]_vars => [Restart]_vars
  <2> SUFFICES ASSUME TypeOK, Next,
                      NEW m \in Numbers, column'[m] # column[m],
                      m \notin archived, m \notin archived'
               PROVE  m \notin ready' /\ opened'[m] = <<column'[m]>>
    BY DEF TypeOK
  <2>1. ASSUME NEW n \in Numbers, NEW c \in Columns, NEW force \in Forces,
               Move(n, c, force)
        PROVE  m \notin ready' /\ opened'[m] = <<column'[m]>>
    BY <2>1 DEF Move, TypeOK, Restarted, Unready
  <2>2. CASE Synchronize
    BY <2>2 DEF Synchronize, TypeOK, Swept
  <2>3. CASE column' = column
    BY <2>3
  <2> QED
    BY <2>1, <2>2, <2>3
       DEF Next, Request, External, Create, Close, Reopen, Archive,
           Unarchive, ToggleReady, Assign, Update, SortColumn, BoardRead, SyncStats,
           GithubCreate, GithubClose, GithubReopen, GithubAge, statVars
<1> QED
  BY <1>1, InitTypeOK, NextTypeOK, PTL DEF Spec, MoveRestartsStage

(***************************************************************************)
(* The rows implement the board of cards.                                  *)
(***************************************************************************)

LEMMA CardBoardInit == Init => Board!BoardInit
BY DEF Init, Board!BoardInit

LEMMA CardBoardStep ==
    ASSUME TypeOK, LifetimeInv, [Next]_vars
    PROVE  [Board!BoardNext]_(Board!boardVars)
<1> USE DEF TypeOK, Board!boardVars, Board!BoardNext
<1>1. ASSUME NEW n \in Numbers, tracked' = tracked \cup {n},
             UNCHANGED <<archived, column>>
      PROVE  [Board!BoardNext]_(Board!boardVars)
  <2>1. CASE n \in tracked
    BY <1>1, <2>1
  <2>2. CASE n \notin tracked
    <3>1. Board!Appear({n})
      BY <1>1, <2>2 DEF Board!Appear, Board!Cards
    <3> QED BY <3>1
  <2> QED BY <2>1, <2>2
<1>2. ASSUME NEW n \in Numbers, NEW c \in Columns, NEW force \in Forces,
             Move(n, c, force)
      PROVE  [Board!BoardNext]_(Board!boardVars)
  <2>1. Board!MoveCard(n, c)
    BY <1>2 DEF Move, Find, Board!MoveCard
  <2> QED BY <2>1
<1>3. ASSUME NEW n \in Numbers, Archive(n)
      PROVE  [Board!BoardNext]_(Board!boardVars)
  <2>1. Board!Shelve(n)
    BY <1>3 DEF Archive, Find, Board!Shelve
  <2> QED BY <2>1
<1>4. ASSUME NEW n \in Numbers, Unarchive(n)
      PROVE  [Board!BoardNext]_(Board!boardVars)
  <2>1. CASE n \in archived
    <3>1. Board!Restore(n)
      BY <1>4, <2>1 DEF Unarchive, Find, Board!Restore
    <3> QED BY <3>1
  <2>2. CASE n \notin archived
    BY <1>1, <1>4, <2>2 DEF Unarchive, Find
  <2> QED BY <2>1, <2>2
<1>5. ASSUME NEW S \in SUBSET Numbers, tracked' = tracked \cup S,
             UNCHANGED <<archived, column>>
      PROVE  [Board!BoardNext]_(Board!boardVars)
  <2>1. Board!Appear(S \ tracked)
    BY <1>5 DEF Board!Appear, Board!Cards
  <2> QED BY <2>1
<1>6. ASSUME Synchronize
      PROVE  [Board!BoardNext]_(Board!boardVars)
  <2>1. Board!Sweep((tracked \ archived) \ Listed)
    BY <1>6 DEF Synchronize, Swept, Board!Sweep
  <2> QED BY <2>1
<1>7. ASSUME NEW n \in Numbers, Request(n)
      PROVE  [Board!BoardNext]_(Board!boardVars)
  BY <1>1, <1>2, <1>3, <1>4, <1>7
     DEF Request, Create, Close, Reopen, ToggleReady, Assign, Update, Find,
         statVars
<1>8. ASSUME NEW n \in Numbers, External(n)
      PROVE  [Board!BoardNext]_(Board!boardVars)
  BY <1>8 DEF External, GithubCreate, GithubClose, GithubReopen, GithubAge,
              statVars
<1>9. ASSUME NEW c \in Columns, NEW list \in BrowserLists,
             SortColumn(c, list)
      PROVE  [Board!BoardNext]_(Board!boardVars)
  BY <1>9 DEF SortColumn, statVars
<1>10. ASSUME NEW looked \in SUBSET Numbers, NEW seenOpen \in SUBSET Numbers,
              NEW earlier \in SUBSET Numbers,
              BoardRead(looked, seenOpen, earlier)
       PROVE  [Board!BoardNext]_(Board!boardVars)
  <2>1. PICK S \in SUBSET Numbers : tracked' = tracked \cup S
    BY <1>10 DEF BoardRead
  <2> QED BY <1>5, <1>10, <2>1 DEF BoardRead
<1>11. ASSUME SyncStats
       PROVE  [Board!BoardNext]_(Board!boardVars)
  <2>1. PICK S \in SUBSET Numbers : tracked' = tracked \cup S
    BY <1>11 DEF SyncStats, Synced, Listed
  <2> QED BY <1>5, <1>11, <2>1 DEF SyncStats
<1>12. CASE UNCHANGED vars
  BY <1>12 DEF vars, statVars
<1> QED
  BY <1>6, <1>7, <1>8, <1>9, <1>10, <1>11, <1>12 DEF Next

\* The detailed lifecycle implements the board of cards.
THEOREM LifecycleImplementsCardBoard == Spec => ImplementsCardBoard
<1>1. TypeOK /\ LifetimeInv /\ [Next]_vars
          => [Board!BoardNext]_(Board!boardVars)
  BY CardBoardStep
<1> QED
  BY <1>1, CardBoardInit, InitTypeOK, InitLifetimeInv, NextTypeOK,
     NextLifetimeInv, PTL
     DEF Spec, ImplementsCardBoard, Board!BoardSpec

(***************************************************************************)
(* What a column shows.  Picked is a fold: Picking(f, s, T) says that f[i]   *)
(* is what the fold has picked from the first i numbers of s.              *)
(***************************************************************************)

Picking(f, s, T) ==
    /\ f \in [0..Len(s) -> Seq(T)]
    /\ f[0] = <<>>
    /\ \A i \in 1..Len(s) : f[i] = IF s[i] \in T THEN WithNew(f[i - 1], s[i])
                                                 ELSE f[i - 1]

\* What the fold keeps of the first numbers, from place to place.
LEMMA PickedByPlace ==
    ASSUME NEW S, NEW s \in Seq(S), NEW T
    PROVE  \E f : Picking(f, s, T) /\ Picked(s, T) = f[Len(s)]
<1> DEFINE n == Len(s)
           D == 1..n
           step(shown, e) == IF e \in T THEN WithNew(shown, e) ELSE shown
           Iterates(g) == g = [u \in SUBSET D |->
                                  IF u = {} THEN <<>>
                                  ELSE step(g[u \ {Max(u)}], s[Max(u)])]
<1>1. n \in Nat /\ DOMAIN s = D /\ IsFiniteSet(D) /\ D \subseteq Nat
  BY FS_Interval
<1>2. \A u \in (SUBSET D) \ {{}} : Max(u) \in u
  BY <1>1, FS_Subset, MaxIsGreatest
<1>3. \E g : Iterates(g)
  <2> DEFINE pick == [u \in (SUBSET D) \ {{}} |-> Max(u)]
             next == [p \in D \X Seq(T) |-> step(p[2], s[p[1]])]
  <2>1. pick \in [(SUBSET D) \ {{}} -> D] /\ \A u \in (SUBSET D) \ {{}} : pick[u] \in u
    BY <1>2
  <2>2. next \in [D \X Seq(T) -> Seq(T)]
    BY DEF WithNew
  <2>3. <<>> \in Seq(T)
    OBVIOUS
  <2> HIDE DEF pick, next
  <2>4. CanRecurse(D, Seq(T), <<>>, pick, next)
    BY <1>1, <2>1, <2>2, <2>3 DEF CanRecurse
  <2>5. PICK g : Recurses(g, D, Seq(T), <<>>, pick, next)
    BY <2>4, RecursionOnSubsets
  <2>6. /\ g \in [SUBSET D -> Seq(T)]
        /\ \A u \in SUBSET D :
               g[u] = IF u = {} THEN <<>> ELSE next[<<pick[u], g[u \ {pick[u]}]>>]
    BY <2>5 DEF Recurses
  <2>7. ASSUME NEW u \in SUBSET D
        PROVE  g[u] = IF u = {} THEN <<>> ELSE step(g[u \ {Max(u)}], s[Max(u)])
    <3>1. CASE u = {}
      BY <2>6, <3>1
    <3>2. CASE u # {}
      <4>1. g[u] = next[<<pick[u], g[u \ {pick[u]}]>>]
        BY <2>6, <3>2
      <4>2. pick[u] = Max(u) /\ Max(u) \in D
        BY <1>2, <3>2 DEF pick
      <4>3. g[u \ {Max(u)}] \in Seq(T)
        BY <2>6
      <4>4. next[<<Max(u), g[u \ {Max(u)}]>>] = step(g[u \ {Max(u)}], s[Max(u)])
        BY <4>2, <4>3 DEF next
      <4> QED BY <3>2, <4>1, <4>2, <4>4
    <3> QED BY <3>1, <3>2
  <2>8. Iterates(g)
    BY <2>6, <2>7
  <2> QED BY <2>8
<1> DEFINE it == CHOOSE g : Iterates(g)
<1>4. Iterates(it)
  BY <1>3
<1>5. Picked(s, T) = it[D]
  BY <1>1 DEF Picked, FoldLeft, MapThenFoldSet
<1> HIDE DEF it
<1> DEFINE f == [i \in 0..n |-> it[1..i]]
<1>6. f[0] = <<>>
  <2>1. f[0] = it[1..0] /\ 1..0 = {}
    BY <1>1
  <2>2. it[{}] = <<>>
    BY <1>4
  <2> QED BY <2>1, <2>2
<1>7. ASSUME NEW i \in 1..n
      PROVE  f[i] = step(f[i - 1], s[i])
  <2>1. 1..i \in SUBSET D /\ 1..i # {} /\ i \in 1..i
    BY <1>1
  <2>2. Max(1..i) = i
    <3>1. Max(1..i) \in 1..i /\ i <= Max(1..i)
      BY <1>1, <2>1, FS_Subset, MaxIsGreatest
    <3> QED BY <3>1
  <2>3. (1..i) \ {i} = 1..(i - 1)
    OBVIOUS
  <2>4. it[1..i] = step(it[(1..i) \ {Max(1..i)}], s[Max(1..i)])
    <3> HIDE DEF step
    <3> QED BY <1>4, <2>1
  <2>5. f[i] = it[1..i] /\ f[i - 1] = it[1..(i - 1)]
    BY <1>1
  <2> QED BY <2>2, <2>3, <2>4, <2>5
<1> DEFINE Typed == {i \in 0..n : f[i] \in Seq(T)}
<1>8. \A i \in 0..n : i \in Typed
  <2>1. 0 \in Typed
    <3> HIDE DEF f
    <3>1. 0 \in 0..n /\ <<>> \in Seq(T)
      BY <1>1
    <3> QED BY <1>6, <3>1
  <2>2. \A i \in 0..n : i \in Typed /\ i < n => i + 1 \in Typed
    <3> SUFFICES ASSUME NEW i \in 0..n, i \in Typed, i < n PROVE i + 1 \in Typed
      OBVIOUS
    <3>1. i + 1 \in 1..n /\ (i + 1) - 1 = i
      BY <1>1
    <3>2. f[i + 1] = step(f[i], s[i + 1])
      <4> HIDE DEF f, step
      <4> QED BY <1>7, <3>1
    <3>3. f[i] \in Seq(T)
      OBVIOUS
    <3> HIDE DEF f
    <3>4. f[i + 1] \in Seq(T)
      BY <3>2, <3>3 DEF WithNew
    <3> QED BY <1>1, <3>1, <3>4
  <2> HIDE DEF Typed
  <2> QED BY <1>1, <2>1, <2>2, CountingUp
<1>9. f \in [0..n -> Seq(T)]
  BY <1>8
<1>10. f[n] = Picked(s, T)
  BY <1>1, <1>5
<1> HIDE DEF f
<1> QED BY <1>6, <1>7, <1>9, <1>10 DEF Picking

\* What is kept of the first numbers: those of T, each once.
LEMMA PickingMembers ==
    ASSUME NEW S, NEW s \in Seq(S), NEW T, NEW f, Picking(f, s, T),
           NEW i \in 0..Len(s)
    PROVE  /\ f[i] \in Seq(T)
           /\ IsInjective(f[i])
           /\ \A x : Contains(f[i], x) <=> x \in T /\ \E j \in 1..i : s[j] = x
<1>2. /\ f \in [0..Len(s) -> Seq(T)]
      /\ f[0] = <<>>
      /\ \A c \in 1..Len(s) : f[c] = IF s[c] \in T THEN WithNew(f[c - 1], s[c])
                                                   ELSE f[c - 1]
  BY DEF Picking
<1> DEFINE n == Len(s)
           Good == {c \in 0..n :
                      /\ \A j, k \in 1..Len(f[c]) : f[c][j] = f[c][k] => j = k
                      /\ \A x : Contains(f[c], x)
                                    <=> x \in T /\ \E j \in 1..c : s[j] = x}
<1>3. n \in Nat
  OBVIOUS
<1>4. 0 \in Good
  BY <1>2, <1>3 DEF Contains
<1>5. ASSUME NEW c \in 0..n, c \in Good, c < n
      PROVE  c + 1 \in Good
  <2> DEFINE u == f[c]
             v == f[c + 1]
             x == s[c + 1]
  <2>1. c + 1 \in 1..n /\ (c + 1) - 1 = c /\ c \in Nat
    BY <1>3, <1>5
  <2>2. v = IF x \in T THEN WithNew(u, x) ELSE u
    BY <1>2, <2>1
  <2>3. u \in Seq(T) /\ Len(u) \in Nat
    <3>1. f[c] \in Seq(T)
      BY <1>2, <1>5
    <3> QED BY <3>1
  <2>4. /\ \A j, k \in 1..Len(u) : u[j] = u[k] => j = k
        /\ \A y : Contains(u, y) <=> y \in T /\ \E j \in 1..c : s[j] = y
    BY <1>5
  <2>5. \A y : (\E j \in 1..(c + 1) : s[j] = y) <=> y = x \/ \E j \in 1..c : s[j] = y
    <3>1. 1..(c + 1) = 1..c \cup {c + 1}
      BY <2>1
    <3> QED BY <3>1
  <2> HIDE DEF u, v, x
  <2>6. CASE x \in T /\ ~Contains(u, x)
    <3>1. v = Append(u, x)
      BY <2>2, <2>6 DEF WithNew
    <3>2. /\ Len(v) = Len(u) + 1 /\ v[Len(u) + 1] = x
          /\ \A j \in 1..Len(u) : v[j] = u[j]
      BY <2>3, <2>6, <3>1, AppendProperties
    <3>3. \A j \in 1..Len(u) : u[j] # x
      BY <2>6 DEF Contains
    <3>4. \A j, k \in 1..Len(v) : v[j] = v[k] => j = k
      BY <2>3, <2>4, <3>2, <3>3
    <3>5. \A y : Contains(v, y) <=> y = x \/ Contains(u, y)
      <4>1. 1..Len(v) = 1..Len(u) \cup {Len(u) + 1}
        BY <2>3, <3>2
      <4> QED BY <3>2, <4>1 DEF Contains
    <3>6. \A y : Contains(v, y) <=> y \in T /\ \E j \in 1..(c + 1) : s[j] = y
      BY <2>4, <2>5, <2>6, <3>5
    <3> QED BY <2>1, <3>4, <3>6 DEF v
  <2>7. CASE x \notin T \/ Contains(u, x)
    <3>1. v = u
      BY <2>2, <2>7 DEF WithNew
    <3>2. \A y : Contains(v, y) <=> y \in T /\ \E j \in 1..(c + 1) : s[j] = y
      BY <2>4, <2>5, <2>7, <3>1
    <3> QED BY <2>1, <2>4, <3>1, <3>2 DEF v
  <2> QED BY <2>6, <2>7
<1>6. i \in Good
  <2> HIDE DEF Good
  <2>1. \A c \in 0..n : c \in Good /\ c < n => c + 1 \in Good
    BY <1>5
  <2> HIDE DEF n
  <2>2. \A c \in 0..n : c \in Good
    BY <1>3, <1>4, <2>1, CountingUp
  <2> QED BY <2>2 DEF n
<1>7. f[i] \in Seq(T)
  BY <1>2, <1>3
<1>8. /\ \A j, k \in 1..Len(f[i]) : f[i][j] = f[i][k] => j = k
      /\ \A x : Contains(f[i], x) <=> x \in T /\ \E j \in 1..i : s[j] = x
  BY <1>6
<1> HIDE DEF Good
<1>9. IsInjective(f[i])
  BY <1>7, <1>8, InjectiveList
<1> QED BY <1>7, <1>8, <1>9

\* A list without duplicates of the members of T that s holds.
LEMMA PickedMembers ==
    ASSUME NEW S, NEW s \in Seq(S), NEW T
    PROVE  /\ Picked(s, T) \in Seq(T)
           /\ IsInjective(Picked(s, T))
           /\ \A x : Contains(Picked(s, T), x) <=> x \in T /\ Contains(s, x)
<1>1. PICK f : Picking(f, s, T) /\ Picked(s, T) = f[Len(s)]
  BY PickedByPlace
<1>2. Len(s) \in 0..Len(s)
  OBVIOUS
<1> DEFINE n == Len(s)
<1> HIDE DEF n
<1>3. /\ f[n] \in Seq(T)
      /\ IsInjective(f[n])
      /\ \A x : Contains(f[n], x) <=> x \in T /\ \E j \in 1..n : s[j] = x
  <2>1. n \in 0..Len(s) /\ Picking(f, s, T)
    BY <1>1, <1>2 DEF n
  <2> QED BY <2>1, PickingMembers, Zenon
<1> QED BY <1>1, <1>3 DEF Contains, n

\* RemoveFirst of a longer list.
LEMMA RemovedFromAppended ==
    ASSUME NEW S, NEW u \in Seq(S), IsInjective(u), NEW n, NEW x
    PROVE  /\ x # n => RemoveFirst(Append(u, x), n) = Append(RemoveFirst(u, n), x)
           /\ x = n /\ ~Contains(u, n) => RemoveFirst(Append(u, x), n) = u
<1> DEFINE R == S \cup {x}
           v == Append(u, x)
<1>1. /\ u \in Seq(R) /\ x \in R /\ v \in Seq(R) /\ Len(u) \in Nat
      /\ Len(v) = Len(u) + 1 /\ v[Len(u) + 1] = x
      /\ \A j \in 1..Len(u) : v[j] = u[j]
  <2>1. u \in Seq(R) /\ x \in R
    OBVIOUS
  <2> HIDE DEF R
  <2> QED BY <2>1, AppendProperties
<1> HIDE DEF R, v
<1>2. 1..Len(v) = 1..Len(u) \cup {Len(u) + 1}
  BY <1>1
<1>3. CASE ~Contains(u, n) /\ x # n
  <2>1. ~(\E i \in 1..Len(v) : v[i] = n) /\ ~(\E i \in 1..Len(u) : u[i] = n)
    BY <1>1, <1>2, <1>3 DEF Contains
  <2> QED BY <1>3, <2>1 DEF RemoveFirst, v
<1>4. CASE ~Contains(u, n) /\ x = n
  <2>1. PICK k \in 1..Len(v) :
            /\ v[k] = n
            /\ RemoveFirst(v, n) \in Seq(R)
            /\ Len(RemoveFirst(v, n)) = Len(v) - 1
            /\ \A i \in 1..(Len(v) - 1) :
                   RemoveFirst(v, n)[i] = IF i < k THEN v[i] ELSE v[i + 1]
    <3>1. \E i \in 1..Len(v) : v[i] = n
      BY <1>1, <1>2, <1>4
    <3> QED BY <1>1, <3>1, FirstRemoved
  <2>2. k = Len(u) + 1
    BY <1>1, <1>2, <1>4, <2>1 DEF Contains
  <2>3. \A i \in 1..Len(u) : RemoveFirst(v, n)[i] = u[i]
    BY <1>1, <2>1, <2>2
  <2>4. Len(RemoveFirst(v, n)) = Len(u)
    BY <1>1, <2>1
  <2>5. RemoveFirst(v, n) = u
    BY <1>1, <2>1, <2>3, <2>4, SeqEqual
  <2> QED BY <1>4, <2>5 DEF v
<1>5. CASE Contains(u, n) /\ x # n
  <2> DEFINE a == RemoveFirst(u, n)
  <2>1. PICK k \in 1..Len(u) :
            /\ u[k] = n
            /\ a \in Seq(S) /\ Len(a) = Len(u) - 1
            /\ \A i \in 1..(Len(u) - 1) : a[i] = IF i < k THEN u[i] ELSE u[i + 1]
    BY <1>5, FirstRemoved DEF Contains
  <2>2. PICK l \in 1..Len(v) :
            /\ v[l] = n
            /\ RemoveFirst(v, n) \in Seq(R)
            /\ Len(RemoveFirst(v, n)) = Len(v) - 1
            /\ \A i \in 1..(Len(v) - 1) :
                   RemoveFirst(v, n)[i] = IF i < l THEN v[i] ELSE v[i + 1]
    <3>1. \E i \in 1..Len(v) : v[i] = n
      BY <1>1, <1>2, <2>1
    <3> QED BY <1>1, <3>1, FirstRemoved
  <2>3. l = k
    <3>1. l \in 1..Len(u) /\ u[l] = n
      BY <1>1, <1>2, <1>5, <2>2
    <3> QED BY <2>1, <3>1, InjectiveList
  <2> DEFINE b == RemoveFirst(v, n)
             c == Append(a, x)
  <2>4. /\ a \in Seq(R) /\ c \in Seq(R) /\ Len(c) = Len(u)
        /\ c[Len(u)] = x
        /\ \A i \in 1..(Len(u) - 1) : c[i] = a[i]
    <3>1. a \in Seq(R)
      BY <2>1 DEF R
    <3> HIDE DEF a
    <3> QED BY <1>1, <2>1, <3>1, AppendProperties
  <2> HIDE DEF a, b, c
  <2>5. ASSUME NEW i \in 1..Len(u) PROVE b[i] = c[i]
    <3>1. k \in 1..Len(u) /\ i \in Nat /\ k \in Nat
      BY <2>1
    <3>2. b[i] = IF i < k THEN v[i] ELSE v[i + 1]
      BY <1>1, <2>2, <2>3 DEF b
    <3>3. CASE i = Len(u)
      <4>1. ~(i < k)
        BY <3>1, <3>3
      <4> QED BY <1>1, <2>4, <3>2, <3>3, <4>1
    <3>4. CASE i # Len(u)
      <4>1. i \in 1..(Len(u) - 1) /\ i + 1 \in 1..Len(u)
        BY <1>1, <3>4
      <4>2. v[i] = u[i] /\ v[i + 1] = u[i + 1]
        BY <1>1, <4>1
      <4> QED BY <2>1, <2>4, <3>2, <4>1, <4>2
    <3> QED BY <3>3, <3>4
  <2>6. b = c
    <3>1. b \in Seq(R) /\ Len(b) = Len(u)
      BY <1>1, <2>2 DEF b
    <3> QED BY <2>4, <2>5, <3>1, SeqEqual
  <2> QED BY <1>5, <2>6 DEF a, b, c, v
<1> QED BY <1>3, <1>4, <1>5

\* The members of a list and of what RemoveFirst leaves of it.
LEMMA OthersStayHeld ==
    ASSUME NEW S, NEW s \in Seq(S), NEW n, NEW x, x # n
    PROVE  Contains(RemoveFirst(s, n), x) <=> Contains(s, x)
<1>1. CASE Contains(s, n)
  <2> DEFINE r == RemoveFirst(s, n)
  <2>1. PICK k \in 1..Len(s) :
            /\ s[k] = n
            /\ r \in Seq(S) /\ Len(r) = Len(s) - 1
            /\ \A i \in 1..(Len(s) - 1) : r[i] = IF i < k THEN s[i] ELSE s[i + 1]
    BY <1>1, FirstRemoved DEF Contains
  <2> HIDE DEF r
  <2>2. ASSUME NEW i \in 1..Len(r), r[i] = x
        PROVE  \E j \in 1..Len(s) : s[j] = x
    <3>1. i \in 1..Len(s) /\ i + 1 \in 1..Len(s)
      BY <2>1, <2>2
    <3> QED BY <2>1, <2>2, <3>1
  <2>3. ASSUME NEW j \in 1..Len(s), s[j] = x
        PROVE  \E i \in 1..Len(r) : r[i] = x
    <3>1. CASE j < k
      <4>1. j \in 1..(Len(s) - 1)
        BY <2>1, <3>1
      <4> QED BY <2>1, <2>3, <3>1, <4>1
    <3>2. CASE k < j
      <4>1. j - 1 \in 1..(Len(s) - 1) /\ ~(j - 1 < k) /\ (j - 1) + 1 = j
        BY <2>1, <3>2
      <4> QED BY <2>1, <2>3, <3>2, <4>1
    <3> QED BY <2>1, <2>3, <3>1, <3>2
  <2> QED BY <2>2, <2>3 DEF Contains, r
<1>2. CASE ~Contains(s, n)
  BY <1>2 DEF Contains, RemoveFirst
<1> QED BY <1>1, <1>2

\* Leaving out n before or after the fold is the same.
LEMMA PickedWithout ==
    ASSUME NEW S, NEW s \in Seq(S), NEW T, NEW n
    PROVE  Picked(s, T \ {n}) = RemoveFirst(Picked(s, T), n)
<1>1. PICK f : Picking(f, s, T) /\ Picked(s, T) = f[Len(s)]
  BY PickedByPlace
<1>2. PICK g : Picking(g, s, T \ {n}) /\ Picked(s, T \ {n}) = g[Len(s)]
  BY PickedByPlace
<1> DEFINE N == Len(s)
           Good == {c \in 0..N : g[c] = RemoveFirst(f[c], n)}
<1>3. N \in Nat
  OBVIOUS
<1>4. 0 \in Good
  <2>1. f[0] = <<>> /\ g[0] = <<>>
    BY <1>1, <1>2 DEF Picking
  <2>2. RemoveFirst(<<>>, n) = <<>>
    BY DEF RemoveFirst
  <2> QED BY <1>3, <2>1, <2>2
<1>5. ASSUME NEW c \in 0..N, c \in Good, c < N
      PROVE  c + 1 \in Good
  <2> DEFINE u == f[c]
             x == s[c + 1]
  <2>1. c + 1 \in 1..N /\ (c + 1) - 1 = c
    BY <1>3, <1>5
  <2>2. /\ f[c + 1] = IF x \in T THEN WithNew(u, x) ELSE u
        /\ g[c + 1] = IF x \in T \ {n} THEN WithNew(g[c], x) ELSE g[c]
    BY <1>1, <1>2, <2>1 DEF Picking
  <2>3. u \in Seq(T) /\ IsInjective(u)
    BY <1>1, PickingMembers
  <2>4. g[c] = RemoveFirst(u, n)
    BY <1>5
  <2> HIDE DEF u, x
  <2>5. CASE x = n
    <3>1. g[c + 1] = RemoveFirst(u, n)
      BY <2>2, <2>4, <2>5
    <3>2. CASE Contains(u, n) \/ n \notin T
      <4>1. f[c + 1] = u
        BY <2>2, <2>5, <3>2 DEF WithNew
      <4>2. g[c + 1] = RemoveFirst(f[c + 1], n)
        BY <3>1, <4>1
      <4> QED BY <2>1, <4>2
    <3>3. CASE ~Contains(u, n) /\ n \in T
      <4>1. f[c + 1] = Append(u, x)
        BY <2>2, <2>5, <3>3 DEF WithNew
      <4>2. RemoveFirst(Append(u, x), n) = u
        BY <2>3, <2>5, <3>3, RemovedFromAppended
      <4>3. RemoveFirst(u, n) = u
        BY <3>3 DEF RemoveFirst, Contains
      <4>4. g[c + 1] = RemoveFirst(f[c + 1], n)
        BY <3>1, <4>1, <4>2, <4>3
      <4> QED BY <2>1, <4>4
    <3> QED BY <3>2, <3>3
  <2>6. CASE x # n
    <3>1. Contains(g[c], x) <=> Contains(u, x)
      BY <2>3, <2>4, <2>6, OthersStayHeld
    <3>2. RemoveFirst(Append(u, x), n) = Append(RemoveFirst(u, n), x)
      BY <2>3, <2>6, RemovedFromAppended
    <3>3. g[c + 1] = RemoveFirst(f[c + 1], n)
      BY <2>2, <2>4, <2>6, <3>1, <3>2 DEF WithNew
    <3> QED BY <2>1, <3>3
  <2> QED BY <2>5, <2>6
<1>6. N \in Good
  <2> HIDE DEF Good
  <2>1. \A c \in 0..N : c \in Good /\ c < N => c + 1 \in Good
    BY <1>5
  <2> HIDE DEF N
  <2>2. \A c \in 0..N : c \in Good
    BY <1>3, <1>4, <2>1, CountingUp
  <2> QED BY <1>3, <2>2
<1> QED BY <1>1, <1>2, <1>6

\* Nor does it matter whether n is left out of the list or of what is kept.
LEMMA PickedOfOthers ==
    ASSUME NEW S, NEW s \in Seq(S), IsInjective(s), NEW T, NEW n
    PROVE  Picked(RemoveFirst(s, n), T) = Picked(s, T \ {n})
<1> DEFINE r == RemoveFirst(s, n)
           N == Len(s)
<1>1. N \in Nat
  OBVIOUS
<1>2. PICK g : Picking(g, s, T \ {n}) /\ Picked(s, T \ {n}) = g[N]
  BY PickedByPlace
<1>3. CASE Contains(s, n)
  <2>1. PICK k \in 1..N :
            /\ s[k] = n
            /\ r \in Seq(S) /\ Len(r) = N - 1
            /\ \A i \in 1..(N - 1) : r[i] = IF i < k THEN s[i] ELSE s[i + 1]
    BY <1>3, FirstRemoved DEF Contains
  <2>2. \A i \in 1..N : s[i] = n => i = k
    BY <2>1, InjectiveList
  <2> HIDE DEF r
  <2>3. PICK h : Picking(h, r, T) /\ Picked(r, T) = h[Len(r)]
    BY <2>1, PickedByPlace
  <2>4. /\ h[0] = <<>>
        /\ \A i \in 1..(N - 1) : h[i] = IF r[i] \in T THEN WithNew(h[i - 1], r[i])
                                                       ELSE h[i - 1]
    BY <2>1, <2>3 DEF Picking
  <2>5. /\ g[0] = <<>>
        /\ \A i \in 1..N : g[i] = IF s[i] \in T \ {n} THEN WithNew(g[i - 1], s[i])
                                                       ELSE g[i - 1]
    BY <1>2 DEF Picking
  <2> HIDE DEF N
  <2>6. g[k] = g[k - 1]
    BY <2>1, <2>5
  <2> DEFINE M == N - 1
             Good == {i \in 0..M : h[i] = IF i < k THEN g[i] ELSE g[i + 1]}
  <2>7. M \in Nat /\ k \in 1..N /\ k - 1 \in 0..M
    BY <1>1, <2>1
  <2>8. 0 \in Good
    <3>1. CASE k = 1
      BY <2>4, <2>5, <2>6, <2>7, <3>1
    <3>2. CASE k # 1
      BY <2>4, <2>5, <2>7, <3>2
    <3> QED BY <3>1, <3>2
  <2>9. ASSUME NEW i \in 0..M, i \in Good, i < M
        PROVE  i + 1 \in Good
    <3>1. /\ i + 1 \in 1..M /\ (i + 1) - 1 = i /\ i + 1 \in 1..N
          /\ i + 2 \in 1..N /\ (i + 2) - 1 = i + 1 /\ (i + 1) + 1 = i + 2
          /\ i \in Nat /\ k \in Nat
      BY <1>1, <2>7, <2>9
    <3>2. h[i] = IF i < k THEN g[i] ELSE g[i + 1]
      BY <2>9
    <3>3. h[i + 1] = IF r[i + 1] \in T THEN WithNew(h[i], r[i + 1]) ELSE h[i]
      BY <2>4, <3>1
    <3>4. r[i + 1] = IF i + 1 < k THEN s[i + 1] ELSE s[i + 2]
      BY <2>1, <3>1
    <3>5. CASE i + 1 < k
      <4>1. s[i + 1] # n /\ i < k
        BY <2>2, <3>1, <3>5
      <4>2. g[i + 1] = IF s[i + 1] \in T THEN WithNew(g[i], s[i + 1]) ELSE g[i]
        BY <2>5, <3>1, <4>1
      <4>3. h[i + 1] = g[i + 1]
        BY <3>2, <3>3, <3>4, <3>5, <4>1, <4>2
      <4> QED BY <3>1, <3>5, <4>3
    <3>6. CASE ~(i + 1 < k)
      <4>1. s[i + 2] # n
        BY <2>2, <3>1, <3>6
      <4>2. g[i + 2] = IF s[i + 2] \in T THEN WithNew(g[i + 1], s[i + 2])
                                         ELSE g[i + 1]
        BY <2>5, <3>1, <4>1
      <4>3. h[i] = g[i + 1]
        <5>1. CASE i < k
          <6>1. i + 1 = k
            BY <3>1, <3>6, <5>1
          <6>2. k - 1 = i
            BY <3>1, <6>1
          <6> QED BY <2>6, <3>2, <5>1, <6>1, <6>2
        <5>2. CASE ~(i < k)
          BY <3>2, <5>2
        <5> QED BY <5>1, <5>2
      <4>4. h[i + 1] = g[i + 2]
        BY <3>3, <3>4, <3>6, <4>2, <4>3
      <4> QED BY <3>1, <3>6, <4>4
    <3> QED BY <3>5, <3>6
  <2>10. M \in Good
    <3> HIDE DEF Good
    <3>1. \A i \in 0..M : i \in Good /\ i < M => i + 1 \in Good
      BY <2>9
    <3> HIDE DEF M
    <3>2. \A i \in 0..M : i \in Good
      BY <2>7, <2>8, <3>1, CountingUp
    <3> QED BY <2>7, <3>2
  <2>11. h[M] = g[N]
    <3>1. M + 1 = N
      BY <1>1
    <3>2. CASE M < k
      <4>1. k = N /\ k - 1 = M
        BY <1>1, <2>7, <3>2
      <4> QED BY <2>6, <2>10, <3>2, <4>1
    <3>3. CASE ~(M < k)
      BY <2>10, <3>1, <3>3
    <3> QED BY <3>2, <3>3
  <2> QED BY <1>2, <2>1, <2>3, <2>11 DEF r
<1>4. CASE ~Contains(s, n)
  <2>1. r = s
    BY <1>4 DEF RemoveFirst, Contains
  <2>2. PICK h : Picking(h, s, T) /\ Picked(s, T) = h[N]
    BY PickedByPlace
  <2>3. /\ h[0] = <<>> /\ g[0] = <<>>
        /\ \A i \in 1..N : h[i] = IF s[i] \in T THEN WithNew(h[i - 1], s[i])
                                                 ELSE h[i - 1]
        /\ \A i \in 1..N : g[i] = IF s[i] \in T \ {n} THEN WithNew(g[i - 1], s[i])
                                                       ELSE g[i - 1]
        /\ \A i \in 1..N : s[i] # n
    BY <1>2, <1>4, <2>2 DEF Picking, Contains
  <2> HIDE DEF N, r
  <2> DEFINE Good == {i \in 0..N : h[i] = g[i]}
  <2>4. 0 \in Good
    BY <1>1, <2>3
  <2>5. ASSUME NEW i \in 0..N, i \in Good, i < N
        PROVE  i + 1 \in Good
    <3>1. i + 1 \in 1..N /\ (i + 1) - 1 = i
      BY <1>1, <2>5
    <3>2. h[i + 1] = g[i + 1]
      BY <2>3, <2>5, <3>1
    <3> QED BY <3>1, <3>2
  <2>6. N \in Good
    <3> HIDE DEF Good
    <3>1. \A i \in 0..N : i \in Good /\ i < N => i + 1 \in Good
      BY <2>5
    <3>2. \A i \in 0..N : i \in Good
      BY <1>1, <2>4, <3>1, CountingUp
    <3> QED BY <1>1, <3>2
  <2> QED BY <1>2, <2>1, <2>2, <2>6 DEF r
<1> QED BY <1>3, <1>4

\* What comes first is kept first.
LEMMA PickedFirst ==
    ASSUME NEW S, NEW s \in Seq(S), NEW T, NEW n \in T \cap S,
           ~Contains(s, n)
    PROVE  Picked(<<n>> \o s, T) = <<n>> \o Picked(s, T)
<1> DEFINE q == <<n>> \o s
           N == Len(s)
<1>1. N \in Nat
  OBVIOUS
<1>2. /\ q \in Seq(S) /\ Len(q) = N + 1 /\ q[1] = n
      /\ \A i \in 1..N : q[i + 1] = s[i]
  OBVIOUS
<1> HIDE DEF q
<1>3. PICK f : Picking(f, q, T) /\ Picked(q, T) = f[Len(q)]
  BY <1>2, PickedByPlace
<1>4. PICK h : Picking(h, s, T) /\ Picked(s, T) = h[N]
  BY PickedByPlace
<1>5. /\ f[0] = <<>>
      /\ \A i \in 1..(N + 1) : f[i] = IF q[i] \in T THEN WithNew(f[i - 1], q[i])
                                                     ELSE f[i - 1]
  BY <1>2, <1>3 DEF Picking
<1>6. /\ h[0] = <<>>
      /\ \A i \in 1..N : h[i] = IF s[i] \in T THEN WithNew(h[i - 1], s[i])
                                               ELSE h[i - 1]
      /\ \A i \in 1..N : s[i] # n
      /\ \A i \in 0..N : h[i] \in Seq(T)
  BY <1>4 DEF Picking, Contains
<1> HIDE DEF N
<1> DEFINE Good == {i \in 0..N : f[i + 1] = <<n>> \o h[i]}
<1>7. 0 \in Good
  <2>1. f[1] = WithNew(<<>>, n)
    BY <1>1, <1>2, <1>5
  <2>2. WithNew(<<>>, n) = <<n>>
    BY DEF WithNew, Contains
  <2>3. <<n>> \o <<>> = <<n>>
    OBVIOUS
  <2>4. f[0 + 1] = <<n>> \o h[0] /\ 0 \in 0..N
    BY <1>1, <1>6, <2>1, <2>2, <2>3
  <2> QED BY <2>4
<1>8. ASSUME NEW i \in 0..N, i \in Good, i < N
      PROVE  i + 1 \in Good
  <2> DEFINE u == h[i]
             x == s[i + 1]
  <2>1. /\ i + 1 \in 1..N /\ (i + 1) - 1 = i
        /\ (i + 1) + 1 \in 1..(N + 1) /\ ((i + 1) + 1) - 1 = i + 1
    BY <1>1, <1>8
  <2>2. f[i + 1] = <<n>> \o u /\ u \in Seq(T) /\ x # n
    BY <1>6, <1>8, <2>1
  <2>3. /\ f[(i + 1) + 1] = IF x \in T THEN WithNew(f[i + 1], x) ELSE f[i + 1]
        /\ h[i + 1] = IF x \in T THEN WithNew(u, x) ELSE u
    BY <1>2, <1>5, <1>6, <2>1
  <2> HIDE DEF u, x
  <2>4. WithNew(<<n>> \o u, x) = <<n>> \o WithNew(u, x) \/ x \notin T
    <3> SUFFICES ASSUME x \in T PROVE WithNew(<<n>> \o u, x) = <<n>> \o WithNew(u, x)
      OBVIOUS
    <3>1. /\ Len(<<n>> \o u) = Len(u) + 1 /\ (<<n>> \o u)[1] = n
          /\ \A j \in 1..Len(u) : (<<n>> \o u)[j + 1] = u[j]
          /\ Len(u) \in Nat
      BY <2>2
    <3>2. Contains(<<n>> \o u, x) <=> Contains(u, x)
      <4>1. ASSUME NEW j \in 1..(Len(u) + 1), (<<n>> \o u)[j] = x
            PROVE  \E l \in 1..Len(u) : u[l] = x
        <5>1. j # 1
          BY <2>2, <3>1, <4>1
        <5>2. j - 1 \in 1..Len(u) /\ (j - 1) + 1 = j
          BY <3>1, <5>1
        <5> QED BY <3>1, <4>1, <5>2
      <4>2. ASSUME NEW l \in 1..Len(u), u[l] = x
            PROVE  \E j \in 1..(Len(u) + 1) : (<<n>> \o u)[j] = x
        <5>1. l + 1 \in 1..(Len(u) + 1)
          BY <3>1
        <5> QED BY <3>1, <4>2, <5>1
      <4> QED BY <3>1, <4>1, <4>2 DEF Contains
    <3>3. Append(<<n>> \o u, x) = <<n>> \o Append(u, x)
      BY <2>2
    <3> QED BY <3>2, <3>3 DEF WithNew
  <2>5. f[(i + 1) + 1] = <<n>> \o h[i + 1]
    BY <2>2, <2>3, <2>4
  <2> QED BY <2>1, <2>5
<1>9. N \in Good
  <2> HIDE DEF Good
  <2>1. \A i \in 0..N : i \in Good /\ i < N => i + 1 \in Good
    BY <1>8
  <2>2. \A i \in 0..N : i \in Good
    BY <1>1, <1>7, <2>1, CountingUp
  <2> QED BY <1>1, <2>2
<1> QED BY <1>2, <1>3, <1>4, <1>9 DEF q

\* SetToSeq lists each member of a finite set once.
LEMMA SetToSeqMembers ==
    ASSUME NEW S, IsFiniteSet(S)
    PROVE  /\ SetToSeq(S) \in Seq(S)
           /\ \A x : Contains(SetToSeq(S), x) <=> x \in S
<1> DEFINE n == Cardinality(S)
           s == SetToSeq(S)
<1>1. n \in Nat
  BY FS_CardinalityType
<1>2. \E g \in [1..n -> S] : IsInjective(g)
  <2>1. ExistsBijection(1..n, S)
    BY FS_CardinalityType
  <2>2. PICK g : g \in Bijection(1..n, S)
    BY <2>1 DEF ExistsBijection
  <2> QED BY <2>2 DEF Bijection, Injection
<1>3. s \in [1..n -> S] /\ IsInjective(s)
  BY <1>2 DEF SetToSeq
<1>4. s \in SetToSeqs(S)
  BY <1>3 DEF SetToSeqs, IsInjective
<1> HIDE DEF s
<1>5. /\ s \in Seq(S)
      /\ \A c \in S : \E i \in 1..Len(s) : s[i] = c
  BY <1>4, ListOfMembers
<1> QED BY <1>5 DEF Contains, s

\* A column shows its visible cards once each, whatever its manual order.
LEMMA ColumnShows ==
    ASSUME TypeOK
    PROVE  ColumnShowsItsCards
<1> SUFFICES ASSUME NEW c \in Columns
             PROVE  /\ IsInjective(ColumnIssues(c))
                    /\ ToSet(ColumnIssues(c)) = IssuesByColumn(c) \ archived
  BY DEF ColumnShowsItsCards
<1> DEFINE T == IssuesByColumn(c) \ archived
           m == MissingIssueNumbers(c)
           a == Picked(order[c], T)
           b == Picked(m, T)
           V == IssuesByColumn(c) \ ToSet(order[c])
<1>1. order[c] \in Seq(Numbers)
  BY DEF TypeOK
<1>2. IsFiniteSet(V)
  <2>1. V \in SUBSET Numbers
    BY DEF IssuesByColumn, Listed
  <2> QED BY <2>1, NumbersAssumption, FS_Subset
<1>3. m \in Seq(V) /\ \A x : Contains(m, x) <=> x \in V
  BY <1>2, SetToSeqMembers DEF MissingIssueNumbers
<1>4. \A x : Contains(order[c], x) <=> x \in ToSet(order[c])
  BY <1>1 DEF Contains, ToSet
<1> HIDE DEF V, T, m
<1>5. /\ a \in Seq(T) /\ IsInjective(a)
      /\ \A x : Contains(a, x) <=> x \in T /\ Contains(order[c], x)
  BY <1>1, PickedMembers
<1>6. /\ b \in Seq(T) /\ IsInjective(b)
      /\ \A x : Contains(b, x) <=> x \in T /\ Contains(m, x)
  BY <1>3, PickedMembers
<1>7. ColumnIssues(c) = a \o b
  BY DEF ColumnIssues, OrderedIssues, T, m
<1> HIDE DEF a, b
<1>8. \A x : ~(Contains(a, x) /\ Contains(b, x))
  BY <1>3, <1>4, <1>5, <1>6 DEF V
<1>9. \A x : x \in T <=> Contains(a, x) \/ Contains(b, x)
  BY <1>3, <1>4, <1>5, <1>6 DEF V, T
<1>10. /\ a \o b \in Seq(T) /\ Len(a) \in Nat /\ Len(b) \in Nat
       /\ Len(a \o b) = Len(a) + Len(b)
       /\ \A i \in 1..Len(a) : (a \o b)[i] = a[i]
       /\ \A i \in 1..Len(b) : (a \o b)[Len(a) + i] = b[i]
  BY <1>5, <1>6
<1> DEFINE q == a \o b
<1> HIDE DEF q
<1>11. \A i \in 1..Len(q) : \/ i \in 1..Len(a) /\ q[i] = a[i]
                            \/ /\ i - Len(a) \in 1..Len(b)
                               /\ q[i] = b[i - Len(a)]
  <2> SUFFICES ASSUME NEW i \in 1..Len(q), ~(i \in 1..Len(a))
               PROVE  i - Len(a) \in 1..Len(b) /\ q[i] = b[i - Len(a)]
    BY <1>10 DEF q
  <2>1. i - Len(a) \in 1..Len(b) /\ Len(a) + (i - Len(a)) = i
    BY <1>10 DEF q
  <2>2. q[Len(a) + (i - Len(a))] = b[i - Len(a)]
    BY <1>10, <2>1 DEF q
  <2> QED BY <2>1, <2>2
<1>12. \A x : Contains(q, x) <=> Contains(a, x) \/ Contains(b, x)
  <2>1. ASSUME NEW x, Contains(q, x)
        PROVE  Contains(a, x) \/ Contains(b, x)
    BY <1>11, <2>1 DEF Contains
  <2>2. ASSUME NEW x, Contains(a, x)
        PROVE  Contains(q, x)
    <3>1. PICK i \in 1..Len(a) : a[i] = x
      BY <2>2 DEF Contains
    <3>2. i \in 1..Len(q) /\ q[i] = x
      BY <1>10, <3>1 DEF q
    <3> QED BY <3>2 DEF Contains
  <2>3. ASSUME NEW x, Contains(b, x)
        PROVE  Contains(q, x)
    <3>1. PICK i \in 1..Len(b) : b[i] = x
      BY <2>3 DEF Contains
    <3>2. Len(a) + i \in 1..Len(q) /\ q[Len(a) + i] = x
      BY <1>10, <3>1 DEF q
    <3> QED BY <3>2 DEF Contains
  <2> QED BY <2>1, <2>2, <2>3
<1>13. ASSUME NEW i \in 1..Len(q), NEW j \in 1..Len(q), q[i] = q[j]
       PROVE  i = j
  <2>1. CASE i \in 1..Len(a) /\ q[i] = a[i] /\ j \in 1..Len(a) /\ q[j] = a[j]
    BY <1>5, <1>13, <2>1, InjectiveList
  <2>2. CASE /\ i - Len(a) \in 1..Len(b) /\ q[i] = b[i - Len(a)]
             /\ j - Len(a) \in 1..Len(b) /\ q[j] = b[j - Len(a)]
    <3>1. i - Len(a) = j - Len(a)
      BY <1>6, <1>13, <2>2, InjectiveList
    <3> QED BY <1>10, <3>1 DEF q
  <2>3. CASE /\ i \in 1..Len(a) /\ q[i] = a[i]
             /\ j - Len(a) \in 1..Len(b) /\ q[j] = b[j - Len(a)]
    BY <1>8, <1>13, <2>3 DEF Contains
  <2>4. CASE /\ j \in 1..Len(a) /\ q[j] = a[j]
             /\ i - Len(a) \in 1..Len(b) /\ q[i] = b[i - Len(a)]
    BY <1>8, <1>13, <2>4 DEF Contains
  <2> QED BY <1>11, <2>1, <2>2, <2>3, <2>4
<1>14. q \in Seq(T)
  BY <1>10 DEF q
<1>15. IsInjective(q)
  BY <1>13, <1>14, InjectiveList
<1>16. ToSet(q) = T
  <2>1. \A x : x \in ToSet(q) <=> Contains(q, x)
    BY <1>14 DEF Contains, ToSet
  <2>2. \A x : x \in ToSet(q) <=> x \in T
    BY <1>9, <1>12, <2>1
  <2> QED BY <2>2
<1> QED BY <1>7, <1>15, <1>16 DEF q, T

\* A column shows each of its visible cards once and nothing else.
THEOREM ColumnsShowTheirCards == Spec => []ColumnShowsItsCards
<1>1. TypeOK => ColumnShowsItsCards
  BY ColumnShows
<1> QED
  BY <1>1, InitTypeOK, NextTypeOK, PTL DEF Spec

\* What a forced move does to the list of the column.
LEMMA ForcedMoveShows ==
    ASSUME TypeOK, TypeOK', OrderHasNoDuplicates, NEW n \in Numbers,
           NEW c \in Columns, Move(n, c, TRUE), n \in (Listed \ archived)'
    PROVE  /\ Head(ColumnIssues(c)') = n
           /\ RemoveFirst(OrderedIssues(c, order[c])', n)
                  = RemoveFirst(OrderedIssues(c, order[c]), n)
<1> DEFINE s == order[c]
           r == RemoveFirst(s, n)
           q == <<n>> \o r
           T == IssuesByColumn(c) \ archived
           U == IssuesByColumn(c)' \ archived'
<1>1. s \in Seq(Numbers) /\ IsInjective(s)
  BY DEF TypeOK, OrderHasNoDuplicates
<1>2. order'[c] = q /\ order'[c] = PutFirst(s, n)
  BY DEF Move, PutFirst, Cons, TypeOK
<1>3. n \in U
  BY DEF Move, Find, IssuesByColumn, TypeOK
<1>4. T \ {n} = U \ {n}
  <2>1. ASSUME NEW m \in Numbers \ {n}
        PROVE  /\ m \in tracked' <=> m \in tracked
               /\ column'[m] = column[m]
               /\ ghState'[m] = ghState[m]
               /\ m \in aged' <=> m \in aged
               /\ m \in archived' <=> m \in archived
    BY DEF Move, Find, AutoRelisted, CloseOnGithub, TypeOK
  <2>2. T \subseteq Numbers /\ U \subseteq Numbers
    BY DEF IssuesByColumn, Listed
  <2>3. ASSUME NEW m \in Numbers \ {n}
        PROVE  m \in T <=> m \in U
    BY <2>1 DEF IssuesByColumn, Listed, OnGithub
  <2> QED BY <2>2, <2>3
<1> HIDE DEF T, U
<1>5. r \in Seq(Numbers) /\ ~Contains(r, n)
  <2>1. CASE Contains(s, n)
    <3>0. \E i \in 1..Len(s) : s[i] = n
      BY <2>1 DEF Contains
    <3>1. PICK k \in 1..Len(s) :
              /\ s[k] = n
              /\ r \in Seq(Numbers) /\ Len(r) = Len(s) - 1
              /\ \A i \in 1..(Len(s) - 1) : r[i] = IF i < k THEN s[i] ELSE s[i + 1]
      <4> HIDE DEF s
      <4> QED BY <1>1, <3>0, FirstRemoved
    <3>2. \A i \in 1..Len(s) : s[i] = n => i = k
      <4> HIDE DEF s, r
      <4>1. \A i, j \in 1..Len(s) : s[i] = s[j] => i = j
        BY <1>1, InjectiveList
      <4> QED BY <3>1, <4>1
    <3> HIDE DEF r
    <3>3. Len(s) \in Nat
      BY <1>1
    <3> HIDE DEF s
    <3>4. \A i \in 1..Len(r) : r[i] # n
      BY <3>1, <3>2, <3>3
    <3> QED BY <3>1, <3>4 DEF Contains
  <2>2. CASE ~Contains(s, n)
    BY <1>1, <2>2 DEF Contains, RemoveFirst
  <2> QED BY <2>1, <2>2
<1>6. q \in Seq(Numbers) /\ IsInjective(q)
  BY <1>1, <1>2, PutFirstType
<1>7. RemoveFirst(q, n) = r
  <2> HIDE DEF r
  <2>1. /\ Len(q) = Len(r) + 1 /\ q[1] = n /\ Len(r) \in Nat
        /\ \A i \in 1..Len(r) : q[i + 1] = r[i]
    BY <1>5
  <2>2. PICK k \in 1..Len(q) :
            /\ q[k] = n
            /\ RemoveFirst(q, n) \in Seq(Numbers)
            /\ Len(RemoveFirst(q, n)) = Len(q) - 1
            /\ \A i \in 1..(Len(q) - 1) :
                   RemoveFirst(q, n)[i] = IF i < k THEN q[i] ELSE q[i + 1]
    <3>1. \E i \in 1..Len(q) : q[i] = n
      BY <2>1
    <3> HIDE DEF q
    <3> QED BY <1>6, <3>1, FirstRemoved
  <2> HIDE DEF q
  <2>3. k = 1
    <3>1. \A i, j \in 1..Len(q) : q[i] = q[j] => i = j
      BY <1>6, InjectiveList
    <3>2. 1 \in 1..Len(q)
      BY <2>1
    <3>3. q[k] = q[1]
      BY <2>1, <2>2
    <3> QED BY <2>2, <3>1, <3>2, <3>3
  <2>4. \A i \in 1..Len(r) : RemoveFirst(q, n)[i] = r[i]
    BY <2>1, <2>2, <2>3
  <2> QED BY <1>5, <2>1, <2>2, <2>4, SeqEqual
<1> HIDE DEF s, r, q
<1>8. Picked(q, U) = <<n>> \o Picked(r, U)
  BY <1>3, <1>5, PickedFirst DEF q
<1>9. Picked(r, U) \in Seq(U)
  BY <1>5, PickedMembers
<1>10. Picked(q, U \ {n}) = Picked(s, T \ {n})
  <2>1. Picked(q, T \ {n}) = Picked(RemoveFirst(q, n), T)
    BY <1>6, PickedOfOthers
  <2>2. Picked(s, T \ {n}) = Picked(RemoveFirst(s, n), T)
    BY <1>1, PickedOfOthers
  <2> QED BY <1>4, <1>7, <2>1, <2>2 DEF r
<1>11. RemoveFirst(Picked(q, U), n) = RemoveFirst(Picked(s, T), n)
  BY <1>1, <1>6, <1>10, PickedWithout
<1>12. OrderedIssues(c, order[c])' = Picked(q, U)
  BY <1>2 DEF OrderedIssues, U
<1>13. OrderedIssues(c, order[c]) = Picked(s, T)
  BY DEF OrderedIssues, T, s
<1>14. Head(ColumnIssues(c)') = n
  <2> DEFINE w == OrderedIssues(c, MissingIssueNumbers(c))'
  <2>1. ColumnIssues(c)' = Picked(q, U) \o w
    BY <1>12 DEF ColumnIssues
  <2>2. \E X : w \in Seq(X)
    <3>1. IsFiniteSet((IssuesByColumn(c) \ ToSet(order[c]))')
      <4>1. (IssuesByColumn(c) \ ToSet(order[c]))' \in SUBSET Numbers
        BY DEF IssuesByColumn, Listed
      <4> QED BY <4>1, NumbersAssumption, FS_Subset
    <3>2. MissingIssueNumbers(c)' \in Seq((IssuesByColumn(c) \ ToSet(order[c]))')
      BY <3>1, SetToSeqMembers DEF MissingIssueNumbers
    <3>3. w = Picked(MissingIssueNumbers(c)', U)
      BY DEF OrderedIssues, U
    <3> QED BY <3>2, <3>3, PickedMembers
  <2> HIDE DEF w
  <2>3. PICK X : w \in Seq(X)
    BY <2>2
  <2> DEFINE Y == X \cup U \cup {n}
             z == Picked(r, U)
  <2>4. /\ w \in Seq(Y) /\ z \in Seq(Y) /\ <<n>> \in Seq(Y)
    <3>1. \A t \in Seq(X) : t \in Seq(Y)
      OBVIOUS
    <3>2. \A t \in Seq(U) : t \in Seq(Y)
      OBVIOUS
    <3> QED BY <1>9, <2>3, <3>1, <3>2
  <2> HIDE DEF Y, z
  <2>5. Head((<<n>> \o z) \o w) = n
    BY <2>4
  <2> QED BY <1>8, <2>1, <2>5 DEF z
<1> QED BY <1>11, <1>12, <1>13, <1>14

\* A card moved from its window comes first; the others keep their order.
THEOREM ForcedMovesComeFirst == Spec => ForcedMoveComesFirst
<1>1. ASSUME TypeOK, TypeOK', OrderHasNoDuplicates
      PROVE  \A n \in Numbers, c \in Columns :
                 Move(n, c, TRUE) /\ n \in (Listed \ archived)'
                     => /\ Head(ColumnIssues(c)') = n
                        /\ RemoveFirst(OrderedIssues(c, order[c])', n)
                               = RemoveFirst(OrderedIssues(c, order[c]), n)
  BY <1>1, ForcedMoveShows
<1>2. Init => OrderHasNoDuplicates
  BY DEF Init, OrderHasNoDuplicates, IsInjective
<1> QED
  BY <1>1, <1>2, InitTypeOK, NextTypeOK, NextOrder, PTL
     DEF Spec, ForcedMoveComesFirst
=============================================================================
