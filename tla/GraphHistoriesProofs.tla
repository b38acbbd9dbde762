------------------------- MODULE GraphHistoriesProofs -------------------------
(***************************************************************************)
(* Theorems about GraphHistories, for any set of threads, any number of    *)
(* days and of crashes.                                                    *)
(***************************************************************************)
EXTENDS GraphHistories, OrderLemmas

Filling(p) == req[p].at = "fill"

Labels == {"idle", "fill", "measure", "find", "create", "save"}

Requests == [at : Labels, day : Days \cup {0}, value : Days \cup {Nil},
             known : BOOLEAN, missing : SUBSET Days]

\* A day is at hand wherever an entry is going to be looked up by it.
DayIsKnown(p) ==
    /\ req[p].at \in {"create", "save"} => req[p].day \in Days
    /\ graph = "cumulative" /\ req[p].at = "measure" => req[p].day \in Days

\* A job of the cumulative graph has something to write.
ValueIsKnown(p) ==
    graph = "cumulative" =>
        /\ Filling(p) /\ req[p].missing # {} => req[p].value # Nil
        /\ req[p].at # "create"
        /\ req[p].at = "save" => req[p].value # Nil

TypeInv ==
    /\ graph \in {"cumulative", "lines"}
    /\ GraphTypeOK
    /\ req \in [Procs -> Requests]
    /\ \A p \in Procs : DayIsKnown(p) /\ ValueIsKnown(p)

-----------------------------------------------------------------------------
NoneAfterToday == \A d \in Collected : d <= today

\* Whoever is not idle has a label, and only a filling job has days to fill.
LabelsTell ==
    \A p \in Procs :
        /\ req[p].at = "idle" => req[p] = Idle
        /\ ~Filling(p) => req[p].missing = {}

\* What a job works on is today's.
WorksOnToday(p) ==
    /\ req[p].at \in {"create", "save"} =>
           req[p].day = today /\ req[p].value = today
    /\ graph = "cumulative" /\ req[p].at = "measure" => req[p].day = today
    /\ graph = "lines" /\ req[p].at = "find" => req[p].value = today

\* The days a job has left follow the entry it copies.
FollowsItsEntry(p) ==
    req[p].missing # {} =>
        \E f \in Collected, k \in Days :
            /\ req[p].missing = (f + 1)..k
            /\ req[p].value = entry[f]
            /\ k < today

\* It fills them from the latest on: what is later has an entry, and
\* what another job has filled of them is the latest part.
FillsFromTheLatest(p) ==
    \A m \in req[p].missing, e \in Days :
        m < e /\ e < today =>
            /\ e \notin Collected => e \in req[p].missing
            /\ m \in Collected => e \in Collected

\* Two jobs that are about to fill the same day fill it alike.
FillAlike ==
    \A p, q \in Procs : \A d \in Days \ Collected :
        d \in req[p].missing /\ d \in req[q].missing =>
            req[p].value = req[q].value

\* A day between two entries, or before today while a job is at work, is
\* about to be filled.
GapsAreBeingFilled ==
    \A e \in Days \ Collected, f \in Collected :
        /\ f < e /\ e < today
        /\ \/ \E d \in Collected : e < d
           \/ \E p \in Procs : req[p] # Idle
        => \E p \in Procs : e \in req[p].missing

\* An entry shows its own day, or repeats the day before, or will.
EntriesRepeat ==
    \A d \in Days :
        entry[d] \in Days =>
            \/ entry[d] = d
            \/ d > 1 /\ entry[d - 1] = entry[d]
            \/ /\ d > 1 /\ entry[d - 1] = None
               /\ \E f \in Collected : f < d - 1
               /\ \A p \in Procs :
                      d - 1 \in req[p].missing => req[p].value = entry[d]

\* What is about the days that are being filled.
FillInv ==
    /\ \A p \in Procs : FollowsItsEntry(p) /\ FillsFromTheLatest(p)
    /\ FillAlike
    /\ GapsAreBeingFilled
    /\ EntriesRepeat

WholeInv ==
    /\ NoneAfterToday
    /\ \A p \in Procs : WorksOnToday(p)
    /\ FillInv

GraphInv ==
    /\ TypeInv
    /\ LabelsTell
    /\ ~torn => WholeInv

-----------------------------------------------------------------------------
(***************************************************************************)
(* Days.                                                                   *)
(***************************************************************************)

\* The latest of the days m..k is k.
LEMMA LatestDay ==
    ASSUME NEW m \in Int, NEW k \in Int, m <= k
    PROVE  Max(m..k) = k
<1>1. k \in m..k /\ \A y \in m..k : k >= y
  OBVIOUS
<1>2. Max(m..k) \in m..k /\ \A y \in m..k : Max(m..k) >= y
  BY <1>1 DEF Max
<1> QED BY <1>1, <1>2

\* The latest of some days is one of them.
LEMMA LatestIsOne ==
    ASSUME NEW S \in SUBSET Days, S # {}
    PROVE  Max(S) \in S /\ \A d \in S : d <= Max(S)
<1>1. S \in SUBSET Nat /\ MaxDay \in Nat /\ \A d \in S : d <= MaxDay
  BY GraphAssumption DEF GraphAssumption, Days
<1>2. \E d \in S : \A e \in S : d >= e
  BY <1>1, GreatestBelow
<1>3. Max(S) \in S /\ \A e \in S : Max(S) >= e
  BY <1>2 DEF Max
<1> QED BY <1>1, <1>3

\* The latest day of a graph that has an entry: what a job copies exists.
LEMMA LastEntryExists ==
    ASSUME Collected # {}
    PROVE  /\ LastEntry \in Collected
           /\ \A e \in Collected : e <= LastEntry
<1>1. Collected \in SUBSET Days
  BY DEF Collected
<1>2. Max(Collected) \in Collected /\ \A e \in Collected : e <= Max(Collected)
  BY <1>1, LatestIsOne
<1> QED BY <1>2 DEF LastEntry

-----------------------------------------------------------------------------
(***************************************************************************)
(* Types.                                                                  *)
(***************************************************************************)

\* An idle thread has a request without content.
LEMMA IdleIsRequest == Idle \in Requests
BY DEF Idle, Requests, Labels, Nil

\* Everything starts well typed.
LEMMA TypeInit == Init => TypeInv
<1> SUFFICES ASSUME Init PROVE TypeInv
  OBVIOUS
<1>1. GraphTypeOK
  <2>1. today \in Days /\ crashes \in 0..MaxCrashes
    BY GraphAssumption DEF GraphAssumption, Init, Days
  <2>2. \A d \in Days : entry[d] = None /\ None # Nil
    BY DEF Init, None, Nil
  <2>3. entry \in [Days -> Days \cup {None, Nil}]
    BY DEF Init
  <2> QED BY <2>1, <2>2, <2>3 DEF Init, GraphTypeOK, Idle
<1>2. req \in [Procs -> Requests]
  BY IdleIsRequest DEF Init
<1>3. \A p \in Procs : DayIsKnown(p) /\ ValueIsKnown(p)
  BY DEF Init, DayIsKnown, ValueIsKnown, Filling, Idle
<1> QED BY <1>1, <1>2, <1>3, GraphAssumption DEF TypeInv, GraphAssumption, Init

\* A job starts with the days after the last entry and with its value.
LEMMA TypeStart ==
    ASSUME TypeInv, NEW p \in Procs, Start(p)
    PROVE  TypeInv'
<1> USE DEF TypeInv, GraphTypeOK
<1>1. Collected # {} => ToCopy \in Days \cup {Nil}
                        /\ (graph = "cumulative" => ToCopy # Nil)
  BY LastEntryExists DEF ToCopy, Collected
<1>2. MissingDays \in SUBSET Days \/ Collected = {}
  BY LastEntryExists, GraphAssumption
     DEF GraphAssumption, MissingDays, Days, Collected
<1>3. req'[p] \in Requests
  BY <1>1, <1>2 DEF Start, Requests, Labels, Idle
<1>4. req' \in [Procs -> Requests]
  BY <1>3 DEF Start
<1>5. \A q \in Procs : DayIsKnown(q)' /\ ValueIsKnown(q)'
  BY <1>1 DEF Start, DayIsKnown, ValueIsKnown, Filling, Idle
<1> QED
  BY <1>4, <1>5 DEF Start, history, Requests

\* Filling a day writes a measurement, or the missing value it copies.
LEMMA TypeFill ==
    ASSUME TypeInv, NEW p \in Procs, Fill(p)
    PROVE  TypeInv'
<1> USE DEF TypeInv, GraphTypeOK
<1> DEFINE r == req[p]
           d == Max(r.missing)
<1>1. CASE r.missing = {}
  <2>1. /\ req' \in [Procs -> Requests]
        /\ \A q \in Procs : /\ req'[q].day = req[q].day
                             /\ req'[q].value = req[q].value
                             /\ req'[q].missing = req[q].missing
    BY <1>1 DEF Fill, Goto, Requests, Labels
  <2>2. \A q \in Procs : DayIsKnown(q)' /\ ValueIsKnown(q)'
    BY <1>1, <2>1 DEF Fill, Goto, At, DayIsKnown, ValueIsKnown, Filling,
                      Requests
  <2> QED BY <1>1, <2>1, <2>2 DEF Fill, history, Requests
<1>2. CASE r.missing # {}
  <2>1. r.missing \in SUBSET Days
    BY DEF Requests
  <2>2. d \in Days
    BY <1>2, <2>1, LatestIsOne
  <2>3. At(p, "fill") /\ r.value \in Days \cup {Nil}
        /\ (graph = "cumulative" => r.value # Nil)
    BY <1>2 DEF Fill, At, Requests, ValueIsKnown, Filling
  <2> HIDE DEF d
  <2>4. /\ entry' = [entry EXCEPT ![d] = IF @ = None THEN r.value ELSE @]
        /\ req' = [req EXCEPT ![p].missing = @ \ {d}]
        /\ UNCHANGED <<graph, today, queued, history>>
    BY <1>2 DEF Fill, d
  <2>5. /\ entry' \in [Days -> Days \cup {None, Nil}]
        /\ graph = "cumulative" => \A e \in Days : entry'[e] # Nil
    BY <2>2, <2>3, <2>4
  <2>6. req' \in [Procs -> Requests]
    BY <2>4 DEF Requests
  <2>7. \A q \in Procs : DayIsKnown(q)' /\ ValueIsKnown(q)'
    BY <2>4 DEF DayIsKnown, ValueIsKnown, Filling, Requests
  <2> QED BY <2>4, <2>5, <2>6, <2>7 DEF history, Requests
<1> QED BY <1>1, <1>2

\* Measuring knows the day.
LEMMA TypeMeasure ==
    ASSUME TypeInv, NEW p \in Procs, Measure(p)
    PROVE  TypeInv'
<1> USE DEF TypeInv, GraphTypeOK, Measure
<1>1. req'[p] \in Requests
  <2>1. CASE Done(p)
    BY <2>1, IdleIsRequest DEF Done
  <2>2. CASE ~Done(p)
    BY <2>2 DEF Requests, Labels
  <2> QED BY <2>1, <2>2
<1>0. req' \in [Procs -> Requests]
  BY <1>1 DEF Done
<1>2. \A q \in Procs : DayIsKnown(q)' /\ ValueIsKnown(q)'
  BY DEF DayIsKnown, ValueIsKnown, Filling, Requests, Done, Idle, At, Days, Nil
<1> QED BY <1>0, <1>2 DEF history, Requests

\* Looking for the entry of today fixes the day that is written.
LEMMA TypeFind ==
    ASSUME TypeInv, NEW p \in Procs, Find(p)
    PROVE  TypeInv'
<1> USE DEF TypeInv, GraphTypeOK, Find
<1>1. req' \in [Procs -> Requests]
  <2> DEFINE known == entry[today] # None
             at    == AfterFind(known)
  <2>1. at \in Labels /\ known \in BOOLEAN
    BY DEF AfterFind, Labels
  <2>2. req' = [req EXCEPT ![p].day = today, ![p].known = known, ![p].at = at]
    OBVIOUS
  <2> HIDE DEF known, at, Find
  <2>3. req'[p] = [at |-> at, day |-> today, value |-> req[p].value,
                   known |-> known, missing |-> req[p].missing]
    <3>1. req[p] \in Requests /\ req'[p] = [req[p] EXCEPT !.day = today,
                                                 !.known = known, !.at = at]
      BY <2>2
    <3> HIDE DEF TypeInv, GraphTypeOK
    <3> QED BY <3>1 DEF Requests
  <2>4. req'[p] \in Requests
    BY <2>1, <2>3 DEF Requests
  <2> QED BY <2>2, <2>4
<1>2. \A q \in Procs : DayIsKnown(q)' /\ ValueIsKnown(q)'
  BY DEF DayIsKnown, ValueIsKnown, Filling, Requests, AfterFind
<1> QED BY <1>1, <1>2 DEF history, Requests

\* Only the lines graph creates an entry before it has its value.
LEMMA TypeCreateEntry ==
    ASSUME TypeInv, NEW p \in Procs, CreateEntry(p)
    PROVE  TypeInv'
<1> USE DEF TypeInv, GraphTypeOK, CreateEntry
<1>1. req' \in [Procs -> Requests]
  BY IdleIsRequest DEF Requests, Labels, Done
<1>2. \A q \in Procs : DayIsKnown(q)' /\ ValueIsKnown(q)'
  BY DEF DayIsKnown, ValueIsKnown, Filling, Requests, Done, Idle, At
<1>3. /\ entry' \in [Days -> Days \cup {None, Nil}]
      /\ graph # "cumulative"
  BY DEF DayIsKnown, ValueIsKnown, At
<1> QED BY <1>1, <1>2, <1>3 DEF history, Requests

\* What is saved has been measured or copied.
LEMMA TypeSave ==
    ASSUME TypeInv, NEW p \in Procs, Save(p)
    PROVE  TypeInv'
<1> USE DEF TypeInv, GraphTypeOK, Save
<1>1. req' \in [Procs -> Requests]
  BY IdleIsRequest DEF Done
<1>2. \A q \in Procs : DayIsKnown(q)' /\ ValueIsKnown(q)'
  BY DEF DayIsKnown, ValueIsKnown, Filling, Requests, Done, Idle, At
<1>3. /\ entry' \in [Days -> Days \cup {None, Nil}]
      /\ graph = "cumulative" => \A e \in Days : entry'[e] # Nil
  BY DEF DayIsKnown, ValueIsKnown, At, Requests
<1> QED BY <1>1, <1>2, <1>3 DEF history, Requests

\* Crash, Midnight and Enqueue.
LEMMA TypeRest ==
    ASSUME TypeInv,
           \/ \E p \in Procs : Crash(p)
           \/ Midnight
           \/ Enqueue
    PROVE  TypeInv'
<1> USE GraphAssumption DEF TypeInv, GraphTypeOK, GraphAssumption, history
<1>1. CASE \E p \in Procs : Crash(p)
  <2>1. PICK p \in Procs : Crash(p)
    BY <1>1
  <2>2. req' \in [Procs -> Requests]
    BY <2>1, IdleIsRequest DEF Crash, Done
  <2>3. \A q \in Procs : DayIsKnown(q)' /\ ValueIsKnown(q)'
    BY <2>1 DEF Crash, DayIsKnown, ValueIsKnown, Filling, Requests, Done, Idle
  <2> QED BY <2>1, <2>2, <2>3 DEF Crash, Requests
<1>2. CASE Midnight
  <2>1. today' \in Days
    BY <1>2 DEF Midnight, Days
  <2>2. torn' \in BOOLEAN /\ asked' \in BOOLEAN
    BY <1>2 DEF Midnight
  <2>3. UNCHANGED <<graph, entry, queued, req, crashes>>
    BY <1>2 DEF Midnight
  <2> QED BY <2>1, <2>2, <2>3 DEF DayIsKnown, ValueIsKnown, Filling
<1>3. CASE Enqueue
  BY <1>3 DEF Enqueue, Accepted, Requests, DayIsKnown, ValueIsKnown, Filling
<1> QED BY <1>1, <1>2, <1>3

\* No step breaks the types.
LEMMA TypeStep == TypeInv /\ [Next]_vars => TypeInv'
<1> SUFFICES ASSUME TypeInv, [Next]_vars
             PROVE  TypeInv'
  OBVIOUS
<1>1. ASSUME NEW p \in Procs, Work(p) PROVE TypeInv'
  BY <1>1, TypeStart, TypeFill, TypeMeasure, TypeFind, TypeCreateEntry, TypeSave
     DEF Work
<1>2. CASE UNCHANGED vars
  BY <1>2 DEF vars, history, TypeInv, GraphTypeOK, DayIsKnown, ValueIsKnown,
              Filling, Requests
<1> QED BY <1>1, <1>2, TypeRest DEF Next

\* The entries, and what the jobs work on, keep their types; the cumulative
\* graph never has an entry without its value, which the view would draw.
THEOREM GraphTypes == Spec => []GraphTypeOK
<1>1. TypeInv => GraphTypeOK
  BY DEF TypeInv
<1> QED BY <1>1, TypeInit, TypeStep, PTL DEF Spec

-----------------------------------------------------------------------------
(***************************************************************************)
(* The days that are being filled.                                         *)
(***************************************************************************)

\* Steps that leave the entries, and the days every job has left, alone.
LEMMA SameFilling ==
    ASSUME FillInv,
           entry' = entry, today' = today,
           \A q \in Procs :
               /\ req'[q].missing = req[q].missing
               /\ req[q].missing # {} => req'[q].value = req[q].value
               /\ req'[q] # Idle => req[q] # Idle
    PROVE  FillInv'
<1>1. Collected' = Collected
  BY DEF Collected
<1>2. \A p \in Procs : FollowsItsEntry(p)' /\ FillsFromTheLatest(p)'
  BY <1>1 DEF FillInv, FollowsItsEntry, FillsFromTheLatest
<1>3. FillAlike'
  BY <1>1 DEF FillInv, FillAlike
<1>4. GapsAreBeingFilled'
  BY <1>1 DEF FillInv, GapsAreBeingFilled
<1>5. EntriesRepeat'
  BY <1>1 DEF FillInv, EntriesRepeat
<1> QED BY <1>2, <1>3, <1>4, <1>5 DEF FillInv

\* A job writes today's entry.
LEMMA TodayWritten ==
    ASSUME TypeInv, NoneAfterToday, FillInv,
           NEW p \in Procs, req[p] # Idle,
           NEW v \in {today, Nil},
           entry' = [entry EXCEPT ![today] = v], today' = today,
           \A q \in Procs :
               /\ req'[q].missing = req[q].missing
               /\ req[q].missing # {} => req'[q].value = req[q].value
    PROVE  FillInv'
<1> USE DEF FillInv, Days
<1>1. /\ today \in Days
      /\ entry \in [Days -> Days \cup {None, Nil}]
      /\ \A q \in Procs : req[q].missing \subseteq Days
  BY DEF TypeInv, GraphTypeOK
<1>2. /\ \A d \in Days \ {today} : entry'[d] = entry[d]
      /\ entry'[today] = v
      /\ Collected' = Collected \cup {today}
      /\ v # None
  BY <1>1 DEF Collected, None, Nil
<1>3. Collected \subseteq Days /\ \A d \in Collected : d <= today
  BY DEF Collected, NoneAfterToday
<1>4. \A q \in Procs : FollowsItsEntry(q)'
  <2> SUFFICES ASSUME NEW q \in Procs, req[q].missing # {}
               PROVE  \E f \in Collected', k \in Days :
                          /\ req[q].missing = (f + 1)..k
                          /\ req[q].value = entry'[f]
                          /\ k < today
    BY DEF FollowsItsEntry
  <2>1. PICK f \in Collected, k \in Days :
            /\ req[q].missing = (f + 1)..k
            /\ req[q].value = entry[f]
            /\ k < today
    BY DEF FollowsItsEntry
  <2>2. f \in Collected' /\ entry'[f] = entry[f]
    BY <1>1, <1>2, <1>3, <2>1
  <2> QED BY <2>1, <2>2
<1>5. \A q \in Procs : FillsFromTheLatest(q)'
  BY <1>1, <1>2 DEF FillsFromTheLatest
<1>6. FillAlike'
  BY <1>2 DEF FillAlike
<1>7. GapsAreBeingFilled'
  BY <1>1, <1>2, <1>3 DEF GapsAreBeingFilled
<1>8. EntriesRepeat'
  <2> SUFFICES ASSUME NEW d \in Days, entry'[d] \in Days
               PROVE  \/ entry'[d] = d
                      \/ d > 1 /\ entry'[d - 1] = entry'[d]
                      \/ /\ d > 1 /\ entry'[d - 1] = None
                         /\ \E f \in Collected' : f < d - 1
                         /\ \A q \in Procs :
                                d - 1 \in req'[q].missing =>
                                    req'[q].value = entry'[d]
    BY DEF EntriesRepeat
  <2>1. CASE d = today
    BY <1>1, <1>2, <2>1 DEF Nil
  <2>2. CASE d # today
    <3>1. entry'[d] = entry[d] /\ d \in Collected /\ d < today
      BY <1>1, <1>2, <1>3, <2>2 DEF Collected, None
    <3>2. d > 1 => entry'[d - 1] = entry[d - 1]
      BY <1>1, <1>2, <3>1
    <3> QED BY <1>1, <1>2, <3>1, <3>2 DEF EntriesRepeat
  <2> QED BY <2>1, <2>2
<1> QED BY <1>4, <1>5, <1>6, <1>7, <1>8

\* A job is started.
LEMMA FillingStarts ==
    ASSUME TypeInv, NoneAfterToday, LabelsTell, FillInv,
           NEW p \in Procs, Start(p)
    PROVE  FillInv'
<1> USE DEF FillInv, Days
<1>1. /\ today \in Days
      /\ entry \in [Days -> Days \cup {None, Nil}]
      /\ req \in [Procs -> Requests]
      /\ \A q \in Procs : req[q].missing \subseteq Days
      /\ req[p] = Idle /\ req[p].missing = {}
      /\ UNCHANGED <<entry, today>>
      /\ Collected' = Collected
      /\ Collected \subseteq Days
  BY DEF TypeInv, GraphTypeOK, Start, Idle, Collected
<1>0. /\ MaxDay \in Nat /\ today \in Nat /\ 1 <= today /\ today <= MaxDay
      /\ Collected \subseteq Nat
  BY <1>1, GraphAssumption DEF GraphAssumption
<1>2. /\ \A q \in Procs \ {p} : req'[q] = req[q]
      /\ Collected = {} => req'[p].missing = {}
      /\ Collected # {} => /\ req'[p].missing = (LastEntry + 1)..(today - 1)
                           /\ req'[p].value = entry[LastEntry]
  BY <1>1 DEF Start, Idle, ToCopy, MissingDays
<1>3. Collected # {} => /\ LastEntry \in Collected
                       /\ \A e \in Collected : e <= LastEntry
                       /\ LastEntry <= today
                       /\ LastEntry \in Nat /\ 1 <= LastEntry
  <2> SUFFICES ASSUME Collected # {}
               PROVE  /\ LastEntry \in Collected
                      /\ \A e \in Collected : e <= LastEntry
                      /\ LastEntry <= today
                      /\ LastEntry \in Nat /\ 1 <= LastEntry
    OBVIOUS
  <2>1. LastEntry \in Collected /\ \A e \in Collected : e <= LastEntry
    BY LastEntryExists
  <2>2. LastEntry \in Days /\ LastEntry <= today
    BY <1>1, <2>1 DEF NoneAfterToday
  <2> QED BY <1>0, <2>1, <2>2
<1> HIDE DEF Start
<1>4. \A q \in Procs : FollowsItsEntry(q)'
  <2>1. ASSUME req'[p].missing # {} PROVE FollowsItsEntry(p)'
    <3>1. /\ Collected # {}
          /\ req'[p].missing = (LastEntry + 1)..(today - 1)
          /\ LastEntry \in Collected
      BY <1>2, <1>3, <2>1
    <3>2. today - 1 \in Days /\ today - 1 < today
      BY <1>0, <1>3, <2>1, <3>1
    <3> QED BY <1>1, <1>2, <1>3, <3>1, <3>2 DEF FollowsItsEntry
  <2>2. FollowsItsEntry(p)'
    BY <2>1 DEF FollowsItsEntry
  <2> QED BY <1>1, <1>2, <2>2 DEF FollowsItsEntry
<1>5. \A q \in Procs : FillsFromTheLatest(q)'
  <2>1. ASSUME NEW m \in req'[p].missing, NEW e \in Days, m < e, e < today
        PROVE  /\ e \in req'[p].missing
               /\ m \notin Collected
    BY <1>0, <1>1, <1>2, <1>3, <2>1
  <2>2. FillsFromTheLatest(p)'
    BY <1>1, <2>1 DEF FillsFromTheLatest
  <2> QED BY <1>1, <1>2, <2>2 DEF FillsFromTheLatest
<1>6. FillAlike'
  <2>1. ASSUME NEW q \in Procs, q # p, NEW d \in Days \ Collected,
               d \in req[q].missing, d \in req'[p].missing
        PROVE  req[q].value = req'[p].value
    <3>1. PICK f \in Collected, k \in Days :
              /\ req[q].missing = (f + 1)..k
              /\ req[q].value = entry[f]
              /\ k < today
      BY <2>1 DEF FollowsItsEntry
    <3>2. /\ LastEntry \in Collected /\ f <= LastEntry
          /\ LastEntry < d
          /\ req'[p].value = entry[LastEntry]
      BY <1>0, <1>1, <1>2, <1>3, <2>1, <3>1
    <3>3. CASE f < LastEntry
      <4>1. LastEntry \in req[q].missing
        BY <1>1, <2>1, <3>1, <3>2, <3>3
      <4>2. d < today
        BY <1>1, <2>1, <3>1
      <4> QED BY <1>1, <2>1, <3>2, <4>1, <4>2 DEF FillsFromTheLatest
    <3>4. CASE f = LastEntry
      BY <3>1, <3>2, <3>4
    <3> QED BY <1>1, <3>2, <3>3, <3>4
  <2> QED BY <1>1, <1>2, <2>1 DEF FillAlike
<1>7. GapsAreBeingFilled'
  <2> SUFFICES ASSUME NEW e \in Days \ Collected, NEW f \in Collected,
                      f < e, e < today
               PROVE  \E q \in Procs : e \in req'[q].missing
    BY <1>1 DEF GapsAreBeingFilled
  <2>1. CASE e < LastEntry
    <3>1. PICK q \in Procs : e \in req[q].missing
      BY <1>3, <2>1 DEF GapsAreBeingFilled
    <3>2. q # p
      BY <1>1, <3>1
    <3> QED BY <1>2, <3>1, <3>2
  <2>2. CASE LastEntry < e
    <3>1. e \in req'[p].missing
      BY <1>1, <1>2, <1>3, <2>2
    <3> QED BY <3>1
  <2> QED BY <1>0, <1>1, <1>3, <2>1, <2>2
<1>8. EntriesRepeat'
  <2> SUFFICES ASSUME NEW d \in Days, entry[d] \in Days
               PROVE  \/ entry[d] = d
                      \/ d > 1 /\ entry[d - 1] = entry[d]
                      \/ /\ d > 1 /\ entry[d - 1] = None
                         /\ \E f \in Collected : f < d - 1
                         /\ \A q \in Procs :
                                d - 1 \in req'[q].missing =>
                                    req'[q].value = entry[d]
    BY <1>1 DEF EntriesRepeat
  <2>1. d \in Collected /\ d <= LastEntry
    BY <1>3 DEF Collected, None
  <2>2. d - 1 \notin req'[p].missing
    BY <1>1, <1>2, <1>3, <2>1
  <2> QED BY <1>1, <1>2, <2>2 DEF EntriesRepeat
<1> QED BY <1>4, <1>5, <1>6, <1>7, <1>8

\* A job fills the latest day it has left.
LEMMA DayFilled ==
    ASSUME TypeInv, NoneAfterToday, FillInv,
           NEW p \in Procs, Fill(p), req[p].missing # {}
    PROVE  FillInv'
<1> USE DEF FillInv
<1>1. /\ today \in Days
      /\ entry \in [Days -> Days \cup {None, Nil}]
      /\ req \in [Procs -> Requests]
      /\ \A q \in Procs : /\ req[q].missing \subseteq Days
                           /\ req[q].value \in Days \cup {Nil}
      /\ Collected \subseteq Days
      /\ Days \subseteq Nat
  BY GraphAssumption
     DEF TypeInv, GraphTypeOK, Collected, Days, GraphAssumption
<1>2. PICK f \in Collected, k \in Days :
          /\ req[p].missing = (f + 1)..k
          /\ req[p].value = entry[f]
          /\ k < today
  BY DEF FollowsItsEntry
<1>3. /\ f < k
      /\ k \in req[p].missing /\ \A m \in req[p].missing : m <= k
      /\ Max(req[p].missing) = k
  <2>1. f + 1 <= k
    BY <1>1, <1>2
  <2> QED BY <1>1, <1>2, <2>1, LatestDay
<1>4. /\ entry' = [entry EXCEPT ![k] =
                       IF @ = None THEN req[p].value ELSE @]
      /\ req' = [req EXCEPT ![p].missing = @ \ {k}]
      /\ UNCHANGED today
  BY <1>3 DEF Fill
<1>5. /\ \A d \in Days \ {k} : entry'[d] = entry[d]
      /\ entry[k] = None => entry'[k] = req[p].value
      /\ entry[k] # None => entry'[k] = entry[k]
      /\ \A d \in Collected : entry'[d] = entry[d]
      /\ entry'[k] # None
      /\ Collected' = Collected \cup {k}
  BY <1>1, <1>4 DEF Collected, None, Nil, Days
<1>6. /\ \A q \in Procs \ {p} : req'[q] = req[q]
      /\ \A q \in Procs : req'[q].missing \subseteq req[q].missing
      /\ \A q \in Procs : req'[q].value = req[q].value
      /\ req'[p].missing = req[p].missing \ {k}
      /\ req'[p] # Idle => req[p] # Idle
  <2>1. Filling(p) /\ req[p] # Idle
    BY DEF Fill, At, Filling, Idle
  <2> QED BY <1>1, <1>4, <2>1 DEF Requests
<1>7. \A q \in Procs : FollowsItsEntry(q)'
  <2>1. ASSUME NEW q \in Procs, q # p PROVE FollowsItsEntry(q)'
    <3> SUFFICES ASSUME req[q].missing # {}
                 PROVE  \E g \in Collected', j \in Days :
                            /\ req[q].missing = (g + 1)..j
                            /\ req[q].value = entry'[g]
                            /\ j < today
      BY <1>4, <1>6, <2>1 DEF FollowsItsEntry
    <3>1. PICK g \in Collected, j \in Days :
              /\ req[q].missing = (g + 1)..j
              /\ req[q].value = entry[g]
              /\ j < today
      BY DEF FollowsItsEntry
    <3> QED BY <1>5, <3>1
  <2>2. FollowsItsEntry(p)'
    <3> SUFFICES ASSUME req'[p].missing # {}
                 PROVE  \E g \in Collected', j \in Days :
                            /\ req'[p].missing = (g + 1)..j
                            /\ req[p].value = entry'[g]
                            /\ j < today
      BY <1>4, <1>6 DEF FollowsItsEntry
    <3>1. req'[p].missing = (f + 1)..(k - 1)
      BY <1>1, <1>2, <1>6
    <3>2. f + 1 <= k - 1
      BY <1>1, <3>1
    <3>3. k - 1 \in Days /\ k - 1 < today
      BY <1>1, <1>2, <3>2, GraphAssumption DEF Days, GraphAssumption
    <3> QED BY <1>2, <1>5, <3>1, <3>3
  <2> QED BY <2>1, <2>2
\* What is not filled and later than k is none of p's days: k is the latest.
<1>8. \A q \in Procs : FillsFromTheLatest(q)'
  <2> SUFFICES ASSUME NEW q \in Procs, NEW m \in req'[q].missing,
                      NEW e \in Days, m < e, e < today
               PROVE  /\ e \notin Collected' => e \in req'[q].missing
                      /\ m \in Collected' => e \in Collected'
    BY <1>4 DEF FillsFromTheLatest
  <2>1. m \in req[q].missing
    BY <1>6
  <2>2. /\ e \notin Collected => e \in req[q].missing
        /\ m \in Collected => e \in Collected
    BY <2>1 DEF FillsFromTheLatest
  <2>3. CASE m = k
    <3>1. e \in Collected
      BY <1>1, <1>3, <2>3 DEF FillsFromTheLatest
    <3> QED BY <1>5, <3>1
  <2>4. CASE m # k
    BY <1>5, <1>6, <2>2, <2>4
  <2> QED BY <2>3, <2>4
<1>9. FillAlike'
  BY <1>5, <1>6 DEF FillAlike
<1>10. GapsAreBeingFilled'
  <2> SUFFICES ASSUME NEW e \in Days \ Collected', NEW g \in Collected',
                      g < e, e < today
               PROVE  \E q \in Procs : e \in req'[q].missing
    BY <1>4 DEF GapsAreBeingFilled
  <2>1. \E h \in Collected : h < e
    BY <1>1, <1>3, <1>5
  <2>2. e \notin Collected /\ e # k /\ req[p] # Idle
    BY <1>5 DEF Fill, At, Idle
  <2>3. PICK q \in Procs : e \in req[q].missing
    BY <2>1, <2>2 DEF GapsAreBeingFilled
  <2> QED BY <1>6, <2>2, <2>3
<1>11. EntriesRepeat'
  <2> DEFINE Shown(d) ==
                 \/ entry'[d] = d
                 \/ d > 1 /\ entry'[d - 1] = entry'[d]
                 \/ /\ d > 1 /\ entry'[d - 1] = None
                    /\ \E g \in Collected' : g < d - 1
                    /\ \A q \in Procs :
                           d - 1 \in req'[q].missing =>
                               req'[q].value = entry'[d]
  <2> SUFFICES ASSUME NEW d \in Days, entry'[d] \in Days
               PROVE  Shown(d)
    BY DEF EntriesRepeat
  <2>1. d - 1 \in Days \/ d = 1
    BY <1>1, GraphAssumption DEF Days, GraphAssumption
  <2>2. CASE d = k /\ entry[k] = None
    <3>1. d > 1 /\ k - 1 \in Days /\ f <= k - 1
      BY <1>1, <1>3, <2>1, <2>2 DEF Days
    <3>2. CASE f = k - 1
      BY <1>2, <1>5, <2>2, <3>1, <3>2
    <3>3. CASE f < k - 1
      <4>1. k - 1 \in req[p].missing /\ k \notin Collected
        BY <1>1, <1>2, <2>2, <3>1, <3>3 DEF Collected
      <4>2. k - 1 \notin Collected
        <5>1. FillsFromTheLatest(p) /\ k - 1 < k /\ k < today
          BY <1>1, <1>2
        <5> QED BY <4>1, <5>1 DEF FillsFromTheLatest
      <4>3. entry'[k - 1] = None
        BY <1>1, <1>5, <3>1, <4>2 DEF Collected
      <4>4. ASSUME NEW q \in Procs, k - 1 \in req'[q].missing
            PROVE  req'[q].value = entry'[k]
        <5>1. k - 1 \in req[q].missing
          BY <1>6, <4>4
        <5>2. k \in req[q].missing
          BY <1>1, <1>2, <4>1, <5>1 DEF FillsFromTheLatest
        <5>3. req[q].value = req[p].value
          BY <1>3, <4>1, <5>2 DEF FillAlike
        <5> QED BY <1>5, <1>6, <2>2, <5>3
      <4>5. f \in Collected'
        BY <1>5
      <4> QED BY <2>2, <3>1, <3>3, <4>3, <4>4, <4>5
    <3> QED BY <1>1, <3>1, <3>2, <3>3
  <2>3. CASE ~(d = k /\ entry[k] = None)
    <3>1. entry'[d] = entry[d]
      BY <1>5, <2>3
    <3>2. \/ entry[d] = d
          \/ d > 1 /\ entry[d - 1] = entry[d]
          \/ /\ d > 1 /\ entry[d - 1] = None
             /\ \E g \in Collected : g < d - 1
             /\ \A q \in Procs :
                    d - 1 \in req[q].missing => req[q].value = entry[d]
      BY <3>1 DEF EntriesRepeat
    <3>3. CASE entry[d] = d
      BY <3>1, <3>3
    <3>4. CASE d > 1 /\ entry[d - 1] = entry[d]
      <4>1. d - 1 \in Collected
        <5>1. d - 1 \in Days
          BY <1>1, <2>1, <3>4
        <5>2. entry[d - 1] # None
          BY <1>1, <3>1, <3>4 DEF None
        <5> QED BY <5>1, <5>2 DEF Collected
      <4> QED BY <1>5, <3>1, <3>4, <4>1
    <3>5. CASE /\ d > 1 /\ entry[d - 1] = None
               /\ \E g \in Collected : g < d - 1
               /\ \A q \in Procs :
                      d - 1 \in req[q].missing => req[q].value = entry[d]
      <4>1. CASE d - 1 = k
        BY <1>3, <1>5, <3>1, <3>5, <4>1
      <4>2. CASE d - 1 # k
        <5>1. d - 1 \in Days
          BY <1>1, <2>1, <3>5
        <5>2. entry'[d - 1] = None
          BY <1>5, <3>5, <4>2, <5>1
        <5>3. \E g \in Collected' : g < d - 1
          BY <1>5, <3>5
        <5> QED BY <1>6, <3>1, <3>5, <5>2, <5>3
      <4> QED BY <4>1, <4>2
    <3> QED BY <3>2, <3>3, <3>4, <3>5
  <2> QED BY <2>2, <2>3
<1> QED BY <1>7, <1>8, <1>9, <1>10, <1>11

-----------------------------------------------------------------------------
(***************************************************************************)
(* The inductive invariant.                                                *)
(***************************************************************************)
\* The invariant holds at first: there is no entry and no job.
LEMMA GraphInvInit == Init => GraphInv
<1> SUFFICES ASSUME Init PROVE GraphInv
  OBVIOUS
<1>1. /\ Collected = {}
      /\ \A p \in Procs : req[p] = Idle
      /\ \A d \in Days : entry[d] \notin Days
  BY GraphAssumption DEF Init, Collected, Days, None, GraphAssumption
<1>2. \A p \in Procs : req[p].missing = {} /\ req[p].at = "idle"
  BY <1>1 DEF Idle
<1>3. NoneAfterToday /\ LabelsTell
  BY <1>1, <1>2 DEF NoneAfterToday, LabelsTell
<1>4. \A p \in Procs :
          WorksOnToday(p) /\ FollowsItsEntry(p) /\ FillsFromTheLatest(p)
  BY <1>2 DEF WorksOnToday, FollowsItsEntry, FillsFromTheLatest
<1>5. FillAlike /\ GapsAreBeingFilled /\ EntriesRepeat
  BY <1>1 DEF FillAlike, GapsAreBeingFilled, EntriesRepeat
<1> QED BY TypeInit, <1>3, <1>4, <1>5 DEF GraphInv, WholeInv, FillInv

\* A job at work keeps to its label, and to today.
LEMMA PlainStep ==
    ASSUME TypeInv, LabelsTell, ~torn => WholeInv,
           NEW p \in Procs, Work(p)
    PROVE  LabelsTell' /\ (~torn' => \A q \in Procs : WorksOnToday(q)')
<1> SUFFICES ASSUME ~torn => \A q \in Procs : WorksOnToday(q)
             PROVE  /\ LabelsTell'
                    /\ ~torn' => \A q \in Procs : WorksOnToday(q)'
  BY DEF WholeInv
<1>0. /\ req \in [Procs -> Requests]
      /\ graph \in {"cumulative", "lines"}
  BY DEF TypeInv
<1>1. CASE Start(p)
  BY <1>0, <1>1 DEF Start, history, LabelsTell, WorksOnToday, Filling, Idle
<1>2. CASE Fill(p)
  <2>1. CASE req[p].missing = {}
    BY <1>0, <1>2, <2>1 DEF Fill, At, Goto, Requests, history, LabelsTell,
                            WorksOnToday, Filling
  <2>2. CASE req[p].missing # {}
    BY <1>0, <1>2, <2>2 DEF Fill, At, Requests, history, LabelsTell,
                            WorksOnToday, Filling
  <2> QED BY <2>1, <2>2
<1>3. CASE Measure(p)
  <2>1. CASE Done(p)
    BY <1>0, <1>3, <2>1 DEF Measure, Done, history, LabelsTell,
                            WorksOnToday, Filling, Idle
  <2>2. CASE ~Done(p)
    BY <1>0, <1>3, <2>2 DEF Measure, At, Requests, history, LabelsTell,
                            WorksOnToday, Filling
  <2> QED BY <2>1, <2>2
<1>4. CASE Find(p)
  BY <1>0, <1>4 DEF Find, At, AfterFind, Requests, history, LabelsTell,
                    WorksOnToday, Filling
<1>5. CASE CreateEntry(p)
  <2>1. CASE Done(p)
    BY <1>0, <1>5, <2>1 DEF CreateEntry, Done, history, LabelsTell,
                            WorksOnToday, Filling, Idle
  <2>2. CASE ~Done(p)
    BY <1>0, <1>5, <2>2 DEF CreateEntry, At, Requests, history, LabelsTell,
                            WorksOnToday, Filling
  <2> QED BY <2>1, <2>2
<1>6. CASE Save(p)
  BY <1>0, <1>6 DEF Save, At, Done, Requests, history, LabelsTell,
                    WorksOnToday, Filling, Idle
<1> QED BY <1>1, <1>2, <1>3, <1>4, <1>5, <1>6 DEF Work

\* While no job has died or run across midnight, a step of a job keeps what
\* is known of the entries and of the days being filled.
LEMMA WorkStep ==
    ASSUME TypeInv, LabelsTell, NoneAfterToday, FillInv,
           \A q \in Procs : WorksOnToday(q),
           NEW p \in Procs, Work(p)
    PROVE  NoneAfterToday' /\ FillInv'
<1>0. /\ req \in [Procs -> Requests]
      /\ graph \in {"cumulative", "lines"}
      /\ entry \in [Days -> Days \cup {None, Nil}]
      /\ Collected \subseteq Days
  BY DEF TypeInv, GraphTypeOK, Collected
\* The steps that change neither an entry nor the days left.
<1>1. ASSUME UNCHANGED <<entry, today>>,
             \A q \in Procs :
                 /\ req'[q].missing = req[q].missing
                 /\ req[q].missing # {} => req'[q].value = req[q].value
                 /\ req'[q] # Idle => req[q] # Idle
      PROVE  NoneAfterToday' /\ FillInv'
  BY <1>1, SameFilling DEF NoneAfterToday, Collected
<1>2. CASE Start(p)
  BY <1>2, FillingStarts DEF Start, NoneAfterToday, Collected
<1>3. CASE Fill(p)
  <2>1. CASE req[p].missing = {}
    <3>1. \A q \in Procs : /\ req'[q].missing = req[q].missing
                           /\ req'[q].value = req[q].value
                           /\ req'[q] # Idle => req[q] # Idle
      BY <1>0, <1>3, <2>1 DEF Fill, At, Goto, Requests, Idle
    <3> QED BY <1>1, <1>3, <2>1, <3>1 DEF Fill
  <2>2. CASE req[p].missing # {}
    <3>1. FillInv'
      BY <1>3, <2>2, DayFilled
    <3>2. PICK f \in Collected, k \in Days :
              req[p].missing = (f + 1)..k /\ k < today
      BY <2>2 DEF FillInv, FollowsItsEntry
    <3>3. f \in Int /\ k \in Int /\ f + 1 <= k
      BY <1>0, <2>2, <3>2, GraphAssumption DEF Days, GraphAssumption
    <3>4. Max(req[p].missing) = k
      BY <3>2, <3>3, LatestDay
    <3>5. /\ entry' = [entry EXCEPT ![k] =
                             IF @ = None THEN req[p].value ELSE @]
          /\ UNCHANGED today
      BY <1>3, <2>2, <3>4 DEF Fill
    <3>6. today \in Nat /\ k <= today /\ Collected' \subseteq Collected \cup {k}
      BY <1>0, <3>2, <3>3, <3>5, GraphAssumption
         DEF Collected, Days, TypeInv, GraphTypeOK, GraphAssumption
    <3>7. NoneAfterToday'
      BY <3>5, <3>6 DEF NoneAfterToday
    <3> QED BY <3>1, <3>7
  <2> QED BY <2>1, <2>2
<1>4. CASE Measure(p)
  <2>1. req[p].missing = {} /\ req[p] # Idle
    BY <1>4 DEF Measure, At, LabelsTell, Filling, Idle
  <2>2. CASE Done(p)
    BY <1>0, <1>1, <1>4, <2>1, <2>2 DEF Measure, Done, Idle
  <2>3. CASE ~Done(p)
    BY <1>0, <1>1, <1>4, <2>1, <2>3 DEF Measure, Requests
  <2> QED BY <2>2, <2>3
<1>5. CASE Find(p)
  <2>1. req[p] # Idle
    BY <1>5 DEF Find, At, Idle
  <2>2. \A q \in Procs : /\ req'[q].missing = req[q].missing
                         /\ req'[q].value = req[q].value
                         /\ req'[q] # Idle => req[q] # Idle
    BY <1>0, <1>5, <2>1 DEF Find, Requests
  <2> QED BY <1>1, <1>5, <2>2 DEF Find
<1>6. CASE CreateEntry(p)
  <2>1. req[p].missing = {} /\ req[p] # Idle /\ req[p].day = today
    BY <1>6 DEF CreateEntry, At, LabelsTell, Filling, Idle, WorksOnToday
  <2>2. CASE entry[today] = None
    <3>1. /\ entry' = [entry EXCEPT ![today] = Nil]
          /\ req' = [req EXCEPT ![p].at = "save", ![p].known = TRUE]
          /\ UNCHANGED today
      BY <1>6, <2>1, <2>2 DEF CreateEntry
    <3>2. \A q \in Procs : /\ req'[q].missing = req[q].missing
                           /\ req'[q].value = req[q].value
      BY <1>0, <3>1 DEF Requests
    <3>3. FillInv'
      BY <2>1, <3>1, <3>2, TodayWritten
    <3>4. NoneAfterToday'
      BY <1>0, <3>1, GraphAssumption
         DEF NoneAfterToday, Collected, Days, TypeInv, GraphTypeOK,
             GraphAssumption
    <3> QED BY <3>3, <3>4
  <2>3. CASE entry[today] # None
    BY <1>0, <1>1, <1>6, <2>1, <2>3 DEF CreateEntry, Done, Idle
  <2> QED BY <2>2, <2>3
<1>7. CASE Save(p)
  <2>1. /\ req[p].missing = {} /\ req[p] # Idle
        /\ req[p].day = today /\ req[p].value = today
    BY <1>7 DEF Save, At, LabelsTell, Filling, Idle, WorksOnToday
  <2>2. \A q \in Procs : /\ req'[q].missing = req[q].missing
                         /\ req[q].missing # {} => req'[q].value = req[q].value
                         /\ req'[q] # Idle => req[q] # Idle
    BY <1>0, <1>7, <2>1 DEF Save, Done, Idle
  <2>3. CASE entry' = [entry EXCEPT ![today] = today]
    <3>1. FillInv'
      BY <1>7, <2>1, <2>2, <2>3, TodayWritten DEF Save
    <3>2. NoneAfterToday'
      BY <1>0, <1>7, <2>3, GraphAssumption
         DEF Save, NoneAfterToday, Collected, Days, TypeInv, GraphTypeOK,
             GraphAssumption
    <3> QED BY <3>1, <3>2
  <2>4. CASE entry' = entry
    BY <1>1, <1>7, <2>2, <2>4 DEF Save
  <2> QED BY <1>7, <2>1, <2>3, <2>4 DEF Save
<1> QED BY <1>2, <1>3, <1>4, <1>5, <1>6, <1>7 DEF Work

\* Every step keeps the invariant.  A day may pass only when no job is at work,
\* or the entries are torn; then no day lies open between two entries.
LEMMA GraphInvStep == GraphInv /\ [Next]_vars => GraphInv'
<1> SUFFICES ASSUME TypeInv, LabelsTell, ~torn => WholeInv, [Next]_vars
             PROVE  LabelsTell' /\ (~torn' => WholeInv')
  BY TypeStep DEF GraphInv
<1> USE DEF WholeInv
<1>1. ASSUME NEW p \in Procs, Work(p)
      PROVE  LabelsTell' /\ (~torn' => WholeInv')
  <2>1. torn' = torn
    BY <1>1 DEF Work, Start, Fill, Measure, Find, CreateEntry, Save, history
  <2>2. LabelsTell' /\ (~torn' => \A q \in Procs : WorksOnToday(q)')
    BY <1>1, PlainStep
  <2>3. ~torn => NoneAfterToday' /\ FillInv'
    BY <1>1, WorkStep
  <2> QED BY <2>1, <2>2, <2>3
<1>2. ASSUME NEW p \in Procs, Crash(p)
      PROVE  LabelsTell' /\ (~torn' => WholeInv')
  <2>1. torn' = TRUE
    BY <1>2 DEF Crash
  <2>2. LabelsTell'
    BY <1>2 DEF Crash, Done, TypeInv, LabelsTell, Filling, Idle
  <2> QED BY <2>1, <2>2
<1>3. CASE Midnight
  <2>1. LabelsTell'
    BY <1>3 DEF Midnight, LabelsTell, Filling
  <2>2. ASSUME ~torn'
        PROVE  WholeInv'
    <3>1. ~torn /\ \A p \in Procs : req[p] = Idle
      BY <1>3, <2>2 DEF Midnight
    <3>2. \A p \in Procs : req'[p] = Idle /\ req'[p].missing = {}
                           /\ req'[p].at = "idle"
      <4>1. req' = req
        BY <1>3 DEF Midnight
      <4>2. Idle.missing = {} /\ Idle.at = "idle"
        BY DEF Idle
      <4> QED BY <3>1, <4>1, <4>2
    <3>3. entry' = entry /\ today' = today + 1 /\ Collected' = Collected
          /\ today \in Nat /\ Collected \subseteq Nat /\ Days \subseteq Nat
      BY <1>3, GraphAssumption
         DEF Midnight, Collected, TypeInv, GraphTypeOK, Days, GraphAssumption
    <3>4. NoneAfterToday'
      BY <3>1, <3>3 DEF NoneAfterToday
    <3>5. \A p \in Procs :
              WorksOnToday(p)' /\ FollowsItsEntry(p)' /\ FillsFromTheLatest(p)'
      BY <3>2 DEF WorksOnToday, FollowsItsEntry, FillsFromTheLatest
    <3>6. FillAlike'
      BY <3>2 DEF FillAlike
    \* Nobody is about to fill anything, so there was no gap.
    <3>7. \A e \in Days \ Collected, f, d \in Collected : ~(f < e /\ e < d)
      <4>1. \A p \in Procs : req[p].missing = {}
        BY <3>1 DEF Idle
      <4>2. \A e \in Days, d \in Collected : e < d => e < today
        BY <3>1, <3>3 DEF NoneAfterToday
      <4> QED BY <3>1, <4>1, <4>2 DEF FillInv, GapsAreBeingFilled
    <3>8. GapsAreBeingFilled'
      BY <3>2, <3>3, <3>7 DEF GapsAreBeingFilled
    <3>9. EntriesRepeat'
      <4>1. \A p \in Procs : req'[p].missing = req[p].missing
                             /\ req'[p].value = req[p].value
        BY <1>3 DEF Midnight
      <4> QED BY <3>1, <3>3, <4>1 DEF FillInv, EntriesRepeat
    <3> QED BY <3>4, <3>5, <3>6, <3>8, <3>9 DEF FillInv
  <2> QED BY <2>1, <2>2
<1>4. CASE Enqueue \/ UNCHANGED vars
  <2>1. UNCHANGED <<graph, today, entry, req, torn>>
    BY <1>4 DEF Enqueue, vars, history
  <2>2. LabelsTell'
    BY <2>1 DEF LabelsTell, Filling
  <2>3. ~torn => NoneAfterToday' /\ \A p \in Procs : WorksOnToday(p)'
    BY <2>1 DEF NoneAfterToday, Collected, WorksOnToday
  <2>4. ~torn => FillInv'
    BY <2>1, SameFilling
  <2> QED BY <2>1, <2>2, <2>3, <2>4
<1> QED BY <1>1, <1>2, <1>3, <1>4 DEF Next

\* The inductive invariant.
LEMMA GraphInvariant == Spec => []GraphInv
BY GraphInvInit, GraphInvStep, PTL DEF Spec

-----------------------------------------------------------------------------
\* However many jobs overlap, and however their statements interleave: until
\* one of them dies or runs across midnight, the days that have an entry are
\* without a gap whenever the jobs have finished, so the graph draws each
\* entry on its own day.
THEOREM WholeJobsLeaveNoGapHolds == Spec => []WholeJobsLeaveNoGap
<1>1. GraphInv => WholeJobsLeaveNoGap
  <2> SUFFICES ASSUME GraphInv, \A p \in Procs : req[p] = Idle, ~torn,
                      NEW d \in Collected, NEW e \in Days, NEW f \in Collected,
                      e < d, f < e, e \notin Collected
               PROVE  FALSE
    BY DEF WholeJobsLeaveNoGap, Quiet, PointsOnTheirDays
  <2>1. e < today
    BY GraphAssumption
       DEF GraphInv, WholeInv, NoneAfterToday, Collected, Days, TypeInv,
           GraphTypeOK, GraphAssumption
  <2>2. \E p \in Procs : e \in req[p].missing
    BY <2>1 DEF GraphInv, WholeInv, FillInv, GapsAreBeingFilled
  <2> QED BY <2>2 DEF Idle
<1> QED BY <1>1, GraphInvariant, PTL

\* Until then, what an entry shows was measured on its own day or is what the
\* entry of the day before shows, even if two jobs fill the same days at once.
THEOREM FilledFromDayBeforeHolds == Spec => []FilledFromDayBefore
<1>1. GraphInv => FilledFromDayBefore
  <2> SUFFICES ASSUME GraphInv, \A p \in Procs : req[p] = Idle, ~torn,
                      NEW d \in Days, entry[d] \in Days
               PROVE  \/ entry[d] = d
                      \/ d > 1 /\ entry[d - 1] = entry[d]
    BY DEF FilledFromDayBefore, Quiet
  <2>1. SUFFICES ASSUME d > 1, entry[d - 1] = None,
                        NEW f \in Collected, f < d - 1
                 PROVE  FALSE
    BY DEF GraphInv, WholeInv, FillInv, EntriesRepeat
  <2>2. /\ d \in Collected /\ d <= today
        /\ d - 1 \in Days \ Collected
        /\ d - 1 < d /\ d - 1 < today
    BY <2>1, GraphAssumption
       DEF GraphInv, WholeInv, NoneAfterToday, Collected, Days, TypeInv,
           GraphTypeOK, GraphAssumption, None
  <2>3. \E p \in Procs : d - 1 \in req[p].missing
    BY <2>1, <2>2 DEF GraphInv, WholeInv, FillInv, GapsAreBeingFilled
  <2> QED BY <2>3 DEF Idle
<1> QED BY <1>1, GraphInvariant, PTL

-----------------------------------------------------------------------------
(* A job that was asked for.                                                *)

\* A job that is going to write the entry of today, if nothing happens to it.
WritesToday(p) ==
    \/ req[p].at \in {"fill", "find"}
    \/ req[p].at \in {"measure", "save"} /\ req[p].day = today

AskedDayIsUnderWay ==
    asked /\ graph = "cumulative" =>
        entry[today] # None \/ queued \/ \E p \in Procs : WritesToday(p)

LEMMA UnderWayStep ==
    ASSUME TypeInv, AskedDayIsUnderWay, [Next]_vars
    PROVE  AskedDayIsUnderWay'
<1>0. /\ graph \in {"cumulative", "lines"} /\ today \in Days
      /\ entry \in [Days -> Days \cup {None, Nil}]
      /\ req \in [Procs -> Requests]
      /\ None \notin Days \cup {Nil}
  BY GraphAssumption DEF TypeInv, GraphTypeOK, Days, None, Nil, GraphAssumption
<1>1. ASSUME NEW p \in Procs, Work(p)
      PROVE  AskedDayIsUnderWay'
  <2> SUFFICES ASSUME asked, graph = "cumulative"
               PROVE  entry'[today] # None \/ queued' \/ \E q \in Procs : WritesToday(q)'
    BY <1>1 DEF AskedDayIsUnderWay, Work, Start, Fill, Measure, Find, CreateEntry,
                Save, history
  <2>1. CASE Start(p)
    <3>1. req'[p].at = "fill"
      BY <1>0, <2>1 DEF Start
    <3> QED BY <3>1 DEF WritesToday
  <2>2. CASE Fill(p)
    <3>1. req'[p].at \in {"fill", "find"}
      BY <1>0, <2>2 DEF Fill, At, Goto, Requests
    <3> QED BY <3>1 DEF WritesToday
  <2>3. CASE Measure(p)
    <3>1. /\ req' = [req EXCEPT ![p].value = today, ![p].at = "save"]
          /\ req[p].at = "measure" /\ UNCHANGED <<today, entry, queued>>
      BY <2>3 DEF Measure, At
    <3>2. \A q \in Procs : WritesToday(q) => WritesToday(q)'
      BY <1>0, <3>1 DEF WritesToday, Requests
    <3> QED BY <3>1, <3>2 DEF AskedDayIsUnderWay
  <2>4. CASE Find(p)
    <3>1. req'[p].at = "measure" /\ req'[p].day = today /\ today' = today
      BY <1>0, <2>4 DEF Find, AfterFind, Requests
    <3> QED BY <3>1 DEF WritesToday
  <2>5. CASE CreateEntry(p)
    BY <2>5 DEF CreateEntry, At, TypeInv, ValueIsKnown
  <2>6. CASE Save(p)
    <3>1. /\ entry' = IF req[p].known \/ entry[req[p].day] = None
                      THEN [entry EXCEPT ![req[p].day] = req[p].value] ELSE entry
          /\ req' = [req EXCEPT ![p] = Idle]
          /\ req[p].at = "save" /\ UNCHANGED <<today, queued>>
      BY <2>6 DEF Save, At, Done
    <3>2. req[p].day \in Days /\ req[p].value # None
      BY <1>0, <3>1 DEF TypeInv, DayIsKnown, Requests
    <3>3. entry[today] # None => entry'[today] # None
      BY <1>0, <3>1, <3>2
    <3>4. CASE req[p].day = today
      <4>1. entry'[today] # None
        BY <1>0, <3>1, <3>2, <3>4
      <4> QED BY <4>1
    <3>5. CASE req[p].day # today
      <4>1. ~WritesToday(p)
        BY <3>1, <3>5 DEF WritesToday
      <4>2. \A q \in Procs : WritesToday(q) => WritesToday(q)'
        BY <1>0, <3>1, <4>1 DEF WritesToday
      <4> QED BY <3>1, <3>3, <4>2 DEF AskedDayIsUnderWay
    <3> QED BY <3>4, <3>5
  <2> QED BY <1>1, <2>1, <2>2, <2>3, <2>4, <2>5, <2>6 DEF Work
<1>2. ASSUME NEW p \in Procs, Crash(p)
      PROVE  AskedDayIsUnderWay'
  BY <1>2 DEF Crash, AskedDayIsUnderWay
<1>3. CASE Enqueue
  BY <1>3 DEF Enqueue, Accepted, AskedDayIsUnderWay
<1>4. CASE Midnight
  BY <1>4 DEF Midnight, AskedDayIsUnderWay
<1>5. CASE UNCHANGED vars
  BY <1>5 DEF vars, history, AskedDayIsUnderWay, WritesToday
<1> QED BY <1>1, <1>2, <1>3, <1>4, <1>5 DEF Next

\* What AskedDayIsCollected rests on, besides that Sidekiq goes on: from the
\* moment a CumulativeWorker is asked for until the day has its entry or ends,
\* a job waits in the queue or one is at work that will write this day's
\* entry, even if a job of the day before is still at work or jobs die.
THEOREM AskedDayHasAJob == Spec => []AskedDayIsUnderWay
<1>1. Init => AskedDayIsUnderWay
  BY DEF Init, AskedDayIsUnderWay
<1> QED BY <1>1, TypeInit, TypeStep, UnderWayStep, PTL DEF Spec
=============================================================================
