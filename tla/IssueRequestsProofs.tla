-------------------------- MODULE IssueRequestsProofs --------------------------
(***************************************************************************)
(* Theorems about IssueRequests, for any issues, columns and processes,    *)
(* and that each of its requests, left alone, is one action of             *)
(* IssueLifecycle.                                                         *)
(***************************************************************************)
EXTENDS SerialRequests, IssueLifecycleProofs

Labels == {"idle", "create", "insert", "need", "ask", "patch", "sort", "start",
           "find", "look", "finish", "unready", "place", "state", "close",
           "stamp", "enqueue", "reopen", "check", "stat", "shelve", "restore",
           "toggle", "fetch", "insert_rows", "update_rows", "query", "next",
           "sweep"}

Requests == [kind : Kinds \cup {"none"}, at : Labels, n : Numbers \cup {0},
             c : Columns, force : BOOLEAN, column : Columns, flag : BOOLEAN,
             list : Seq(Numbers), seen : [Numbers -> Nat \cup {-1}],
             todo : SUBSET Numbers]

\* What a request is at, tells which request it is.
LabelTells(r) ==
    /\ r.at = "idle" <=> r = Idle
    /\ r.at = "idle" <=> r.kind = "none"
    /\ r.at \in {"create", "insert"} => r.kind = "create"
    /\ r.at \in {"find", "unready", "place", "state"} => r.kind = "move"
    /\ r.at \in {"need", "sort"} => r.kind \in {"create", "move"}
    /\ r.at \in {"ask", "patch"} => r.kind \in {"create", "move", "assign"}
    /\ r.at = "start" => r.kind \in {"create", "move", "unarchive"}
    /\ r.at = "look" => r.kind \in {"move", "unarchive", "toggle_ready"}
    /\ r.at = "finish" => r.kind \in {"move", "archive", "synchronize"}
    /\ r.at = "close" => r.kind \in {"move", "close"}
    /\ r.at = "reopen" => r.kind = "reopen"
    /\ r.at = "stamp" => r.kind \in {"move", "close", "reopen"}
    /\ r.at = "enqueue" => r.kind \in {"close", "reopen"}
    /\ r.at = "check" => r.kind = "archive"
    /\ r.at = "stat" => r.kind \in {"archive", "assign"}
    /\ r.at = "shelve" => r.kind \in {"archive", "synchronize"}
    /\ r.at = "restore" => r.kind = "unarchive"
    /\ r.at = "toggle" => r.kind = "toggle_ready"
    /\ r.at = "fetch" => r.kind \in Jobs
    /\ r.at \in {"insert_rows", "update_rows"} => r.kind = "sync_stats"
    /\ r.at \in {"query", "next", "sweep"} => r.kind = "synchronize"

\* A request works on an issue once it knows which.
Numberless == {"idle", "create", "fetch", "insert_rows", "update_rows", "query",
               "next", "sweep"}
NumberTells(r) ==
    /\ r.at \notin Numberless => r.n \in Numbers
    /\ r.at = "stamp" => r.seen[r.n] \in Nat
    /\ r.at = "update_rows" => \A n \in r.todo : r.seen[n] \in Nat

\* A request that has found its row has it among the rows T.
RowTells(r, T) ==
    /\ r.kind = "move" /\ r.at # "find" => r.n \in T
    /\ r.kind = "create" /\ r.at \notin {"create", "insert"} => r.n \in T
    /\ r.kind \in {"unarchive", "toggle_ready"} /\ r.at # "look" => r.n \in T
    /\ r.at \in {"finish", "shelve"} => r.n \in T
    /\ r.kind = "synchronize" => r.todo \subseteq T

RequestInv ==
    /\ ReqTypeOK
    /\ req \in [Procs -> Requests]
    /\ \A p \in Procs : /\ LabelTells(req[p])
                        /\ NumberTells(req[p])
                        /\ RowTells(req[p], tracked)

-----------------------------------------------------------------------------
(***************************************************************************)
(* Requests.                                                               *)
(***************************************************************************)

\* An idle process has no request.
LEMMA IdleIsRequest ==
    ASSUME NEW T
    PROVE  Idle \in Requests /\ LabelTells(Idle) /\ NumberTells(Idle)
               /\ RowTells(Idle, T)
<1>1. <<>> \in Seq(Numbers) /\ [n \in Numbers |-> -1] \in [Numbers -> Nat \cup {-1}]
  OBVIOUS
<1> QED
  BY <1>1, ColumnsAssumption
     DEF ColumnsAssumption, Idle, Requests, Labels, LabelTells, NumberTells,
         RowTells, Numberless, Jobs

\* A request that only goes on to another label is the same request.
LEMMA Relabelled ==
    ASSUME NEW r \in Requests, NEW l \in Labels
    PROVE  LET s == [r EXCEPT !.at = l] IN
           /\ s \in Requests /\ s.at = l /\ s.kind = r.kind /\ s.n = r.n
           /\ s.c = r.c /\ s.force = r.force /\ s.column = r.column
           /\ s.flag = r.flag /\ s.list = r.list /\ s.seen = r.seen
           /\ s.todo = r.todo
BY DEF Requests

\* The row that is looked for is there, with GitHub's closed_at.
LEMMA FindRowType ==
    ASSUME TypeOK, NEW n \in Numbers, FindRow(n)
    PROVE  /\ tracked' = tracked \cup {n} /\ tracked' \subseteq Numbers
           /\ closedAt' \in [Numbers -> Nat]
           /\ drifted' \subseteq Numbers
<1>1. GhClosedAt(n) \in Nat
  BY DEF GhClosedAt, TypeOK
<1> QED BY <1>1 DEF FindRow, Find, FoundClosedAt, FoundDrift, TypeOK

\* A step of a process keeps the invariant, when its request stays one.
LEMMA OneRequest ==
    ASSUME RequestInv, TypeOK', tracked \subseteq tracked',
           NEW p \in Procs, NEW r \in Requests,
           LabelTells(r), NumberTells(r), RowTells(r, tracked'),
           req' = [req EXCEPT ![p] = r],
           lone' \subseteq {q \in Procs : req'[q] # Idle},
           crashes' \in 0..MaxCrashes
    PROVE  RequestInv'
<1>1. req' \in [Procs -> Requests]
  BY DEF RequestInv
<1>2. ASSUME NEW q \in Procs
      PROVE  /\ LabelTells(req'[q]) /\ NumberTells(req'[q])
             /\ RowTells(req'[q], tracked')
  <2>1. CASE q = p
    <3>1. req'[q] = r
      BY <2>1 DEF RequestInv
    <3> QED BY <3>1
  <2>2. CASE q # p
    <3>1. req'[q] = req[q]
      BY <2>2 DEF RequestInv
    <3>2. LabelTells(req[q]) /\ NumberTells(req[q]) /\ RowTells(req[q], tracked)
      BY DEF RequestInv
    <3>3. RowTells(req[q], tracked')
      BY <3>2 DEF RowTells
    <3> QED BY <3>1, <3>2, <3>3
  <2> QED BY <2>1, <2>2
<1>3. \A q \in Procs :
          /\ req'[q].kind \in Kinds \cup {"none"}
          /\ req'[q].n \in Numbers \cup {0}
          /\ req'[q].c \in Columns /\ req'[q].column \in Columns
          /\ req'[q].force \in BOOLEAN /\ req'[q].flag \in BOOLEAN
          /\ req'[q].list \in Seq(Numbers)
          /\ req'[q].seen \in [Numbers -> Int]
          /\ req'[q].todo \subseteq Numbers
  BY <1>1 DEF Requests
<1> QED BY <1>1, <1>2, <1>3 DEF RequestInv, ReqTypeOK

\* Of the history, a working process only ends its own solitude.
LEMMA WorkingType ==
    ASSUME RequestInv, Working
    PROVE  lone' \subseteq {q \in Procs : req'[q] # Idle} /\ crashes' \in 0..MaxCrashes
BY DEF Working, RequestInv, ReqTypeOK

-----------------------------------------------------------------------------
(***************************************************************************)
(* Type correctness.                                                       *)
(***************************************************************************)

\* At the beginning nobody works.
LEMMA InitRequestInv == ReqInit => RequestInv
<1> SUFFICES ASSUME ReqInit PROVE RequestInv
  OBVIOUS
<1>1. TypeOK
  BY InitTypeOK DEF ReqInit
<1>2. /\ req \in [Procs -> Requests]
      /\ \A p \in Procs : /\ LabelTells(req[p]) /\ NumberTells(req[p])
                          /\ RowTells(req[p], tracked)
  BY IdleIsRequest DEF ReqInit
<1>3. \A q \in Procs :
          /\ req[q].kind \in Kinds \cup {"none"}
          /\ req[q].n \in Numbers \cup {0}
          /\ req[q].c \in Columns /\ req[q].column \in Columns
          /\ req[q].force \in BOOLEAN /\ req[q].flag \in BOOLEAN
          /\ req[q].list \in Seq(Numbers)
          /\ req[q].seen \in [Numbers -> Int]
          /\ req[q].todo \subseteq Numbers
  BY <1>2 DEF Requests
<1>4. lone = {} /\ crashes \in 0..MaxCrashes
  BY ProcsAssumption DEF ReqInit, ProcsAssumption
<1> QED BY <1>1, <1>2, <1>3, <1>4 DEF RequestInv, ReqTypeOK

\* A request that arrives is one, and nothing else has changed.
LEMMA TypeArrive ==
    ASSUME RequestInv, TypeOK', UNCHANGED tracked, NEW p \in Procs, NEW r,
           Arrive(p, r), [r EXCEPT !.at = FirstStep[r.kind]] \in Requests,
           LabelTells([r EXCEPT !.at = FirstStep[r.kind]]),
           NumberTells([r EXCEPT !.at = FirstStep[r.kind]]),
           RowTells([r EXCEPT !.at = FirstStep[r.kind]], tracked),
           [r EXCEPT !.at = FirstStep[r.kind]] # Idle
    PROVE  RequestInv'
<1> DEFINE s == [r EXCEPT !.at = FirstStep[r.kind]]
<1>1. req' = [req EXCEPT ![p] = s] /\ UNCHANGED crashes
  BY DEF Arrive
<1>2. /\ s \in Requests /\ LabelTells(s) /\ NumberTells(s)
      /\ RowTells(s, tracked') /\ s # Idle
  OBVIOUS
<1>3. lone' \subseteq lone \cup {p}
  BY DEF Arrive
<1> HIDE DEF s
<1>4. \A q \in lone \cup {p} : q \in Procs /\ req'[q] # Idle
  BY <1>1, <1>2 DEF RequestInv, ReqTypeOK
<1>5. crashes' \in 0..MaxCrashes
  BY <1>1 DEF RequestInv, ReqTypeOK
<1> QED BY <1>1, <1>2, <1>3, <1>4, <1>5, OneRequest

\* Every request arrives well typed.
LEMMA TypeBegin ==
    ASSUME RequestInv, NEW p \in Procs, Begin(p)
    PROVE  RequestInv'
<1>0. TypeOK /\ DefaultColumn \in Columns /\ order[DefaultColumn] \in Seq(Numbers)
  BY ColumnsAssumption DEF RequestInv, ReqTypeOK, TypeOK, ColumnsAssumption
<1>a. UNCHANGED vars => TypeOK'
  BY <1>0, NextTypeOK
<1>b. /\ <<>> \in Seq(Numbers)
      /\ [n \in Numbers |-> -1] \in [Numbers -> Nat \cup {-1}]
  OBVIOUS
<1>c. /\ 0 \notin Numbers
      /\ Kinds \subseteq {"create", "move", "close", "reopen", "archive",
                          "unarchive", "toggle_ready", "assign"} \cup Jobs
  BY NumbersAssumption, ProcsAssumption DEF NumbersAssumption, ProcsAssumption
<1> USE DEF Requests, Labels, LabelTells, NumberTells, RowTells, Numberless,
            Idle, FirstStep, Jobs
<1>1. ASSUME NEW n \in Numbers, NEW c \in Columns, NEW force \in Forces,
             ArriveMove(p, n, c, force)
      PROVE  RequestInv'
  <2> DEFINE r == [Idle EXCEPT !.kind = "move", !.n = n, !.c = c, !.force = force]
             s == [r EXCEPT !.at = FirstStep[r.kind]]
  <2>1. Arrive(p, r) /\ UNCHANGED vars
    BY <1>1 DEF ArriveMove
  <2>2. "move" \in Kinds /\ force \in BOOLEAN
    BY <2>1, InputsAssumption DEF Arrive, InputsAssumption
  <2>3. s = [Idle EXCEPT !.kind = "move", !.n = n, !.c = c, !.force = force,
                         !.at = "find"]
    OBVIOUS
  <2>4. s \in Requests /\ LabelTells(s) /\ NumberTells(s) /\ RowTells(s, tracked)
            /\ s # Idle
    BY <1>0, <1>b, <2>2, <2>3
  <2> HIDE DEF r, Requests, LabelTells, NumberTells, RowTells, Idle, FirstStep
  <2> QED BY <1>a, <2>1, <2>4, TypeArrive DEF vars, statVars
<1>2. ASSUME NEW kind \in Kinds, NEW n \in Numbers, ArriveOther(p, kind, n)
      PROVE  RequestInv'
  <2> DEFINE r == [Idle EXCEPT !.kind = kind, !.n = n]
             s == [r EXCEPT !.at = FirstStep[r.kind]]
  <2>1. Arrive(p, r) /\ UNCHANGED vars
    BY <1>2 DEF ArriveOther
  <2>2. kind \in {"close", "reopen", "archive", "unarchive", "toggle_ready", "assign"}
    BY <1>2, <1>c DEF ArriveOther
  <2>3. s = [Idle EXCEPT !.kind = kind, !.n = n, !.at = FirstStep[kind]]
    OBVIOUS
  <2>5. /\ kind = "close" => FirstStep[kind] = "close"
        /\ kind = "reopen" => FirstStep[kind] = "reopen"
        /\ kind = "archive" => FirstStep[kind] = "check"
        /\ kind = "unarchive" => FirstStep[kind] = "look"
        /\ kind = "toggle_ready" => FirstStep[kind] = "look"
        /\ kind = "assign" => FirstStep[kind] = "ask"
    OBVIOUS
  <2>4. s \in Requests /\ LabelTells(s) /\ NumberTells(s) /\ RowTells(s, tracked)
            /\ s # Idle
    <3> HIDE DEF FirstStep
    <3> QED BY <1>0, <1>b, <2>2, <2>3, <2>5
  <2> HIDE DEF r, Requests, LabelTells, NumberTells, RowTells, Idle, FirstStep
  <2> QED BY <1>a, <2>1, <2>4, TypeArrive DEF vars, statVars
<1>3. CASE ArriveCreate(p)
  <2> DEFINE r == [Idle EXCEPT !.kind = "create", !.force = TRUE,
                               !.list = order[DefaultColumn]]
             s == [r EXCEPT !.at = FirstStep[r.kind]]
  <2>1. Arrive(p, r) /\ UNCHANGED vars
    BY <1>3 DEF ArriveCreate
  <2>2. "create" \in Kinds
    BY <2>1 DEF Arrive
  <2>3. s = [Idle EXCEPT !.kind = "create", !.force = TRUE,
                         !.list = order[DefaultColumn], !.at = "create"]
    OBVIOUS
  <2>4. s \in Requests /\ LabelTells(s) /\ NumberTells(s) /\ RowTells(s, tracked)
            /\ s # Idle
    BY <1>0, <1>b, <2>2, <2>3
  <2> HIDE DEF r, Requests, LabelTells, NumberTells, RowTells, Idle, FirstStep
  <2> QED BY <1>a, <2>1, <2>4, TypeArrive DEF vars, statVars
<1>4. ASSUME NEW kind \in Jobs, Arrive(p, [Idle EXCEPT !.kind = kind]),
             TypeOK', UNCHANGED tracked
      PROVE  RequestInv'
  <2> DEFINE r == [Idle EXCEPT !.kind = kind]
             s == [r EXCEPT !.at = FirstStep[r.kind]]
  <2>1. Arrive(p, r)
    BY <1>4
  <2>2. kind \in Kinds
    BY <1>4 DEF Arrive
  <2>3. FirstStep[kind] = "fetch"
    BY <1>4
  <2>4. s = [Idle EXCEPT !.kind = kind, !.at = "fetch"]
    <3> HIDE DEF FirstStep
    <3> QED BY <2>3
  <2>5. s \in Requests /\ LabelTells(s) /\ NumberTells(s) /\ RowTells(s, tracked)
            /\ s # Idle
    <3> HIDE DEF FirstStep
    <3> QED BY <1>0, <1>b, <1>4, <2>2, <2>4
  <2> HIDE DEF r, Requests, LabelTells, NumberTells, RowTells, Idle, FirstStep
  <2> QED BY <1>4, <2>1, <2>5, TypeArrive
<1>5. CASE StartSyncStats(p)
  <2>1. TypeOK' /\ UNCHANGED tracked
    BY <1>0, <1>5 DEF StartSyncStats, TypeOK, ghVars, statVars
  <2>2. Arrive(p, [Idle EXCEPT !.kind = "sync_stats"])
    BY <1>5 DEF StartSyncStats
  <2> HIDE DEF Requests, LabelTells, NumberTells, RowTells, Idle, FirstStep
  <2> QED BY <1>4, <2>1, <2>2
<1>6. CASE StartSynchronize(p)
  BY <1>4, <1>6, <1>a DEF StartSynchronize, vars, statVars
<1> HIDE DEF Requests, LabelTells, NumberTells, RowTells, Idle, FirstStep
<1> QED BY <1>1, <1>2, <1>3, <1>5, <1>6 DEF Begin

\* Every statement of a request keeps the types.
LEMMA TypeContinue ==
    ASSUME RequestInv, NEW p \in Procs, Continue(p)
    PROVE  RequestInv'
<1> DEFINE r == req[p]
           s(l) == [r EXCEPT !.at = l]
<1>0. /\ TypeOK /\ r \in Requests
      /\ LabelTells(r) /\ NumberTells(r) /\ RowTells(r, tracked)
      /\ 0 \notin Numbers /\ LastColumn \in Columns
  BY NumbersAssumption, ColumnsAssumption
     DEF RequestInv, ReqTypeOK, NumbersAssumption, ColumnsAssumption
<1>1. /\ r.n \in Numbers \cup {0} /\ r.c \in Columns /\ r.column \in Columns
      /\ r.list \in Seq(Numbers) /\ r.seen \in [Numbers -> Nat \cup {-1}]
      /\ r.todo \subseteq Numbers /\ r.kind \in Kinds \cup {"none"}
      /\ r.force \in BOOLEAN /\ r.flag \in BOOLEAN
  BY <1>0 DEF Requests
<1>2. UNCHANGED vars => TypeOK' /\ tracked \subseteq tracked'
  BY <1>0, NextTypeOK DEF vars, statVars
<1>3. ASSUME NEW t \in Requests, LabelTells(t), NumberTells(t),
             RowTells(t, tracked'), req' = [req EXCEPT ![p] = t], Working,
             TypeOK', tracked \subseteq tracked'
      PROVE  RequestInv'
  BY <1>3, WorkingType, OneRequest
<1>4. ASSUME Done(p), Working, TypeOK', tracked \subseteq tracked'
      PROVE  RequestInv'
  BY <1>3, <1>4, IdleIsRequest DEF Done
<1>5. ASSUME NEW l \in Labels \ {"idle"}, Goto(p, l), Working, TypeOK',
             tracked \subseteq tracked',
             LabelTells(s(l)), NumberTells(s(l)), RowTells(s(l), tracked')
      PROVE  RequestInv'
  <2>1. req' = [req EXCEPT ![p] = s(l)]
    BY <1>5 DEF Goto
  <2>2. s(l) \in Requests
    BY <1>0, Relabelled
  <2> QED BY <1>3, <1>5, <2>1, <2>2
<1>6. \A l \in Labels :
          /\ s(l) \in Requests /\ s(l).at = l /\ s(l).kind = r.kind
          /\ s(l).n = r.n /\ s(l).seen = r.seen /\ s(l).todo = r.todo
          /\ l # "idle" => s(l) # Idle
  BY <1>0, Relabelled DEF Idle
<1>7. CASE NeedAssignee(p)
  <2> DEFINE l == IF r.c \in AutoAssign /\ r.n \notin assigned THEN "ask"
                                                             ELSE AfterAssign(r)
  <2>1. Goto(p, l) /\ Working /\ TypeOK' /\ tracked \subseteq tracked' /\ r.at = "need"
    BY <1>2, <1>7 DEF NeedAssignee, At
  <2>2. /\ l \in {"ask", "state", "sort"} /\ l \in Labels \ {"idle"}
        /\ l = "state" => r.kind = "move"
    BY <1>0, <2>1 DEF AfterAssign, LabelTells, Labels, Jobs
  <2> HIDE DEF l, s
  <2>3. LabelTells(s(l)) /\ NumberTells(s(l)) /\ RowTells(s(l), tracked')
    BY <1>0, <1>6, <2>1, <2>2 DEF LabelTells, NumberTells, RowTells, Numberless, Jobs
  <2> QED BY <1>5, <2>1, <2>2, <2>3
<1>8. CASE AskState(p)
  <2> DEFINE l == IF r.c \in AutoClose /\ ghState[r.n] = "open" THEN "close"
                                                               ELSE "sort"
  <2>1. Goto(p, l) /\ Working /\ TypeOK' /\ tracked \subseteq tracked' /\ r.at = "state"
    BY <1>2, <1>8 DEF AskState, At
  <2>2. /\ l \in {"close", "sort"} /\ l \in Labels \ {"idle"}
        /\ r.kind = "move"
    BY <1>0, <2>1 DEF LabelTells, Labels, Jobs
  <2> HIDE DEF l, s
  <2>3. LabelTells(s(l)) /\ NumberTells(s(l)) /\ RowTells(s(l), tracked')
    BY <1>0, <1>6, <2>1, <2>2 DEF LabelTells, NumberTells, RowTells, Numberless, Jobs
  <2> QED BY <1>5, <2>1, <2>2, <2>3
<1>9. CASE Finish(p)
  <2> DEFINE l == IF r.kind = "move" THEN "start" ELSE "shelve"
  <2>n. r.n \in Numbers /\ r.at = "finish" /\ r.at # "idle"
    BY <1>0, <1>9 DEF Finish, At, NumberTells, Numberless
  <2>o. opened' \in [Numbers -> Seq(Columns)]
    <3>1. opened' = [opened EXCEPT ![r.n] = <<>>] /\ <<>> \in Seq(Columns)
      BY <1>9 DEF Finish, Finished
    <3> QED BY <1>0, <3>1 DEF TypeOK
  <2>u. Goto(p, l) /\ Working /\ UNCHANGED <<ghVars, statVars, order, statsJob, drifted>>
    BY <1>9 DEF Finish
  <2>1. Goto(p, l) /\ Working /\ TypeOK' /\ tracked \subseteq tracked' /\ r.at = "finish"
    BY <1>0, <2>n, <2>o, <2>u DEF TypeOK, ghVars, statVars
  <2>2. /\ l \in {"start", "shelve"} /\ l \in Labels \ {"idle"}
        /\ IF r.kind = "move" THEN l = "start"
           ELSE l = "shelve" /\ r.kind \in {"archive", "synchronize"}
    BY <1>0, <2>1 DEF LabelTells, Labels, Jobs
  <2> HIDE DEF l, s
  <2>3. LabelTells(s(l)) /\ NumberTells(s(l)) /\ RowTells(s(l), tracked')
    BY <1>0, <1>6, <2>1, <2>2 DEF LabelTells, NumberTells, RowTells, Numberless, Jobs
  <2> QED BY <1>5, <2>1, <2>2, <2>3
<1>10. CASE UnreadyCard(p)
  <2> DEFINE l == "place"
  <2>n. r.n \in Numbers /\ r.at = "unready" /\ r.at # "idle"
    BY <1>0, <1>10 DEF UnreadyCard, At, NumberTells, Numberless
  <2>1. Goto(p, l) /\ Working /\ TypeOK' /\ tracked \subseteq tracked' /\ r.at = "unready"
    BY <1>0, <1>1, <1>10, <2>n DEF UnreadyCard, At, TypeOK, Unready, ghVars
  <2>2. /\ l \in {"place"} /\ l \in Labels \ {"idle"}
        /\ r.kind = "move"
    BY <1>0, <2>1 DEF LabelTells, Labels, Jobs
  <2> HIDE DEF l, s
  <2>3. LabelTells(s(l)) /\ NumberTells(s(l)) /\ RowTells(s(l), tracked')
    BY <1>0, <1>6, <2>1, <2>2 DEF LabelTells, NumberTells, RowTells, Numberless, Jobs
  <2> QED BY <1>5, <2>1, <2>2, <2>3
<1>11. CASE Place(p)
  <2> DEFINE l == "need"
  <2>n. r.n \in Numbers /\ r.at = "place" /\ r.at # "idle"
    BY <1>0, <1>11 DEF Place, At, NumberTells, Numberless
  <2>1. Goto(p, l) /\ Working /\ TypeOK' /\ tracked \subseteq tracked' /\ r.at = "place"
    BY <1>0, <1>1, <1>11, <2>n DEF Place, At, TypeOK, ghVars
  <2>2. /\ l \in {"need"} /\ l \in Labels \ {"idle"}
        /\ r.kind = "move"
    BY <1>0, <2>1 DEF LabelTells, Labels, Jobs
  <2> HIDE DEF l, s
  <2>3. LabelTells(s(l)) /\ NumberTells(s(l)) /\ RowTells(s(l), tracked')
    BY <1>0, <1>6, <2>1, <2>2 DEF LabelTells, NumberTells, RowTells, Numberless, Jobs
  <2> QED BY <1>5, <2>1, <2>2, <2>3
<1>12. CASE Patch(p)
  <2> DEFINE l == IF r.kind = "assign" THEN "stat" ELSE AfterAssign(r)
  <2>n. r.n \in Numbers /\ r.at = "patch" /\ r.at # "idle"
    BY <1>0, <1>12 DEF Patch, At, NumberTells, Numberless
  <2>1. Goto(p, l) /\ Working /\ TypeOK' /\ tracked \subseteq tracked' /\ r.at = "patch"
    BY <1>0, <1>1, <1>12, <2>n DEF Patch, At, TypeOK, statVars
  <2>2. /\ l \in {"stat", "state", "sort"} /\ l \in Labels \ {"idle"}
        /\ /\ l = "stat" => r.kind = "assign"
           /\ l = "state" => r.kind = "move"
           /\ l = "sort" => r.kind \in {"create", "move"}
    BY <1>0, <2>1 DEF AfterAssign, LabelTells, Labels, Jobs
  <2> HIDE DEF l, s
  <2>3. LabelTells(s(l)) /\ NumberTells(s(l)) /\ RowTells(s(l), tracked')
    BY <1>0, <1>6, <2>1, <2>2 DEF LabelTells, NumberTells, RowTells, Numberless, Jobs
  <2> QED BY <1>5, <2>1, <2>2, <2>3
<1>13. CASE Stamp(p)
  <2> DEFINE l == IF r.kind = "move" THEN "sort" ELSE "enqueue"
  <2>n. r.n \in Numbers /\ r.at = "stamp" /\ r.at # "idle"
    BY <1>0, <1>13 DEF Stamp, At, NumberTells, Numberless
  <2>c. r.seen[r.n] \in Nat
    BY <1>0, <2>n DEF NumberTells
  <2>1. Goto(p, l) /\ Working /\ TypeOK' /\ tracked \subseteq tracked' /\ r.at = "stamp"
    BY <1>0, <1>1, <1>13, <2>n, <2>c DEF Stamp, At, TypeOK, Find, ghVars
  <2>2. /\ l \in {"sort", "enqueue"} /\ l \in Labels \ {"idle"}
        /\ /\ r.kind \in {"move", "close", "reopen"}
           /\ l = "sort" <=> r.kind = "move"
    BY <1>0, <2>1 DEF LabelTells, Labels, Jobs
  <2> HIDE DEF l, s
  <2>3. LabelTells(s(l)) /\ NumberTells(s(l)) /\ RowTells(s(l), tracked')
    BY <1>0, <1>6, <2>1, <2>2 DEF LabelTells, NumberTells, RowTells, Numberless, Jobs
  <2> QED BY <1>5, <2>1, <2>2, <2>3
<1>14. CASE Restore(p)
  <2>n. r.n \in Numbers /\ r.at = "restore"
    BY <1>0, <1>14 DEF Restore, At, NumberTells, Numberless
  <2>1. Done(p) /\ Working /\ TypeOK' /\ tracked \subseteq tracked'
    BY <1>0, <1>14, <2>n DEF Restore, TypeOK, ghVars
  <2> QED BY <1>4, <2>1
<1>15. CASE Toggle(p)
  <2>n. r.n \in Numbers /\ r.at = "toggle"
    BY <1>0, <1>15 DEF Toggle, At, NumberTells, Numberless
  <2>2. r.n \in tracked
    BY <1>0, <2>n DEF LabelTells, RowTells
  <2>1. Done(p) /\ Working /\ TypeOK' /\ tracked \subseteq tracked'
    BY <1>0, <1>15, <2>2 DEF Toggle, TypeOK, Unready, ghVars
  <2> QED BY <1>4, <2>1
<1>16. CASE Enqueue(p)
  <2>1. Done(p) /\ Working /\ TypeOK' /\ tracked \subseteq tracked'
    BY <1>0, <1>16 DEF Enqueue, TypeOK, ghVars, statVars
  <2> QED BY <1>4, <2>1
<1>17. CASE UpdateRows(p)
  <2>1. r.at = "update_rows" /\ \A m \in r.todo : r.seen[m] \in Nat
    BY <1>0, <1>17 DEF UpdateRows, At, NumberTells
  <2>2. closedAt' \in [Numbers -> Nat] /\ drifted' \subseteq Numbers
    BY <1>0, <1>17, <2>1 DEF UpdateRows, SeenIn, DriftAfter, TypeOK
  <2>3. Done(p) /\ Working /\ TypeOK' /\ tracked \subseteq tracked'
    BY <1>0, <1>17, <2>2 DEF UpdateRows, TypeOK, ghVars
  <2> QED BY <1>4, <2>3
<1>18. CASE Sweep(p)
  <2>1. Done(p) /\ Working /\ TypeOK' /\ tracked \subseteq tracked'
    BY <1>0, <1>18 DEF Sweep, Swept, TypeOK, ghVars
  <2> QED BY <1>4, <2>1
<1>19. CASE Sort(p)
  <2>n. r.n \in Numbers /\ r.at = "sort"
    BY <1>0, <1>19 DEF Sort, At, NumberTells, Numberless
  <2>o. order' \in [Columns -> Seq(Numbers)]
    BY <1>0, <1>1, <1>19, <2>n, PutFirstType DEF Sort, TypeOK
  <2>u. /\ Working /\ UNCHANGED <<ghVars, statVars, opened, statsJob, drifted>>
        /\ r.kind \in {"create", "move"}
    BY <1>0, <1>19, <2>n DEF Sort, LabelTells
  <2>1. /\ Working /\ TypeOK' /\ tracked \subseteq tracked'
        /\ r.kind \in {"create", "move"}
    BY <1>0, <2>o, <2>u DEF TypeOK, ghVars, statVars
  <2>2. CASE r.kind # "create" /\ Done(p)
    BY <1>4, <2>1, <2>2
  <2>3. CASE r.kind = "create" /\ Goto(p, "start")
    <3> DEFINE l == "start"
    <3>1. l \in Labels \ {"idle"} /\ Goto(p, l)
      BY <2>3 DEF Labels
    <3>2. LabelTells(s(l)) /\ NumberTells(s(l)) /\ RowTells(s(l), tracked')
      <4> HIDE DEF s
      <4> QED
        BY <1>0, <1>6, <2>n, <2>1, <2>3, <3>1
           DEF LabelTells, NumberTells, RowTells, Numberless, Jobs
    <3> HIDE DEF l, s
    <3> QED BY <1>5, <2>1, <3>1, <3>2
  <2> QED BY <1>19, <2>1, <2>2, <2>3 DEF Sort
<1>20. CASE Stat(p)
  <2>n. r.n \in Numbers /\ r.at = "stat"
    BY <1>0, <1>20 DEF Stat, At, NumberTells, Numberless
  <2>1. /\ Working /\ TypeOK' /\ tracked' = tracked \cup {r.n}
        /\ tracked \subseteq tracked' /\ r.kind \in {"archive", "assign"}
    BY <1>0, <1>20, <2>n, FindRowType DEF Stat, TypeOK, LabelTells, ghVars
  <2>2. CASE r.kind # "archive" /\ Done(p)
    BY <1>4, <2>1, <2>2
  <2>3. CASE r.kind = "archive" /\ Goto(p, "finish")
    <3> DEFINE l == "finish"
    <3>1. l \in Labels \ {"idle"} /\ Goto(p, l)
      BY <2>3 DEF Labels
    <3>2. LabelTells(s(l)) /\ NumberTells(s(l)) /\ RowTells(s(l), tracked')
      <4> HIDE DEF s
      <4> QED
        BY <1>0, <1>6, <2>n, <2>1, <2>3, <3>1
           DEF LabelTells, NumberTells, RowTells, Numberless, Jobs
    <3> HIDE DEF l, s
    <3> QED BY <1>5, <2>1, <3>1, <3>2
  <2> QED BY <1>20, <2>2, <2>3 DEF Stat
<1>21. CASE Shelve(p)
  <2>n. r.n \in Numbers /\ r.at = "shelve"
    BY <1>0, <1>21 DEF Shelve, At, NumberTells, Numberless
  <2>1. /\ Working /\ TypeOK' /\ tracked \subseteq tracked'
        /\ r.kind \in {"archive", "synchronize"}
    BY <1>0, <1>21, <2>n DEF Shelve, TypeOK, LabelTells, RowTells, ghVars
  <2>2. CASE r.kind # "synchronize" /\ Done(p)
    BY <1>4, <2>1, <2>2
  <2>3. CASE r.kind = "synchronize" /\ Goto(p, "next")
    <3> DEFINE l == "next"
    <3>1. l \in Labels \ {"idle"} /\ Goto(p, l)
      BY <2>3 DEF Labels
    <3>2. LabelTells(s(l)) /\ NumberTells(s(l)) /\ RowTells(s(l), tracked')
      <4> HIDE DEF s
      <4> QED
        BY <1>0, <1>6, <2>n, <2>1, <2>3, <3>1
           DEF LabelTells, NumberTells, RowTells, Numberless, Jobs
    <3> HIDE DEF l, s
    <3> QED BY <1>5, <2>1, <3>1, <3>2
  <2> QED BY <1>21, <2>1, <2>2, <2>3 DEF Shelve
<1>22. CASE Check(p)
  <2>n. r.n \in Numbers /\ r.at = "check"
    BY <1>0, <1>22 DEF Check, At, NumberTells, Numberless
  <2>1. Working /\ TypeOK' /\ tracked \subseteq tracked' /\ r.kind = "archive"
    BY <1>0, <1>2, <1>22, <2>n DEF Check, LabelTells
  <2>2. CASE Done(p)
    BY <1>4, <2>1, <2>2
  <2>3. CASE Goto(p, "stat")
    <3> DEFINE l == "stat"
    <3>1. l \in Labels \ {"idle"} /\ Goto(p, l)
      BY <2>3 DEF Labels
    <3>2. LabelTells(s(l)) /\ NumberTells(s(l)) /\ RowTells(s(l), tracked')
      <4> HIDE DEF s
      <4> QED BY <1>0, <1>6, <2>n, <2>1, <3>1
                 DEF LabelTells, NumberTells, RowTells, Numberless, Jobs
    <3> HIDE DEF l, s
    <3> QED BY <1>5, <2>1, <3>1, <3>2
  <2> QED BY <1>22, <2>2, <2>3 DEF Check
<1>23. CASE Insert(p)
  <2>n. r.n \in Numbers /\ r.at = "insert"
    BY <1>0, <1>23 DEF Insert, At, NumberTells, Numberless
  <2>1. /\ Working /\ TypeOK' /\ tracked' = tracked \cup {r.n}
        /\ tracked \subseteq tracked' /\ r.kind = "create"
    BY <1>0, <1>23, <2>n DEF Insert, Find, TypeOK, LabelTells, ghVars
  <2>2. CASE Done(p)
    BY <1>4, <2>1, <2>2
  <2>3. CASE Goto(p, "need")
    <3> DEFINE l == "need"
    <3>1. l \in Labels \ {"idle"} /\ Goto(p, l)
      BY <2>3 DEF Labels
    <3>2. LabelTells(s(l)) /\ NumberTells(s(l)) /\ RowTells(s(l), tracked')
      <4> HIDE DEF s
      <4> QED BY <1>0, <1>6, <2>n, <2>1, <3>1
                 DEF LabelTells, NumberTells, RowTells, Numberless, Jobs
    <3> HIDE DEF l, s
    <3> QED BY <1>5, <2>1, <3>1, <3>2
  <2> QED BY <1>23, <2>2, <2>3 DEF Insert
<1>24. CASE Start(p)
  <2>n. r.n \in Numbers /\ r.at = "start"
    BY <1>0, <1>24 DEF Start, At, NumberTells, Numberless
  <2>o. opened' \in [Numbers -> Seq(Columns)]
    BY <1>0, <1>1, <1>24, <2>n DEF Start, StartedIn, TypeOK
  <2>u. /\ Working /\ UNCHANGED <<ghVars, statVars, order, statsJob, drifted>>
        /\ r.kind \in {"create", "move", "unarchive"}
    BY <1>0, <1>24, <2>n DEF Start, LabelTells
  <2>1. /\ Working /\ TypeOK' /\ tracked \subseteq tracked'
    BY <1>0, <2>o, <2>u DEF TypeOK, ghVars, statVars
  <2>2. CASE r.kind = "create"
    <3>1. Done(p)
      BY <1>24, <2>2 DEF Start
    <3> QED BY <1>4, <2>1, <3>1
  <2>3. CASE r.kind # "create"
    <3> DEFINE l == IF r.kind = "move" THEN "unready" ELSE "restore"
    <3>1. l \in Labels \ {"idle"} /\ Goto(p, l)
      BY <1>24, <2>3, <2>u DEF Labels, Start
    <3>2. LabelTells(s(l)) /\ NumberTells(s(l)) /\ RowTells(s(l), tracked')
      <4>1. \/ r.kind = "move" /\ l = "unready"
            \/ r.kind = "unarchive" /\ l = "restore"
        BY <2>3, <2>u
      <4> HIDE DEF s, l
      <4> QED BY <1>0, <1>6, <2>n, <2>1, <3>1, <4>1
                 DEF LabelTells, NumberTells, RowTells, Numberless, Jobs
    <3> HIDE DEF l
    <3> QED BY <1>5, <2>1, <3>1, <3>2
  <2> QED BY <2>2, <2>3
<1>25. CASE FindCard(p)
  <2>n. r.n \in Numbers /\ r.at = "find"
    BY <1>0, <1>25 DEF FindCard, At, NumberTells, Numberless
  <2>1. /\ TypeOK' /\ tracked' = tracked \cup {r.n} /\ tracked \subseteq tracked'
        /\ order[r.c] \in Seq(Numbers)
    BY <1>0, <1>1, <1>25, <2>n, FindRowType DEF FindCard, TypeOK, ghVars
  <2> DEFINE t == [r EXCEPT !.at = "look", !.list = order[r.c]]
  <2>2. /\ t \in Requests /\ LabelTells(t) /\ NumberTells(t)
        /\ RowTells(t, tracked')
    BY <1>0, <1>1, <2>n, <2>1
       DEF Requests, Labels, LabelTells, NumberTells, RowTells, Numberless, Jobs,
           Idle
  <2>3. req' = [req EXCEPT ![p] = t] /\ Working
    BY <1>0, <1>25 DEF FindCard, Requests, RequestInv
  <2> HIDE DEF t
  <2> QED BY <1>3, <2>1, <2>2, <2>3
<1>26. CASE Look(p)
  <2>n. r.n \in Numbers /\ r.at = "look"
    BY <1>0, <1>26 DEF Look, At, NumberTells, Numberless
  <2>1. /\ TypeOK' /\ tracked' = tracked \cup {r.n} /\ tracked \subseteq tracked'
        /\ column[r.n] \in Columns
    BY <1>0, <1>1, <1>26, <2>n, FindRowType DEF Look, TypeOK, ghVars
  <2>2. CASE AfterLook(r) = "idle"
    <3>1. Done(p) /\ Working
      BY <1>26, <2>2 DEF Look, Done
    <3> QED BY <1>4, <2>1, <3>1
  <2>3. CASE AfterLook(r) # "idle"
    <3> DEFINE l == AfterLook(r)
               f == r.n \in ready
               t == [r EXCEPT !.at = l, !.column = column[r.n], !.flag = f]
    <3>1. /\ r.kind = "move" => l \in {"finish", "need"}
          /\ r.kind = "unarchive" => l = "start"
          /\ r.kind = "toggle_ready" => l = "toggle"
          /\ r.kind \in {"move", "unarchive", "toggle_ready"}
      <4>1. r.kind \in {"move", "unarchive", "toggle_ready"}
        BY <1>0, <2>n DEF LabelTells
      <4>2. CASE r.kind = "move"
        BY <4>2 DEF AfterLook
      <4>3. CASE r.kind = "unarchive"
        BY <2>3, <4>3 DEF AfterLook
      <4>4. CASE r.kind = "toggle_ready"
        BY <4>4 DEF AfterLook
      <4> QED BY <4>1, <4>2, <4>3, <4>4
    <3>2. f \in BOOLEAN
      OBVIOUS
    <3>3. req' = [req EXCEPT ![p] = t] /\ Working
      BY <1>0, <1>26, <2>3 DEF Look
    <3> HIDE DEF l, f
    <3>4. /\ t \in Requests /\ LabelTells(t) /\ NumberTells(t)
          /\ RowTells(t, tracked')
      BY <1>0, <1>1, <2>n, <2>1, <3>1, <3>2
         DEF Requests, Labels, LabelTells, NumberTells, RowTells, Numberless,
             Jobs, Idle
    <3> HIDE DEF t
    <3> QED BY <1>3, <2>1, <3>3, <3>4
  <2> QED BY <2>2, <2>3
<1>27. CASE Ask(p)
  <2>n. r.n \in Numbers /\ r.at = "ask"
    BY <1>0, <1>27 DEF Ask, At, NumberTells, Numberless
  <2>1. TypeOK' /\ tracked \subseteq tracked' /\ Working
    BY <1>2, <1>27 DEF Ask
  <2>2. PICK same \in BOOLEAN : req' = [req EXCEPT ![p].at = "patch", ![p].flag = same]
    BY <1>27 DEF Ask
  <2> DEFINE t == [r EXCEPT !.at = "patch", !.flag = same]
  <2>3. /\ t \in Requests /\ LabelTells(t) /\ NumberTells(t)
        /\ RowTells(t, tracked')
    BY <1>0, <1>1, <2>n, <2>1
       DEF Requests, Labels, LabelTells, NumberTells, RowTells, Numberless, Jobs,
           Idle
  <2>4. req' = [req EXCEPT ![p] = t]
    BY <1>0, <2>2 DEF RequestInv
  <2> HIDE DEF t
  <2> QED BY <1>3, <2>1, <2>3, <2>4
<1>28. CASE CloseIssue(p)
  <2>n. r.n \in Numbers /\ r.at = "close"
    BY <1>0, <1>28 DEF CloseIssue, At, NumberTells, Numberless
  <2>a. /\ CloseOnGithub(r.n)
        /\ UNCHANGED <<aged, assigned, statVars, opened, order, statsJob, drifted>>
    BY <1>28 DEF CloseIssue
  <2>b. /\ ghState' \in [Numbers -> {"absent", "open", "closed"}]
        /\ closings' \in [Numbers -> Nat] /\ closings'[r.n] \in Nat
    BY <1>0, <2>n, <2>a DEF CloseOnGithub, TypeOK
  <2>c. TypeOK'
    BY <1>0, <2>a, <2>b DEF TypeOK, statVars
  <2>1. /\ TypeOK' /\ tracked \subseteq tracked' /\ closings'[r.n] \in Nat
        /\ r.kind \in {"move", "close"}
    BY <1>0, <2>n, <2>a, <2>b, <2>c DEF LabelTells, statVars
  <2> DEFINE t == [r EXCEPT !.at = "stamp", !.seen[r.n] = closings'[r.n]]
  <2>2. t.seen \in [Numbers -> Nat \cup {-1}] /\ t.seen[r.n] \in Nat
    BY <1>0, <1>1, <2>n, <2>1 DEF Requests
  <2>3. /\ t \in Requests /\ LabelTells(t) /\ NumberTells(t)
        /\ RowTells(t, tracked')
    BY <1>0, <1>1, <2>n, <2>1, <2>2
       DEF Requests, Labels, LabelTells, NumberTells, RowTells, Numberless, Jobs,
           Idle
  <2>4. req' = [req EXCEPT ![p] = t] /\ Working
    BY <1>0, <1>28 DEF CloseIssue, RequestInv
  <2> HIDE DEF t
  <2> QED BY <1>3, <2>1, <2>3, <2>4
<1>29. CASE ReopenIssue(p)
  <2>n. r.n \in Numbers /\ r.at = "reopen"
    BY <1>0, <1>29 DEF ReopenIssue, At, NumberTells, Numberless
  <2>1. TypeOK' /\ tracked \subseteq tracked' /\ r.kind = "reopen"
    BY <1>0, <1>29, <2>n DEF ReopenIssue, ReopenOnGithub, TypeOK, LabelTells, statVars
  <2> DEFINE t == [r EXCEPT !.at = "stamp", !.seen[r.n] = 0]
  <2>2. t.seen \in [Numbers -> Nat \cup {-1}] /\ t.seen[r.n] \in Nat
    BY <1>0, <1>1, <2>n, <2>1 DEF Requests
  <2>3. /\ t \in Requests /\ LabelTells(t) /\ NumberTells(t)
        /\ RowTells(t, tracked')
    BY <1>0, <1>1, <2>n, <2>1, <2>2
       DEF Requests, Labels, LabelTells, NumberTells, RowTells, Numberless, Jobs,
           Idle
  <2>4. req' = [req EXCEPT ![p] = t] /\ Working
    BY <1>0, <1>29 DEF ReopenIssue, RequestInv
  <2> HIDE DEF t
  <2> QED BY <1>3, <2>1, <2>3, <2>4
<1>30. CASE CreateIssue(p)
  <2>n. r.at = "create"
    BY <1>30 DEF CreateIssue, At
  <2>1. TypeOK' /\ tracked \subseteq tracked' /\ r.kind = "create" /\ Working
    BY <1>0, <1>30, <2>n DEF CreateIssue, TypeOK, LabelTells, statVars
  <2>2. PICK m \in Numbers : req' = [req EXCEPT ![p].at = "insert", ![p].n = m]
    BY <1>30 DEF CreateIssue
  <2> DEFINE t == [r EXCEPT !.at = "insert", !.n = m]
  <2>3. /\ t \in Requests /\ LabelTells(t) /\ NumberTells(t)
        /\ RowTells(t, tracked')
    BY <1>0, <1>1, <2>n, <2>1
       DEF Requests, Labels, LabelTells, NumberTells, RowTells, Numberless, Jobs,
           Idle
  <2>4. req' = [req EXCEPT ![p] = t]
    BY <1>0, <2>2 DEF RequestInv
  <2> HIDE DEF t
  <2> QED BY <1>3, <2>1, <2>3, <2>4
<1>31. CASE Fetch(p)
  <2>n. r.at = "fetch"
    BY <1>31 DEF Fetch, At
  <2>1. TypeOK' /\ tracked' = tracked /\ r.kind \in Jobs
    BY <1>0, <1>2, <1>31, <2>n DEF Fetch, LabelTells, vars, statVars
  <2> DEFINE l == IF r.kind = "sync_stats" THEN "insert_rows" ELSE "query"
             wanted == IF r.kind = "sync_stats" THEN Synced ELSE Listed
             see == [n \in Numbers |-> IF n \in wanted THEN GhClosedAt(n) ELSE -1]
             t == [r EXCEPT !.at = l, !.seen = see]
  <2>2. see \in [Numbers -> Nat \cup {-1}]
    BY <1>0 DEF TypeOK, GhClosedAt
  <2>4. req' = [req EXCEPT ![p] = t] /\ Working
    BY <1>0, <1>31 DEF Fetch, RequestInv
  <2> HIDE DEF see
  <2>3. /\ t \in Requests /\ LabelTells(t) /\ NumberTells(t)
        /\ RowTells(t, tracked')
    BY <1>0, <1>1, <2>n, <2>1, <2>2
       DEF Requests, Labels, LabelTells, NumberTells, RowTells, Numberless, Jobs,
           Idle
  <2> HIDE DEF t
  <2> QED BY <1>3, <2>1, <2>3, <2>4
<1>32. CASE InsertRows(p)
  <2>n. r.at = "insert_rows"
    BY <1>32 DEF InsertRows, At
  <2> DEFINE listed == {n \in Numbers : r.seen[n] # -1}
             created == {n \in listed : n > LastNumber(tracked)}
             t == [r EXCEPT !.at = "update_rows", !.todo = listed \ created]
  <2>0. \A n \in listed : r.seen[n] \in Nat
    BY <1>1
  <2>a. created \subseteq listed /\ listed \subseteq Numbers
    OBVIOUS
  <2>b. /\ tracked' = tracked \cup created
        /\ closedAt' = SeenIn(created, r)
        /\ drifted' = DriftAfter(created, r)
        /\ Working
        /\ UNCHANGED <<ghVars, column, archived, ready, opened, order, statsJob>>
    BY <1>32 DEF InsertRows
  <2>4. req' = [req EXCEPT ![p] = t]
    BY <1>0, <1>32 DEF InsertRows, RequestInv
  <2> HIDE DEF created, listed
  <2>1. TypeOK' /\ tracked \subseteq tracked' /\ r.kind = "sync_stats"
    <3>1. closedAt' \in [Numbers -> Nat] /\ drifted' \subseteq Numbers
      BY <1>0, <2>0, <2>a, <2>b DEF TypeOK, SeenIn, DriftAfter
    <3> QED BY <1>0, <2>n, <2>a, <2>b, <3>1 DEF TypeOK, LabelTells, ghVars
  <2>3. /\ t \in Requests /\ LabelTells(t) /\ NumberTells(t)
        /\ RowTells(t, tracked')
    BY <1>0, <1>1, <2>n, <2>0, <2>a, <2>1
       DEF Requests, Labels, LabelTells, NumberTells, RowTells, Numberless, Jobs,
           Idle
  <2> HIDE DEF t
  <2> QED BY <1>3, <2>1, <2>b, <2>3, <2>4
<1>33. CASE Query(p)
  <2>n. r.at = "query"
    BY <1>33 DEF Query, At
  <2> DEFINE gone == {n \in tracked \ archived : r.seen[n] = -1}
             t == [r EXCEPT !.at = "next", !.todo = gone]
  <2>1. /\ TypeOK' /\ tracked' = tracked /\ r.kind = "synchronize" /\ Working
        /\ gone \subseteq tracked /\ tracked \subseteq Numbers
    BY <1>0, <1>2, <1>33, <2>n DEF Query, LabelTells, vars, statVars, TypeOK
  <2>4. req' = [req EXCEPT ![p] = t]
    BY <1>0, <1>33 DEF Query, RequestInv
  <2> HIDE DEF gone
  <2>3. /\ t \in Requests /\ LabelTells(t) /\ NumberTells(t)
        /\ RowTells(t, tracked')
    BY <1>0, <1>1, <2>n, <2>1
       DEF Requests, Labels, LabelTells, NumberTells, RowTells, Numberless, Jobs,
           Idle
  <2> HIDE DEF t
  <2> QED BY <1>3, <2>1, <2>3, <2>4
<1>34. CASE NextGone(p)
  <2>n. r.at = "next"
    BY <1>34 DEF NextGone, At
  <2>1. /\ TypeOK' /\ tracked' = tracked /\ r.kind = "synchronize" /\ Working
        /\ r.todo \subseteq tracked
    BY <1>0, <1>2, <1>34, <2>n DEF NextGone, LabelTells, RowTells, vars, statVars
  <2>2. CASE r.todo = {}
    <3> DEFINE l == "sweep"
    <3>1. l \in Labels \ {"idle"} /\ Goto(p, l)
      BY <1>34, <2>2 DEF Labels, NextGone
    <3>2. LabelTells(s(l)) /\ NumberTells(s(l)) /\ RowTells(s(l), tracked')
      <4> HIDE DEF s
      <4> QED BY <1>0, <1>6, <2>n, <2>1, <3>1
                 DEF LabelTells, NumberTells, RowTells, Numberless, Jobs
    <3> HIDE DEF l, s
    <3> QED BY <1>5, <2>1, <3>1, <3>2
  <2>3. CASE r.todo # {}
    <3>1. PICK m \in r.todo :
              req' = [req EXCEPT ![p] =
                  [r EXCEPT !.todo = r.todo \ {m}, !.n = m,
                            !.at = IF ghState[m] = "closed" THEN "finish"
                                                            ELSE "next"]]
      BY <1>34, <2>3 DEF NextGone
    <3> DEFINE l == IF ghState[m] = "closed" THEN "finish" ELSE "next"
               t == [r EXCEPT !.todo = r.todo \ {m}, !.n = m, !.at = l]
    <3>2. req' = [req EXCEPT ![p] = t]
      BY <3>1
    <3>3. l \in {"finish", "next"}
      OBVIOUS
    <3> HIDE DEF l
    <3>4. /\ t \in Requests /\ LabelTells(t) /\ NumberTells(t)
          /\ RowTells(t, tracked')
      BY <1>0, <1>1, <2>n, <2>1, <3>3
         DEF Requests, Labels, LabelTells, NumberTells, RowTells, Numberless,
             Jobs, Idle
    <3> HIDE DEF t
    <3> QED BY <1>3, <2>1, <3>2, <3>4
  <2> QED BY <2>2, <2>3
<1> QED
  BY <1>7, <1>8, <1>9, <1>10, <1>11, <1>12, <1>13, <1>14, <1>15, <1>16, <1>17, <1>18,
     <1>19, <1>20, <1>21, <1>22, <1>23, <1>24, <1>25, <1>26, <1>27, <1>28, <1>29,
     <1>30, <1>31, <1>32, <1>33, <1>34 DEF Continue

\* A request or job that dies, a change on GitHub, a board read and a saved
\* sorting keep the types.
LEMMA TypeCrash ==
    ASSUME RequestInv, NEW p \in Procs, Crash(p)
    PROVE  RequestInv'
<1>1. /\ TypeOK' /\ UNCHANGED tracked
  BY DEF RequestInv, ReqTypeOK, TypeOK, Crash, ghVars, statVars
<1>2. req' = [req EXCEPT ![p] = Idle]
  BY DEF Crash, Done
<1>3. lone' \subseteq {q \in Procs : req'[q] # Idle}
  BY <1>2 DEF Crash, RequestInv, ReqTypeOK
<1>4. crashes' \in 0..MaxCrashes
  BY ProcsAssumption DEF Crash, RequestInv, ReqTypeOK, ProcsAssumption
<1> QED BY <1>1, <1>2, <1>3, <1>4, IdleIsRequest, OneRequest

\* Changes on GitHub, board reads and saved sortings keep the types.
LEMMA TypeEnvironment ==
    ASSUME RequestInv, Environment
    PROVE  RequestInv'
<1>1. TypeOK'
  <2>1. Next
    BY DEF Environment, Next, Request
  <2> QED BY <2>1, NextTypeOK DEF RequestInv, ReqTypeOK
<1>2. tracked \subseteq tracked'
  BY DEF Environment, Update, External, GithubCreate, GithubClose, GithubReopen,
         GithubAge, SortColumn, BoardRead, statVars
<1>3. UNCHANGED <<req, lone, crashes>>
  BY DEF Environment, reqVars
<1>4. ASSUME NEW q \in Procs PROVE RowTells(req[q], tracked')
  BY <1>2, <1>4 DEF RequestInv, RowTells
<1> QED BY <1>1, <1>3, <1>4 DEF RequestInv, ReqTypeOK

\* So does every step.
LEMMA NextRequestInv == RequestInv /\ [ReqNext]_allVars => RequestInv'
<1> SUFFICES ASSUME RequestInv, [ReqNext]_allVars PROVE RequestInv'
  OBVIOUS
<1>1. CASE UNCHANGED allVars
  BY <1>1 DEF RequestInv, ReqTypeOK, TypeOK, allVars, reqVars, vars, ghVars,
              statVars
<1> QED BY <1>1, TypeBegin, TypeContinue, TypeCrash, TypeEnvironment DEF ReqNext

\* However requests and jobs overlap and die, every variable keeps its type:
\* among others, only rows are archived or ready, and closed_at is never the
\* -1 of an issue that GitHub did not list.
THEOREM RequestTypes == ReqSpec => []ReqTypeOK
<1>1. RequestInv => ReqTypeOK
  BY DEF RequestInv
<1> QED BY <1>1, InitRequestInv, NextRequestInv, PTL DEF ReqSpec

-----------------------------------------------------------------------------
(***************************************************************************)
(* The statements implement the board of cards.                            *)
(***************************************************************************)

\* Rows that are made, if any, appear on the board.
LEMMA RowsAppear ==
    ASSUME RequestInv, NEW S \in SUBSET Numbers, tracked' = tracked \cup S,
           UNCHANGED <<archived, column>>
    PROVE  [Board!BoardNext]_(Board!boardVars)
<1>1. archived \subseteq tracked
  BY DEF RequestInv, ReqTypeOK, TypeOK
<1>2. Board!Appear(S \ tracked)
  BY <1>1 DEF Board!Appear, Board!Cards
<1>3. S \ tracked \in SUBSET Numbers
  OBVIOUS
<1> QED BY <1>2, <1>3 DEF Board!BoardNext

\* Each statement is a step of the board, or leaves the cards alone.
LEMMA CardBoardContinue ==
    ASSUME RequestInv, NEW p \in Procs, Continue(p)
    PROVE  [Board!BoardNext]_(Board!boardVars)
<1> DEFINE n == req[p].n
<1>0. /\ TypeOK /\ req[p] \in Requests
      /\ LabelTells(req[p]) /\ NumberTells(req[p]) /\ RowTells(req[p], tracked)
      /\ archived \subseteq tracked /\ column \in [Numbers -> Columns]
      /\ n \in Numbers \cup {0} /\ req[p].c \in Columns
  BY DEF RequestInv, ReqTypeOK, TypeOK, Requests
<1>1. CASE Place(p)
  <2>1. n \in Numbers /\ n \in tracked
    BY <1>0, <1>1
       DEF Place, At, NumberTells, Numberless, RowTells, LabelTells
  <2>2. Board!MoveCard(n, req[p].c)
    BY <1>1, <2>1 DEF Place, Board!MoveCard
  <2> QED BY <1>0, <2>1, <2>2 DEF Board!BoardNext
<1>2. CASE Shelve(p)
  <2>1. n \in Numbers /\ n \in tracked
    BY <1>0, <1>2 DEF Shelve, At, NumberTells, Numberless, RowTells
  <2>2. Board!Shelve(n)
    BY <1>2, <2>1 DEF Shelve, Board!Shelve
  <2> QED BY <2>1, <2>2 DEF Board!BoardNext
<1>3. CASE Restore(p)
  <2>1. n \in Numbers /\ n \in tracked
    BY <1>0, <1>3
       DEF Restore, At, NumberTells, Numberless, RowTells, LabelTells
  <2>2. CASE n \in archived
    <3>1. Board!Restore(n)
      BY <1>3, <2>1, <2>2 DEF Restore, Board!Restore
    <3> QED BY <2>1, <3>1 DEF Board!BoardNext
  <2>3. CASE n \notin archived
    BY <1>3, <2>3 DEF Restore, Board!boardVars
  <2> QED BY <2>2, <2>3
<1>4. CASE Sweep(p)
  <2>1. Board!Sweep({})
    BY <1>4 DEF Sweep, Swept, Board!Sweep
  <2>2. {} \in SUBSET Numbers
    OBVIOUS
  <2> QED BY <2>1, <2>2 DEF Board!BoardNext
\* The row of one issue is found, or made.
<1>5. ASSUME n \in Numbers, Find(n), UNCHANGED <<archived, column>>
      PROVE  [Board!BoardNext]_(Board!boardVars)
  BY <1>5, RowsAppear DEF Find
<1>6. CASE FindCard(p) \/ Look(p) \/ Stat(p) \/ Stamp(p) \/ Insert(p)
  <2>1. n \in Numbers
    BY <1>0, <1>6
       DEF FindCard, Look, Stat, Stamp, Insert, At, NumberTells, Numberless
  <2>2. Find(n) /\ UNCHANGED <<archived, column>>
    BY <1>6 DEF FindCard, Look, Stat, Stamp, Insert, FindRow
  <2> QED BY <1>5, <2>1, <2>2
<1>7. CASE InsertRows(p)
  <2>1. PICK S \in SUBSET Numbers : tracked' = tracked \cup S
    BY <1>7 DEF InsertRows
  <2>2. UNCHANGED <<archived, column>>
    BY <1>7 DEF InsertRows
  <2> QED BY <2>1, <2>2, RowsAppear
<1>8. ASSUME UNCHANGED <<tracked, archived, column>>
      PROVE  [Board!BoardNext]_(Board!boardVars)
  BY <1>8 DEF Board!boardVars
<1>9. CASE \/ Finish(p) \/ Start(p) \/ UnreadyCard(p) \/ NeedAssignee(p)
           \/ Ask(p) \/ Patch(p) \/ AskState(p) \/ CloseIssue(p)
           \/ ReopenIssue(p) \/ Enqueue(p) \/ Sort(p) \/ Check(p) \/ Toggle(p)
           \/ CreateIssue(p) \/ Fetch(p) \/ UpdateRows(p) \/ Query(p)
           \/ NextGone(p)
  <2>1. CASE \/ Finish(p) \/ Start(p) \/ UnreadyCard(p) \/ Patch(p)
             \/ CloseIssue(p) \/ ReopenIssue(p) \/ Enqueue(p) \/ Sort(p)
             \/ Toggle(p) \/ CreateIssue(p) \/ UpdateRows(p)
    BY <1>8, <2>1
       DEF Finish, Start, UnreadyCard, Patch, CloseIssue, ReopenIssue, Enqueue,
           Sort, Toggle, CreateIssue, UpdateRows, statVars
  <2>2. CASE \/ NeedAssignee(p) \/ Ask(p) \/ AskState(p) \/ Check(p)
             \/ Fetch(p) \/ Query(p) \/ NextGone(p)
    <3>1. ASSUME NextGone(p) PROVE UNCHANGED vars
      BY <3>1, Zenon DEF NextGone
    <3>2. Fetch(p) => UNCHANGED vars
      BY DEF Fetch
    <3>3. UNCHANGED vars
      BY <2>2, <3>1, <3>2 DEF NeedAssignee, Ask, AskState, Check, Query
    <3> QED BY <1>8, <3>3 DEF vars, statVars
  <2> QED BY <1>9, <2>1, <2>2
<1> QED BY <1>1, <1>2, <1>3, <1>4, <1>6, <1>7, <1>9 DEF Continue

\* The same for every step of the system.
LEMMA CardBoardReqNext ==
    RequestInv /\ [ReqNext]_allVars => [Board!BoardNext]_(Board!boardVars)
<1> SUFFICES ASSUME RequestInv, [ReqNext]_allVars
             PROVE  [Board!BoardNext]_(Board!boardVars)
  OBVIOUS
<1>1. ASSUME UNCHANGED <<tracked, archived, column>>
      PROVE  [Board!BoardNext]_(Board!boardVars)
  BY <1>1 DEF Board!boardVars
<1>2. CASE UNCHANGED allVars
  BY <1>1, <1>2 DEF allVars, vars, statVars
<1>3. ASSUME NEW p \in Procs, Begin(p) \/ Crash(p)
      PROVE  [Board!BoardNext]_(Board!boardVars)
  <2>1. UNCHANGED <<tracked, archived, column>>
    <3>1. CASE Crash(p)
      BY <3>1 DEF Crash, statVars
    <3>2. CASE StartSyncStats(p)
      BY <3>2 DEF StartSyncStats, statVars
    <3>3. CASE UNCHANGED vars
      BY <3>3 DEF vars, statVars
    <3>4. ASSUME NEW n \in Numbers, NEW c \in Columns, NEW force \in Forces,
                 ArriveMove(p, n, c, force)
          PROVE  UNCHANGED vars
      BY <3>4 DEF ArriveMove
    <3>5. ASSUME NEW n \in Numbers, NEW kind \in Kinds, ArriveOther(p, kind, n)
          PROVE  UNCHANGED vars
      BY <3>5 DEF ArriveOther
    <3>6. ArriveCreate(p) \/ StartSynchronize(p) => UNCHANGED vars
      BY DEF ArriveCreate, StartSynchronize
    <3> QED BY <1>3, <3>1, <3>2, <3>3, <3>4, <3>5, <3>6 DEF Begin
  <2> QED BY <1>1, <2>1
<1>4. ASSUME NEW looked \in SUBSET Numbers, NEW seenOpen \in SUBSET Numbers,
             NEW earlier \in SUBSET Numbers,
             BoardRead(looked, seenOpen, earlier)
      PROVE  [Board!BoardNext]_(Board!boardVars)
  <2>1. PICK S \in SUBSET Numbers : tracked' = tracked \cup S
    BY <1>4 DEF BoardRead
  <2> QED BY <1>4, <2>1, RowsAppear DEF BoardRead
<1>5. ASSUME Environment
      PROVE  [Board!BoardNext]_(Board!boardVars)
  <2>1. \/ UNCHANGED <<tracked, archived, column>>
        \/ \E looked, seenOpen, earlier \in SUBSET Numbers :
               BoardRead(looked, seenOpen, earlier)
    BY <1>5 DEF Environment, Update, External, GithubCreate, GithubClose,
                GithubReopen, GithubAge, SortColumn, statVars
  <2> QED BY <1>1, <1>4, <2>1
<1> QED BY <1>2, <1>3, <1>5, CardBoardContinue DEF ReqNext

\* Requests and jobs that overlap and die still implement the board of cards:
\* no row is ever lost, cards enter in the default column, and only the sweep
\* of archived cards moves a card that nobody moved.
THEOREM RequestsImplementCardBoard == ReqSpec => ImplementsCardBoard
<1>1. ReqInit => Board!BoardInit
  BY CardBoardInit DEF ReqInit
<1> QED
  BY <1>1, InitRequestInv, NextRequestInv, CardBoardReqNext, PTL
     DEF ReqSpec, ImplementsCardBoard, Board!BoardSpec

-----------------------------------------------------------------------------
(***************************************************************************)
(* Moves that nothing overlaps.                                            *)
(***************************************************************************)

\* How far a move to another column has come: the old lifetimes are closed,
\* then the new one is open, then the label is gone, then the card stands in
\* the new column.
Restarting == {"unready", "place", "need", "ask", "patch", "state", "close",
               "stamp", "sort"}
HealTells(r) ==
    r.column # r.c =>
        /\ r.at = "start" => opened[r.n] = <<>>
        /\ r.at \in Restarting => opened[r.n] = <<r.c>>
        /\ r.at \in Restarting \ {"unready"} => r.n \notin ready
        /\ r.at \in Restarting \ {"unready", "place"} => column[r.n] = r.c

\* A move that is alone on its card is the only request on it, jobs are not
\* under way, and no issue that is about to be created can be that card.
LoneMoveInv ==
    \A p \in lone :
        req[p].kind = "move" =>
            /\ OnGithub(req[p].n)
            /\ \A q \in Procs \ {p} :
                   req[q].n # req[p].n /\ req[q].kind \notin Jobs
            /\ HealTells(req[p])

\* A working process changes no other request, keeps the kind, the issue, the
\* column moved to and the column read of its own, and ends with nothing;
\* only a new issue and the synchronizer choose another number, and only Look
\* reads the column.
LEMMA ContinueFrame ==
    ASSUME RequestInv, NEW p \in Procs, Continue(p)
    PROVE  /\ \A q \in Procs \ {p} : req'[q] = req[q]
           /\ \/ req'[p] = Idle
              \/ /\ req'[p].kind = req[p].kind /\ req'[p].c = req[p].c
                 /\ \/ req'[p].n = req[p].n
                    \/ At(p, "create") \/ At(p, "next")
                 /\ req'[p].column = req[p].column \/ At(p, "look")
           /\ lone' = {q \in lone : req'[q] # Idle}
           /\ UNCHANGED crashes
<1>0. req \in [Procs -> Requests] /\ req[p] \in Requests
  BY DEF RequestInv
<1> DEFINE r == req[p]
           Frame == /\ \A q \in Procs \ {p} : req'[q] = req[q]
                    /\ \/ req'[p] = Idle
                       \/ /\ req'[p].kind = r.kind /\ req'[p].c = r.c
                          /\ req'[p].n = r.n \/ At(p, "create") \/ At(p, "next")
                          /\ req'[p].column = r.column \/ At(p, "look")
<1>1. ASSUME Done(p) PROVE Frame
  BY <1>0, <1>1 DEF Done
<1>2. ASSUME NEW l, Goto(p, l) PROVE Frame
  BY <1>0, <1>2 DEF Goto, Requests
<1>3. ASSUME NEW t, req' = [req EXCEPT ![p] = t],
             t.kind = r.kind, t.c = r.c,
             t.n = r.n \/ At(p, "create") \/ At(p, "next"),
             t.column = r.column \/ At(p, "look")
      PROVE  Frame
  BY <1>0, <1>3
<1> HIDE DEF Frame
<1>4. ASSUME FindCard(p) PROVE Frame
  <2> DEFINE t == [r EXCEPT !.at = "look", !.list = order[r.c]]
  <2>1. req' = [req EXCEPT ![p] = t]
    BY <1>0, <1>4 DEF FindCard
  <2>2. /\ t.kind = r.kind /\ t.c = r.c
        /\ t.n = r.n \/ At(p, "create") \/ At(p, "next")
        /\ t.column = r.column \/ At(p, "look")
    BY <1>0, <1>4 DEF FindCard, Requests
  <2> HIDE DEF t
  <2> QED BY <1>3, <2>1, <2>2
<1>5. ASSUME Look(p) PROVE Frame
  <2> DEFINE l == AfterLook(r)
             f == r.n \in ready
             t == [r EXCEPT !.at = l, !.column = column[r.n], !.flag = f]
  <2>1. CASE l = "idle"
    BY <1>1, <1>5, <2>1 DEF Look, Done
  <2>2. CASE l # "idle"
    <3>1. req' = [req EXCEPT ![p] = t] /\ At(p, "look")
      BY <1>5, <2>2 DEF Look
    <3> HIDE DEF l, f
    <3>2. t.kind = r.kind /\ t.c = r.c /\ t.n = r.n
      BY <1>0 DEF Requests
    <3> HIDE DEF t
    <3> QED BY <1>3, <3>1, <3>2
  <2> QED BY <2>1, <2>2
<1>6. ASSUME Ask(p) PROVE Frame
  <2>0. PICK same \in BOOLEAN : req' = [req EXCEPT ![p].at = "patch", ![p].flag = same]
    BY <1>6 DEF Ask
  <2> DEFINE t == [r EXCEPT !.at = "patch", !.flag = same]
  <2>1. req' = [req EXCEPT ![p] = t]
    BY <1>0, <2>0
  <2>2. /\ t.kind = r.kind /\ t.c = r.c
        /\ t.n = r.n \/ At(p, "create") \/ At(p, "next")
        /\ t.column = r.column \/ At(p, "look")
    BY <1>0, <1>6 DEF Ask, Requests
  <2> HIDE DEF t
  <2> QED BY <1>3, <2>1, <2>2
<1>7. ASSUME CloseIssue(p) PROVE Frame
  <2> DEFINE t == [r EXCEPT !.at = "stamp", !.seen[r.n] = closings'[r.n]]
  <2>1. req' = [req EXCEPT ![p] = t]
    BY <1>0, <1>7 DEF CloseIssue
  <2>2. /\ t.kind = r.kind /\ t.c = r.c
        /\ t.n = r.n \/ At(p, "create") \/ At(p, "next")
        /\ t.column = r.column \/ At(p, "look")
    BY <1>0, <1>7 DEF CloseIssue, Requests
  <2> HIDE DEF t
  <2> QED BY <1>3, <2>1, <2>2
<1>8. ASSUME ReopenIssue(p) PROVE Frame
  <2> DEFINE t == [r EXCEPT !.at = "stamp", !.seen[r.n] = 0]
  <2>1. req' = [req EXCEPT ![p] = t]
    BY <1>0, <1>8 DEF ReopenIssue
  <2>2. /\ t.kind = r.kind /\ t.c = r.c
        /\ t.n = r.n \/ At(p, "create") \/ At(p, "next")
        /\ t.column = r.column \/ At(p, "look")
    BY <1>0, <1>8 DEF ReopenIssue, Requests
  <2> HIDE DEF t
  <2> QED BY <1>3, <2>1, <2>2
<1>9. ASSUME CreateIssue(p) PROVE Frame
  <2>0. PICK n \in Numbers : req' = [req EXCEPT ![p].at = "insert", ![p].n = n]
    BY <1>9 DEF CreateIssue
  <2> DEFINE t == [r EXCEPT !.at = "insert", !.n = n]
  <2>1. req' = [req EXCEPT ![p] = t]
    BY <1>0, <2>0
  <2>2. /\ t.kind = r.kind /\ t.c = r.c
        /\ t.n = r.n \/ At(p, "create") \/ At(p, "next")
        /\ t.column = r.column \/ At(p, "look")
    BY <1>0, <1>9 DEF CreateIssue, Requests
  <2> HIDE DEF t
  <2> QED BY <1>3, <2>1, <2>2
<1>10. ASSUME NEW l, NEW S, req' = [req EXCEPT ![p].at = l, ![p].seen = S]
      PROVE  Frame
  <2> DEFINE t == [r EXCEPT !.at = l, !.seen = S]
  <2>1. req' = [req EXCEPT ![p] = t]
    BY <1>0, <1>10
  <2>2. t.kind = r.kind /\ t.c = r.c /\ t.n = r.n /\ t.column = r.column
    BY <1>0 DEF Requests
  <2> HIDE DEF t
  <2> QED BY <1>3, <2>1, <2>2
<1>11. ASSUME NEW l, NEW S, req' = [req EXCEPT ![p].at = l, ![p].todo = S]
      PROVE  Frame
  <2> DEFINE t == [r EXCEPT !.at = l, !.todo = S]
  <2>1. req' = [req EXCEPT ![p] = t]
    BY <1>0, <1>11
  <2>2. t.kind = r.kind /\ t.c = r.c /\ t.n = r.n /\ t.column = r.column
    BY <1>0 DEF Requests
  <2> HIDE DEF t
  <2> QED BY <1>3, <2>1, <2>2
<1>12. ASSUME NextGone(p) PROVE Frame
  <2>1. CASE Goto(p, "sweep")
    BY <1>2, <2>1
  <2>2. CASE ~Goto(p, "sweep")
    <3>1. PICK n \in r.todo :
              req' = [req EXCEPT ![p] =
                  [r EXCEPT !.todo = r.todo \ {n}, !.n = n,
                            !.at = IF ghState[n] = "closed" THEN "finish"
                                                            ELSE "next"]]
      BY <1>12, <2>2, Zenon DEF NextGone
    <3> DEFINE l == IF ghState[n] = "closed" THEN "finish" ELSE "next"
               t == [r EXCEPT !.todo = r.todo \ {n}, !.n = n, !.at = l]
    <3>2. req' = [req EXCEPT ![p] = t]
      BY <1>0, <3>1
    <3>3. At(p, "next")
      BY <1>12, Zenon DEF NextGone
    <3> HIDE DEF l
    <3>4. t.kind = r.kind /\ t.c = r.c /\ t.column = r.column
      BY <1>0 DEF Requests
    <3> HIDE DEF t
    <3> QED BY <1>3, <3>2, <3>3, <3>4
  <2> QED BY <2>1, <2>2
<1>13. Frame
  <2>1. CASE Fetch(p)
    <3> DEFINE l == IF r.kind = "sync_stats" THEN "insert_rows" ELSE "query"
               S == [n \in Numbers |->
                        IF n \in IF r.kind = "sync_stats" THEN Synced ELSE Listed
                        THEN GhClosedAt(n) ELSE -1]
    <3>1. req' = [req EXCEPT ![p].at = l, ![p].seen = S]
      BY <2>1 DEF Fetch
    <3> HIDE DEF l, S
    <3> QED BY <3>1, <1>10
  <2>2. CASE InsertRows(p)
    <3> DEFINE l == "update_rows"
               S == {n \in Numbers : r.seen[n] # -1}
                        \ {n \in {m \in Numbers : r.seen[m] # -1} :
                               n > LastNumber(tracked)}
    <3>1. req' = [req EXCEPT ![p].at = l, ![p].todo = S]
      BY <2>2 DEF InsertRows
    <3> HIDE DEF l, S
    <3> QED BY <3>1, <1>11
  <2>3. CASE Query(p)
    <3> DEFINE l == "next"
               S == {n \in tracked \ archived : r.seen[n] = -1}
    <3>1. req' = [req EXCEPT ![p].at = l, ![p].todo = S]
      BY <2>3 DEF Query
    <3> HIDE DEF l, S
    <3> QED BY <3>1, <1>11
  <2>4. ASSUME \/ Finish(p) \/ Start(p) \/ UnreadyCard(p) \/ Place(p)
                \/ NeedAssignee(p) \/ Patch(p) \/ AskState(p) \/ Stamp(p)
                \/ Enqueue(p) \/ Sort(p) \/ Check(p) \/ Stat(p) \/ Shelve(p)
                \/ Restore(p) \/ Toggle(p) \/ Insert(p) \/ UpdateRows(p)
                \/ Sweep(p)
        PROVE  Done(p) \/ \E l : Goto(p, l)
    <3>1. CASE Start(p)
      <4>1. r.kind \in {"move", "unarchive", "create"}
        BY <3>1 DEF Start, At, RequestInv, LabelTells
      <4> QED BY <3>1, <4>1 DEF Start
    <3> QED BY <2>4, <3>1
       DEF Finish, UnreadyCard, Place, NeedAssignee, Patch, AskState, Stamp,
           Enqueue, Sort, Check, Stat, Shelve, Restore, Toggle, Insert,
           UpdateRows, Sweep
  <2> QED BY <1>1, <1>2, <1>4, <1>5, <1>6, <1>7, <1>8, <1>9, <1>12, <2>1, <2>2, <2>3,
             <2>4
          DEF Continue
<1>14. Working
  <2>1. ASSUME NextGone(p) PROVE Working
    BY <2>1, Zenon DEF NextGone
  <2>2. ASSUME FindCard(p) \/ Look(p) \/ Ask(p) \/ CloseIssue(p) \/ ReopenIssue(p)
        PROVE  Working
    BY <2>2 DEF FindCard, Look, Ask, CloseIssue, ReopenIssue
  <2>3. ASSUME CreateIssue(p) \/ Fetch(p) \/ InsertRows(p) \/ Query(p)
        PROVE  Working
    BY <2>3 DEF CreateIssue, Fetch, InsertRows, Query
  <2> QED
    BY <2>1, <2>2, <2>3
       DEF Continue, Finish, Start, UnreadyCard, Place, NeedAssignee, Patch,
           AskState, Stamp, Enqueue, Sort, Check, Stat, Shelve, Restore, Toggle,
           Insert, UpdateRows, Sweep
<1>15. lone' = {q \in lone : req'[q] # Idle} /\ UNCHANGED crashes
  BY <1>14 DEF Working
<1> QED BY <1>13, <1>15 DEF Frame

\* A request that arrives changes no other one and nothing of the cards; it
\* ends the solitude of every request it may collide with.
LEMMA BeginFrame ==
    ASSUME RequestInv, NEW p \in Procs, Begin(p)
    PROVE  /\ \A q \in Procs \ {p} : req'[q] = req[q]
           /\ req[p] = Idle
           /\ \A q \in lone' \ {p} :
                  /\ q \in lone
                  /\ ~OnCard(req[q], req'[p].n)
                  /\ req'[p].kind \in Jobs => req[q] = Idle
           /\ p \in lone' => \A q \in Procs : ~OnCard(req[q], req'[p].n)
           /\ req'[p].kind = "move" =>
                  req'[p].at = "find" /\ OnGithub(req'[p].n)
           /\ UNCHANGED <<ghState, tracked, column, archived, ready, opened,
                          crashes>>
<1> DEFINE Frame(r) ==
        /\ req' = [req EXCEPT ![p] = [r EXCEPT !.at = FirstStep[r.kind]]]
        /\ \A q \in lone' \ {p} : /\ q \in lone
                                  /\ ~OnCard(req[q], r.n)
                                  /\ r.kind \in Jobs => req[q] = Idle
        /\ p \in lone' => \A q \in Procs : ~OnCard(req[q], r.n)
        /\ req[p] = Idle
        /\ UNCHANGED crashes
           Goal == /\ \A q \in Procs \ {p} : req'[q] = req[q]
                   /\ req[p] = Idle
                   /\ \A q \in lone' \ {p} :
                          /\ q \in lone
                          /\ ~OnCard(req[q], req'[p].n)
                          /\ req'[p].kind \in Jobs => req[q] = Idle
                   /\ p \in lone' => \A q \in Procs : ~OnCard(req[q], req'[p].n)
                   /\ req'[p].kind = "move" =>
                          req'[p].at = "find" /\ OnGithub(req'[p].n)
                   /\ UNCHANGED <<ghState, tracked, column, archived, ready,
                                  opened, crashes>>
<1>0. req \in [Procs -> Requests] /\ lone \subseteq Procs
  BY DEF RequestInv, ReqTypeOK
<1>1. ASSUME NEW r, Arrive(p, r) PROVE Frame(r)
  BY <1>0, <1>1 DEF Arrive
<1>2. ASSUME NEW r, NEW s, s = [r EXCEPT !.at = FirstStep[r.kind]], Arrive(p, r),
             s.kind = r.kind, s.n = r.n,
             r.kind = "move" => s.at = "find" /\ OnGithub(r.n),
             UNCHANGED <<ghState, tracked, column, archived, ready, opened>>
      PROVE  Goal
  <2>1. Frame(r)
    BY <1>1, <1>2
  <2>2. req'[p] = s /\ \A q \in Procs \ {p} : req'[q] = req[q]
    BY <1>0, <1>2, <2>1
  <2> QED BY <1>2, <2>1, <2>2
<1> HIDE DEF Frame, Goal
<1> SUFFICES Goal
  BY DEF Goal
<1>3. UNCHANGED vars => UNCHANGED <<ghState, tracked, column, archived, ready, opened>>
  BY DEF vars, ghVars, statVars
<1>4. ASSUME NEW n \in Numbers, NEW c \in Columns, NEW force \in Forces,
             ArriveMove(p, n, c, force)
      PROVE  Goal
  <2> DEFINE r == [Idle EXCEPT !.kind = "move", !.n = n, !.c = c, !.force = force]
             s == [r EXCEPT !.at = FirstStep[r.kind]]
  <2>1. Arrive(p, r) /\ UNCHANGED vars /\ OnGithub(n)
    BY <1>4 DEF ArriveMove
  <2>2. s.kind = r.kind /\ s.n = r.n /\ s.at = "find" /\ r.n = n
    BY DEF Idle, FirstStep
  <2> HIDE DEF r
  <2> QED BY <1>2, <1>3, <2>1, <2>2
<1>5. ASSUME NEW kind \in Kinds, NEW n \in Numbers, ArriveOther(p, kind, n)
      PROVE  Goal
  <2> DEFINE r == [Idle EXCEPT !.kind = kind, !.n = n]
             s == [r EXCEPT !.at = FirstStep[r.kind]]
  <2>1. Arrive(p, r) /\ UNCHANGED vars
    BY <1>5 DEF ArriveOther
  <2>2. s.kind = r.kind /\ s.n = r.n /\ r.kind # "move"
    BY <1>5 DEF Idle, ArriveOther
  <2> HIDE DEF r
  <2> QED BY <1>2, <1>3, <2>1, <2>2
<1>6. CASE ArriveCreate(p)
  <2> DEFINE r == [Idle EXCEPT !.kind = "create", !.force = TRUE,
                               !.list = order[DefaultColumn]]
             s == [r EXCEPT !.at = FirstStep[r.kind]]
  <2>1. Arrive(p, r) /\ UNCHANGED vars
    BY <1>6 DEF ArriveCreate
  <2>2. s.kind = r.kind /\ s.n = r.n /\ r.kind # "move"
    BY DEF Idle
  <2> HIDE DEF r
  <2> QED BY <1>2, <1>3, <2>1, <2>2
<1>7. ASSUME NEW kind \in Jobs, Arrive(p, [Idle EXCEPT !.kind = kind]),
             UNCHANGED <<ghState, tracked, column, archived, ready, opened>>
      PROVE  Goal
  <2> DEFINE r == [Idle EXCEPT !.kind = kind]
             s == [r EXCEPT !.at = FirstStep[r.kind]]
  <2>1. Arrive(p, r)
    BY <1>7
  <2>2. s.kind = r.kind /\ s.n = r.n /\ r.kind # "move"
    BY <1>7 DEF Idle, Jobs
  <2> HIDE DEF r
  <2> QED BY <1>2, <1>7, <2>1, <2>2
<1>8. CASE StartSyncStats(p)
  <2>1. /\ Arrive(p, [Idle EXCEPT !.kind = "sync_stats"])
        /\ UNCHANGED <<ghState, tracked, column, archived, ready, opened>>
    BY <1>8 DEF StartSyncStats, ghVars, statVars
  <2> QED BY <1>7, <2>1 DEF Jobs
<1>9. CASE StartSynchronize(p)
  <2>1. /\ Arrive(p, [Idle EXCEPT !.kind = "synchronize"])
        /\ UNCHANGED <<ghState, tracked, column, archived, ready, opened>>
    BY <1>3, <1>9 DEF StartSynchronize
  <2> QED BY <1>7, <2>1 DEF Jobs
<1> QED BY <1>4, <1>5, <1>6, <1>8, <1>9 DEF Begin

\* A statement of another request than a job touches no card but its own, and
\* never comes to work on an issue that is already on GitHub.
LEMMA ContinueElsewhere ==
    ASSUME RequestInv, NEW p \in Procs, Continue(p), NEW n \in Numbers,
           OnGithub(n), req[p].n # n, req[p].kind \notin Jobs
    PROVE  /\ opened'[n] = opened[n]
           /\ column'[n] = column[n]
           /\ n \notin ready => n \notin ready'
           /\ req'[p].n # n /\ req'[p].kind \notin Jobs
<1> DEFINE r == req[p]
<1>0. /\ TypeOK /\ r \in Requests
      /\ LabelTells(r) /\ 0 \notin Numbers
  BY NumbersAssumption DEF RequestInv, ReqTypeOK, NumbersAssumption
<1>1. /\ opened \in [Numbers -> Seq(Columns)] /\ column \in [Numbers -> Columns]
      /\ r.kind # "synchronize" /\ r.kind # "sync_stats"
  BY <1>0 DEF TypeOK, Jobs
<1>2. /\ r.at # "next" /\ r.at # "sweep" /\ r.at # "insert_rows"
  BY <1>0, <1>1 DEF LabelTells
<1>3. req'[p].n # n /\ req'[p].kind \notin Jobs
  <2>1. CASE req'[p] = Idle
    BY <1>0, <2>1 DEF Idle, Jobs
  <2>2. CASE At(p, "create")
    <3>1. CreateIssue(p)
      BY <2>2 DEF Continue, At, FindCard, Look, Finish, Start, UnreadyCard,
         Place, NeedAssignee, Ask, Patch, AskState, CloseIssue, ReopenIssue,
         Stamp, Enqueue, Sort, Check, Stat, Shelve, Restore, Toggle, Insert,
         Fetch, InsertRows, UpdateRows, Query, NextGone, Sweep
    <3>2. PICK m \in Numbers : /\ ghState[m] = "absent"
                               /\ req' = [req EXCEPT ![p].at = "insert", ![p].n = m]
      BY <3>1 DEF CreateIssue
    <3> QED BY <1>0, <3>2 DEF OnGithub, RequestInv, Requests
  <2>3. CASE req'[p] # Idle /\ ~At(p, "create")
    BY <1>2, <2>3, ContinueFrame DEF At
  <2> QED BY <2>1, <2>2, <2>3
<1>4. /\ opened'[n] = opened[n] /\ column'[n] = column[n]
      /\ n \notin ready => n \notin ready'
  <2>1. CASE Finish(p) \/ Start(p)
    BY <1>1, <2>1 DEF Finish, Finished, Start, statVars
  <2>2. CASE Place(p) \/ UnreadyCard(p) \/ Toggle(p)
    BY <1>1, <2>2 DEF Place, UnreadyCard, Toggle, Unready
  <2>3. CASE Sweep(p)
    BY <1>2, <2>3 DEF Sweep, At
  <2>4. CASE UNCHANGED <<opened, column, ready>>
    BY <2>4
  <2>5. CASE NextGone(p)
    BY <1>2, <2>5, Zenon DEF NextGone, At
  <2>6. CASE UNCHANGED vars
    BY <2>4, <2>6 DEF vars, statVars
  <2>7. CASE FindCard(p) \/ Look(p) \/ Patch(p) \/ CloseIssue(p) \/ ReopenIssue(p)
             \/ Stamp(p) \/ Enqueue(p) \/ Sort(p)
    BY <2>4, <2>7 DEF FindCard, Look, Patch, CloseIssue, ReopenIssue, Stamp,
                      Enqueue, Sort, statVars
  <2>8. CASE Stat(p) \/ Shelve(p) \/ Restore(p) \/ CreateIssue(p) \/ Insert(p)
             \/ InsertRows(p) \/ UpdateRows(p)
    BY <2>4, <2>8 DEF Stat, Shelve, Restore, CreateIssue, Insert, InsertRows,
                      UpdateRows, statVars
  <2>9. CASE Fetch(p)
    BY <2>6, <2>9 DEF Fetch
  <2> QED BY <2>1, <2>2, <2>3, <2>5, <2>6, <2>7, <2>8, <2>9
             DEF Continue, NeedAssignee, Ask, AskState, Check, Query
<1> QED BY <1>3, <1>4

\* The statements of Mover, one after the other, on a card nobody else works
\* on.
LEMMA MoveHeals ==
    ASSUME RequestInv, NEW p \in Procs, Continue(p), req[p].kind = "move",
           HealTells(req[p])
    PROVE  /\ req'[p] # Idle => HealTells(req[p])'
           /\ req'[p] = Idle /\ req[p].column # req[p].c =>
                  /\ column'[req[p].n] = req[p].c
                  /\ opened'[req[p].n] = <<req[p].c>>
                  /\ req[p].n \notin ready'
<1> DEFINE r == req[p]
           n == r.n
           Goal == /\ req'[p] # Idle => HealTells(req[p])'
                   /\ req'[p] = Idle /\ r.column # r.c =>
                          /\ column'[n] = r.c
                          /\ opened'[n] = <<r.c>>
                          /\ n \notin ready'
<1>0. /\ TypeOK /\ r \in Requests /\ req \in [Procs -> Requests]
      /\ LabelTells(r) /\ NumberTells(r)
      /\ opened \in [Numbers -> Seq(Columns)] /\ column \in [Numbers -> Columns]
  BY DEF RequestInv, ReqTypeOK, TypeOK
<1>1. n \in Numbers
  <2>1. r.at \in {"find", "need", "ask", "patch", "sort", "start", "look",
                  "finish", "unready", "place", "state", "close", "stamp"}
    BY <1>0 DEF LabelTells, Jobs, Requests, Labels
  <2> QED BY <1>0, <2>1 DEF NumberTells, Numberless
<1>2. r.column # r.c =>
        /\ r.at = "start" => opened[n] = <<>>
        /\ r.at \in Restarting => opened[n] = <<r.c>>
        /\ r.at \in Restarting \ {"unready"} => n \notin ready
        /\ r.at \in Restarting \ {"unready", "place"} => column[n] = r.c
  BY DEF HealTells
\* A step to another label that touches no row.
<1>3. ASSUME NEW t, req' = [req EXCEPT ![p] = t], t.n = n, t.c = r.c,
             t.column = r.column, t.at # "start",
             t.at \in Restarting =>
                 r.at \in Restarting \ {"unready", "place"} /\ t.at # "unready",
             UNCHANGED <<opened, column>>, ready' \subseteq ready
      PROVE  HealTells(req[p])'
  <2>1. req'[p] = t
    BY <1>0, <1>3
  <2> QED BY <1>2, <1>3, <2>1 DEF HealTells
<1>4. ASSUME NEW l, Goto(p, l), l # "start",
             l \in Restarting =>
                 r.at \in Restarting \ {"unready", "place"} /\ l # "unready",
             UNCHANGED <<opened, column>>, ready' \subseteq ready
      PROVE  HealTells(req[p])'
  <2> DEFINE t == [r EXCEPT !.at = l]
  <2>1. req' = [req EXCEPT ![p] = t]
    BY <1>0, <1>4 DEF Goto
  <2>2. t.n = n /\ t.c = r.c /\ t.column = r.column /\ t.at = l
    BY <1>0 DEF Requests
  <2> HIDE DEF t
  <2> QED BY <1>3, <1>4, <2>1, <2>2
<1>u. UNCHANGED vars => UNCHANGED <<opened, column, ready>>
  BY DEF vars, statVars
<1> HIDE DEF Goal
<1> SUFFICES Goal
  BY DEF Goal
<1>d. req'[p] # Idle /\ HealTells(req[p])' => Goal
  BY DEF Goal
<1>r. Restarting \ {"unready", "place"} =
          {"need", "ask", "patch", "state", "close", "stamp", "sort"}
  BY DEF Restarting
<1>i. ASSUME NEW l, Goto(p, l), l # "idle" PROVE req'[p] # Idle
  BY <1>0, <1>i DEF Goto, Requests, Idle
<1>5. CASE NeedAssignee(p)
  <2>1. PICK l \in {"ask", "state"} : Goto(p, l)
    BY <1>5 DEF NeedAssignee, AfterAssign
  <2> QED BY <1>4, <1>5, <1>d, <1>i, <1>r, <1>u, <2>1 DEF NeedAssignee, At
<1>6. CASE AskState(p)
  <2>1. PICK l \in {"close", "sort"} : Goto(p, l)
    BY <1>6 DEF AskState
  <2> QED BY <1>4, <1>6, <1>d, <1>i, <1>r, <1>u, <2>1 DEF AskState, At
<1>7. CASE Patch(p)
  <2>1. Goto(p, "state") /\ At(p, "patch") /\ UNCHANGED <<opened, column, ready>>
    BY <1>7 DEF Patch, AfterAssign, statVars
  <2> QED BY <1>4, <1>d, <1>i, <1>r, <2>1 DEF At
<1>8. CASE Stamp(p)
  <2>1. Goto(p, "sort") /\ At(p, "stamp") /\ UNCHANGED <<opened, column, ready>>
    BY <1>8 DEF Stamp
  <2> QED BY <1>4, <1>d, <1>i, <1>r, <2>1 DEF At
<1>9. CASE Finish(p)
  <2>1. Goto(p, "start") /\ opened' = Finished(n)
    BY <1>9 DEF Finish
  <2>2. req'[p] = [r EXCEPT !.at = "start"]
    BY <1>0, <2>1 DEF Goto
  <2>3. req'[p].n = n /\ req'[p].at = "start" /\ opened'[n] = <<>>
    BY <1>0, <1>1, <2>1, <2>2 DEF Requests, Finished
  <2>4. HealTells(req[p])'
    BY <2>3 DEF HealTells, Restarting
  <2> QED BY <1>d, <1>i, <2>1, <2>4
<1>10. CASE Start(p)
  <2>1. Goto(p, "unready") /\ At(p, "start")
        /\ opened' = [opened EXCEPT ![n] = Append(@, StartedIn(r))]
    BY <1>10 DEF Start
  <2>2. req'[p] = [r EXCEPT !.at = "unready"]
    BY <1>0, <2>1 DEF Goto
  <2>3. /\ req'[p].n = n /\ req'[p].c = r.c /\ req'[p].column = r.column
        /\ req'[p].at = "unready"
    BY <1>0, <2>2 DEF Requests
  <2>4. r.column # r.c => opened'[n] = <<r.c>>
    <3>1. StartedIn(r) = r.c
      BY DEF StartedIn
    <3>2. opened'[n] = Append(opened[n], r.c)
      BY <1>0, <1>1, <2>1, <3>1
    <3>3. Append(<<>>, r.c) = <<r.c>>
      OBVIOUS
    <3> QED BY <1>2, <2>1, <3>2, <3>3 DEF At
  <2>5. HealTells(req[p])'
    BY <2>3, <2>4 DEF HealTells, Restarting
  <2> QED BY <1>d, <1>i, <2>1, <2>5
<1>11. CASE UnreadyCard(p)
  <2>1. Goto(p, "place") /\ At(p, "unready") /\ ready' = Unready(n)
        /\ UNCHANGED <<opened, column>>
    BY <1>11 DEF UnreadyCard
  <2>2. req'[p] = [r EXCEPT !.at = "place"]
    BY <1>0, <2>1 DEF Goto
  <2>3. /\ req'[p].n = n /\ req'[p].c = r.c /\ req'[p].column = r.column
        /\ req'[p].at = "place"
    BY <1>0, <2>2 DEF Requests
  <2>4. HealTells(req[p])'
    BY <1>2, <2>1, <2>3 DEF HealTells, Restarting, At, Unready
  <2> QED BY <1>d, <1>i, <2>1, <2>4
<1>12. CASE Place(p)
  <2>1. Goto(p, "need") /\ At(p, "place") /\ column' = [column EXCEPT ![n] = r.c]
        /\ UNCHANGED <<opened, ready>>
    BY <1>12 DEF Place
  <2>2. req'[p] = [r EXCEPT !.at = "need"]
    BY <1>0, <2>1 DEF Goto
  <2>3. /\ req'[p].n = n /\ req'[p].c = r.c /\ req'[p].column = r.column
        /\ req'[p].at = "need"
    BY <1>0, <2>2 DEF Requests
  <2>4. column'[n] = r.c
    BY <1>0, <1>1, <2>1
  <2>5. HealTells(req[p])'
    BY <1>2, <2>1, <2>3, <2>4 DEF HealTells, Restarting, At
  <2> QED BY <1>d, <1>i, <2>1, <2>5
<1>13. CASE FindCard(p)
  <2> DEFINE t == [r EXCEPT !.at = "look", !.list = order[r.c]]
  <2>1. req' = [req EXCEPT ![p] = t] /\ UNCHANGED <<opened, column, ready>>
    BY <1>0, <1>13 DEF FindCard
  <2>2. t.n = n /\ t.c = r.c /\ t.column = r.column /\ t.at = "look"
    BY <1>0 DEF Requests
  <2> HIDE DEF t
  <2>3. HealTells(req[p])'
    BY <1>3, <2>1, <2>2 DEF Restarting
  <2>4. req'[p] # Idle
    BY <1>0, <2>1, <2>2 DEF Idle
  <2> QED BY <1>d, <2>3, <2>4
<1>14. CASE Look(p)
  <2> DEFINE l == AfterLook(r)
             f == n \in ready
             t == [r EXCEPT !.at = l, !.column = column[n], !.flag = f]
  <2>1. l = IF column[n] # r.c THEN "finish" ELSE "need"
    BY DEF AfterLook
  <2>2. req' = [req EXCEPT ![p] = t] /\ UNCHANGED <<opened, column, ready>>
    BY <1>14, <2>1 DEF Look
  <2> HIDE DEF l, f
  <2>3. t.n = n /\ t.c = r.c /\ t.column = column[n] /\ t.at = l
    BY <1>0 DEF Requests
  <2>4. req'[p] = t
    BY <1>0, <2>2
  <2> HIDE DEF t
  <2>5. HealTells(req[p])'
    BY <2>1, <2>3, <2>4 DEF HealTells, Restarting
  <2>6. req'[p] # Idle
    BY <2>1, <2>3, <2>4 DEF Idle
  <2> QED BY <1>d, <2>5, <2>6
<1>15. CASE Ask(p)
  <2>1. PICK same \in BOOLEAN :
            req' = [req EXCEPT ![p].at = "patch", ![p].flag = same]
    BY <1>15 DEF Ask
  <2> DEFINE t == [r EXCEPT !.at = "patch", !.flag = same]
  <2>2. req' = [req EXCEPT ![p] = t]
    BY <1>0, <2>1
  <2>3. t.n = n /\ t.c = r.c /\ t.column = r.column /\ t.at = "patch"
    BY <1>0 DEF Requests
  <2> HIDE DEF t
  <2>4. At(p, "ask") /\ UNCHANGED <<opened, column, ready>>
    BY <1>15, <1>u DEF Ask
  <2>5. HealTells(req[p])'
    BY <1>3, <1>r, <2>2, <2>3, <2>4 DEF At
  <2>6. req'[p] # Idle
    BY <1>0, <2>2, <2>3 DEF Idle
  <2> QED BY <1>d, <2>5, <2>6
<1>16. CASE CloseIssue(p)
  <2> DEFINE t == [r EXCEPT !.at = "stamp", !.seen[n] = closings'[n]]
  <2>1. req' = [req EXCEPT ![p] = t]
    BY <1>0, <1>16 DEF CloseIssue
  <2>2. t.n = n /\ t.c = r.c /\ t.column = r.column /\ t.at = "stamp"
    BY <1>0 DEF Requests
  <2> HIDE DEF t
  <2>3. At(p, "close") /\ UNCHANGED <<opened, column, ready>>
    BY <1>16 DEF CloseIssue, statVars
  <2>4. HealTells(req[p])'
    BY <1>3, <1>r, <2>1, <2>2, <2>3 DEF At
  <2>5. req'[p] # Idle
    BY <1>0, <2>1, <2>2 DEF Idle
  <2> QED BY <1>d, <2>4, <2>5
\* The last statement.
<1>17. CASE Sort(p)
  <2>1. At(p, "sort") /\ Done(p) /\ UNCHANGED <<opened, column, ready>>
    BY <1>17 DEF Sort, statVars
  <2>2. req'[p] = Idle
    BY <1>0, <2>1 DEF Done
  <2> QED BY <1>2, <1>r, <2>1, <2>2 DEF At, Goal
<1> QED
  <2>1. r.at \in {"find", "need", "ask", "patch", "sort", "start", "look",
                  "finish", "unready", "place", "state", "close", "stamp"}
    BY <1>0 DEF LabelTells, Jobs, Requests, Labels
  <2>2. ~NextGone(p)
    BY <2>1, Zenon DEF NextGone, At
  <2>3. ~Fetch(p) /\ ~InsertRows(p) /\ ~UpdateRows(p) /\ ~Query(p) /\ ~Sweep(p)
    BY <2>1 DEF Fetch, InsertRows, UpdateRows, Query, Sweep, At
  <2>4. /\ ~ReopenIssue(p) /\ ~Enqueue(p) /\ ~Check(p) /\ ~Stat(p)
        /\ ~Shelve(p) /\ ~Restore(p) /\ ~Toggle(p) /\ ~CreateIssue(p)
        /\ ~Insert(p)
    BY <2>1 DEF ReopenIssue, Enqueue, Check, Stat, Shelve, Restore, Toggle,
                CreateIssue, Insert, At
  <2> QED
    BY <1>5, <1>6, <1>7, <1>8, <1>9, <1>10, <1>11, <1>12, <1>13, <1>14, <1>15,
       <1>16, <1>17, <2>2, <2>3, <2>4 DEF Continue

\* A step of a process that does not work for the move leaves it alone.
LEMMA MoveUntouched ==
    ASSUME RequestInv, LoneMoveInv, NEW p \in lone, req[p].kind = "move",
           opened'[req[p].n] = opened[req[p].n],
           column'[req[p].n] = column[req[p].n],
           req[p].n \notin ready => req[p].n \notin ready',
           req'[p] = req[p]
    PROVE  HealTells(req[p])'
BY DEF LoneMoveInv, HealTells

\* No issue ever disappears from GitHub.
LEMMA GithubKeeps ==
    ASSUME RequestInv, ReqNext, NEW n \in Numbers, OnGithub(n)
    PROVE  OnGithub(n)'
<1>0. ghState \in [Numbers -> {"absent", "open", "closed"}]
  BY DEF RequestInv, ReqTypeOK, TypeOK
<1> USE DEF OnGithub
<1>1. CASE UNCHANGED ghState
  BY <1>1
<1>2. ASSUME NEW p \in Procs, Continue(p) PROVE OnGithub(n)'
  <2>1. CASE CloseIssue(p) \/ ReopenIssue(p) \/ CreateIssue(p)
    BY <1>0, <2>1 DEF CloseIssue, CloseOnGithub, ReopenIssue, ReopenOnGithub,
                      CreateIssue
  <2>2. CASE UNCHANGED ghVars
    BY <1>1, <2>2 DEF ghVars
  <2>3. CASE UNCHANGED vars
    BY <2>2, <2>3 DEF vars
  <2>4. CASE Patch(p)
    BY <1>1, <2>4 DEF Patch
  <2>5. CASE NextGone(p)
    <3>1. UNCHANGED vars
      BY <2>5, Zenon DEF NextGone
    <3> QED BY <2>3, <3>1
  <2>6. CASE FindCard(p) \/ Look(p) \/ Finish(p) \/ Start(p) \/ UnreadyCard(p)
             \/ Place(p) \/ Stamp(p) \/ Enqueue(p) \/ Sort(p) \/ Stat(p)
    BY <2>2, <2>6 DEF FindCard, Look, Finish, Start, UnreadyCard, Place, Stamp,
                      Enqueue, Sort, Stat
  <2>7. CASE Shelve(p) \/ Restore(p) \/ Toggle(p) \/ Insert(p) \/ InsertRows(p)
             \/ UpdateRows(p) \/ Sweep(p)
    BY <2>2, <2>7 DEF Shelve, Restore, Toggle, Insert, InsertRows, UpdateRows,
                      Sweep
  <2>8. CASE Fetch(p)
    BY <2>3, <2>8 DEF Fetch
  <2> QED BY <1>2, <2>1, <2>3, <2>4, <2>5, <2>6, <2>7, <2>8
             DEF Continue, NeedAssignee, Ask, AskState, Check, Query
<1>3. ASSUME NEW p \in Procs, Begin(p) PROVE OnGithub(n)'
  BY <1>1, <1>3, BeginFrame
<1>4. ASSUME NEW p \in Procs, Crash(p) PROVE OnGithub(n)'
  BY <1>1, <1>4 DEF Crash, ghVars
<1>5. ASSUME Environment PROVE OnGithub(n)'
  BY <1>0, <1>5
     DEF Environment, Update, External, GithubCreate, GithubClose, GithubReopen,
         GithubAge, SortColumn, BoardRead, CloseOnGithub, ReopenOnGithub, ghVars
<1> QED BY <1>2, <1>3, <1>4, <1>5 DEF ReqNext

\* What is known of a lone move stays so, whatever the others do.
LEMMA NextLoneMove ==
    ASSUME RequestInv, LoneMoveInv, [ReqNext]_allVars
    PROVE  LoneMoveInv'
<1>0. /\ req \in [Procs -> Requests] /\ lone \subseteq Procs
      /\ \A p \in lone : req[p] # Idle
      /\ \A p \in Procs : LabelTells(req[p]) /\ NumberTells(req[p])
      /\ 0 \notin Numbers
  BY NumbersAssumption DEF RequestInv, ReqTypeOK, NumbersAssumption
<1>m. ASSUME NEW p \in Procs, req[p].kind = "move" PROVE req[p].n \in Numbers
  <2>1. req[p] \in Requests
    BY <1>0
  <2>2. req[p].at \in {"find", "need", "ask", "patch", "sort", "start", "look",
                       "finish", "unready", "place", "state", "close", "stamp"}
    BY <1>0, <1>m, <2>1 DEF LabelTells, Jobs, Requests, Labels
  <2> QED BY <1>0, <2>2 DEF NumberTells, Numberless
<1>1. CASE UNCHANGED allVars
  BY <1>1 DEF LoneMoveInv, HealTells, OnGithub, allVars, reqVars, vars, ghVars,
              statVars
<1>2. ASSUME NEW p \in Procs, Begin(p) PROVE LoneMoveInv'
  <2>1. /\ \A q \in Procs \ {p} : req'[q] = req[q]
        /\ req[p] = Idle
        /\ \A q \in lone' \ {p} : /\ q \in lone
                                  /\ ~OnCard(req[q], req'[p].n)
                                  /\ req'[p].kind \in Jobs => req[q] = Idle
        /\ p \in lone' => \A q \in Procs : ~OnCard(req[q], req'[p].n)
        /\ req'[p].kind = "move" => req'[p].at = "find" /\ OnGithub(req'[p].n)
        /\ UNCHANGED <<ghState, tracked, column, archived, ready, opened>>
    BY <1>2, BeginFrame
  <2>2. RequestInv'
    BY <1>2, TypeBegin
  <2>3. ASSUME NEW q \in lone', q # p, req'[q].kind = "move"
        PROVE  /\ OnGithub(req[q].n)'
               /\ \A o \in Procs \ {q} :
                      req'[o].n # req'[q].n /\ req'[o].kind \notin Jobs
               /\ HealTells(req[q])'
    <3>1. /\ q \in lone /\ q \in Procs /\ req'[q] = req[q]
          /\ ~OnCard(req[q], req'[p].n) /\ req[q] # Idle
          /\ req'[p].kind \notin Jobs
      BY <1>0, <2>1, <2>3
    <3>2. req[q].n # req'[p].n
      BY <2>3, <3>1 DEF OnCard
    <3>3. /\ OnGithub(req[q].n)
          /\ \A o \in Procs \ {q} : req[o].n # req[q].n /\ req[o].kind \notin Jobs
      BY <2>3, <3>1 DEF LoneMoveInv
    <3>4. HealTells(req[q])'
      BY <2>1, <2>3, <3>1, MoveUntouched
    <3> QED BY <2>1, <3>1, <3>2, <3>3, <3>4 DEF OnGithub
  <2>4. ASSUME p \in lone', req'[p].kind = "move"
        PROVE  /\ OnGithub(req[p].n)'
               /\ \A o \in Procs \ {p} :
                      req'[o].n # req'[p].n /\ req'[o].kind \notin Jobs
               /\ HealTells(req[p])'
    <3>1. OnGithub(req[p].n)' /\ HealTells(req[p])'
      BY <2>1, <2>4 DEF OnGithub, HealTells, Restarting
    <3>2. req'[p].n \in Numbers
      BY <2>1, <2>2, <2>4 DEF RequestInv, NumberTells, Numberless
    <3>3. ASSUME NEW o \in Procs \ {p}
          PROVE  req'[o].n # req'[p].n /\ req'[o].kind \notin Jobs
      <4>1. ~OnCard(req[o], req'[p].n) /\ req'[o] = req[o]
        BY <2>1, <2>4
      <4>2. req[o].kind # "none" \/ req[o].n = 0
        BY <1>0 DEF LabelTells, Idle
      <4> QED BY <1>0, <3>2, <4>1, <4>2 DEF OnCard, Jobs
    <3> QED BY <3>1, <3>3
  <2> QED BY <2>3, <2>4 DEF LoneMoveInv
<1>3. ASSUME NEW p \in Procs, Continue(p) PROVE LoneMoveInv'
  <2>1. /\ \A q \in Procs \ {p} : req'[q] = req[q]
        /\ \/ req'[p] = Idle
           \/ /\ req'[p].kind = req[p].kind /\ req'[p].c = req[p].c
              /\ req'[p].n = req[p].n \/ At(p, "create") \/ At(p, "next")
        /\ lone' = {q \in lone : req'[q] # Idle}
    BY <1>3, ContinueFrame
  <2>2. ASSUME NEW q \in lone', req'[q].kind = "move", q # p
        PROVE  /\ OnGithub(req[q].n)'
               /\ \A o \in Procs \ {q} :
                      req'[o].n # req'[q].n /\ req'[o].kind \notin Jobs
               /\ HealTells(req[q])'
    <3>1. /\ q \in lone /\ q \in Procs /\ req'[q] = req[q]
      BY <1>0, <2>1, <2>2
    <3>2. /\ OnGithub(req[q].n)
          /\ \A o \in Procs \ {q} : req[o].n # req[q].n /\ req[o].kind \notin Jobs
      BY <2>2, <3>1 DEF LoneMoveInv
    <3>3. req[q].n \in Numbers
      BY <1>m, <2>2, <3>1
    <3>4. /\ opened'[req[q].n] = opened[req[q].n]
          /\ column'[req[q].n] = column[req[q].n]
          /\ req[q].n \notin ready => req[q].n \notin ready'
          /\ req'[p].n # req[q].n /\ req'[p].kind \notin Jobs
      BY <1>3, <2>2, <3>1, <3>2, <3>3, ContinueElsewhere
    <3>5. HealTells(req[q])'
      BY <2>2, <3>1, <3>4, MoveUntouched
    <3>6. OnGithub(req[q].n)'
      BY <1>3, <3>1, <3>2, <3>3, GithubKeeps DEF ReqNext, OnGithub
    <3> QED BY <2>1, <3>1, <3>2, <3>4, <3>5, <3>6
  <2>3. ASSUME p \in lone', req'[p].kind = "move"
        PROVE  /\ OnGithub(req[p].n)'
               /\ \A o \in Procs \ {p} :
                      req'[o].n # req'[p].n /\ req'[o].kind \notin Jobs
               /\ HealTells(req[p])'
    <3>1. /\ p \in lone /\ req'[p] # Idle /\ req[p].kind = "move"
      BY <2>1, <2>3
    <3>2. ~At(p, "create") /\ ~At(p, "next")
      BY <1>0, <3>1 DEF At, LabelTells
    <3>3. req'[p].n = req[p].n
      BY <2>1, <3>1, <3>2
    <3>4. /\ OnGithub(req[p].n) /\ HealTells(req[p])
          /\ \A o \in Procs \ {p} : req[o].n # req[p].n /\ req[o].kind \notin Jobs
      BY <3>1 DEF LoneMoveInv
    <3>5. HealTells(req[p])'
      BY <1>3, <3>1, <3>4, MoveHeals
    <3>6. OnGithub(req[p].n)'
      BY <1>3, <1>m, <3>1, <3>3, <3>4, GithubKeeps DEF ReqNext, OnGithub
    <3> QED BY <2>1, <3>3, <3>4, <3>5, <3>6
  <2> QED BY <2>2, <2>3 DEF LoneMoveInv
<1>4. ASSUME NEW p \in Procs, Crash(p) PROVE LoneMoveInv'
  <2>1. /\ req' = [req EXCEPT ![p] = Idle] /\ lone' = lone \ {p}
        /\ UNCHANGED <<ghVars, statVars, opened>>
    BY <1>4 DEF Crash, Done
  <2>2. ASSUME NEW q \in lone', req'[q].kind = "move"
        PROVE  /\ OnGithub(req[q].n)'
               /\ \A o \in Procs \ {q} :
                      req'[o].n # req'[q].n /\ req'[o].kind \notin Jobs
               /\ HealTells(req[q])'
    <3>1. q \in lone /\ q # p /\ req'[q] = req[q] /\ q \in Procs
      BY <1>0, <2>1
    <3>2. /\ OnGithub(req[q].n)
          /\ \A o \in Procs \ {q} : req[o].n # req[q].n /\ req[o].kind \notin Jobs
      BY <2>2, <3>1 DEF LoneMoveInv
    <3>3. req[q].n \in Numbers
      BY <1>m, <2>2, <3>1
    <3>4. \A o \in Procs : req'[o] = req[o] \/ req'[o] = Idle
      BY <1>0, <2>1
    <3>5. Idle.n = 0 /\ Idle.kind \notin Jobs
      BY DEF Idle, Jobs
    <3>6. HealTells(req[q])'
      BY <2>1, <2>2, <3>1, MoveUntouched DEF statVars
    <3>7. OnGithub(req[q].n)'
      BY <2>1, <3>1, <3>2 DEF OnGithub, ghVars
    <3>8. \A o \in Procs \ {q} : req'[o].n # req'[q].n /\ req'[o].kind \notin Jobs
      BY <1>0, <3>1, <3>2, <3>3, <3>4, <3>5
    <3> QED BY <3>6, <3>7, <3>8
  <2> QED BY <2>2 DEF LoneMoveInv
<1>5. ASSUME Environment PROVE LoneMoveInv'
  <2>1. UNCHANGED <<req, lone, column, ready, opened>>
    BY <1>5 DEF Environment, reqVars, Update, External, GithubCreate, GithubClose,
         GithubReopen, GithubAge, SortColumn, BoardRead, statVars
  <2>2. ASSUME NEW q \in lone', req'[q].kind = "move"
        PROVE  /\ OnGithub(req[q].n)'
               /\ \A o \in Procs \ {q} :
                      req'[o].n # req'[q].n /\ req'[o].kind \notin Jobs
               /\ HealTells(req[q])'
    <3>1. q \in lone /\ q \in Procs /\ req[q].kind = "move" /\ req' = req
      BY <1>0, <2>1, <2>2
    <3>2. /\ OnGithub(req[q].n)
          /\ \A o \in Procs \ {q} : req[o].n # req[q].n /\ req[o].kind \notin Jobs
      BY <3>1 DEF LoneMoveInv
    <3>3. OnGithub(req[q].n)'
      BY <1>5, <1>m, <3>1, <3>2, GithubKeeps DEF ReqNext, OnGithub
    <3>4. HealTells(req[q])'
      BY <2>1, <3>1, MoveUntouched
    <3> QED BY <3>1, <3>2, <3>3, <3>4
  <2> QED BY <2>2 DEF LoneMoveInv
<1> QED BY <1>1, <1>2, <1>3, <1>4, <1>5 DEF ReqNext

\* A move to another column that no request on the same card and no job
\* overlaps sets right what races and crashes have left of the card.
THEOREM LoneMovesHeal == ReqSpec => LoneMoveHeals
<1> DEFINE Heals ==
        \A p \in lone :
            LET r == req[p] IN
            r.kind = "move" /\ r.column # r.c /\ req'[p] = Idle
                /\ crashes' = crashes
            => /\ column'[r.n] = r.c
               /\ opened'[r.n] = <<r.c>>
               /\ r.n \notin ready'
<1>1. ReqInit => LoneMoveInv
  BY DEF ReqInit, LoneMoveInv
<1>2. RequestInv /\ LoneMoveInv /\ [ReqNext]_allVars => LoneMoveInv'
  BY NextLoneMove
<1>3. RequestInv /\ LoneMoveInv /\ [ReqNext]_allVars => [Heals]_allVars
  <2> SUFFICES ASSUME RequestInv, LoneMoveInv, ReqNext, NEW p \in lone,
                      req[p].kind = "move", req[p].column # req[p].c,
                      req'[p] = Idle, crashes' = crashes
               PROVE  /\ column'[req[p].n] = req[p].c
                      /\ opened'[req[p].n] = <<req[p].c>>
                      /\ req[p].n \notin ready'
    OBVIOUS
  <2>0. /\ p \in Procs /\ req[p] # Idle /\ HealTells(req[p])
    BY DEF RequestInv, ReqTypeOK, LoneMoveInv
  <2>1. ASSUME NEW q \in Procs, Begin(q) PROVE FALSE
    <3>1. CASE p = q
      BY <2>0, <2>1, <3>1, BeginFrame
    <3>2. CASE p # q
      <4>1. req'[p] = req[p]
        BY <2>0, <2>1, <3>2, BeginFrame
      <4> QED BY <2>0, <4>1
    <3> QED BY <3>1, <3>2
  <2>2. ASSUME NEW q \in Procs, Crash(q) PROVE FALSE
    <3>1. crashes' = crashes + 1 /\ crashes \in 0..MaxCrashes
      BY <2>2 DEF Crash, RequestInv, ReqTypeOK
    <3> QED BY <3>1, ProcsAssumption DEF ProcsAssumption
  <2>3. ASSUME Environment PROVE FALSE
    BY <2>0, <2>3 DEF Environment, reqVars
  <2>4. ASSUME NEW q \in Procs, Continue(q) PROVE q = p
    BY <2>0, <2>4, ContinueFrame
  <2> QED BY <2>0, <2>1, <2>2, <2>3, <2>4, MoveHeals DEF ReqNext
<1> HIDE DEF Heals
<1>4. LoneMoveHeals <=> [][Heals]_allVars
  BY DEF LoneMoveHeals, Heals
<1> QED BY <1>1, <1>2, <1>3, <1>4, InitRequestInv, NextRequestInv, PTL DEF ReqSpec

-----------------------------------------------------------------------------
(***************************************************************************)
(* closed_at, when everything has come to rest.                            *)
(***************************************************************************)

\* A request that has closed or reopened the issue, and has not yet enqueued
\* the job.
Stamping(n) == \E p \in Procs : /\ req[p].kind \in ControlCharted
                                /\ req[p].n = n /\ req[p].at = "stamp"
Pending(n)  == \E p \in Procs : /\ req[p].kind \in ControlCharted
                                /\ req[p].n = n /\ req[p].at \in {"stamp", "enqueue"}

\* An IssueStatsWorker that will write what GitHub says now.
WillWrite(r, n) ==
    /\ r.kind = "sync_stats"
    /\ \/ r.at = "fetch"
       \/ r.at = "insert_rows" /\ r.seen[n] = GhClosedAt(n)
       \/ r.at = "update_rows" /\ r.seen[n] = GhClosedAt(n) /\ n \in r.todo

\* Every disagreement that is not drift is about to be repaired, and a closed
\* issue that grows old agrees.
AgreementInv ==
    \A n \in tracked \ drifted :
        (ghState[n] = "open" \/ n \notin Old) /\ closedAt[n] # GhClosedAt(n)
        => /\ n \notin aged
           /\ statsJob \/ Pending(n) \/ \E p \in Procs : WillWrite(req[p], n)

\* A row that is still to be made has closed_at nil, and so has GitHub.
NoRowInv ==
    \A n \in Numbers \ tracked :
        /\ closedAt[n] = 0
        /\ n \in Old \cup drifted \/ GhClosedAt(n) = 0 \/ Stamping(n)

GithubInv ==
    /\ \A n \in aged : ghState[n] = "closed"
    /\ \A n \in tracked : OnGithub(n)

\* What a request is about to write agrees with GitHub, or another one comes
\* after it.
WritesTell(r) ==
    /\ r.kind = "move" => r.at \notin {"close", "stamp"}
    /\ r.at \notin Numberless => OnGithub(r.n)
    /\ r.at = "insert" => r.n \notin Old /\ r.n \notin aged
    /\ r.at = "stamp" /\ r.n \in aged => r.seen[r.n] = GhClosedAt(r.n)
    /\ r.at \in {"insert_rows", "update_rows"} =>
           \A m \in Numbers : r.seen[m] # -1 =>
               /\ OnGithub(m) /\ m \notin aged
               /\ \/ r.seen[m] = GhClosedAt(m)
                  \/ m \in drifted
                  \/ statsJob
                  \/ Pending(m)

OneJob == \A p, q \in Procs : req[p].kind \in Jobs /\ req[q].kind \in Jobs => p = q

ClosedAtInv ==
    /\ AgreementInv
    /\ NoRowInv
    /\ GithubInv
    /\ \A p \in Procs : WritesTell(req[p])
    /\ OneJob

\* What another process has promised, it still promises after a step of p; p
\* itself keeps what it has not come to.
LEMMA PromisesKept ==
    ASSUME NEW p \in Procs, \A q \in Procs \ {p} : req'[q] = req[q],
           NEW n \in Numbers
    PROVE  /\ Stamping(n) => Stamping(n)' \/ (req[p].at = "stamp" /\ req[p].n = n)
           /\ Pending(n) => \/ Pending(n)'
                            \/ req[p].at \in {"stamp", "enqueue"} /\ req[p].n = n
           /\ \A q \in Procs :
                  WillWrite(req[q], n) /\ GhClosedAt(n)' = GhClosedAt(n)
                  => WillWrite(req[q], n)' \/ (q = p /\ WillWrite(req[p], n))
<1>1. Stamping(n) => Stamping(n)' \/ (req[p].at = "stamp" /\ req[p].n = n)
  BY DEF Stamping
<1>2. Pending(n) => \/ Pending(n)'
                    \/ req[p].at \in {"stamp", "enqueue"} /\ req[p].n = n
  BY DEF Pending
<1>3. ASSUME NEW q \in Procs, WillWrite(req[q], n), GhClosedAt(n)' = GhClosedAt(n)
      PROVE  WillWrite(req[q], n)' \/ (q = p /\ WillWrite(req[p], n))
  <2>1. CASE q = p
    BY <1>3, <2>1
  <2>2. CASE q # p
    BY <1>3, <2>2 DEF WillWrite
  <2> QED BY <2>1, <2>2
<1> QED BY <1>1, <1>2, <1>3

\* What is about to be written, and by whom.
Elsewhere == Labels \ {"stamp", "enqueue", "fetch", "insert_rows", "update_rows"}

\* A step that writes neither closed_at nor a row keeps what is promised.
LEMMA NothingWritten ==
    ASSUME RequestInv, ClosedAtInv, NEW p \in Procs,
           \A q \in Procs \ {p} : req'[q] = req[q],
           req[p].at \in Elsewhere, WritesTell(req[p])',
           req'[p].kind \in Jobs => req[p].kind \in Jobs,
           UNCHANGED <<ghState, closings, tracked, closedAt, drifted, statsJob>>,
           aged' \subseteq aged
    PROVE  ClosedAtInv'
<1>0. \A n : GhClosedAt(n)' = GhClosedAt(n) /\ (OnGithub(n)' <=> OnGithub(n))
  BY DEF GhClosedAt, OnGithub
<1>1. ASSUME NEW n \in Numbers
      PROVE  /\ Stamping(n) => Stamping(n)'
             /\ Pending(n) => Pending(n)'
             /\ \A q \in Procs : WillWrite(req[q], n) => WillWrite(req[q], n)'
  BY <1>0, PromisesKept DEF Elsewhere, WillWrite
<1>2. AgreementInv'
  BY <1>0, <1>1 DEF ClosedAtInv, AgreementInv, RequestInv, ReqTypeOK, TypeOK
<1>3. NoRowInv'
  BY <1>0, <1>1 DEF ClosedAtInv, NoRowInv
<1>4. GithubInv'
  BY <1>0 DEF ClosedAtInv, GithubInv
<1>5. ASSUME NEW q \in Procs PROVE WritesTell(req[q])'
  <2>1. CASE q = p
    BY <2>1
  <2>2. CASE q # p
    BY <1>0, <1>1, <2>2 DEF ClosedAtInv, WritesTell
  <2> QED BY <2>1, <2>2
<1>6. OneJob'
  BY DEF ClosedAtInv, OneJob
<1> QED BY <1>2, <1>3, <1>4, <1>5, <1>6 DEF ClosedAtInv

\* A row that is found agrees already, and one that is made agrees.
LEMMA FoundRowAgrees ==
    ASSUME RequestInv, ClosedAtInv, NEW p \in Procs,
           \A q \in Procs \ {p} : req'[q] = req[q],
           req[p].at \in {"find", "look", "stat"}, FindRow(req[p].n),
           req'[p].at \in Elsewhere, WritesTell(req[p])',
           req'[p].kind \in Jobs => req[p].kind \in Jobs,
           UNCHANGED <<ghVars, statsJob>>
    PROVE  ClosedAtInv'
<1> DEFINE m == req[p].n
<1>0. /\ \A n : GhClosedAt(n)' = GhClosedAt(n) /\ (OnGithub(n)' <=> OnGithub(n))
      /\ UNCHANGED <<ghState, closings, aged>>
  BY DEF GhClosedAt, OnGithub, ghVars
<1>1. ASSUME NEW n \in Numbers
      PROVE  /\ Stamping(n) => Stamping(n)'
             /\ Pending(n) => Pending(n)'
             /\ \A q \in Procs : WillWrite(req[q], n) => WillWrite(req[q], n)'
  BY <1>0, PromisesKept DEF WillWrite
<1>2. m \in Numbers /\ OnGithub(m)
  BY DEF RequestInv, NumberTells, Numberless, ClosedAtInv, WritesTell
<1>3. /\ tracked' = tracked \cup {m}
      /\ \A n \in Numbers : n # m \/ n \in tracked => closedAt'[n] = closedAt[n]
      /\ m \notin tracked => closedAt'[m] = GhClosedAt(m)
      /\ \A n : n # m \/ n \in tracked => (n \in drifted' <=> n \in drifted)
      /\ (\E q \in Procs : HasFetched(q)) => drifted' = drifted
  BY <1>2 DEF FindRow, Find, FoundClosedAt, FoundDrift, RequestInv, ReqTypeOK, TypeOK
<1>4. AgreementInv'
  BY <1>0, <1>1, <1>3 DEF ClosedAtInv, AgreementInv, RequestInv, ReqTypeOK, TypeOK
<1>5. NoRowInv'
  BY <1>0, <1>1, <1>3 DEF ClosedAtInv, NoRowInv
<1>6. GithubInv'
  BY <1>0, <1>2, <1>3 DEF ClosedAtInv, GithubInv
<1>7. ASSUME NEW q \in Procs PROVE WritesTell(req[q])'
  <2>1. CASE q = p
    BY <2>1
  <2>2. CASE q # p
    BY <1>0, <1>1, <1>3, <2>2 DEF ClosedAtInv, WritesTell, HasFetched
  <2> QED BY <2>1, <2>2
<1>8. OneJob'
  BY DEF ClosedAtInv, OneJob
<1> QED BY <1>4, <1>5, <1>6, <1>7, <1>8 DEF ClosedAtInv

\* The row takes closed_at from GitHub's answer, and the job is still to be
\* enqueued.
LEMMA StampAgrees ==
    ASSUME RequestInv, ClosedAtInv, NEW p \in Procs, Stamp(p)
    PROVE  ClosedAtInv'
<1>r. PICK r \in Requests : r = req[p]
  BY DEF RequestInv
<1>0. /\ \A n : GhClosedAt(n)' = GhClosedAt(n) /\ (OnGithub(n)' <=> OnGithub(n))
      /\ UNCHANGED <<ghState, closings, aged, statsJob>>
  BY DEF GhClosedAt, OnGithub, ghVars, Stamp
<1>1. r.at = "stamp" /\ r.kind \in {"close", "reopen"}
  BY <1>r DEF RequestInv, LabelTells, ClosedAtInv, WritesTell, Stamp, At
<1>2. PICK m \in Numbers : m = r.n /\ OnGithub(m) /\ (m \in aged => r.seen[m] = GhClosedAt(m))
  BY <1>1, <1>r DEF RequestInv, NumberTells, Numberless, ClosedAtInv, WritesTell
<1>3. req' = [req EXCEPT ![p].at = "enqueue"] /\ req \in [Procs -> Requests]
  BY <1>1, <1>r DEF Stamp, Goto, RequestInv
<1>4. /\ \A q \in Procs \ {p} : req'[q] = req[q]
      /\ req'[p].at = "enqueue" /\ req'[p].kind = r.kind /\ req'[p].n = m
  BY <1>2, <1>3, <1>r DEF Requests
<1>5. Pending(m)'
  BY <1>1, <1>4 DEF Pending, ControlCharted
<1>6. ASSUME NEW n \in Numbers
      PROVE  /\ n # m => (Stamping(n) => Stamping(n)')
             /\ Pending(n) => Pending(n)'
             /\ \A q \in Procs : WillWrite(req[q], n) => WillWrite(req[q], n)'
  BY <1>0, <1>1, <1>2, <1>4, <1>5, <1>r, PromisesKept DEF WillWrite
<1>7. /\ tracked' = tracked \cup {m}
      /\ \A n \in Numbers : n # m => closedAt'[n] = closedAt[n]
      /\ closedAt'[m] = r.seen[m]
      /\ \A n : n # m => (n \in drifted' <=> n \in drifted)
      /\ drifted' \subseteq drifted
      /\ m \notin drifted' => m \notin drifted \/ r.seen[m] = GhClosedAt(m)
  BY <1>2, <1>r DEF Stamp, Find, RequestInv, ReqTypeOK, TypeOK
<1>8. AgreementInv'
  <2> SUFFICES ASSUME NEW n \in (tracked \ drifted)',
                      (ghState[n] = "open" \/ n \notin Old)', (closedAt[n] # GhClosedAt(n))'
               PROVE  (/\ n \notin aged
                       /\ statsJob \/ Pending(n) \/ \E q \in Procs : WillWrite(req[q], n))'
    BY DEF AgreementInv
  <2>1. CASE n = m
    BY <1>0, <1>2, <1>5, <1>7, <2>1
  <2>2. CASE n # m
    <3>1. n \in tracked \ drifted /\ n \in Numbers /\ closedAt[n] # GhClosedAt(n)
      BY <1>0, <1>7, <2>2 DEF RequestInv, ReqTypeOK, TypeOK
    <3> QED BY <1>0, <1>6, <3>1 DEF ClosedAtInv, AgreementInv
  <2> QED BY <2>1, <2>2
<1>9. NoRowInv'
  BY <1>0, <1>6, <1>7 DEF ClosedAtInv, NoRowInv
<1>10. GithubInv'
  BY <1>0, <1>2, <1>7 DEF ClosedAtInv, GithubInv
<1>11. ASSUME NEW q \in Procs PROVE WritesTell(req[q])'
  <2>1. CASE q = p
    BY <1>0, <1>2, <1>4, <2>1 DEF WritesTell
  <2>2. CASE q # p
    BY <1>0, <1>4, <1>5, <1>6, <1>7, <2>2 DEF ClosedAtInv, WritesTell
  <2> QED BY <2>1, <2>2
<1>12. OneJob'
  BY <1>1, <1>4 DEF ClosedAtInv, OneJob, Jobs
<1> QED BY <1>8, <1>9, <1>10, <1>11, <1>12 DEF ClosedAtInv

\* The job that will have the final word is in the queue.
LEMMA EnqueueAgrees ==
    ASSUME RequestInv, ClosedAtInv, NEW p \in Procs, Enqueue(p)
    PROVE  ClosedAtInv'
<1>0. /\ \A n : GhClosedAt(n)' = GhClosedAt(n) /\ (OnGithub(n)' <=> OnGithub(n))
      /\ UNCHANGED <<ghState, closings, aged, tracked, closedAt, drifted>>
  BY DEF GhClosedAt, OnGithub, ghVars, statVars, Enqueue
<1>1. req[p].at = "enqueue" /\ req[p].kind \in {"close", "reopen"}
  BY DEF RequestInv, LabelTells, Enqueue, At
<1>2. req' = [req EXCEPT ![p] = Idle] /\ req \in [Procs -> Requests]
  BY DEF Enqueue, Done, RequestInv
<1>3. /\ \A q \in Procs \ {p} : req'[q] = req[q]
      /\ req'[p] = Idle
  BY <1>2
<1>4. statsJob'
  BY <1>1 DEF Enqueue, ControlCharted
<1>5. AgreementInv'
  BY <1>0, <1>4 DEF ClosedAtInv, AgreementInv
<1>6. NoRowInv'
  BY <1>0, <1>1, <1>3, PromisesKept DEF ClosedAtInv, NoRowInv
<1>7. GithubInv'
  BY <1>0 DEF ClosedAtInv, GithubInv
<1>8. ASSUME NEW q \in Procs PROVE WritesTell(req[q])'
  <2>1. CASE q = p
    BY <1>3, <2>1 DEF WritesTell, Idle, Numberless
  <2>2. CASE q # p
    BY <1>0, <1>3, <1>4, <2>2 DEF ClosedAtInv, WritesTell
  <2> QED BY <2>1, <2>2
<1>9. OneJob'
  BY <1>3 DEF ClosedAtInv, OneJob, Idle, Jobs
<1> QED BY <1>5, <1>6, <1>7, <1>8, <1>9 DEF ClosedAtInv

\* A request changes the issue on GitHub, and is about to write what it was
\* told.
LEMMA GithubAnswers ==
    ASSUME RequestInv, ClosedAtInv, NEW p \in Procs, CloseIssue(p) \/ ReopenIssue(p)
    PROVE  ClosedAtInv'
<1>r. PICK r \in Requests : r = req[p]
  BY DEF RequestInv
<1>1. /\ r.at \in {"close", "reopen"} /\ r.kind \in {"close", "reopen"}
      /\ req \in [Procs -> Requests]
  BY <1>r DEF RequestInv, LabelTells, ClosedAtInv, WritesTell, CloseIssue, ReopenIssue,
     At
<1>2. PICK m \in Numbers : m = r.n /\ OnGithub(m)
  BY <1>1, <1>r DEF RequestInv, NumberTells, Numberless, ClosedAtInv, WritesTell
<1>3. PICK told : /\ CloseIssue(p) => told = closings'[m]
                  /\ ~CloseIssue(p) => told = 0
  OBVIOUS
<1> DEFINE t == [r EXCEPT !.at = "stamp", !.seen[m] = told]
<1>4. req' = [req EXCEPT ![p] = t]
  <2>1. CASE CloseIssue(p)
    BY <1>1, <1>2, <1>3, <1>r, <2>1 DEF CloseIssue
  <2>2. CASE ~CloseIssue(p)
    BY <1>1, <1>2, <1>3, <1>r, <2>2 DEF ReopenIssue
  <2> QED BY <2>1, <2>2
<1>5. t.at = "stamp" /\ t.kind = r.kind /\ t.n = m /\ t.seen[m] = told
  BY <1>1, <1>2 DEF Requests
<1>6. /\ ghState \in [Numbers -> {"absent", "open", "closed"}]
      /\ closings \in [Numbers -> Nat] /\ aged \subseteq Numbers
      /\ tracked \subseteq Numbers
  BY DEF RequestInv, ReqTypeOK, TypeOK
<1>7. /\ \A n \in Numbers \ {m} : /\ ghState'[n] = ghState[n]
                                  /\ GhClosedAt(n)' = GhClosedAt(n)
      /\ GhClosedAt(m)' = told
      /\ m \in aged' => GhClosedAt(m)' = GhClosedAt(m) /\ ghState'[m] = ghState[m]
      /\ ghState[m] \in {"open", "closed"} /\ ghState'[m] \in {"open", "closed"}
      /\ \A n \in aged' : n \in aged /\ ghState'[n] = "closed"
      /\ \A n \in aged : n \in aged' \/ ghState'[n] = "open"
      /\ UNCHANGED <<tracked, closedAt, drifted, statsJob>>
  <2>1. CASE CloseIssue(p)
    BY <1>2, <1>3, <1>6, <1>r, <2>1
       DEF CloseIssue, CloseOnGithub, GhClosedAt, OnGithub, ClosedAtInv, GithubInv,
           statVars
  <2>2. CASE ~CloseIssue(p)
    BY <1>2, <1>3, <1>6, <1>r, <2>2
       DEF ReopenIssue, ReopenOnGithub, GhClosedAt, OnGithub, ClosedAtInv, GithubInv,
           statVars
  <2> QED BY <2>1, <2>2
<1> HIDE DEF t
<1>8. req'[p] = t /\ \A q \in Procs \ {p} : req'[q] = req[q]
  BY <1>1, <1>4
<1>9. Stamping(m)' /\ Pending(m)'
  BY <1>1, <1>2, <1>5, <1>8 DEF Stamping, Pending, ControlCharted
<1>10. ASSUME NEW n \in Numbers
       PROVE  /\ Stamping(n) => Stamping(n)'
              /\ Pending(n) => Pending(n)'
              /\ \A q \in Procs : n # m /\ WillWrite(req[q], n) => WillWrite(req[q], n)'
  BY <1>1, <1>7, <1>8, <1>r, PromisesKept DEF WillWrite
<1>11. AgreementInv'
  <2> SUFFICES ASSUME NEW n \in (tracked \ drifted)',
                      (ghState[n] = "open" \/ n \notin Old)', (closedAt[n] # GhClosedAt(n))'
               PROVE  (/\ n \notin aged
                       /\ statsJob \/ Pending(n) \/ \E q \in Procs : WillWrite(req[q], n))'
    BY DEF AgreementInv
  <2>0. n \in tracked \ drifted /\ n \in Numbers
    BY <1>6, <1>7
  <2>1. CASE n = m
    BY <1>7, <1>9, <2>0, <2>1 DEF ClosedAtInv, AgreementInv
  <2>2. CASE n # m
    BY <1>7, <1>10, <2>0, <2>2 DEF ClosedAtInv, AgreementInv
  <2> QED BY <2>1, <2>2
<1>12. NoRowInv'
  <2> SUFFICES ASSUME NEW n \in Numbers, n \notin tracked
               PROVE  (/\ closedAt[n] = 0
                       /\ n \in Old \cup drifted \/ GhClosedAt(n) = 0 \/ Stamping(n))'
    BY <1>7 DEF NoRowInv
  <2>1. CASE n = m
    BY <1>7, <1>9, <2>1 DEF ClosedAtInv, NoRowInv
  <2>2. CASE n # m
    BY <1>7, <1>10, <2>2 DEF ClosedAtInv, NoRowInv
  <2> QED BY <2>1, <2>2
<1>13. \A n \in Numbers : OnGithub(n) => OnGithub(n)'
  BY <1>7 DEF OnGithub
<1>14. GithubInv'
  BY <1>6, <1>7, <1>13 DEF ClosedAtInv, GithubInv
<1>15. ASSUME NEW q \in Procs PROVE WritesTell(req[q])'
  <2>1. CASE q = p
    BY <1>1, <1>2, <1>5, <1>7, <1>8, <1>13, <2>1 DEF WritesTell
  <2>2. CASE q # p
    <3>1. WritesTell(req[q]) /\ NumberTells(req[q]) /\ req'[q] = req[q]
      BY <1>8, <2>2 DEF ClosedAtInv, RequestInv
    <3>2. req[q].at = "stamp" /\ req[q].n \in aged' =>
              req[q].seen[req[q].n] = GhClosedAt(req[q].n)'
      BY <1>6, <1>7, <3>1 DEF WritesTell
    <3>3. req[q].at \in {"insert_rows", "update_rows"} =>
              \A k \in Numbers : req[q].seen[k] # -1 =>
                  (/\ OnGithub(k) /\ k \notin aged
                   /\ \/ req[q].seen[k] = GhClosedAt(k)
                      \/ k \in drifted
                      \/ statsJob
                      \/ Pending(k))'
      BY <1>7, <1>9, <1>10, <1>13, <3>1 DEF WritesTell
    <3> QED BY <1>7, <1>13, <3>1, <3>2, <3>3 DEF WritesTell, NumberTells
  <2> QED BY <2>1, <2>2
<1>16. OneJob'
  BY <1>1, <1>5, <1>8 DEF ClosedAtInv, OneJob, Jobs
<1> QED BY <1>11, <1>12, <1>14, <1>15, <1>16 DEF ClosedAtInv

\* An issue that is new on GitHub is open, and its row has no closed_at.
LEMMA CreatedAgrees ==
    ASSUME RequestInv, ClosedAtInv, NEW p \in Procs, CreateIssue(p)
    PROVE  ClosedAtInv'
<1>1. PICK m \in Numbers \ Old :
          /\ ghState[m] = "absent"
          /\ ghState' = [ghState EXCEPT ![m] = "open"]
          /\ req' = [req EXCEPT ![p].at = "insert", ![p].n = m]
  BY DEF CreateIssue
<1>2. PICK r \in Requests : r = req[p]
  BY DEF RequestInv
<1> DEFINE t == [r EXCEPT !.at = "insert", !.n = m]
<1>3. req' = [req EXCEPT ![p] = t] /\ req \in [Procs -> Requests]
  BY <1>1, <1>2 DEF RequestInv
<1>4. t.at = "insert" /\ t.n = m /\ t.kind = r.kind
  BY DEF Requests
<1> HIDE DEF t
<1>5. /\ req'[p] = t /\ \A q \in Procs \ {p} : req'[q] = req[q]
      /\ r.at = "create" /\ r.kind = "create"
  BY <1>2, <1>3 DEF CreateIssue, At, RequestInv, LabelTells
<1>6. /\ ghState \in [Numbers -> {"absent", "open", "closed"}]
      /\ tracked \subseteq Numbers
  BY DEF RequestInv, ReqTypeOK, TypeOK
<1>7. /\ \A n \in Numbers : /\ GhClosedAt(n)' = GhClosedAt(n)
                            /\ OnGithub(n) => OnGithub(n)'
                            /\ ghState'[n] = "open" => ghState[n] = "open" \/ n = m
                            /\ ghState[n] = "closed" => ghState'[n] = "closed"
      /\ OnGithub(m)' /\ m \notin aged
      /\ UNCHANGED <<aged, tracked, closedAt, drifted, statsJob>>
  BY <1>1, <1>6 DEF CreateIssue, GhClosedAt, OnGithub, ClosedAtInv, GithubInv, statVars
<1>8. ASSUME NEW n \in Numbers
      PROVE  /\ Stamping(n) => Stamping(n)'
             /\ Pending(n) => Pending(n)'
             /\ \A q \in Procs : WillWrite(req[q], n) => WillWrite(req[q], n)'
  BY <1>2, <1>5, <1>7, PromisesKept DEF WillWrite
<1>9. AgreementInv'
  BY <1>6, <1>7, <1>8 DEF ClosedAtInv, AgreementInv
<1>10. NoRowInv'
  BY <1>7, <1>8 DEF ClosedAtInv, NoRowInv
<1>11. GithubInv'
  BY <1>6, <1>7 DEF ClosedAtInv, GithubInv, RequestInv, ReqTypeOK, TypeOK
<1>12. ASSUME NEW q \in Procs PROVE WritesTell(req[q])'
  <2>1. CASE q = p
    BY <1>1, <1>4, <1>5, <1>7, <2>1 DEF WritesTell
  <2>2. CASE q # p
    <3>1. WritesTell(req[q]) /\ NumberTells(req[q]) /\ req'[q] = req[q]
      BY <1>5, <2>2 DEF ClosedAtInv, RequestInv
    <3>2. WritesTell(req[q]) => WritesTell(req[q])'
      BY <1>7, <1>8, <3>1 DEF WritesTell, NumberTells, Numberless
    <3> QED BY <3>1, <3>2
  <2> QED BY <2>1, <2>2
<1>13. OneJob'
  BY <1>4, <1>5 DEF ClosedAtInv, OneJob, Jobs
<1> QED BY <1>9, <1>10, <1>11, <1>12, <1>13 DEF ClosedAtInv

\* The row of a new issue is right, or somebody has just closed the issue and
\* is about to write that.
LEMMA InsertAgrees ==
    ASSUME RequestInv, ClosedAtInv, NEW p \in Procs, Insert(p)
    PROVE  ClosedAtInv'
<1>1. PICK r \in Requests : r = req[p]
  BY DEF RequestInv
<1>2. r.at = "insert" /\ r.kind = "create"
  BY <1>1 DEF Insert, At, RequestInv, LabelTells
<1>3. PICK m \in Numbers : /\ m = r.n /\ OnGithub(m)
                           /\ m \notin Old /\ m \notin aged
  BY <1>1, <1>2 DEF RequestInv, NumberTells, Numberless, ClosedAtInv, WritesTell
<1>4. /\ \A q \in Procs \ {p} : req'[q] = req[q]
      /\ \/ req'[p] = Idle
         \/ req'[p].at = "need" /\ req'[p].kind = "create" /\ req'[p].n = m
  BY <1>1, <1>2, <1>3 DEF Insert, Done, Goto, RequestInv, Requests
<1>5. /\ \A n : GhClosedAt(n)' = GhClosedAt(n) /\ (OnGithub(n)' <=> OnGithub(n))
      /\ UNCHANGED <<ghState, closings, aged, closedAt, drifted, statsJob>>
      /\ tracked' = tracked \cup {m}
  BY <1>1, <1>3 DEF GhClosedAt, OnGithub, ghVars, Insert, Find
<1>6. ASSUME NEW n \in Numbers
      PROVE  /\ Stamping(n) => Stamping(n)'
             /\ Pending(n) => Pending(n)'
             /\ \A q \in Procs : WillWrite(req[q], n) => WillWrite(req[q], n)'
  BY <1>1, <1>2, <1>4, <1>5, PromisesKept DEF WillWrite
<1>7. Stamping(m) => Pending(m)
  BY DEF Stamping, Pending
<1>8. AgreementInv'
  BY <1>3, <1>5, <1>6, <1>7
     DEF ClosedAtInv, AgreementInv, NoRowInv, RequestInv, ReqTypeOK, TypeOK
<1>9. NoRowInv'
  BY <1>5, <1>6 DEF ClosedAtInv, NoRowInv
<1>10. GithubInv'
  BY <1>3, <1>5 DEF ClosedAtInv, GithubInv
<1>11. ASSUME NEW q \in Procs PROVE WritesTell(req[q])'
  <2>1. CASE q = p
    BY <1>3, <1>4, <1>5, <2>1 DEF WritesTell, Idle, Numberless
  <2>2. CASE q # p
    BY <1>4, <1>5, <1>6, <2>2 DEF ClosedAtInv, WritesTell
  <2> QED BY <2>1, <2>2
<1>12. OneJob'
  BY <1>4 DEF ClosedAtInv, OneJob, Jobs, Idle
<1> QED BY <1>8, <1>9, <1>10, <1>11, <1>12 DEF ClosedAtInv

\* What a job fetches is what GitHub says.
LEMMA FetchAgrees ==
    ASSUME RequestInv, ClosedAtInv, NEW p \in Procs, Fetch(p)
    PROVE  ClosedAtInv'
<1>1. PICK r \in Requests : r = req[p]
  BY DEF RequestInv
<1>2. r.at = "fetch" /\ r.kind \in Jobs
  BY <1>1 DEF Fetch, At, RequestInv, LabelTells
<1>3. PICK l, S : /\ req' = [req EXCEPT ![p].at = l, ![p].seen = S]
                  /\ r.kind = "sync_stats" =>
                         /\ l = "insert_rows"
                         /\ S = [n \in Numbers |-> IF n \in Synced THEN GhClosedAt(n)
                                                                   ELSE -1]
                  /\ r.kind # "sync_stats" => l = "query"
  BY <1>1 DEF Fetch
<1> DEFINE t == [r EXCEPT !.at = l, !.seen = S]
<1>4. req' = [req EXCEPT ![p] = t] /\ req \in [Procs -> Requests]
  BY <1>1, <1>3 DEF RequestInv
<1>5. t.at = l /\ t.seen = S /\ t.kind = r.kind
  BY DEF Requests
<1> HIDE DEF t
<1>6. req'[p] = t /\ \A q \in Procs \ {p} : req'[q] = req[q]
  BY <1>4
<1>7. /\ \A n : GhClosedAt(n)' = GhClosedAt(n) /\ (OnGithub(n)' <=> OnGithub(n))
      /\ UNCHANGED <<ghState, closings, aged, tracked, closedAt, drifted, statsJob>>
  BY DEF GhClosedAt, OnGithub, ghVars, vars, statVars, Fetch
<1>8. ASSUME NEW n \in Numbers
      PROVE  /\ Stamping(n) => Stamping(n)'
             /\ Pending(n) => Pending(n)'
             /\ \A q \in Procs \ {p} : WillWrite(req[q], n) => WillWrite(req[q], n)'
             /\ /\ WillWrite(req[p], n) /\ n \in tracked /\ n \notin aged
                /\ ghState[n] = "open" \/ n \notin Old
                => WillWrite(req[p], n)'
  <2>1. /\ Stamping(n) => Stamping(n)'
        /\ Pending(n) => Pending(n)'
        /\ \A q \in Procs \ {p} : WillWrite(req[q], n) => WillWrite(req[q], n)'
    BY <1>1, <1>2, <1>6, <1>7, PromisesKept
  <2>2. ASSUME WillWrite(req[p], n), n \in tracked, n \notin aged,
               ghState[n] = "open" \/ n \notin Old
        PROVE  WillWrite(req[p], n)'
    <3>1. n \in Synced
      BY <2>2 DEF Synced, Listed, ClosedAtInv, GithubInv
    <3>2. r.kind = "sync_stats"
      BY <1>1, <2>2 DEF WillWrite
    <3>3. t.seen[n] = GhClosedAt(n)'
      BY <1>3, <1>5, <1>7, <3>1, <3>2
    <3> QED BY <1>3, <1>5, <1>6, <3>2, <3>3 DEF WillWrite
  <2> QED BY <2>1, <2>2
<1>9. AgreementInv'
  <2> SUFFICES ASSUME NEW n \in tracked \ drifted,
                      ghState[n] = "open" \/ n \notin Old, closedAt[n] # GhClosedAt(n)
               PROVE  (/\ n \notin aged
                       /\ statsJob \/ Pending(n) \/ \E q \in Procs : WillWrite(req[q], n))'
    BY <1>7 DEF AgreementInv
  <2>1. /\ n \notin aged /\ n \in Numbers
        /\ statsJob \/ Pending(n) \/ \E q \in Procs : WillWrite(req[q], n)
    BY DEF ClosedAtInv, AgreementInv, RequestInv, ReqTypeOK, TypeOK
  <2> QED BY <1>7, <1>8, <2>1
<1>10. NoRowInv'
  BY <1>7, <1>8 DEF ClosedAtInv, NoRowInv
<1>11. GithubInv'
  BY <1>7 DEF ClosedAtInv, GithubInv
<1>12. ASSUME NEW q \in Procs PROVE WritesTell(req[q])'
  <2>1. CASE q = p
    <3>1. CASE r.kind = "sync_stats"
      <4>1. ASSUME NEW n \in Numbers, t.seen[n] # -1
            PROVE  t.seen[n] = GhClosedAt(n)' /\ OnGithub(n)' /\ n \notin aged'
        BY <1>3, <1>5, <1>7, <3>1, <4>1 DEF Synced, Listed
      <4> QED BY <1>3, <1>5, <1>6, <2>1, <3>1, <4>1 DEF WritesTell, Numberless
    <3>2. CASE r.kind # "sync_stats"
      BY <1>2, <1>3, <1>5, <1>6, <2>1, <3>2 DEF WritesTell, Numberless, Jobs
    <3> QED BY <3>1, <3>2
  <2>2. CASE q # p
    BY <1>6, <1>7, <1>8, <2>2 DEF ClosedAtInv, WritesTell
  <2> QED BY <2>1, <2>2
<1>13. OneJob'
  BY <1>1, <1>2, <1>5, <1>6 DEF ClosedAtInv, OneJob
<1> QED BY <1>9, <1>10, <1>11, <1>12, <1>13 DEF ClosedAtInv

\* A job that writes what it has seen over the rows in S, and makes those that
\* are missing: what was seen agrees with GitHub, or another job comes after.
LEMMA WrittenAgrees ==
    ASSUME RequestInv, ClosedAtInv, NEW p \in Procs, HasFetched(p),
           \A q \in Procs \ {p} : req'[q] = req[q],
           NEW S \in SUBSET Numbers, \A n \in S : req[p].seen[n] # -1,
           UNCHANGED <<ghVars, statsJob>>,
           tracked \subseteq tracked', tracked' \subseteq tracked \cup S,
           S \subseteq tracked',
           closedAt' = SeenIn(S, req[p]), drifted' = DriftAfter(S, req[p]),
           req'[p].kind \in Jobs => req[p].kind \in Jobs,
           \A n \in tracked \ S : WillWrite(req[p], n) => WillWrite(req[p], n)',
           \/ req'[p] = Idle
           \/ req'[p].at = "update_rows" /\ req'[p].seen = req[p].seen
    PROVE  ClosedAtInv'
<1>1. PICK r \in Requests : r = req[p]
  BY DEF RequestInv
<1>2. r.kind = "sync_stats" /\ r.at \in {"insert_rows", "update_rows"}
  BY <1>1 DEF HasFetched, RequestInv, LabelTells
<1>3. /\ \A n : GhClosedAt(n)' = GhClosedAt(n) /\ (OnGithub(n)' <=> OnGithub(n))
      /\ UNCHANGED <<ghState, closings, aged>>
  BY DEF GhClosedAt, OnGithub, ghVars
<1>4. /\ \A n \in Numbers : closedAt'[n] = IF n \in S THEN r.seen[n] ELSE closedAt[n]
      /\ \A n : n \in drifted' <=> n \in drifted /\ ~(n \in S /\ r.seen[n] = GhClosedAt(n))
      /\ tracked' \subseteq Numbers
  BY <1>1 DEF SeenIn, DriftAfter, RequestInv, ReqTypeOK, TypeOK
<1>5. ASSUME NEW n \in Numbers
      PROVE  /\ Stamping(n) => Stamping(n)'
             /\ Pending(n) => Pending(n)'
             /\ \A q \in Procs : WillWrite(req[q], n) => WillWrite(req[q], n)' \/ q = p
  BY <1>1, <1>2, <1>3, PromisesKept
<1>6. \A n \in S : /\ OnGithub(n) /\ n \notin aged
                   /\ r.seen[n] = GhClosedAt(n) \/ n \in drifted \/ statsJob \/ Pending(n)
  BY <1>1, <1>2 DEF ClosedAtInv, WritesTell
<1>7. AgreementInv'
  <2> SUFFICES ASSUME NEW n \in tracked', n \notin drifted',
                      ghState[n] = "open" \/ n \notin Old, closedAt'[n] # GhClosedAt(n)
               PROVE  (/\ n \notin aged
                       /\ statsJob \/ Pending(n) \/ \E q \in Procs : WillWrite(req[q], n))'
    BY <1>3 DEF AgreementInv
  <2>1. CASE n \in S
    BY <1>3, <1>4, <1>5, <1>6, <2>1
  <2>2. CASE n \notin S
    <3>1. n \in tracked \ drifted /\ n \in Numbers /\ closedAt[n] # GhClosedAt(n)
      BY <1>4, <2>2
    <3>2. n \notin aged /\ (statsJob \/ Pending(n) \/ \E q \in Procs : WillWrite(req[q], n))
      BY <3>1 DEF ClosedAtInv, AgreementInv
    <3> QED BY <1>3, <1>5, <2>2, <3>1, <3>2
  <2> QED BY <2>1, <2>2
<1>8. NoRowInv'
  BY <1>3, <1>4, <1>5 DEF ClosedAtInv, NoRowInv
<1>9. GithubInv'
  BY <1>3, <1>6 DEF ClosedAtInv, GithubInv
<1>10. ASSUME NEW q \in Procs PROVE WritesTell(req[q])'
  <2>1. CASE q = p
    <3>1. CASE req'[p] = Idle
      BY <2>1, <3>1 DEF WritesTell, Idle, Numberless
    <3>2. CASE req'[p] # Idle
      <4>1. WritesTell(r)
        BY <1>1 DEF ClosedAtInv
      <4>2. /\ req'[q].at = "update_rows" /\ req'[q].seen = r.seen
        BY <1>1, <1>2, <2>1, <3>2
      <4> QED BY <1>2, <1>3, <1>4, <1>5, <4>1, <4>2 DEF WritesTell, Numberless
    <3> QED BY <3>1, <3>2
  <2>2. CASE q # p
    <3>1. req[q].at \notin {"insert_rows", "update_rows"}
      BY <1>1, <1>2, <2>2 DEF ClosedAtInv, OneJob, RequestInv, LabelTells, Jobs
    <3> QED BY <1>3, <2>2, <3>1 DEF ClosedAtInv, WritesTell
  <2> QED BY <2>1, <2>2
<1>11. OneJob'
  BY DEF ClosedAtInv, OneJob
<1> QED BY <1>7, <1>8, <1>9, <1>10, <1>11 DEF ClosedAtInv

\* IssueStatsWorker makes the missing rows, then writes the others.
LEMMA RowsAgree ==
    ASSUME RequestInv, ClosedAtInv, NEW p \in Procs, InsertRows(p) \/ UpdateRows(p)
    PROVE  ClosedAtInv'
<1>1. PICK r \in Requests : r = req[p]
  BY DEF RequestInv
<1>2. r.at \in {"insert_rows", "update_rows"} /\ r.kind = "sync_stats" /\ HasFetched(p)
  BY <1>1 DEF InsertRows, UpdateRows, At, HasFetched, RequestInv, LabelTells
<1>3. \A n \in Numbers : GhClosedAt(n) \in Nat
  BY DEF GhClosedAt, RequestInv, ReqTypeOK, TypeOK
<1>4. CASE InsertRows(p)
  <2> DEFINE listed  == {n \in Numbers : r.seen[n] # -1}
             created == {n \in listed : n > LastNumber(tracked)}
             t == [r EXCEPT !.at = "update_rows", !.todo = listed \ created]
  <2>1. PICK S : S = created
    OBVIOUS
  <2>2. /\ S \in SUBSET Numbers /\ \A n \in S : req[p].seen[n] # -1
        /\ t.todo = listed \ S
    BY <1>1, <2>1 DEF Requests
  <2>3. /\ tracked' = tracked \cup S
        /\ closedAt' = SeenIn(S, req[p]) /\ drifted' = DriftAfter(S, req[p])
        /\ UNCHANGED <<ghVars, statsJob>>
    BY <1>1, <1>4, <2>1 DEF InsertRows
  <2>4. req' = [req EXCEPT ![p] = t] /\ req \in [Procs -> Requests]
    BY <1>1, <1>4 DEF InsertRows, RequestInv
  <2>5. /\ \A q \in Procs \ {p} : req'[q] = req[q]
        /\ req'[p].at = "update_rows" /\ req'[p].kind = r.kind
        /\ req'[p].seen = r.seen /\ req'[p].todo = listed \ S
    BY <2>2, <2>4 DEF Requests
  <2> HIDE DEF t, created
  <2>6. r.at = "insert_rows"
    BY <1>1, <1>4 DEF InsertRows, At
  <2>7. ASSUME NEW n \in tracked \ S, WillWrite(req[p], n)
        PROVE  WillWrite(req[p], n)'
    <3>1. GhClosedAt(n)' = GhClosedAt(n) /\ n \in Numbers
      BY <2>3 DEF GhClosedAt, ghVars, RequestInv, ReqTypeOK, TypeOK
    <3>2. r.seen[n] = GhClosedAt(n)
      BY <1>1, <2>6, <2>7 DEF WillWrite
    <3>3. n \in listed
      BY <1>3, <3>1, <3>2
    <3> QED BY <1>2, <2>5, <3>1, <3>2, <3>3 DEF WillWrite
  <2>8. \A n \in tracked \ S : WillWrite(req[p], n) => WillWrite(req[p], n)'
    BY <2>7
  <2>9. /\ tracked \subseteq tracked' /\ tracked' \subseteq tracked \cup S
        /\ S \subseteq tracked'
    BY <2>3
  <2>10. /\ req'[p].kind \in Jobs => req[p].kind \in Jobs
         /\ req'[p].at = "update_rows" /\ req'[p].seen = req[p].seen
    BY <1>1, <2>5
  <2> HIDE DEF listed
  <2> QED BY <1>2, <2>2, <2>3, <2>5, <2>8, <2>9, <2>10, WrittenAgrees
<1>5. CASE UpdateRows(p)
  <2>1. PICK S : S = r.todo \cap tracked
    OBVIOUS
  <2>2. /\ S \in SUBSET Numbers /\ S \subseteq tracked
        /\ \A n \in S : req[p].seen[n] \in Nat
    BY <1>1, <1>5, <2>1 DEF Requests, RequestInv, NumberTells, UpdateRows, At
  <2>3. /\ tracked' = tracked
        /\ closedAt' = SeenIn(S, req[p]) /\ drifted' = DriftAfter(S, req[p])
        /\ UNCHANGED <<ghVars, statsJob>>
    BY <1>1, <1>5, <2>1 DEF UpdateRows
  <2>4. req'[p] = Idle /\ \A q \in Procs \ {p} : req'[q] = req[q]
    BY <1>5 DEF UpdateRows, Done, RequestInv
  <2>5. r.at = "update_rows"
    BY <1>1, <1>5 DEF UpdateRows, At
  <2>6. \A n \in tracked \ S : ~WillWrite(req[p], n)
    BY <1>1, <2>1, <2>5 DEF WillWrite
  <2>7. \A n \in S : req[p].seen[n] # -1
    BY <2>2
  <2>8. req'[p].kind \notin Jobs
    BY <2>4 DEF Idle, Jobs
  <2> QED BY <1>2, <2>2, <2>3, <2>4, <2>6, <2>7, <2>8, WrittenAgrees
<1> QED BY <1>4, <1>5

\* A request that goes on to another label of those that write nothing.
LEMMA RelabelledTells ==
    ASSUME RequestInv, ClosedAtInv, NEW p \in Procs, req[p].at \notin Numberless,
           req'[p] = Idle
           \/ /\ req'[p].at \in Elsewhere \ {"insert", "close"}
              /\ req'[p].n = req[p].n /\ req'[p].kind = req[p].kind,
           UNCHANGED ghState
    PROVE  /\ WritesTell(req[p])'
           /\ req'[p].at \in Elsewhere
           /\ req'[p].kind \in Jobs => req[p].kind \in Jobs
<1>1. WritesTell(req[p])
  BY DEF ClosedAtInv
<1> QED
  BY <1>1 DEF WritesTell, Idle, Elsewhere, Labels, Numberless, Jobs, OnGithub

\* The same, for a request that keeps what it has read, or ends.
LEMMA GoesOn ==
    ASSUME RequestInv, ClosedAtInv, NEW p \in Procs, req[p].at \notin Numberless,
           Done(p) \/ \E l \in Elsewhere \ {"insert", "close"} : Goto(p, l),
           UNCHANGED ghState
    PROVE  /\ WritesTell(req[p])'
           /\ req'[p].at \in Elsewhere
           /\ req'[p].kind \in Jobs => req[p].kind \in Jobs
           /\ \A q \in Procs \ {p} : req'[q] = req[q]
<1>0. req \in [Procs -> Requests] /\ req[p] \in Requests
  BY DEF RequestInv
<1>1. CASE Done(p)
  BY <1>0, <1>1, RelabelledTells DEF Done
<1>2. ASSUME NEW l \in Elsewhere \ {"insert", "close"}, Goto(p, l)
      PROVE  /\ req'[p].at \in Elsewhere \ {"insert", "close"}
             /\ req'[p].n = req[p].n /\ req'[p].kind = req[p].kind
             /\ \A q \in Procs \ {p} : req'[q] = req[q]
  BY <1>0, <1>2 DEF Goto, Requests
<1> QED BY <1>1, <1>2, RelabelledTells

\* Statements that find the row of a request.
LEMMA FindersAgree ==
    ASSUME RequestInv, ClosedAtInv, NEW p \in Procs, FindCard(p) \/ Look(p) \/ Stat(p)
    PROVE  ClosedAtInv'
<1>0. req \in [Procs -> Requests]
  BY DEF RequestInv
<1>1. PICK r \in Requests : r = req[p]
  BY DEF RequestInv
<1>2. /\ r.at \in {"find", "look", "stat"} /\ FindRow(r.n)
      /\ UNCHANGED <<ghVars, statsJob>>
  BY <1>1 DEF FindCard, Look, Stat, At
<1>3. ASSUME NEW t, req' = [req EXCEPT ![p] = t],
             t.at \in Elsewhere \ {"insert", "close"}, t.n = r.n, t.kind = r.kind
      PROVE  ClosedAtInv'
  <2>1. req'[p] = t /\ \A q \in Procs \ {p} : req'[q] = req[q]
    BY <1>0, <1>3
  <2>2. /\ WritesTell(req[p])' /\ req'[p].at \in Elsewhere
        /\ req'[p].kind \in Jobs => req[p].kind \in Jobs
    BY <1>1, <1>2, <1>3, <2>1, RelabelledTells DEF Numberless, ghVars
  <2> QED BY <1>1, <1>2, <2>1, <2>2, FoundRowAgrees
<1>4. ASSUME Done(p) \/ \E l \in Elsewhere \ {"insert", "close"} : Goto(p, l)
      PROVE  ClosedAtInv'
  <2>1. /\ WritesTell(req[p])' /\ req'[p].at \in Elsewhere
        /\ req'[p].kind \in Jobs => req[p].kind \in Jobs
        /\ \A q \in Procs \ {p} : req'[q] = req[q]
    BY <1>1, <1>2, <1>4, GoesOn DEF Numberless, ghVars
  <2> QED BY <1>1, <1>2, <2>1, FoundRowAgrees
<1>5. CASE FindCard(p)
  <2> DEFINE t == [r EXCEPT !.at = "look", !.list = order[r.c]]
  <2>1. req' = [req EXCEPT ![p] = t]
    BY <1>0, <1>1, <1>5 DEF FindCard
  <2>2. t.at = "look" /\ t.n = r.n /\ t.kind = r.kind
    BY DEF Requests
  <2> HIDE DEF t
  <2> QED BY <1>3, <2>1, <2>2 DEF Elsewhere, Labels
<1>6. CASE Look(p)
  <2>1. CASE AfterLook(r) = "idle"
    BY <1>1, <1>4, <1>6, <2>1 DEF Look, Done
  <2>2. CASE AfterLook(r) # "idle"
    <3>1. PICK l, f : l = AfterLook(r) /\ f = (r.n \in ready)
      OBVIOUS
    <3> DEFINE t == [r EXCEPT !.at = l, !.column = column[r.n], !.flag = f]
    <3>2. req' = [req EXCEPT ![p] = t]
      BY <1>1, <1>6, <2>2, <3>1 DEF Look
    <3>3. r.kind \in {"move", "unarchive", "toggle_ready"}
      BY <1>1, <1>6 DEF Look, At, RequestInv, LabelTells
    <3>4. l \in {"finish", "need", "start", "toggle"}
      BY <2>2, <3>1, <3>3 DEF AfterLook
    <3>5. t.at = l /\ t.n = r.n /\ t.kind = r.kind
      BY DEF Requests
    <3> HIDE DEF t
    <3> QED BY <1>3, <3>2, <3>4, <3>5 DEF Elsewhere, Labels
  <2> QED BY <2>1, <2>2
<1>7. CASE Stat(p)
  BY <1>4, <1>7 DEF Stat, Elsewhere, Labels
<1> QED BY <1>5, <1>6, <1>7

\* No column closes an issue: a request with that instance has nothing to ask.
LEMMA ContinueAgrees ==
    ASSUME AutoClose = {}, RequestInv, ClosedAtInv, NEW p \in Procs, Continue(p)
    PROVE  ClosedAtInv'
<1>0. req \in [Procs -> Requests]
  BY DEF RequestInv
<1>1. PICK r \in Requests : r = req[p]
  BY DEF RequestInv
<1>2. UNCHANGED vars \/ UNCHANGED <<ghVars, tracked, closedAt, statsJob, drifted>>
      => UNCHANGED <<ghState, closings, tracked, closedAt, drifted, statsJob, aged>>
  BY DEF vars, ghVars, statVars
<1>3. ASSUME r.at \in Elsewhere \ Numberless,
             Done(p) \/ \E l \in Elsewhere \ {"insert", "close"} : Goto(p, l),
             UNCHANGED <<ghState, closings, tracked, closedAt, drifted, statsJob>>,
             aged' \subseteq aged
      PROVE  ClosedAtInv'
  <2>1. /\ WritesTell(req[p])'
        /\ req'[p].kind \in Jobs => req[p].kind \in Jobs
        /\ \A q \in Procs \ {p} : req'[q] = req[q]
    BY <1>1, <1>3, GoesOn
  <2> QED BY <1>1, <1>3, <2>1, NothingWritten
<1>4. ASSUME NEW t, req' = [req EXCEPT ![p] = t], t.kind = r.kind,
             r.at \in Elsewhere, r.kind = "synchronize",
             t.at \in {"next", "sweep", "finish"},
             t.at = "finish" => OnGithub(t.n),
             UNCHANGED vars
      PROVE  ClosedAtInv'
  <2>1. req'[p] = t /\ \A q \in Procs \ {p} : req'[q] = req[q]
    BY <1>0, <1>4
  <2>2. UNCHANGED <<ghState, closings, tracked, closedAt, drifted, statsJob, aged>>
    BY <1>2, <1>4
  <2>3. WritesTell(req[p])'
    BY <1>4, <2>1, <2>2 DEF WritesTell, Numberless, OnGithub
  <2> QED BY <1>1, <1>4, <2>1, <2>2, <2>3, NothingWritten
<1>5. CASE Finish(p) \/ Start(p) \/ Sort(p)
  <2>1. r.at \in {"finish", "start", "sort"}
    BY <1>1, <1>5 DEF Finish, Start, Sort, At
  <2>2. UNCHANGED <<ghVars, tracked, closedAt, statsJob, drifted>>
    BY <1>5 DEF Finish, Start, Sort, statVars
  <2>3. r.at = "start" => r.kind \in {"create", "move", "unarchive"}
    BY <1>1 DEF RequestInv, LabelTells
  <2>4. Done(p) \/ \E l \in Elsewhere \ {"insert", "close"} : Goto(p, l)
    BY <1>1, <1>5, <2>3 DEF Finish, Start, Sort, At, Elsewhere, Labels
  <2> QED BY <1>2, <1>3, <2>1, <2>2, <2>4 DEF Elsewhere, Labels, Numberless
<1>6. CASE UnreadyCard(p) \/ Place(p) \/ Shelve(p) \/ Restore(p) \/ Toggle(p)
  <2>1. r.at \in {"unready", "place", "shelve", "restore", "toggle"}
    BY <1>1, <1>6 DEF UnreadyCard, Place, Shelve, Restore, Toggle, At
  <2>2. UNCHANGED <<ghVars, tracked, closedAt, statsJob, drifted>>
    BY <1>6 DEF UnreadyCard, Place, Shelve, Restore, Toggle
  <2>3. r.at = "shelve" /\ r.kind # "archive" => Done(p) \/ Goto(p, "next")
    BY <1>1, <1>6, <2>1 DEF UnreadyCard, Place, Shelve, Restore, Toggle, At
  <2>4. Done(p) \/ \E l \in Elsewhere \ {"insert", "close"} : Goto(p, l)
    BY <1>1, <1>6, <2>3
       DEF UnreadyCard, Place, Shelve, Restore, Toggle, At, Elsewhere, Labels
  <2> QED BY <1>2, <1>3, <2>1, <2>2, <2>4 DEF Elsewhere, Labels, Numberless
<1>7. CASE NeedAssignee(p) \/ AskState(p) \/ Check(p)
  <2>1. r.at \in {"need", "state", "check"} /\ UNCHANGED vars
    BY <1>1, <1>7 DEF NeedAssignee, AskState, Check, At
  <2>2. Done(p) \/ \E l \in Elsewhere \ {"insert", "close"} : Goto(p, l)
    BY <1>1, <1>7 DEF NeedAssignee, AskState, Check, AfterAssign, Elsewhere, Labels
  <2> QED BY <1>2, <1>3, <2>1, <2>2 DEF Elsewhere, Labels, Numberless
<1>8. CASE Ask(p)
  <2>0. PICK same \in BOOLEAN : req' = [req EXCEPT ![p].at = "patch", ![p].flag = same]
    BY <1>8 DEF Ask
  <2> DEFINE t == [r EXCEPT !.at = "patch", !.flag = same]
  <2>1. req' = [req EXCEPT ![p] = t]
    BY <1>0, <1>1, <2>0
  <2>2. t.at = "patch" /\ t.n = r.n /\ t.kind = r.kind
    BY DEF Requests
  <2> HIDE DEF t
  <2>3. req'[p] = t /\ \A q \in Procs \ {p} : req'[q] = req[q]
    BY <1>0, <2>1
  <2>4. /\ UNCHANGED <<ghState, closings, tracked, closedAt, drifted, statsJob, aged>>
        /\ r.at = "ask"
    BY <1>1, <1>2, <1>8 DEF Ask, At
  <2>5. /\ WritesTell(req[p])'
        /\ req'[p].kind \in Jobs => req[p].kind \in Jobs
    BY <1>1, <2>2, <2>3, <2>4, RelabelledTells DEF Numberless, Elsewhere, Labels
  <2> QED BY <1>1, <2>3, <2>4, <2>5, NothingWritten DEF Elsewhere, Labels
<1>9. CASE Patch(p)
  <2>1. /\ r.at = "patch" /\ aged' \subseteq aged
        /\ UNCHANGED <<ghState, closings, tracked, closedAt, drifted, statsJob>>
    BY <1>1, <1>9 DEF Patch, At, statVars
  <2>2. \E l \in Elsewhere \ {"insert", "close"} : Goto(p, l)
    BY <1>9 DEF Patch, AfterAssign, Elsewhere, Labels
  <2> QED BY <1>3, <2>1, <2>2 DEF Elsewhere, Labels, Numberless
<1>10. CASE Query(p)
  <2>0. PICK S : req' = [req EXCEPT ![p].at = "next", ![p].todo = S]
    BY <1>10 DEF Query
  <2> DEFINE t == [r EXCEPT !.at = "next", !.todo = S]
  <2>1. req' = [req EXCEPT ![p] = t]
    BY <1>0, <1>1, <2>0
  <2>2. t.at = "next" /\ t.kind = r.kind
    BY DEF Requests
  <2> HIDE DEF t
  <2>3. r.at = "query" /\ r.kind = "synchronize" /\ UNCHANGED vars
    BY <1>1, <1>10 DEF Query, At, RequestInv, LabelTells
  <2> QED BY <1>4, <2>1, <2>2, <2>3 DEF Elsewhere, Labels
<1>11. CASE NextGone(p)
  <2>1. r.at = "next" /\ r.kind = "synchronize" /\ UNCHANGED vars
    <3>1. At(p, "next") /\ UNCHANGED vars
      BY <1>11, Zenon DEF NextGone
    <3> QED BY <1>1, <3>1 DEF At, RequestInv, LabelTells
  <2>2. CASE r.todo = {}
    <3> DEFINE t == [r EXCEPT !.at = "sweep"]
    <3>1. Goto(p, "sweep")
      BY <1>1, <1>11, <2>2, Zenon DEF NextGone
    <3>2. req' = [req EXCEPT ![p] = t]
      BY <1>0, <1>1, <3>1 DEF Goto
    <3>3. t.at = "sweep" /\ t.kind = r.kind
      BY DEF Requests
    <3> HIDE DEF t
    <3> QED BY <1>4, <2>1, <3>2, <3>3 DEF Elsewhere, Labels
  <2>3. CASE r.todo # {}
    <3>1. PICK n \in r.todo :
              req' = [req EXCEPT ![p] =
                  [r EXCEPT !.todo = r.todo \ {n}, !.n = n,
                            !.at = IF ghState[n] = "closed" THEN "finish"
                                                            ELSE "next"]]
      BY <1>1, <1>11, <2>3, Zenon DEF NextGone
    <3>2. PICK l : l = IF ghState[n] = "closed" THEN "finish" ELSE "next"
      OBVIOUS
    <3> DEFINE t == [r EXCEPT !.todo = r.todo \ {n}, !.n = n, !.at = l]
    <3>3. req' = [req EXCEPT ![p] = t]
      BY <3>1, <3>2
    <3>4. t.at = l /\ t.n = n /\ t.kind = r.kind
      BY DEF Requests
    <3> HIDE DEF t
    <3> QED BY <1>4, <2>1, <3>2, <3>3, <3>4 DEF Elsewhere, Labels, OnGithub
  <2> QED BY <2>2, <2>3
<1>12. CASE Sweep(p)
  <2>1. req'[p] = Idle /\ \A q \in Procs \ {p} : req'[q] = req[q]
    BY <1>0, <1>12 DEF Sweep, Done
  <2>2. UNCHANGED <<ghVars, tracked, closedAt, statsJob, drifted>>
    BY <1>12 DEF Sweep
  <2>3. r.at = "sweep"
    BY <1>1, <1>12 DEF Sweep, At
  <2>4. WritesTell(req[p])' /\ req'[p].kind \notin Jobs
    BY <2>1 DEF WritesTell, Idle, Numberless, Jobs
  <2> QED BY <1>1, <1>2, <2>1, <2>2, <2>3, <2>4, NothingWritten DEF Elsewhere, Labels
<1>13. CASE FindCard(p) \/ Look(p) \/ Stat(p)
  BY <1>13, FindersAgree
<1>14. CASE CloseIssue(p) \/ ReopenIssue(p)
  BY <1>14, GithubAnswers
<1>15. CASE InsertRows(p) \/ UpdateRows(p)
  BY <1>15, RowsAgree
<1>16. CASE Stamp(p) \/ Enqueue(p) \/ CreateIssue(p) \/ Insert(p) \/ Fetch(p)
  BY <1>16, StampAgrees, EnqueueAgrees, CreatedAgrees, InsertAgrees, FetchAgrees
<1> QED BY <1>5, <1>6, <1>7, <1>8, <1>9, <1>10, <1>11, <1>12, <1>13, <1>14, <1>15,
           <1>16 DEF Continue

\* With one thread for jobs, a job starts when no other is under way.
LEMMA OneThread ==
    ASSUME Threads \leq 1, RequestInv, HasThread
    PROVE  \A p \in Procs : req[p].kind \notin Jobs
<1> DEFINE busy == {p \in Procs : req[p].kind \in Jobs}
<1>1. IsFiniteSet(busy)
  <2>1. IsFiniteSet(Procs) /\ busy \subseteq Procs
    BY ProcsAssumption DEF ProcsAssumption
  <2> QED BY <2>1, FS_Subset
<1>2. Cardinality(busy) \in Nat /\ Cardinality(busy) < Threads
  BY <1>1, FS_CardinalityType DEF HasThread
<1>3. Cardinality(busy) = 0
  BY <1>2, ProcsAssumption DEF ProcsAssumption
<1>4. busy = {}
  BY <1>1, <1>3, FS_EmptySet
<1> QED BY <1>4

\* A request that arrives has written nothing yet; an IssueStatsWorker that
\* starts will write for every job that was promised.
LEMMA BeginAgrees ==
    ASSUME Threads \leq 1, RequestInv, ClosedAtInv, NEW p \in Procs, Begin(p)
    PROVE  ClosedAtInv'
<1>0. req \in [Procs -> Requests]
  BY DEF RequestInv
<1>1. /\ \A q \in Procs \ {p} : req'[q] = req[q]
      /\ req[p] = Idle
  BY BeginFrame
<1>2. req[p].at = "idle" /\ req[p].at \in Elsewhere
  BY <1>1 DEF Idle, Elsewhere, Labels
<1>3. ASSUME NEW s, req' = [req EXCEPT ![p] = s], s.kind \notin Jobs,
             s.at \notin Numberless => OnGithub(s.n),
             s.at \notin {"insert", "stamp", "insert_rows", "update_rows"},
             s.kind = "move" => s.at = "find",
             UNCHANGED vars
      PROVE  ClosedAtInv'
  <2>1. req'[p] = s
    BY <1>0, <1>3
  <2>2. UNCHANGED <<ghState, closings, tracked, closedAt, drifted, statsJob, aged>>
    BY <1>3 DEF vars, ghVars, statVars
  <2>3. WritesTell(req[p])'
    BY <1>3, <2>1, <2>2 DEF WritesTell, OnGithub
  <2> QED BY <1>1, <1>2, <1>3, <2>1, <2>2, <2>3, NothingWritten
<1>4. ASSUME NEW n \in Numbers, NEW c \in Columns, NEW force \in Forces,
             ArriveMove(p, n, c, force)
      PROVE  ClosedAtInv'
  <2> DEFINE r == [Idle EXCEPT !.kind = "move", !.n = n, !.c = c, !.force = force]
             s == [r EXCEPT !.at = FirstStep[r.kind]]
  <2>1. Arrive(p, r) /\ UNCHANGED vars /\ OnGithub(n)
    BY <1>4 DEF ArriveMove
  <2>2. s.kind = "move" /\ s.n = n /\ s.at = "find"
    BY DEF Idle, FirstStep
  <2>3. req' = [req EXCEPT ![p] = s]
    BY <2>1 DEF Arrive
  <2> HIDE DEF s
  <2> QED BY <1>3, <2>1, <2>2, <2>3 DEF Jobs
<1>5. ASSUME NEW kind \in Kinds, NEW n \in Numbers, ArriveOther(p, kind, n)
      PROVE  ClosedAtInv'
  <2> DEFINE r == [Idle EXCEPT !.kind = kind, !.n = n]
             s == [r EXCEPT !.at = FirstStep[r.kind]]
  <2>1. Arrive(p, r) /\ UNCHANGED vars /\ OnGithub(n)
    BY <1>5 DEF ArriveOther
  <2>2. kind \in {"close", "reopen", "archive", "unarchive", "toggle_ready", "assign"}
    BY <1>5, ProcsAssumption DEF ProcsAssumption, ArriveOther, Jobs
  <2>3. s.kind = kind /\ s.n = n
        /\ s.at \in {"close", "reopen", "check", "look", "ask"}
    BY <2>2 DEF Idle, FirstStep
  <2>4. req' = [req EXCEPT ![p] = s]
    BY <2>1 DEF Arrive
  <2> HIDE DEF s
  <2> QED BY <1>3, <2>1, <2>2, <2>3, <2>4 DEF Jobs
<1>6. CASE ArriveCreate(p)
  <2> DEFINE r == [Idle EXCEPT !.kind = "create", !.force = TRUE,
                               !.list = order[DefaultColumn]]
             s == [r EXCEPT !.at = FirstStep[r.kind]]
  <2>1. Arrive(p, r) /\ UNCHANGED vars
    BY <1>6 DEF ArriveCreate
  <2>2. s.kind = "create" /\ s.at = "create"
    BY DEF Idle, FirstStep
  <2>3. req' = [req EXCEPT ![p] = s]
    BY <2>1 DEF Arrive
  <2> HIDE DEF s
  <2> QED BY <1>3, <2>1, <2>2, <2>3 DEF Jobs, Numberless
<1>7. CASE StartSyncStats(p) \/ StartSynchronize(p)
  <2>1. PICK kind \in Jobs : /\ Arrive(p, [Idle EXCEPT !.kind = kind])
                             /\ kind = "sync_stats" \/ UNCHANGED vars
                             /\ UNCHANGED <<ghVars, statVars, drifted>>
    BY <1>7 DEF StartSyncStats, StartSynchronize, vars, Jobs
  <2> DEFINE r == [Idle EXCEPT !.kind = kind]
             s == [r EXCEPT !.at = FirstStep[r.kind]]
  <2>2. s.kind = kind /\ s.at = "fetch"
    BY DEF Idle, FirstStep, Jobs
  <2>3. req' = [req EXCEPT ![p] = s]
    BY <2>1 DEF Arrive
  <2> HIDE DEF s
  <2>4. req'[p] = s
    BY <1>0, <2>3
  <2>5. /\ \A q \in Procs : req[q].kind \notin Jobs
        /\ \A q \in Procs : req[q].at \notin {"insert_rows", "update_rows"}
    BY <1>7, OneThread DEF StartSyncStats, StartSynchronize, RequestInv, LabelTells,
       Jobs
  <2>6. /\ \A n : GhClosedAt(n)' = GhClosedAt(n) /\ (OnGithub(n)' <=> OnGithub(n))
        /\ UNCHANGED <<ghState, closings, aged, tracked, closedAt, drifted>>
    BY <2>1 DEF GhClosedAt, OnGithub, ghVars, statVars
  <2>7. ASSUME NEW n \in Numbers
        PROVE  /\ Stamping(n) => Stamping(n)'
               /\ Pending(n) => Pending(n)'
               /\ (statsJob \/ \E q \in Procs : WillWrite(req[q], n))
                      => (statsJob \/ \E q \in Procs : WillWrite(req[q], n))'
    <3>1. /\ Stamping(n) => Stamping(n)'
          /\ Pending(n) => Pending(n)'
      BY <1>1, <1>2, PromisesKept
    <3>2. ~\E q \in Procs : WillWrite(req[q], n)
      BY <2>5 DEF WillWrite, Jobs
    <3>3. kind = "sync_stats" => WillWrite(req[p], n)'
      BY <2>2, <2>4 DEF WillWrite
    <3>4. kind # "sync_stats" => statsJob' = statsJob
      BY <2>1 DEF vars
    <3> QED BY <3>1, <3>2, <3>3, <3>4
  <2>8. AgreementInv'
    <3> SUFFICES ASSUME NEW n \in tracked \ drifted,
                        ghState[n] = "open" \/ n \notin Old, closedAt[n] # GhClosedAt(n)
                 PROVE  (/\ n \notin aged
                         /\ statsJob \/ Pending(n) \/ \E q \in Procs : WillWrite(req[q], n))'
      BY <2>6 DEF AgreementInv
    <3>1. /\ n \notin aged /\ n \in Numbers
          /\ statsJob \/ Pending(n) \/ \E q \in Procs : WillWrite(req[q], n)
      BY DEF ClosedAtInv, AgreementInv, RequestInv, ReqTypeOK, TypeOK
    <3> QED BY <2>6, <2>7, <3>1
  <2>9. NoRowInv'
    BY <2>6, <2>7 DEF ClosedAtInv, NoRowInv
  <2>10. GithubInv'
    BY <2>6 DEF ClosedAtInv, GithubInv
  <2>11. ASSUME NEW q \in Procs PROVE WritesTell(req[q])'
    <3>1. CASE q = p
      BY <2>2, <2>4, <3>1 DEF WritesTell, Numberless, Jobs
    <3>2. CASE q # p
      BY <1>1, <2>5, <2>6, <3>2 DEF ClosedAtInv, WritesTell
    <3> QED BY <3>1, <3>2
  <2>12. OneJob'
    BY <1>1, <2>5 DEF OneJob
  <2> QED BY <2>8, <2>9, <2>10, <2>11, <2>12 DEF ClosedAtInv
<1> QED BY <1>4, <1>5, <1>6, <1>7 DEF Begin

\* Board reads make rows that agree; what people do on GitHub is drift, and an
\* issue grows old only when nothing works on it.
LEMMA EnvironmentAgrees ==
    ASSUME RequestInv, ClosedAtInv, Environment
    PROVE  ClosedAtInv'
<1>0. /\ ghState \in [Numbers -> {"absent", "open", "closed"}]
      /\ closings \in [Numbers -> Nat] /\ aged \subseteq Numbers
      /\ tracked \subseteq Numbers /\ drifted \subseteq Numbers
      /\ closedAt \in [Numbers -> Nat]
  BY DEF RequestInv, ReqTypeOK, TypeOK
<1>1. req' = req /\ OneJob'
  BY DEF Environment, reqVars, ClosedAtInv, OneJob
<1>2. ASSUME UNCHANGED <<ghState, closings, tracked, closedAt, drifted, statsJob>>,
             aged' \subseteq aged
      PROVE  ClosedAtInv'
  <2>1. \A n : /\ GhClosedAt(n)' = GhClosedAt(n) /\ (OnGithub(n)' <=> OnGithub(n))
               /\ Stamping(n)' = Stamping(n) /\ Pending(n)' = Pending(n)
    BY <1>1, <1>2 DEF GhClosedAt, OnGithub, Stamping, Pending
  <2>2. \A n, q : WillWrite(req[q], n) => WillWrite(req[q], n)'
    BY <1>1, <2>1 DEF WillWrite
  <2>3. AgreementInv'
    BY <1>2, <2>1, <2>2 DEF ClosedAtInv, AgreementInv
  <2>4. NoRowInv'
    BY <1>2, <2>1 DEF ClosedAtInv, NoRowInv
  <2>5. GithubInv'
    BY <1>2, <2>1 DEF ClosedAtInv, GithubInv
  <2>6. \A q \in Procs : WritesTell(req[q])'
    BY <1>1, <1>2, <2>1 DEF ClosedAtInv, WritesTell
  <2> QED BY <1>1, <2>3, <2>4, <2>5, <2>6 DEF ClosedAtInv
<1>3. ASSUME NEW m \in Numbers, Update(m) PROVE ClosedAtInv'
  BY <1>2, <1>3 DEF Update, statVars
<1>4. ASSUME NEW c \in Columns, NEW list \in BrowserLists, SortColumn(c, list)
      PROVE  ClosedAtInv'
  BY <1>2, <1>4 DEF SortColumn, ghVars, statVars
<1>5. ASSUME NEW m \in Numbers, GithubCreate(m) \/ GithubClose(m) \/ GithubReopen(m)
      PROVE  ClosedAtInv'
  <2>1. /\ \A n \in Numbers \ {m} : /\ ghState'[n] = ghState[n]
                                    /\ GhClosedAt(n)' = GhClosedAt(n)
        /\ m \notin drifted' => m \notin Old /\ GhClosedAt(m)' = GhClosedAt(m)
        /\ m \notin aged' /\ OnGithub(m)'
        /\ aged' \subseteq aged /\ \A n \in aged : n # m => n \in aged'
        /\ drifted \subseteq drifted' /\ \A n \in drifted' : n # m => n \in drifted
        /\ UNCHANGED <<tracked, closedAt, statsJob>>
    BY <1>0, <1>5 DEF GithubCreate, GithubClose, GithubReopen, CloseOnGithub,
       ReopenOnGithub, GhClosedAt, OnGithub, ClosedAtInv, GithubInv, statVars
  <2>2. \A n \in Numbers : /\ OnGithub(n) => OnGithub(n)'
                           /\ Stamping(n)' = Stamping(n) /\ Pending(n)' = Pending(n)
    BY <1>1, <2>1 DEF OnGithub, Stamping, Pending
  <2>3. ASSUME NEW n \in Numbers, n \notin drifted', NEW q \in Procs, WillWrite(req[q], n)
        PROVE  WillWrite(req[q], n)'
    BY <1>1, <2>1, <2>3 DEF WillWrite
  <2>4. AgreementInv'
    <3> SUFFICES ASSUME NEW n \in tracked', n \notin drifted',
                        (ghState[n] = "open" \/ n \notin Old)', (closedAt[n] # GhClosedAt(n))'
                 PROVE  (/\ n \notin aged
                         /\ statsJob \/ Pending(n) \/ \E q \in Procs : WillWrite(req[q], n))'
      BY DEF AgreementInv
    <3>1. /\ n \in tracked \ drifted /\ n \in Numbers /\ closedAt[n] # GhClosedAt(n)
          /\ ghState[n] = "open" \/ n \notin Old
      BY <1>0, <2>1
    <3>2. /\ n \notin aged
          /\ statsJob \/ Pending(n) \/ \E q \in Procs : WillWrite(req[q], n)
      BY <3>1 DEF ClosedAtInv, AgreementInv
    <3> QED BY <2>1, <2>2, <2>3, <3>1, <3>2
  <2>5. NoRowInv'
    <3> SUFFICES ASSUME NEW n \in Numbers, n \notin tracked
                 PROVE  (/\ closedAt[n] = 0
                         /\ n \in Old \cup drifted \/ GhClosedAt(n) = 0 \/ Stamping(n))'
      BY <2>1 DEF NoRowInv
    <3> QED BY <2>1, <2>2 DEF ClosedAtInv, NoRowInv
  <2>6. GithubInv'
    BY <1>0, <2>1, <2>2 DEF ClosedAtInv, GithubInv
  <2>7. ASSUME NEW q \in Procs PROVE WritesTell(req[q])'
    <3>1. WritesTell(req[q]) /\ NumberTells(req[q])
      BY DEF ClosedAtInv, RequestInv
    <3>2. ASSUME req[q].at \in {"insert_rows", "update_rows"},
                 NEW k \in Numbers, req[q].seen[k] # -1
          PROVE  /\ OnGithub(k)' /\ k \notin aged'
                 /\ \/ req[q].seen[k] = GhClosedAt(k)'
                    \/ k \in drifted'
                    \/ statsJob'
                    \/ Pending(k)'
      <4>1. /\ OnGithub(k) /\ k \notin aged
            /\ \/ req[q].seen[k] = GhClosedAt(k)
               \/ k \in drifted
               \/ statsJob
               \/ Pending(k)
        BY <3>1, <3>2 DEF WritesTell
      <4>2. Pending(k) => Pending(k)'
        BY <2>2
      <4>3. k # m => GhClosedAt(k)' = GhClosedAt(k)
        BY <2>1
      <4>4. k \in drifted => k \in drifted'
        BY <2>1
      <4> QED BY <2>1, <2>2, <4>1, <4>2, <4>3, <4>4
    <3> QED BY <1>1, <2>1, <2>2, <3>1, <3>2 DEF WritesTell, NumberTells, Numberless
  <2> QED BY <1>1, <2>4, <2>5, <2>6, <2>7 DEF ClosedAtInv
<1>6. ASSUME NEW m \in Numbers, GithubAge(m),
             m \in aged' \ aged => ~statsJob /\ \A p \in Procs : ~OnCard(req[p], m)
      PROVE  ClosedAtInv'
  <2>1. /\ aged' = aged \cup {m} /\ ghState[m] = "closed"
        /\ ~statsJob /\ \A p \in Procs : ~OnCard(req[p], m)
        /\ UNCHANGED <<ghState, closings, tracked, closedAt, drifted, statsJob>>
    BY <1>6 DEF GithubAge, statVars
  <2>2. \A n : /\ GhClosedAt(n)' = GhClosedAt(n) /\ (OnGithub(n)' <=> OnGithub(n))
               /\ Stamping(n)' = Stamping(n) /\ Pending(n)' = Pending(n)
    BY <1>1, <2>1 DEF GhClosedAt, OnGithub, Stamping, Pending
  <2>3. \A n, q : WillWrite(req[q], n) => WillWrite(req[q], n)'
    BY <1>1, <2>2 DEF WillWrite
  <2>4. ~Pending(m) /\ \A q \in Procs : ~WillWrite(req[q], m)
    BY <2>1 DEF Pending, WillWrite, OnCard, Jobs, ControlCharted
  <2>5. AgreementInv'
    BY <2>1, <2>2, <2>3, <2>4 DEF ClosedAtInv, AgreementInv
  <2>6. NoRowInv'
    BY <2>1, <2>2 DEF ClosedAtInv, NoRowInv
  <2>7. GithubInv'
    BY <2>1, <2>2 DEF ClosedAtInv, GithubInv
  <2>8. ASSUME NEW q \in Procs PROVE WritesTell(req[q])'
    <3>1. WritesTell(req[q]) /\ LabelTells(req[q]) /\ ~OnCard(req[q], m)
      BY <2>1 DEF ClosedAtInv, RequestInv
    <3>2. /\ req[q].at \notin {"insert", "insert_rows", "update_rows"}
          /\ req[q].at = "stamp" => req[q].n # m
      BY <3>1 DEF LabelTells, OnCard, Jobs
    <3> QED BY <1>1, <2>1, <2>2, <3>1, <3>2 DEF WritesTell
  <2> QED BY <1>1, <2>5, <2>6, <2>7, <2>8 DEF ClosedAtInv
<1>7. ASSUME NEW looked \in SUBSET Numbers, NEW seenOpen \in SUBSET Numbers,
             NEW earlier \in SUBSET Numbers, BoardRead(looked, seenOpen, earlier)
      PROVE  ClosedAtInv'
  <2>1. PICK late : late = {n \in (looked \ tracked) \ seenOpen :
                                LastNumber(tracked \cup earlier) # 0
                                    /\ n > LastNumber(tracked \cup earlier)}
    OBVIOUS
  <2>2. /\ tracked' = tracked \cup seenOpen \cup late
        /\ \A n \in Numbers : closedAt'[n] = IF n \in late THEN closings[n] ELSE closedAt[n]
        /\ \A n \in looked : OnGithub(n)
        /\ seenOpen \subseteq looked \ tracked /\ late \subseteq (looked \ tracked) \ seenOpen
        /\ \A n \in (looked \ tracked) \ drifted : n \in seenOpen <=> ghState[n] = "open"
        /\ UNCHANGED <<ghState, closings, aged, statsJob, drifted>>
    BY <1>7, <2>1 DEF BoardRead, ghVars
  <2>3. \A n : /\ GhClosedAt(n)' = GhClosedAt(n) /\ (OnGithub(n)' <=> OnGithub(n))
               /\ Stamping(n)' = Stamping(n) /\ Pending(n)' = Pending(n)
    BY <1>1, <2>2 DEF GhClosedAt, OnGithub, Stamping, Pending
  <2>4. \A n, q : WillWrite(req[q], n) => WillWrite(req[q], n)'
    BY <1>1, <2>3 DEF WillWrite
  <2>5. AgreementInv'
    <3> SUFFICES ASSUME NEW n \in tracked', n \notin drifted,
                        ghState[n] = "open" \/ n \notin Old, closedAt'[n] # GhClosedAt(n)
                 PROVE  (/\ n \notin aged
                         /\ statsJob \/ Pending(n) \/ \E q \in Procs : WillWrite(req[q], n))'
      BY <2>2, <2>3 DEF AgreementInv
    <3>1. CASE n \in tracked
      <4>1. closedAt'[n] = closedAt[n]
        BY <1>0, <2>2, <3>1
      <4>2. n \notin aged /\ (statsJob \/ Pending(n) \/ \E q \in Procs : WillWrite(req[q], n))
        BY <3>1, <4>1 DEF ClosedAtInv, AgreementInv
      <4> QED BY <2>2, <2>3, <2>4, <4>2
    <3>2. CASE n \notin tracked
      <4>1. n \in Numbers /\ closedAt[n] = 0
        BY <2>2, <3>2 DEF ClosedAtInv, NoRowInv
      <4>2. CASE n \in seenOpen
        BY <2>2, <4>1, <4>2 DEF GhClosedAt
      <4>3. CASE n \in late
        BY <1>0, <2>2, <4>1, <4>3 DEF GhClosedAt, OnGithub
      <4> QED BY <2>2, <3>2, <4>2, <4>3
    <3> QED BY <3>1, <3>2
  <2>6. NoRowInv'
    BY <2>2, <2>3 DEF ClosedAtInv, NoRowInv
  <2>7. GithubInv'
    BY <2>2, <2>3 DEF ClosedAtInv, GithubInv
  <2>8. \A q \in Procs : WritesTell(req[q])'
    BY <1>1, <2>2, <2>3 DEF ClosedAtInv, WritesTell
  <2> QED BY <1>1, <2>5, <2>6, <2>7, <2>8 DEF ClosedAtInv
<1> QED BY <1>3, <1>4, <1>5, <1>6, <1>7 DEF Environment, External

\* At the beginning nothing has a row.
LEMMA InitClosedAt == ReqInit => ClosedAtInv
<1> SUFFICES ASSUME ReqInit PROVE ClosedAtInv
  OBVIOUS
<1>1. /\ tracked = {} /\ closedAt = [n \in Numbers |-> 0]
      /\ \A n \in Numbers : ghState[n] = "absent" <=> n \notin Old
      /\ \A n \in aged : ghState[n] = "closed"
      /\ \A p \in Procs : req[p] = Idle
  BY DEF ReqInit, Init
<1>2. AgreementInv /\ GithubInv
  BY <1>1 DEF AgreementInv, GithubInv
<1>3. NoRowInv
  BY <1>1 DEF NoRowInv, GhClosedAt
<1>4. \A p \in Procs : WritesTell(req[p])
  BY <1>1 DEF WritesTell, Idle, Numberless
<1>5. OneJob
  BY <1>1 DEF OneJob, Idle, Jobs
<1> QED BY <1>2, <1>3, <1>4, <1>5 DEF ClosedAtInv

\* Every step keeps it, where nothing dies half way.
LEMMA NextClosedAt ==
    ASSUME AutoClose = {}, Threads \leq 1, MaxCrashes = 0
    PROVE  RequestInv /\ ClosedAtInv /\ [ReqNext]_allVars => ClosedAtInv'
<1> SUFFICES ASSUME RequestInv, ClosedAtInv, [ReqNext]_allVars PROVE ClosedAtInv'
  OBVIOUS
<1>1. CASE UNCHANGED allVars
  <2>1. /\ UNCHANGED <<ghState, closings, aged, tracked, closedAt, statsJob, drifted, req>>
    BY <1>1 DEF allVars, reqVars, vars, ghVars, statVars
  <2>2. \A n : /\ GhClosedAt(n)' = GhClosedAt(n) /\ (OnGithub(n)' <=> OnGithub(n))
               /\ Stamping(n)' = Stamping(n) /\ Pending(n)' = Pending(n)
    BY <2>1 DEF GhClosedAt, OnGithub, Stamping, Pending
  <2>3. \A n, q : WillWrite(req[q], n)' = WillWrite(req[q], n)
    BY <2>1, <2>2 DEF WillWrite
  <2>4. AgreementInv' /\ NoRowInv' /\ GithubInv'
    BY <2>1, <2>2, <2>3 DEF ClosedAtInv, AgreementInv, NoRowInv, GithubInv
  <2>5. (\A q \in Procs : WritesTell(req[q])') /\ OneJob'
    BY <2>1, <2>2 DEF ClosedAtInv, WritesTell, OneJob
  <2> QED BY <2>4, <2>5 DEF ClosedAtInv
<1>2. ASSUME NEW p \in Procs, Crash(p) PROVE FALSE
  BY <1>2 DEF Crash, RequestInv, ReqTypeOK
<1> QED BY <1>1, <1>2, BeginAgrees, ContinueAgrees, EnvironmentAgrees DEF ReqNext

\* Requests that close and reopen an issue at the same time may leave any
\* closed_at, but when nothing runs and nothing is queued it is GitHub's, for
\* every card the job looks at.  It needs columns without auto-close, one
\* thread for jobs, and requests that do not die between GitHub and the row.
THEOREM QuietClosedAt ==
    ASSUME AutoClose = {}, Threads \leq 1, MaxCrashes = 0
    PROVE  ReqSpec => []QuietClosedAtAgrees
<1>1. RequestInv /\ ClosedAtInv => QuietClosedAtAgrees
  <2> SUFFICES ASSUME RequestInv, ClosedAtInv, Quiet,
                      NEW n \in (tracked \cap Synced) \ drifted,
                      closedAt[n] # GhClosedAt(n)
               PROVE  FALSE
    BY DEF QuietClosedAtAgrees
  <2>1. statsJob \/ Pending(n) \/ \E p \in Procs : WillWrite(req[p], n)
    BY DEF ClosedAtInv, AgreementInv, Synced
  <2> QED BY <2>1 DEF Quiet, Pending, WillWrite, Idle
<1>2. RequestInv /\ ClosedAtInv /\ [ReqNext]_allVars => ClosedAtInv'
  BY NextClosedAt
<1> QED BY <1>1, <1>2, InitClosedAt, InitRequestInv, NextRequestInv, PTL DEF ReqSpec

-----------------------------------------------------------------------------
(***************************************************************************)
(* Lifetimes left open.                                                    *)
(***************************************************************************)

\* What a request is going to do to the lifetimes of card n.  "moving" opens
\* one whatever happens, "armed" has seen the card archived and opens one,
\* "holding" has opened it and takes the card from the archive, "shelving" has
\* closed them all and puts the card into the archive.
Moving(r, n)   == r.n = n /\ \/ r.kind = "move" /\ r.at = "start"
                             \/ r.kind = "create" /\ r.at # "create"
Armed(r, n)    == r.n = n /\ r.kind = "unarchive" /\ r.at = "start"
Holding(r, n)  == r.n = n /\ r.kind = "unarchive" /\ r.at = "restore"
Shelving(r, n) == r.n = n /\ r.at = "shelve"

Role(r, n) == IF Moving(r, n) THEN "moving"
              ELSE IF Armed(r, n) THEN "armed"
              ELSE IF Holding(r, n) THEN "holding"
              ELSE IF Shelving(r, n) THEN "shelving"
              ELSE "free"

Team(R, x, n)  == {p \in Procs : Role(R[p], n) = x}
Count(R, x, n) == Cardinality(Team(R, x, n))

\* Twice the lifetimes that may still be opened before the next Finisher: one
\* by each request that is armed or moving and, if the card is archived, one by
\* each that may find it so; and the same again each time a "shelving" request
\* has archived it again, when it is free itself.
Rounds(s) == 2 * Cardinality(Procs) * s - s * s + s

Due(R, n)      == 2 * (Count(R, "armed", n) + Count(R, "moving", n))
                      + Rounds(Count(R, "shelving", n))
DueShelved(R, n) == 2 * (Cardinality(Procs) - Count(R, "armed", n)
                           - Count(R, "holding", n) - Count(R, "shelving", n))

Allowed == 2 + Cardinality(Procs) * (Cardinality(Procs) + 1)

LeakInv ==
    \A n \in Numbers :
        2 * Len(opened[n]) + Due(req, n)
            + (IF n \in archived THEN DueShelved(req, n) ELSE 0)
            <= Allowed + 2 * crashes

\* Only issues on GitHub have lifetimes, and only such are given any.
GivenInv ==
    /\ \A n \in Numbers : opened[n] # <<>> => OnGithub(n)
    /\ \A p \in Procs :
           req[p].kind \in {"move", "unarchive", "create"} /\ req[p].at # "create"
               => OnGithub(req[p].n)

\* Which statement comes before the ones that matter.
LEMMA NextLabel ==
    ASSUME RequestInv, NEW p \in Procs, Continue(p),
           NEW r, r = req[p], NEW s, s = req'[p]
    PROVE  \/ s = Idle
           \/ /\ s.at = "shelve" => Finish(p)
              /\ s.at = "restore" => Start(p)
              /\ s.at = "start" => Finish(p) \/ Look(p) \/ Sort(p)
              /\ s.at # "create"
<1>0. req \in [Procs -> Requests] /\ r \in Requests /\ LabelTells(r)
  BY DEF RequestInv
<1> DEFINE Others == Labels \ {"shelve", "restore", "start", "create"}
           Goal == \/ s = Idle
                   \/ /\ s.at = "shelve" => Finish(p)
                      /\ s.at = "restore" => Start(p)
                      /\ s.at = "start" => Finish(p) \/ Look(p) \/ Sort(p)
                      /\ s.at # "create"
<1>1. ASSUME Done(p) PROVE Goal
  BY <1>0, <1>1 DEF Done
<1>2. ASSUME NEW l, Goto(p, l) PROVE s.at = l
  <2>1. s = [r EXCEPT !.at = l]
    BY <1>0, <1>2 DEF Goto
  <2> QED BY <1>0, <2>1 DEF Requests
<1>3. ASSUME s.at \in Others PROVE Goal
  BY <1>3
<1>4. CASE UnreadyCard(p) \/ Place(p) \/ NeedAssignee(p) \/ Patch(p) \/ AskState(p)
           \/ Stamp(p) \/ Enqueue(p) \/ Check(p) \/ Stat(p) \/ Shelve(p)
           \/ Restore(p) \/ Toggle(p) \/ Insert(p) \/ UpdateRows(p) \/ Sweep(p)
  <2>1. Done(p) \/ \E l \in Others : Goto(p, l)
    <3>1. /\ {"place", "need", "ask", "stat", "state", "sort", "close", "enqueue",
              "finish", "next"} \subseteq Others
      BY DEF Labels
    <3> HIDE DEF Others
    <3> QED BY <1>4, <3>1
            DEF UnreadyCard, Place, NeedAssignee, Patch, AskState, Stamp, Enqueue,
                Check, Stat, Shelve, Restore, Toggle, Insert, UpdateRows, Sweep,
                AfterAssign
  <2> QED BY <1>1, <1>2, <1>3, <2>1
<1>5. CASE Finish(p)
  <2>1. \E l \in {"start", "shelve"} : Goto(p, l)
    BY <1>5 DEF Finish
  <2> QED BY <1>2, <1>5, <2>1
<1>6. CASE Start(p)
  <2>1. Done(p) \/ \E l \in {"unready", "restore"} : Goto(p, l)
    <3>1. r.kind \in {"move", "unarchive", "create"}
      BY <1>0, <1>6 DEF Start, At, LabelTells
    <3> QED BY <1>6, <3>1 DEF Start
  <2> QED BY <1>1, <1>2, <1>6, <2>1
<1>7. CASE Sort(p)
  <2>1. Done(p) \/ Goto(p, "start")
    BY <1>7 DEF Sort
  <2> QED BY <1>1, <1>2, <1>7, <2>1
<1>8. CASE Look(p)
  <2> DEFINE l == AfterLook(r)
             f == r.n \in ready
  <2>1. /\ r.kind \in {"move", "unarchive", "toggle_ready"}
        /\ req' = [req EXCEPT ![p] =
               IF l = "idle" THEN Idle
               ELSE [r EXCEPT !.at = l, !.column = column[r.n], !.flag = f]]
    BY <1>0, <1>8 DEF Look, At, LabelTells
  <2>2. l \in {"idle", "finish", "need", "start", "toggle"}
    BY <2>1 DEF AfterLook
  <2> HIDE DEF l, f
  <2>3. s = IF l = "idle" THEN Idle
            ELSE [r EXCEPT !.at = l, !.column = column[r.n], !.flag = f]
    BY <1>0, <2>1
  <2>4. s = Idle \/ s.at = l
    BY <1>0, <2>3 DEF Requests
  <2> QED BY <1>8, <2>2, <2>4
<1>9. CASE FindCard(p)
  <2>1. s = [r EXCEPT !.at = "look", !.list = order[r.c]]
    BY <1>0, <1>9 DEF FindCard
  <2>2. s.at = "look"
    BY <1>0, <2>1 DEF Requests
  <2> QED BY <1>3, <2>2 DEF Labels
<1>10. CASE Ask(p)
  <2>1. PICK same \in BOOLEAN : req' = [req EXCEPT ![p].at = "patch", ![p].flag = same]
    BY <1>10 DEF Ask
  <2>2. s = [r EXCEPT !.at = "patch", !.flag = same]
    BY <1>0, <2>1
  <2>3. s.at = "patch"
    BY <1>0, <2>2 DEF Requests
  <2> QED BY <1>3, <2>3 DEF Labels
<1>11. CASE CloseIssue(p) \/ ReopenIssue(p)
  <2>1. PICK v : req' = [req EXCEPT ![p].at = "stamp", ![p].seen[r.n] = v]
    BY <1>11 DEF CloseIssue, ReopenIssue
  <2>2. s = [r EXCEPT !.at = "stamp", !.seen[r.n] = v]
    BY <1>0, <2>1
  <2>3. s.at = "stamp"
    BY <1>0, <2>2 DEF Requests
  <2> QED BY <1>3, <2>3 DEF Labels
<1>12. CASE CreateIssue(p)
  <2>1. PICK n \in Numbers : req' = [req EXCEPT ![p].at = "insert", ![p].n = n]
    BY <1>12 DEF CreateIssue
  <2>2. s = [r EXCEPT !.at = "insert", !.n = n]
    BY <1>0, <2>1
  <2>3. s.at = "insert"
    BY <1>0, <2>2 DEF Requests
  <2> QED BY <1>3, <2>3 DEF Labels
<1>13. CASE Fetch(p)
  <2> DEFINE l == IF r.kind = "sync_stats" THEN "insert_rows" ELSE "query"
             S == [n \in Numbers |->
                      IF n \in IF r.kind = "sync_stats" THEN Synced ELSE Listed
                      THEN GhClosedAt(n) ELSE -1]
  <2>1. req' = [req EXCEPT ![p].at = l, ![p].seen = S]
    BY <1>13 DEF Fetch
  <2>2. l \in Others
    BY DEF Labels
  <2> HIDE DEF l, S
  <2>3. s = [r EXCEPT !.at = l, !.seen = S]
    BY <1>0, <2>1
  <2>4. s.at = l
    BY <1>0, <2>3 DEF Requests
  <2> QED BY <1>3, <2>2, <2>4
<1>14. CASE InsertRows(p) \/ Query(p)
  <2>1. PICK l \in {"update_rows", "next"} :
            \E todo : req' = [req EXCEPT ![p].at = l, ![p].todo = todo]
    BY <1>14 DEF InsertRows, Query
  <2>2. PICK todo : req' = [req EXCEPT ![p].at = l, ![p].todo = todo]
    BY <2>1
  <2>3. s = [r EXCEPT !.at = l, !.todo = todo]
    BY <1>0, <2>2
  <2>4. s.at = l
    BY <1>0, <2>3 DEF Requests
  <2> QED BY <1>3, <2>4 DEF Labels
<1>15. CASE NextGone(p)
  <2>1. CASE Goto(p, "sweep")
    BY <1>2, <1>3, <2>1 DEF Labels
  <2>2. CASE ~Goto(p, "sweep")
    <3>1. PICK n \in r.todo :
              req' = [req EXCEPT ![p] =
                  [r EXCEPT !.todo = r.todo \ {n}, !.n = n,
                            !.at = IF ghState[n] = "closed" THEN "finish"
                                                            ELSE "next"]]
      BY <1>15, <2>2, Zenon DEF NextGone
    <3>2. PICK l \in {"finish", "next"} :
              s = [r EXCEPT !.todo = r.todo \ {n}, !.n = n, !.at = l]
      BY <1>0, <3>1
    <3>3. s.at = l
      BY <1>0, <3>2 DEF Requests
    <3> QED BY <1>3, <3>3 DEF Labels
  <2> QED BY <2>1, <2>2
<1> QED BY <1>4, <1>5, <1>6, <1>7, <1>8, <1>9, <1>10, <1>11, <1>12, <1>13, <1>14,
           <1>15 DEF Continue

\* What a statement does to a card and to the role its request has for it.
Advance(x, y, n) ==
    \/ opened'[n] = <<>>
    \/ /\ opened'[n] = opened[n]
       /\ \/ x = y /\ (n \in archived' <=> n \in archived)
          \/ x = "free" /\ y = "armed" /\ n \in archived /\ n \in archived'
          \/ x = "holding" /\ y = "free" /\ n \notin archived'
          \/ x = "shelving" /\ y = "free" /\ n \in archived'
          \/ x = "moving" /\ y = "free" /\ (n \in archived' <=> n \in archived)
    \/ /\ Len(opened'[n]) = Len(opened[n]) + 1
       /\ n \in archived' <=> n \in archived
       /\ \/ x = "moving" /\ y = "free"
          \/ x = "armed" /\ y = "holding"

\* A request that is elsewhere, or at another statement, is free.
LEMMA RoleFree ==
    ASSUME NEW n, NEW r,
           \/ r.n # n
           \/ /\ r.at \notin {"start", "restore", "shelve"}
              /\ r.kind # "create" \/ r.at = "create"
    PROVE  Role(r, n) = "free"
BY DEF Role, Moving, Armed, Holding, Shelving

\* A request that creates its card is moving it from then on.
LEMMA CreatingRole ==
    ASSUME NEW n, NEW r, r.kind = "create", r.at # "create"
    PROVE  Role(r, n) = IF r.n = n THEN "moving" ELSE "free"
BY DEF Role, Moving, Armed, Holding, Shelving

\* Each statement takes its request on by a role, or empties the card of
\* lifetimes.
LEMMA RoleStep ==
    ASSUME RequestInv, GivenInv, NEW p \in Procs, Continue(p),
           NEW r, r = req[p], NEW s, s = req'[p], NEW n \in Numbers
    PROVE  Advance(Role(r, n), Role(s, n), n)
<1>0. /\ req \in [Procs -> Requests] /\ r \in Requests /\ LabelTells(r)
      /\ opened \in [Numbers -> Seq(Columns)] /\ column \in [Numbers -> Columns]
      /\ r.column \in Columns /\ r.c \in Columns
  BY DEF RequestInv, ReqTypeOK, TypeOK, Requests
<1>1. /\ \/ s = Idle
         \/ s.kind = r.kind /\ (s.n = r.n \/ At(p, "create") \/ At(p, "next"))
      /\ \/ s = Idle
         \/ /\ s.at = "shelve" => Finish(p)
            /\ s.at = "restore" => Start(p)
            /\ s.at = "start" => Finish(p) \/ Look(p) \/ Sort(p)
            /\ s.at # "create"
  BY ContinueFrame, NextLabel
<1>2. s = Idle => Role(s, n) = "free"
  BY RoleFree DEF Idle
<1>3. ASSUME NEW l, Goto(p, l) PROVE s.at = l /\ s.kind = r.kind /\ s.n = r.n
  <2>1. s = [r EXCEPT !.at = l]
    BY <1>0, <1>3 DEF Goto
  <2> QED BY <1>0, <2>1 DEF Requests
<1>4. Done(p) => s = Idle
  BY <1>0 DEF Done
<1>5. CASE Finish(p)
  <2>1. /\ opened' = [opened EXCEPT ![r.n] = <<>>] /\ UNCHANGED archived
        /\ \E l : Goto(p, l)
    BY <1>5 DEF Finish, Finished, statVars
  <2>2. CASE r.n = n
    BY <1>0, <2>1, <2>2 DEF Advance
  <2>3. CASE r.n # n
    <3>1. Role(r, n) = "free" /\ Role(s, n) = "free"
      BY <1>3, <2>1, <2>3, RoleFree
    <3> QED BY <1>0, <2>1, <2>3, <3>1 DEF Advance
  <2> QED BY <2>2, <2>3
<1>6. CASE CreateIssue(p)
  <2>1. PICK m \in Numbers :
            /\ ghState[m] = "absent" /\ UNCHANGED <<opened, archived>>
            /\ req' = [req EXCEPT ![p].at = "insert", ![p].n = m]
    BY <1>6 DEF CreateIssue, statVars
  <2>2. s = [r EXCEPT !.at = "insert", !.n = m]
    BY <1>0, <2>1
  <2>3. s.n = m
    BY <1>0, <2>2 DEF Requests
  <2>4. CASE m = n
    BY <2>1, <2>4 DEF GivenInv, OnGithub, Advance
  <2>5. CASE m # n
    <3>1. Role(r, n) = "free" /\ Role(s, n) = "free"
      BY <1>6, <2>3, <2>5, RoleFree DEF CreateIssue, At
    <3> QED BY <2>1, <3>1 DEF Advance
  <2> QED BY <2>4, <2>5
<1>7. CASE Start(p)
  <2>1. /\ opened' = [opened EXCEPT ![r.n] = Append(@, StartedIn(r))]
        /\ UNCHANGED archived /\ r.at = "start"
        /\ r.kind \in {"move", "unarchive", "create"}
        /\ r.kind = "move" => Goto(p, "unready")
        /\ r.kind = "unarchive" => Goto(p, "restore")
        /\ r.kind = "create" => Done(p)
    BY <1>0, <1>7 DEF Start, At, LabelTells, statVars
  <2>2. CASE r.n = n
    <3>1. StartedIn(r) \in Columns
      BY <1>0 DEF StartedIn
    <3>2. opened[n] \in Seq(Columns) /\ opened'[n] = Append(opened[n], StartedIn(r))
      BY <1>0, <2>1, <2>2
    <3> HIDE DEF StartedIn
    <3>3. Len(opened'[n]) = Len(opened[n]) + 1
      BY <3>1, <3>2
    <3>4. /\ r.kind \in {"move", "create"} => Role(r, n) = "moving"
          /\ r.kind = "unarchive" => Role(r, n) = "armed"
      BY <2>1, <2>2 DEF Role, Moving, Armed
    <3>5. r.kind \in {"move", "create"} => Role(s, n) = "free"
      BY <1>2, <1>3, <1>4, <2>1, RoleFree
    <3>6. r.kind = "unarchive" => Role(s, n) = "holding"
      BY <1>3, <2>1, <2>2 DEF Role, Moving, Armed, Holding
    <3> QED BY <2>1, <3>3, <3>4, <3>5, <3>6 DEF Advance
  <2>3. CASE r.n # n
    <3>1. Role(r, n) = "free" /\ Role(s, n) = "free"
      BY <1>2, <1>3, <1>4, <2>1, <2>3, RoleFree
    <3> QED BY <1>0, <2>1, <2>3, <3>1 DEF Advance
  <2> QED BY <2>2, <2>3
<1>8. CASE Shelve(p)
  <2>1. /\ archived' = archived \cup {r.n} /\ UNCHANGED opened
        /\ r.at = "shelve" /\ r.kind \in {"archive", "synchronize"}
        /\ Done(p) \/ Goto(p, "next")
    BY <1>0, <1>8 DEF Shelve, At, LabelTells
  <2>2. Role(s, n) = "free"
    BY <1>2, <1>3, <1>4, <2>1, RoleFree
  <2>3. Role(r, n) = IF r.n = n THEN "shelving" ELSE "free"
    BY <2>1 DEF Role, Moving, Armed, Holding, Shelving
  <2> QED BY <2>1, <2>2, <2>3 DEF Advance
<1>9. CASE Restore(p)
  <2>1. /\ archived' = archived \ {r.n} /\ UNCHANGED opened
        /\ r.at = "restore" /\ r.kind = "unarchive" /\ Done(p)
    BY <1>0, <1>9 DEF Restore, At, LabelTells
  <2>2. Role(s, n) = "free"
    BY <1>2, <1>4, <2>1
  <2>3. Role(r, n) = IF r.n = n THEN "holding" ELSE "free"
    BY <2>1 DEF Role, Moving, Armed, Holding, Shelving
  <2> QED BY <2>1, <2>2, <2>3 DEF Advance
<1>10. CASE Look(p)
  <2> DEFINE l == AfterLook(r)
             f == r.n \in ready
  <2>1. /\ r.kind \in {"move", "unarchive", "toggle_ready"} /\ r.at = "look"
        /\ req' = [req EXCEPT ![p] =
               IF l = "idle" THEN Idle
               ELSE [r EXCEPT !.at = l, !.column = column[r.n], !.flag = f]]
        /\ UNCHANGED <<opened, archived>>
    BY <1>0, <1>10 DEF Look, At, LabelTells
  <2>2. /\ l \in {"idle", "finish", "need", "start", "toggle"}
        /\ l = "start" => r.kind = "unarchive" /\ r.n \in archived
    BY <2>1 DEF AfterLook
  <2> HIDE DEF l, f
  <2>3. s = IF l = "idle" THEN Idle
            ELSE [r EXCEPT !.at = l, !.column = column[r.n], !.flag = f]
    BY <1>0, <2>1
  <2>4. s = Idle \/ (s.at = l /\ s.kind = r.kind /\ s.n = r.n)
    BY <1>0, <2>3 DEF Requests
  <2>5. Role(r, n) = "free"
    BY <2>1, RoleFree
  <2>6. Role(s, n) = "free" \/ (Role(s, n) = "armed" /\ n \in archived)
    <3>1. CASE s = Idle \/ l # "start"
      BY <1>2, <2>1, <2>2, <2>4, <3>1, RoleFree
    <3>2. CASE s # Idle /\ l = "start"
      BY <2>2, <2>4, <3>2 DEF Role, Moving, Armed, Holding, Shelving
    <3> QED BY <3>1, <3>2
  <2> QED BY <2>1, <2>5, <2>6 DEF Advance
<1>11. CASE Sort(p) \/ Insert(p) \/ NeedAssignee(p) \/ Ask(p) \/ Patch(p)
  <2>1. UNCHANGED <<opened, archived>>
    BY <1>11 DEF Sort, Insert, NeedAssignee, Ask, Patch, vars, statVars
  <2>2. /\ r.at \in {"sort", "insert", "need", "ask", "patch"}
        /\ ~Finish(p) /\ ~Start(p) /\ ~Look(p)
        /\ s = Idle \/ s.n = r.n
    BY <1>1, <1>11, Zenon DEF Sort, Insert, NeedAssignee, Ask, Patch, Finish, Start,
                              Look, At
  <2>3. CASE r.kind = "create"
    <3>1. Role(r, n) = IF r.n = n THEN "moving" ELSE "free"
      BY <2>2, <2>3, CreatingRole
    <3>2. Role(s, n) = "free" \/ Role(s, n) = Role(r, n)
      BY <1>1, <1>2, <2>2, <2>3, <3>1, CreatingRole
    <3> QED BY <2>1, <3>1, <3>2 DEF Advance
  <2>4. CASE r.kind # "create"
    <3>1. Role(r, n) = "free"
      BY <2>2, <2>4, RoleFree
    <3>2. Sort(p) => Done(p)
      BY <1>0, <2>4 DEF Sort, At, LabelTells
    <3>3. Role(s, n) = "free"
      BY <1>1, <1>2, <1>4, <2>2, <2>4, <3>2, RoleFree
    <3> QED BY <2>1, <3>1, <3>3 DEF Advance
  <2> QED BY <2>3, <2>4
<1>12. ASSUME UNCHANGED <<opened, archived>>, r.kind # "create",
              r.at \notin {"start", "restore", "shelve", "finish", "look", "sort"}
       PROVE  Advance(Role(r, n), Role(s, n), n)
  <2>1. Role(r, n) = "free"
    BY <1>12, RoleFree
  <2>2. ~Finish(p) /\ ~Start(p) /\ ~Look(p) /\ ~Sort(p)
    BY <1>12, Zenon DEF Finish, Start, Look, Sort, At
  <2>3. Role(s, n) = "free"
    BY <1>1, <1>2, <1>12, <2>2, RoleFree
  <2> QED BY <1>12, <2>1, <2>3 DEF Advance
<1>13. CASE NextGone(p)
  <2>1. UNCHANGED vars /\ r.at = "next"
    BY <1>13, Zenon DEF NextGone, At
  <2>2. UNCHANGED <<opened, archived>> /\ r.kind # "create"
    BY <1>0, <2>1 DEF LabelTells, vars, statVars
  <2> QED BY <1>12, <2>1, <2>2
<1>14. CASE FindCard(p) \/ UnreadyCard(p) \/ Place(p) \/ AskState(p) \/ CloseIssue(p)
            \/ ReopenIssue(p) \/ Stamp(p) \/ Enqueue(p) \/ Check(p) \/ Stat(p)
  <2>1. /\ UNCHANGED <<opened, archived>>
        /\ r.at \in {"find", "unready", "place", "state", "close", "reopen", "stamp",
                     "enqueue", "check", "stat"}
    BY <1>14
       DEF FindCard, UnreadyCard, Place, AskState, CloseIssue, ReopenIssue, Stamp,
           Enqueue, Check, Stat, At, vars, statVars
  <2>2. r.kind # "create"
    BY <1>0, <2>1 DEF LabelTells
  <2> QED BY <1>12, <2>1, <2>2
<1>15. CASE Toggle(p) \/ Fetch(p) \/ InsertRows(p) \/ UpdateRows(p) \/ Query(p)
            \/ Sweep(p)
  <2>1. /\ UNCHANGED <<opened, archived>>
        /\ r.at \in {"toggle", "fetch", "insert_rows", "update_rows", "query", "sweep"}
    BY <1>15 DEF Toggle, Fetch, InsertRows, UpdateRows, Query, Sweep, At, vars,
                 statVars
  <2>2. r.kind # "create"
    BY <1>0, <2>1 DEF LabelTells, Jobs
  <2> QED BY <1>12, <2>1, <2>2
<1> QED BY <1>5, <1>6, <1>7, <1>8, <1>9, <1>10, <1>11, <1>13, <1>14, <1>15 DEF Continue

\* All requests but that of p stay as they are.
OthersStay(p, R, T) == \A q \in Procs \ {p} : T[q] = R[q]

\* One process that changes its role leaves one team and joins another.
LEMMA CountChange ==
    ASSUME NEW R, NEW T, NEW n, NEW p \in Procs, OthersStay(p, R, T),
           NEW x, x = Role(R[p], n), NEW y, y = Role(T[p], n), NEW z
    PROVE  /\ Count(R, z, n) \in Nat
           /\ Count(T, z, n) = IF z = x /\ x # y THEN Count(R, z, n) - 1
                               ELSE IF z = y /\ x # y THEN Count(R, z, n) + 1
                               ELSE Count(R, z, n)
<1> DEFINE A == Team(R, z, n)
           B == Team(T, z, n)
<1>1. IsFiniteSet(A) /\ Cardinality(A) \in Nat
  <2>1. IsFiniteSet(Procs) /\ A \in SUBSET Procs
    BY ProcsAssumption DEF ProcsAssumption, Team
  <2> QED BY <2>1, FS_Subset, FS_CardinalityType
<1>2. /\ z = x /\ x # y => B = A \ {p} /\ p \in A
      /\ z = y /\ x # y => B = A \cup {p} /\ p \notin A
      /\ ~(z = x /\ x # y) /\ ~(z = y /\ x # y) => B = A
  BY DEF Team, OthersStay
<1> HIDE DEF A, B
<1>3. /\ Cardinality(A \ {p}) = IF p \in A THEN Cardinality(A) - 1 ELSE Cardinality(A)
      /\ Cardinality(A \cup {p}) = IF p \in A THEN Cardinality(A) ELSE Cardinality(A) + 1
  BY <1>1, FS_AddElement, FS_RemoveElement
<1> QED BY <1>1, <1>2, <1>3 DEF Count, A, B

\* The teams have no more members than there are processes.
LEMMA CountsFit ==
    ASSUME NEW R, NEW n
    PROVE  /\ Cardinality(Procs) \in Nat
           /\ Count(R, "armed", n) \in Nat /\ Count(R, "moving", n) \in Nat
           /\ Count(R, "holding", n) \in Nat /\ Count(R, "shelving", n) \in Nat
           /\ Count(R, "armed", n) + Count(R, "moving", n) + Count(R, "holding", n)
                  + Count(R, "shelving", n) <= Cardinality(Procs)
<1> DEFINE A == Team(R, "armed", n)
           B == Team(R, "moving", n)
           C == Team(R, "holding", n)
           D == Team(R, "shelving", n)
<1>1. IsFiniteSet(Procs)
  BY ProcsAssumption DEF ProcsAssumption
<1>2. /\ A \in SUBSET Procs /\ B \in SUBSET Procs /\ C \in SUBSET Procs
      /\ D \in SUBSET Procs
      /\ A \cap B = {} /\ (A \cup B) \cap C = {} /\ (A \cup B \cup C) \cap D = {}
  BY DEF Team
<1> HIDE DEF A, B, C, D
<1>3. /\ IsFiniteSet(A) /\ IsFiniteSet(B) /\ IsFiniteSet(C) /\ IsFiniteSet(D)
  BY <1>1, <1>2, FS_Subset
<1>4. /\ Cardinality(A) \in Nat /\ Cardinality(B) \in Nat /\ Cardinality(C) \in Nat
      /\ Cardinality(D) \in Nat /\ Cardinality(Procs) \in Nat
      /\ Cardinality({}) = 0
  BY <1>1, <1>3, FS_CardinalityType, FS_EmptySet
<1>5. /\ IsFiniteSet(A \cup B)
      /\ Cardinality(A \cup B)
             = Cardinality(A) + Cardinality(B) - Cardinality(A \cap B)
  BY <1>3, FS_Union
<1>6. PICK E : E = A \cup B
  OBVIOUS
<1>7. /\ IsFiniteSet(E \cup C)
      /\ Cardinality(E \cup C)
             = Cardinality(E) + Cardinality(C) - Cardinality(E \cap C)
  BY <1>3, <1>5, <1>6, FS_Union
<1>8. PICK F : F = E \cup C
  OBVIOUS
<1>9. /\ IsFiniteSet(F \cup D)
      /\ Cardinality(F \cup D)
             = Cardinality(F) + Cardinality(D) - Cardinality(F \cap D)
  BY <1>3, <1>7, <1>8, FS_Union
<1>10. /\ Cardinality(A \cap B) = 0
       /\ Cardinality(E \cap C) = 0
       /\ Cardinality(F \cap D) = 0
  <2>1. A \cap B = {} /\ E \cap C = {} /\ F \cap D = {}
    BY <1>2, <1>6, <1>8
  <2> QED BY <1>4, <2>1, Zenon
<1>11. Cardinality(F \cup D) <= Cardinality(Procs)
  <2>1. F \cup D \in SUBSET Procs
    BY <1>2, <1>6, <1>8
  <2> QED BY <1>1, <2>1, FS_Subset
<1>12. /\ Cardinality(E) = Cardinality(A) + Cardinality(B)
       /\ Cardinality(F) = Cardinality(E) + Cardinality(C)
       /\ Cardinality(F \cup D) = Cardinality(F) + Cardinality(D)
  <2>1. Cardinality(E) = Cardinality(A) + Cardinality(B) /\ Cardinality(E) \in Nat
    BY <1>4, <1>5, <1>6, <1>10
  <2>2. Cardinality(F) = Cardinality(E) + Cardinality(C) /\ Cardinality(F) \in Nat
    BY <1>4, <1>7, <1>8, <1>10, <2>1
  <2> QED BY <1>4, <1>9, <1>10, <2>1, <2>2
<1> QED BY <1>4, <1>11, <1>12 DEF Count, A, B, C, D

\* One shelving request fewer.
LEMMA RoundsStep ==
    ASSUME NEW s \in Nat, s # 0
    PROVE  /\ Rounds(s) \in Int /\ Rounds(s - 1) \in Int
           /\ Rounds(s - 1) = Rounds(s) - 2 * Cardinality(Procs) + 2 * s - 2
<1>1. PICK k \in Nat : k = Cardinality(Procs)
  BY CountsFit
<1>2. k * (s - 1) = k * s - k /\ (s - 1) * (s - 1) = s * s - 2 * s + 1
  OBVIOUS
<1>3. k * s \in Nat /\ s * s \in Nat
  OBVIOUS
<1>4. 2 * k * s = 2 * (k * s) /\ 2 * k * (s - 1) = 2 * (k * (s - 1))
  OBVIOUS
<1> QED BY <1>1, <1>2, <1>3, <1>4 DEF Rounds

\* No number of rounds is negative.
LEMMA RoundsPositive ==
    ASSUME NEW s \in Nat, s <= Cardinality(Procs)
    PROVE  Rounds(s) \in Nat
<1>1. PICK k \in Nat : k = Cardinality(Procs)
  BY CountsFit
<1>2. PICK j \in Nat : k = j + s
  <2>1. k - s \in Nat /\ k = (k - s) + s
    BY <1>1
  <2> QED BY <2>1
<1>3. j * s \in Nat /\ s * s \in Nat /\ 2 * (j + s) * s = 2 * (j * s) + 2 * (s * s)
  OBVIOUS
<1>4. PICK js \in Nat, ss \in Nat : js = j * s /\ ss = s * s
  BY <1>3
<1> QED BY <1>1, <1>2, <1>3, <1>4 DEF Rounds

\* After a Finisher there is room for all that may follow.
LEMMA RoomForAll ==
    ASSUME NEW a \in Nat, NEW m \in Nat, NEW h \in Nat, NEW s \in Nat,
           a + m + h + s <= Cardinality(Procs)
    PROVE  2 * (a + m + (Cardinality(Procs) - a - h - s)) + Rounds(s)
               <= 2 + Cardinality(Procs) * (Cardinality(Procs) + 1)
<1>1. PICK k \in Nat : k = Cardinality(Procs) - s
  BY CountsFit
<1>2. Cardinality(Procs) = k + s /\ a + m + h <= k
  BY <1>1, CountsFit
<1>3. k * k >= 3 * k - 2
  <2>1. CASE k \in {0, 1, 2}
    BY <2>1
  <2>2. CASE k >= 3
    BY <2>2
  <2> QED BY <2>1, <2>2
<1>4. /\ k * k \in Nat /\ k * s \in Nat /\ s * s \in Nat
      /\ 2 * (k + s) * s = 2 * (k * s) + 2 * (s * s)
      /\ (k + s) * ((k + s) + 1) = k * k + 2 * (k * s) + s * s + k + s
  OBVIOUS
<1>5. PICK kk \in Nat, ks \in Nat, ss \in Nat : kk = k * k /\ ks = k * s /\ ss = s * s
  BY <1>4
<1>6. Rounds(s) = 2 * ks + ss + s
  BY <1>2, <1>4, <1>5 DEF Rounds
<1>7. Cardinality(Procs) * (Cardinality(Procs) + 1) = kk + 2 * ks + ss + k + s
  BY <1>2, <1>4, <1>5
<1>8. kk >= 3 * k - 2
  BY <1>3, <1>5
<1> QED BY <1>2, <1>6, <1>7, <1>8

\* What is due to a card (D, and E more when it is archived) and what is due
\* after a request has changed its role for the card from x to y (F and G).
DueMoves(x, y, D, E, F, G, K) ==
    /\ F + G <= K
    /\ x = y => F = D /\ G = E
    /\ x = "free" /\ y = "armed" => F = D + 2 /\ G = E - 2
    /\ x = "armed" /\ y = "holding" => F = D - 2 /\ G = E
    /\ x = "armed" /\ y = "free" => F = D - 2 /\ G = E + 2
    /\ x = "moving" /\ y = "free" => F = D - 2 /\ G = E
    /\ x = "holding" /\ y = "free" => F = D /\ G = E + 2
    /\ x = "shelving" /\ y = "free" => F <= D /\ F + G <= D

LEMMA DueChange ==
    ASSUME NEW R, NEW T, NEW n, NEW p \in Procs, OthersStay(p, R, T)
    PROVE  \E D, E, F, G, K \in Nat :
               /\ D = Due(R, n) /\ E = DueShelved(R, n)
               /\ F = Due(T, n) /\ G = DueShelved(T, n) /\ K = Allowed
               /\ DueMoves(Role(R[p], n), Role(T[p], n), D, E, F, G, K)
<1>29. PICK x : x = Role(R[p], n)
  OBVIOUS
<1>30. PICK y : y = Role(T[p], n)
  OBVIOUS
<1>1. \A z : /\ Count(R, z, n) \in Nat
             /\ Count(T, z, n) = IF z = x /\ x # y THEN Count(R, z, n) - 1
                                 ELSE IF z = y /\ x # y THEN Count(R, z, n) + 1
                                 ELSE Count(R, z, n)
  BY <1>29, <1>30, CountChange
<1>2. PICK k \in Nat : k = Cardinality(Procs)
  BY CountsFit
<1>3. PICK a \in Nat : a = Count(R, "armed", n)
  BY CountsFit
<1>4. PICK m \in Nat : m = Count(R, "moving", n)
  BY CountsFit
<1>5. PICK h \in Nat : h = Count(R, "holding", n)
  BY CountsFit
<1>6. PICK s \in Nat : s = Count(R, "shelving", n)
  BY CountsFit
<1>7. PICK aa \in Nat : aa = Count(T, "armed", n)
  BY CountsFit
<1>8. PICK mm \in Nat : mm = Count(T, "moving", n)
  BY CountsFit
<1>9. PICK hh \in Nat : hh = Count(T, "holding", n)
  BY CountsFit
<1>10. PICK ss \in Nat : ss = Count(T, "shelving", n)
  BY CountsFit
<1>11. /\ k \in Nat /\ a \in Nat /\ m \in Nat /\ h \in Nat /\ s \in Nat
       /\ a + m + h + s <= k
  BY <1>2, <1>3, <1>4, <1>5, <1>6, CountsFit
<1>12. /\ aa \in Nat /\ mm \in Nat /\ hh \in Nat /\ ss \in Nat
       /\ aa + mm + hh + ss <= k
  BY <1>2, <1>7, <1>8, <1>9, <1>10, CountsFit
<1>13. /\ aa = IF "armed" = x /\ x # y THEN a - 1
               ELSE IF "armed" = y /\ x # y THEN a + 1 ELSE a
       /\ mm = IF "moving" = x /\ x # y THEN m - 1
               ELSE IF "moving" = y /\ x # y THEN m + 1 ELSE m
       /\ hh = IF "holding" = x /\ x # y THEN h - 1
               ELSE IF "holding" = y /\ x # y THEN h + 1 ELSE h
       /\ ss = IF "shelving" = x /\ x # y THEN s - 1
               ELSE IF "shelving" = y /\ x # y THEN s + 1 ELSE s
  BY <1>1, <1>3, <1>4, <1>5, <1>6, <1>7, <1>8, <1>9, <1>10
<1>14. /\ Rounds(s) \in Nat /\ Rounds(ss) \in Nat
  BY <1>2, <1>11, <1>12, RoundsPositive
<1>15. ss = s - 1 => Rounds(ss) = Rounds(s) - 2 * k + 2 * s - 2
  BY <1>2, <1>11, <1>12, RoundsStep
<1>16. PICK U \in Nat, V \in Nat :
           /\ U = Rounds(s) /\ V = Rounds(ss)
           /\ ss = s => V = U
           /\ ss = s - 1 => V = U - 2 * k + 2 * s - 2
  BY <1>14, <1>15
<1>17. PICK D \in Int, E \in Int, F \in Int, G \in Int :
           /\ D = Due(R, n) /\ D = 2 * (a + m) + U
           /\ E = DueShelved(R, n) /\ E = 2 * (k - a - h - s)
           /\ F = Due(T, n) /\ F = 2 * (aa + mm) + V
           /\ G = DueShelved(T, n) /\ G = 2 * (k - aa - hh - ss)
  <2>1. Due(R, n) = 2 * (a + m) + U
    <3>1. Rounds(Count(R, "shelving", n)) = U
      BY <1>6, <1>16, Zenon
    <3> QED BY <1>3, <1>4, <3>1 DEF Due
  <2>2. Due(T, n) = 2 * (aa + mm) + V
    <3>1. Rounds(Count(T, "shelving", n)) = V
      BY <1>10, <1>16, Zenon
    <3> QED BY <1>7, <1>8, <3>1 DEF Due
  <2>3. DueShelved(R, n) = 2 * (k - a - h - s)
    BY <1>2, <1>3, <1>5, <1>6 DEF DueShelved
  <2>4. DueShelved(T, n) = 2 * (k - aa - hh - ss)
    BY <1>2, <1>7, <1>9, <1>10 DEF DueShelved
  <2> QED BY <2>1, <2>2, <2>3, <2>4
<1>18. PICK K \in Nat : K = Allowed
  <2>1. k * (k + 1) \in Nat
    BY <1>11
  <2> QED BY <1>2, <2>1 DEF Allowed
<1>19. 2 * (aa + mm + (k - aa - hh - ss)) + V <= K
  <2>1. aa + mm + hh + ss <= Cardinality(Procs)
    BY <1>2, <1>12
  <2>2. 2 * (aa + mm + (Cardinality(Procs) - aa - hh - ss)) + Rounds(ss) <= Allowed
    BY <1>12, <2>1, RoomForAll DEF Allowed
  <2>3. Rounds(ss) = V /\ Allowed = K /\ Cardinality(Procs) = k
    BY <1>2, <1>16, <1>18
  <2> QED BY <2>2, <2>3
<1>20. F + G <= K /\ D \in Nat /\ E \in Nat /\ F \in Nat /\ G \in Nat
  BY <1>11, <1>12, <1>17, <1>19
<1>21. ASSUME x = y PROVE F = D /\ G = E
  <2>1. aa = a /\ mm = m /\ hh = h /\ ss = s
    BY <1>13, <1>21
  <2>2. V = U
    BY <1>16, <2>1
  <2> QED BY <1>17, <2>1, <2>2
<1>22. ASSUME x = "free", y = "armed" PROVE F = D + 2 /\ G = E - 2
  <2>1. aa = a + 1 /\ mm = m /\ hh = h /\ ss = s
    BY <1>13, <1>22
  <2>2. V = U
    BY <1>16, <2>1
  <2> QED BY <1>17, <2>1, <2>2
<1>23. ASSUME x = "armed", y = "holding" PROVE F = D - 2 /\ G = E
  <2>1. aa = a - 1 /\ mm = m /\ hh = h + 1 /\ ss = s
    BY <1>13, <1>23
  <2>2. V = U
    BY <1>16, <2>1
  <2> QED BY <1>17, <2>1, <2>2
<1>24. ASSUME x = "armed", y = "free" PROVE F = D - 2 /\ G = E + 2
  <2>1. aa = a - 1 /\ mm = m /\ hh = h /\ ss = s
    BY <1>13, <1>24
  <2>2. V = U
    BY <1>16, <2>1
  <2> QED BY <1>17, <2>1, <2>2
<1>25. ASSUME x = "moving", y = "free" PROVE F = D - 2 /\ G = E
  <2>1. aa = a /\ mm = m - 1 /\ hh = h /\ ss = s
    BY <1>13, <1>25
  <2>2. V = U
    BY <1>16, <2>1
  <2> QED BY <1>17, <2>1, <2>2
<1>26. ASSUME x = "holding", y = "free" PROVE F = D /\ G = E + 2
  <2>1. aa = a /\ mm = m /\ hh = h - 1 /\ ss = s
    BY <1>13, <1>26
  <2>2. V = U
    BY <1>16, <2>1
  <2> QED BY <1>17, <2>1, <2>2
<1>27. x = "shelving" /\ y = "free" => F <= D /\ F + G <= D
  BY <1>11, <1>13, <1>16, <1>17
<1>28. DueMoves(x, y, D, E, F, G, K)
  BY <1>20, <1>21, <1>22, <1>23, <1>24, <1>25, <1>26, <1>27 DEF DueMoves
<1> QED BY <1>29, <1>30, <1>17, <1>18, <1>20, <1>28

\* A statement of a request keeps the bound on what has been opened and may
\* still be.
LEMMA LeakContinues ==
    ASSUME RequestInv, GivenInv, LeakInv, NEW p \in Procs, Continue(p)
    PROVE  LeakInv'
<1>1. PICK R : R = req
  OBVIOUS
<1>2. PICK T : T = req'
  OBVIOUS
<1>3. /\ crashes' = crashes /\ crashes \in Nat
      /\ OthersStay(p, R, T)
      /\ \A n \in Numbers : opened[n] \in Seq(Columns)
  BY <1>1, <1>2, ContinueFrame DEF RequestInv, ReqTypeOK, TypeOK, OthersStay
<1> SUFFICES ASSUME NEW n \in Numbers
             PROVE  2 * Len(opened'[n]) + Due(T, n)
                        + (IF n \in archived' THEN DueShelved(T, n) ELSE 0)
                    <= Allowed + 2 * crashes
  BY <1>2, <1>3 DEF LeakInv
<1>4. PICK x : x = Role(R[p], n)
  OBVIOUS
<1>5. PICK y : y = Role(T[p], n)
  OBVIOUS
<1>6. Advance(x, y, n)
  BY <1>1, <1>2, <1>4, <1>5, RoleStep
<1>7. PICK D, E, F, G, K \in Nat :
          /\ D = Due(R, n) /\ E = DueShelved(R, n)
          /\ F = Due(T, n) /\ G = DueShelved(T, n) /\ K = Allowed
          /\ DueMoves(x, y, D, E, F, G, K)
  <2>1. PICK D, E, F, G, K \in Nat :
            /\ D = Due(R, n) /\ E = DueShelved(R, n)
            /\ F = Due(T, n) /\ G = DueShelved(T, n) /\ K = Allowed
            /\ DueMoves(Role(R[p], n), Role(T[p], n), D, E, F, G, K)
    BY <1>3, DueChange
  <2> QED BY <1>4, <1>5, <2>1
<1>8. PICK L \in Nat : L = Len(opened[n])
  BY <1>3
<1>9. 2 * L + D + (IF n \in archived THEN E ELSE 0) <= K + 2 * crashes
  BY <1>1, <1>7, <1>8 DEF LeakInv
<1>10. ASSUME NEW M \in Nat, M = Len(opened'[n])
       PROVE  2 * M + F + (IF n \in archived' THEN G ELSE 0) <= K + 2 * crashes
  <2>1. CASE opened'[n] = <<>>
    <3>1. M = 0 /\ F + G <= K
      BY <1>7, <1>10, <2>1 DEF DueMoves
    <3> QED BY <1>3, <3>1
  <2>2. CASE M = L /\ x = y /\ (n \in archived' <=> n \in archived)
    <3>1. F = D /\ G = E
      BY <1>7, <2>2 DEF DueMoves
    <3> QED BY <1>3, <1>9, <2>2, <3>1
  <2>3. CASE M = L /\ x = "free" /\ y = "armed" /\ n \in archived /\ n \in archived'
    <3>1. F = D + 2 /\ G = E - 2
      BY <1>7, <2>3 DEF DueMoves
    <3> QED BY <1>3, <1>9, <2>3, <3>1
  <2>4. CASE M = L /\ x = "holding" /\ y = "free" /\ n \notin archived'
    <3>1. F = D
      BY <1>7, <2>4 DEF DueMoves
    <3>2. 2 * L + D <= K + 2 * crashes
      BY <1>3, <1>9
    <3> QED BY <1>3, <2>4, <3>1, <3>2
  <2>5. CASE M = L /\ x = "shelving" /\ y = "free" /\ n \in archived'
    <3>1. F + G <= D
      BY <1>7, <2>5 DEF DueMoves
    <3>2. 2 * L + D <= K + 2 * crashes
      BY <1>3, <1>9
    <3> QED BY <1>3, <2>5, <3>1, <3>2
  <2>6. CASE M \in {L, L + 1} /\ x = "moving" /\ y = "free"
                 /\ (n \in archived' <=> n \in archived)
    <3>1. F = D - 2 /\ G = E
      BY <1>7, <2>6 DEF DueMoves
    <3>2. 2 * (L + 1) + F + (IF n \in archived THEN G ELSE 0) <= K + 2 * crashes
      BY <1>3, <1>9, <3>1
    <3>3. 2 * L + F + (IF n \in archived THEN G ELSE 0) <= K + 2 * crashes
      BY <1>3, <1>9, <3>1
    <3> QED BY <2>6, <3>2, <3>3
  <2>7. CASE M = L + 1 /\ x = "armed" /\ y = "holding"
                 /\ (n \in archived' <=> n \in archived)
    <3>1. F = D - 2 /\ G = E
      BY <1>7, <2>7 DEF DueMoves
    <3> QED BY <1>3, <1>9, <2>7, <3>1
  <2> QED BY <1>6, <1>8, <1>10, <2>1, <2>2, <2>3, <2>4, <2>5, <2>6, <2>7 DEF Advance
<1>11. Len(opened'[n]) \in Nat
  BY <1>3, <1>6 DEF Advance
<1> QED BY <1>7, <1>10, <1>11

\* A request that dies gives up its role: one that was holding an archived
\* card leaves room for one lifetime more, and the crash pays for it.
LEMMA LeakCrashes ==
    ASSUME RequestInv, LeakInv, NEW p \in Procs, Crash(p)
    PROVE  LeakInv'
<1>1. PICK R : R = req
  OBVIOUS
<1>2. PICK T : T = req'
  OBVIOUS
<1>3. /\ crashes' = crashes + 1 /\ crashes \in Nat
      /\ OthersStay(p, R, T) /\ T[p] = Idle
      /\ UNCHANGED <<opened, archived>>
      /\ \A n \in Numbers : opened[n] \in Seq(Columns)
  BY <1>1, <1>2
     DEF RequestInv, ReqTypeOK, TypeOK, OthersStay, Crash, Done, statVars
<1> SUFFICES ASSUME NEW n \in Numbers
             PROVE  2 * Len(opened[n]) + Due(T, n)
                        + (IF n \in archived THEN DueShelved(T, n) ELSE 0)
                    <= Allowed + 2 * (crashes + 1)
  BY <1>2, <1>3 DEF LeakInv
<1>4. PICK x : x = Role(R[p], n)
  OBVIOUS
<1>5. PICK y : y = Role(T[p], n)
  OBVIOUS
<1>6. y = "free"
  BY <1>3, <1>5, RoleFree DEF Idle
<1>7. PICK D, E, F, G, K \in Nat :
          /\ D = Due(R, n) /\ E = DueShelved(R, n)
          /\ F = Due(T, n) /\ G = DueShelved(T, n) /\ K = Allowed
          /\ DueMoves(x, y, D, E, F, G, K)
  <2>1. PICK D, E, F, G, K \in Nat :
            /\ D = Due(R, n) /\ E = DueShelved(R, n)
            /\ F = Due(T, n) /\ G = DueShelved(T, n) /\ K = Allowed
            /\ DueMoves(Role(R[p], n), Role(T[p], n), D, E, F, G, K)
    BY <1>3, DueChange
  <2> QED BY <1>4, <1>5, <2>1
<1>8. PICK L \in Nat : L = Len(opened[n])
  BY <1>3
<1>9. 2 * L + D + (IF n \in archived THEN E ELSE 0) <= K + 2 * crashes
  BY <1>1, <1>7, <1>8 DEF LeakInv
<1>10. x \in {"armed", "moving", "holding", "shelving", "free"}
  BY <1>4 DEF Role
<1>11. 2 * L + F + (IF n \in archived THEN G ELSE 0) <= K + 2 * (crashes + 1)
  <2>1. CASE x = "armed"
    <3>1. F = D - 2 /\ G = E + 2
      BY <1>6, <1>7, <2>1 DEF DueMoves
    <3> QED BY <1>3, <1>9, <3>1
  <2>2. CASE x = "moving"
    <3>1. F = D - 2 /\ G = E
      BY <1>6, <1>7, <2>2 DEF DueMoves
    <3> QED BY <1>3, <1>9, <3>1
  <2>3. CASE x = "holding"
    <3>1. F = D /\ G = E + 2
      BY <1>6, <1>7, <2>3 DEF DueMoves
    <3> QED BY <1>3, <1>9, <3>1
  <2>4. CASE x = "shelving"
    <3>1. F <= D /\ F + G <= D
      BY <1>6, <1>7, <2>4 DEF DueMoves
    <3> QED BY <1>3, <1>9, <3>1
  <2>5. CASE x = "free"
    <3>1. F = D /\ G = E
      BY <1>6, <1>7, <2>5 DEF DueMoves
    <3> QED BY <1>3, <1>9, <3>1
  <2> QED BY <1>10, <2>1, <2>2, <2>3, <2>4, <2>5
<1> QED BY <1>7, <1>8, <1>11

\* A request that arrives has no role yet.
LEMMA BeginRole ==
    ASSUME RequestInv, NEW p \in Procs, Begin(p)
    PROVE  /\ req'[p].at \notin {"start", "restore", "shelve"}
           /\ req'[p].kind = "create" => req'[p].at = "create"
           /\ req'[p].kind \in {"move", "unarchive"} => OnGithub(req'[p].n)
<1>0. req \in [Procs -> Requests]
  BY DEF RequestInv
<1>1. /\ Kinds \subseteq {"create", "move", "close", "reopen", "archive",
                          "unarchive", "toggle_ready", "assign"} \cup Jobs
  BY ProcsAssumption DEF ProcsAssumption
<1> DEFINE Goal == /\ req'[p].at \notin {"start", "restore", "shelve"}
                   /\ req'[p].kind = "create" => req'[p].at = "create"
                   /\ req'[p].kind \in {"move", "unarchive"} => OnGithub(req'[p].n)
<1>2. ASSUME NEW r, NEW s, s = [r EXCEPT !.at = FirstStep[r.kind]], Arrive(p, r),
             s.kind = r.kind, s.n = r.n,
             s.at \notin {"start", "restore", "shelve"},
             r.kind = "create" => s.at = "create",
             r.kind \in {"move", "unarchive"} => OnGithub(r.n)
      PROVE  Goal
  <2>1. req'[p] = s
    BY <1>0, <1>2 DEF Arrive
  <2> QED BY <1>2, <2>1
<1> HIDE DEF Goal
<1> SUFFICES Goal
  BY DEF Goal
<1>3. ASSUME NEW n \in Numbers, NEW c \in Columns, NEW force \in Forces,
             ArriveMove(p, n, c, force)
      PROVE  Goal
  <2> DEFINE r == [Idle EXCEPT !.kind = "move", !.n = n, !.c = c, !.force = force]
             s == [r EXCEPT !.at = FirstStep[r.kind]]
  <2>1. Arrive(p, r) /\ OnGithub(n)
    BY <1>3 DEF ArriveMove
  <2>2. s.kind = r.kind /\ s.n = r.n /\ s.at = "find" /\ r.n = n /\ r.kind = "move"
    BY DEF Idle, FirstStep
  <2> HIDE DEF r
  <2> QED BY <1>2, <2>1, <2>2
<1>4. ASSUME NEW kind \in Kinds, NEW n \in Numbers, ArriveOther(p, kind, n)
      PROVE  Goal
  <2> DEFINE r == [Idle EXCEPT !.kind = kind, !.n = n]
             s == [r EXCEPT !.at = FirstStep[r.kind]]
  <2>1. /\ Arrive(p, r) /\ OnGithub(n)
        /\ kind \in {"close", "reopen", "archive", "unarchive", "toggle_ready", "assign"}
    BY <1>1, <1>4 DEF ArriveOther
  <2>2. s.kind = r.kind /\ s.n = r.n /\ s.at = FirstStep[kind] /\ r.n = n
        /\ r.kind = kind
    BY DEF Idle
  <2>3. FirstStep[kind] \in {"close", "reopen", "check", "look", "ask"}
    BY <2>1 DEF FirstStep
  <2> HIDE DEF r
  <2> QED BY <1>2, <2>1, <2>2, <2>3
<1>5. CASE ArriveCreate(p)
  <2> DEFINE r == [Idle EXCEPT !.kind = "create", !.force = TRUE,
                               !.list = order[DefaultColumn]]
             s == [r EXCEPT !.at = FirstStep[r.kind]]
  <2>1. Arrive(p, r)
    BY <1>5 DEF ArriveCreate
  <2>2. s.kind = r.kind /\ s.n = r.n /\ s.at = "create" /\ r.kind = "create"
    BY DEF Idle, FirstStep
  <2> HIDE DEF r
  <2> QED BY <1>2, <2>1, <2>2
<1>6. ASSUME NEW kind \in Jobs, Arrive(p, [Idle EXCEPT !.kind = kind])
      PROVE  Goal
  <2> DEFINE r == [Idle EXCEPT !.kind = kind]
             s == [r EXCEPT !.at = FirstStep[r.kind]]
  <2>1. Arrive(p, r)
    BY <1>6
  <2>2. s.kind = r.kind /\ s.n = r.n /\ s.at = FirstStep[kind] /\ r.kind = kind
    BY DEF Idle
  <2>3. FirstStep[kind] = "fetch" /\ kind \notin {"move", "unarchive", "create"}
    BY <1>6 DEF FirstStep, Jobs
  <2> HIDE DEF r
  <2> QED BY <1>2, <2>1, <2>2, <2>3
<1>7. CASE StartSyncStats(p) \/ StartSynchronize(p)
  BY <1>6, <1>7 DEF StartSyncStats, StartSynchronize, Jobs
<1> QED BY <1>3, <1>4, <1>5, <1>7 DEF Begin

\* It opens nothing and adds nothing to what may be opened.
LEMMA LeakBegins ==
    ASSUME RequestInv, LeakInv, NEW p \in Procs, Begin(p)
    PROVE  LeakInv'
<1>1. PICK R : R = req
  OBVIOUS
<1>2. PICK T : T = req'
  OBVIOUS
<1>3. /\ OthersStay(p, R, T) /\ R[p] = Idle
      /\ UNCHANGED <<opened, archived, crashes>>
  BY <1>1, <1>2, BeginFrame DEF OthersStay
<1>4. \A n \in Numbers : Role(R[p], n) = "free" /\ Role(T[p], n) = "free"
  <2>1. /\ T[p].at \notin {"start", "restore", "shelve"}
        /\ T[p].kind = "create" => T[p].at = "create"
    BY <1>2, BeginRole
  <2> QED BY <1>3, <2>1, RoleFree DEF Idle
<1>5. ASSUME NEW n \in Numbers
      PROVE  Due(T, n) = Due(R, n) /\ DueShelved(T, n) = DueShelved(R, n)
  <2>1. \A x : Team(T, x, n) = Team(R, x, n)
    BY <1>3, <1>4 DEF Team, OthersStay
  <2> QED BY <2>1 DEF Due, DueShelved, Count
<1> QED BY <1>1, <1>2, <1>3, <1>5 DEF LeakInv

\* The first statement of IssueStats::Creator asks GitHub for the issue.
LEMMA OnlyCreates ==
    ASSUME NEW p \in Procs, Continue(p), At(p, "create")
    PROVE  CreateIssue(p)
<1>1. ~(FindCard(p) \/ Look(p) \/ Finish(p) \/ Start(p) \/ UnreadyCard(p) \/ Place(p)
          \/ NeedAssignee(p) \/ Ask(p) \/ Patch(p))
  BY DEF At, FindCard, Look, Finish, Start, UnreadyCard, Place, NeedAssignee, Ask, Patch
<1>2. ~(AskState(p) \/ CloseIssue(p) \/ ReopenIssue(p) \/ Stamp(p) \/ Enqueue(p)
          \/ Sort(p) \/ Check(p) \/ Stat(p) \/ Shelve(p))
  BY DEF At, AskState, CloseIssue, ReopenIssue, Stamp, Enqueue, Sort, Check, Stat,
     Shelve
<1>3. ~(Restore(p) \/ Toggle(p) \/ Insert(p) \/ Fetch(p) \/ InsertRows(p)
          \/ UpdateRows(p) \/ Query(p) \/ Sweep(p))
  BY DEF At, Restore, Toggle, Insert, Fetch, InsertRows, UpdateRows, Query, Sweep
<1>4. ~NextGone(p)
  BY Zenon DEF At, NextGone
<1> QED BY <1>1, <1>2, <1>3, <1>4 DEF Continue

\* What the requests under way work on stays on GitHub, and a number that they
\* are given is there.
LEMMA GivenContinues ==
    ASSUME RequestInv, GivenInv, NEW p \in Procs, Continue(p)
    PROVE  GivenInv'
<1>0. /\ req \in [Procs -> Requests] /\ LabelTells(req[p])
      /\ opened \in [Numbers -> Seq(Columns)]
      /\ ghState \in [Numbers -> {"absent", "open", "closed"}]
  BY DEF RequestInv, ReqTypeOK, TypeOK
<1>1. \A n \in Numbers : OnGithub(n) => OnGithub(n)'
  BY GithubKeeps DEF ReqNext
<1>2. \A q \in Procs \ {p} : req'[q] = req[q]
  BY ContinueFrame
<1>3. ASSUME NEW n \in Numbers, opened'[n] # <<>> PROVE OnGithub(n)'
  <2>1. CASE opened[n] # <<>>
    BY <1>1, <2>1 DEF GivenInv
  <2>2. CASE opened[n] = <<>>
    <3>1. PICK r : r = req[p]
      OBVIOUS
    <3>2. Advance(Role(r, n), Role(req'[p], n), n)
      BY <3>1, RoleStep
    <3>3. Len(opened'[n]) = Len(opened[n]) + 1 => opened'[n] # opened[n]
      BY <1>0
    <3>4. Role(r, n) \in {"moving", "armed"}
      BY <1>3, <2>2, <3>2 DEF Advance
    <3>5. /\ r.n = n /\ r.kind \in {"move", "unarchive", "create"}
          /\ r.at # "create"
      BY <3>4 DEF Role, Moving, Armed, Holding, Shelving
    <3> QED BY <1>1, <3>1, <3>5 DEF GivenInv
  <2> QED BY <2>1, <2>2
<1>4. ASSUME NEW q \in Procs, NEW s, s = req'[q],
             s.kind \in {"move", "unarchive", "create"}, s.at # "create"
      PROVE  OnGithub(s.n)'
  <2>1. CASE s = req[q] /\ s.at # "create"
    <3>1. LabelTells(s) /\ NumberTells(s)
      BY <2>1 DEF RequestInv
    <3>2. s.n \in Numbers
      BY <1>4, <2>1, <3>1 DEF LabelTells, NumberTells, Numberless, Jobs
    <3> QED BY <1>1, <1>4, <2>1, <3>2 DEF GivenInv
  <2>2. CASE q = p
    <3>1. PICK r : r = req[p]
      OBVIOUS
    <3>2. /\ \/ s = Idle
             \/ s.kind = r.kind /\ (s.n = r.n \/ r.at = "create" \/ r.at = "next")
      BY <1>4, <2>2, <3>1, ContinueFrame DEF At
    <3>3. s # Idle
      BY <1>4 DEF Idle
    <3>4. CASE r.at = "create"
      <4>1. CreateIssue(p)
        BY <3>1, <3>4, OnlyCreates DEF At
      <4>2. PICK m \in Numbers :
                /\ req' = [req EXCEPT ![p].at = "insert", ![p].n = m]
                /\ ghState' = [ghState EXCEPT ![m] = "open"]
        BY <4>1 DEF CreateIssue
      <4>3. s = [r EXCEPT !.at = "insert", !.n = m] /\ r \in Requests
        BY <1>0, <1>4, <2>2, <3>1, <4>2
      <4>4. s.n = m
        BY <4>3 DEF Requests
      <4> QED BY <1>0, <4>2, <4>4 DEF OnGithub
    <3>5. CASE r.at # "create"
      <4>1. s.kind = r.kind /\ s.n = r.n
        BY <1>0, <1>4, <3>1, <3>2, <3>3, <3>5 DEF LabelTells
      <4>2. LabelTells(r) /\ NumberTells(r)
        BY <3>1 DEF RequestInv
      <4>3. r.n \in Numbers
        BY <1>4, <3>5, <4>1, <4>2 DEF LabelTells, NumberTells, Numberless, Jobs
      <4>4. OnGithub(r.n)
        BY <1>4, <3>1, <3>5, <4>1 DEF GivenInv
      <4> QED BY <1>1, <4>1, <4>3, <4>4
    <3> QED BY <3>4, <3>5
  <2> QED BY <1>2, <1>4, <2>1, <2>2
<1> QED BY <1>3, <1>4 DEF GivenInv

\* Nor does anything else that happens take an issue from GitHub.
LEMMA GivenElsewhere ==
    ASSUME RequestInv, GivenInv, ReqNext, UNCHANGED opened,
           NEW p, \A q \in Procs \ {p} : req'[q] = req[q],
           p \in Procs => \/ req'[p] = req[p]
                          \/ req'[p] = Idle
                          \/ Begin(p)
    PROVE  GivenInv'
<1>1. \A n \in Numbers : OnGithub(n) => OnGithub(n)'
  BY GithubKeeps
<1>2. \A n \in Numbers : opened'[n] # <<>> => OnGithub(n)'
  BY <1>1 DEF GivenInv
<1>3. ASSUME NEW q \in Procs, NEW s, s = req'[q],
             s.kind \in {"move", "unarchive", "create"}, s.at # "create"
      PROVE  OnGithub(s.n)'
  <2>1. CASE s = req[q]
    <3>1. LabelTells(s) /\ NumberTells(s)
      BY <2>1 DEF RequestInv
    <3>2. s.n \in Numbers
      BY <1>3, <2>1, <3>1 DEF LabelTells, NumberTells, Numberless, Jobs
    <3> QED BY <1>1, <1>3, <2>1, <3>2 DEF GivenInv
  <2>2. CASE q = p /\ Begin(p)
    <3>1. /\ s.kind = "create" => s.at = "create"
          /\ s.kind \in {"move", "unarchive"} => OnGithub(s.n)
      BY <1>3, <2>2, BeginRole
    <3>2. RequestInv'
      BY <2>2, TypeBegin
    <3>3. LabelTells(s) /\ NumberTells(s)
      BY <1>3, <3>2 DEF RequestInv
    <3>4. s.n \in Numbers
      BY <1>3, <3>3 DEF LabelTells, NumberTells, Numberless, Jobs
    <3> QED BY <1>1, <1>3, <3>1, <3>4
  <2>3. s # Idle
    BY <1>3 DEF Idle
  <2> QED BY <1>3, <2>1, <2>2, <2>3
<1> QED BY <1>2, <1>3 DEF GivenInv

\* Nor is what is due.
LEMMA DueType ==
    ASSUME NEW R, NEW n
    PROVE  Due(R, n) \in Nat /\ DueShelved(R, n) \in Nat
<1>1. PICK k \in Nat : k = Cardinality(Procs)
  BY CountsFit
<1>2. PICK a \in Nat : a = Count(R, "armed", n)
  BY CountsFit
<1>3. PICK m \in Nat : m = Count(R, "moving", n)
  BY CountsFit
<1>4. PICK h \in Nat : h = Count(R, "holding", n)
  BY CountsFit
<1>5. PICK s \in Nat : s = Count(R, "shelving", n)
  BY CountsFit
<1>6. a + m + h + s <= k
  BY <1>1, <1>2, <1>3, <1>4, <1>5, CountsFit
<1>7. PICK U \in Nat : U = Rounds(s)
  BY <1>1, <1>6, RoundsPositive
<1>8. Rounds(Count(R, "shelving", n)) = U
  BY <1>5, <1>7, Zenon
<1>9. Due(R, n) = 2 * (a + m) + U
  BY <1>2, <1>3, <1>8 DEF Due
<1>10. DueShelved(R, n) = 2 * (k - a - h - s)
  BY <1>1, <1>2, <1>4, <1>5 DEF DueShelved
<1> QED BY <1>6, <1>9, <1>10

\* A step that changes no card and no request changes nothing of it.
LEMMA SameLifetimes ==
    ASSUME LeakInv, UNCHANGED <<opened, archived, crashes, req>>
    PROVE  LeakInv'
<1>1. PICK R : R = req
  OBVIOUS
<1>2. R = req'
  BY <1>1
<1>3. \A n \in Numbers :
          2 * Len(opened[n]) + Due(R, n)
              + (IF n \in archived THEN DueShelved(R, n) ELSE 0)
              <= Allowed + 2 * crashes
  BY <1>1 DEF LeakInv
<1>4. \A n \in Numbers :
          2 * Len(opened'[n]) + Due(R, n)
              + (IF n \in archived' THEN DueShelved(R, n) ELSE 0)
              <= Allowed + 2 * crashes'
  BY <1>3
<1> QED BY <1>2, <1>4 DEF LeakInv

\* At first nothing is opened and no request is under way.
LEMMA InitLifetimes == ReqInit => LeakInv /\ GivenInv
<1> SUFFICES ASSUME ReqInit PROVE LeakInv /\ GivenInv
  OBVIOUS
<1>1. /\ opened = [n \in Numbers |-> <<>>] /\ archived = {} /\ crashes = 0
      /\ req = [p \in Procs |-> Idle]
  BY DEF ReqInit, Init
<1>2. GivenInv
  BY <1>1 DEF GivenInv, Idle
<1>3. PICK R : R = req
  OBVIOUS
<1>4. ASSUME NEW n \in Numbers
      PROVE  2 * Len(opened[n]) + Due(R, n)
                 + (IF n \in archived THEN DueShelved(R, n) ELSE 0)
                 <= Allowed + 2 * crashes
  <2>1. \A p \in Procs : Role(R[p], n) = "free"
    BY <1>1, <1>3, RoleFree DEF Idle
  <2>2. /\ Team(R, "armed", n) = {} /\ Team(R, "moving", n) = {}
        /\ Team(R, "shelving", n) = {}
    BY <2>1 DEF Team
  <2>3. /\ Count(R, "armed", n) = 0 /\ Count(R, "moving", n) = 0
        /\ Count(R, "shelving", n) = 0
    BY <2>2, FS_EmptySet DEF Count
  <2>4. PICK k \in Nat : k = Cardinality(Procs)
    BY CountsFit
  <2>5. Rounds(0) = 0
    BY <2>4 DEF Rounds
  <2>6. Due(R, n) = 0
    BY <2>3, <2>5 DEF Due
  <2>7. k * (k + 1) \in Nat
    OBVIOUS
  <2>8. Allowed \in Nat
    BY <2>4, <2>7 DEF Allowed
  <2>9. Len(opened[n]) = 0 /\ n \notin archived
    BY <1>1
  <2> QED BY <1>1, <2>6, <2>8, <2>9
<1>5. LeakInv
  BY <1>3, <1>4 DEF LeakInv
<1> QED BY <1>2, <1>5

\* Every step keeps both.
LEMMA NextLifetimes ==
    ASSUME RequestInv, GivenInv, LeakInv, [ReqNext]_allVars
    PROVE  GivenInv' /\ LeakInv'
<1>1. CASE UNCHANGED allVars
  <2>1. UNCHANGED <<opened, archived, crashes, req, ghState>>
    BY <1>1 DEF allVars, reqVars, vars, ghVars, statVars
  <2> QED BY <2>1, SameLifetimes DEF GivenInv, OnGithub
<1>2. ASSUME NEW p \in Procs, Continue(p) PROVE GivenInv' /\ LeakInv'
  BY <1>2, LeakContinues, GivenContinues
<1>3. ASSUME NEW p \in Procs, Begin(p) PROVE GivenInv' /\ LeakInv'
  <2>1. /\ ReqNext /\ UNCHANGED opened
        /\ \A q \in Procs \ {p} : req'[q] = req[q]
    BY <1>3, BeginFrame DEF ReqNext
  <2>2. \A q \in Procs : req'[q] = req[q] \/ req'[q] = Idle \/ Begin(q)
    BY <1>3, <2>1
  <2> QED BY <1>3, <2>1, <2>2, LeakBegins, GivenElsewhere
<1>4. ASSUME NEW p \in Procs, Crash(p) PROVE GivenInv' /\ LeakInv'
  <2>1. /\ ReqNext /\ UNCHANGED opened /\ req' = [req EXCEPT ![p] = Idle]
        /\ req \in [Procs -> Requests]
    BY <1>4 DEF ReqNext, Crash, Done, RequestInv
  <2>2. \A q \in Procs : req'[q] = req[q] \/ req'[q] = Idle \/ Begin(q)
    BY <2>1
  <2> QED BY <1>4, <2>1, <2>2, LeakCrashes, GivenElsewhere
<1>5. CASE Environment
  <2>1. ReqNext /\ UNCHANGED <<opened, archived, crashes, req>>
    BY <1>5
       DEF ReqNext, Environment, reqVars, Update, External, GithubCreate, GithubClose,
           GithubReopen, GithubAge, SortColumn, BoardRead, statVars
  <2> QED BY <2>1, SameLifetimes, GivenElsewhere
<1> QED BY <1>1, <1>2, <1>3, <1>4, <1>5 DEF ReqNext

\* However many processes handle moves, archivings and unarchivings of one
\* card at the same time, and however many of them die on the way, the
\* lifetimes that Lifetimes::Starter leaves open on it stay below a number
\* that depends on the processes and the crashes only, not on how long the
\* board is used.
THEOREM OpenLifetimesHold == ReqSpec => []OpenLifetimesBounded
<1>1. RequestInv /\ LeakInv => OpenLifetimesBounded
  <2> SUFFICES ASSUME RequestInv, LeakInv, NEW n \in Numbers
               PROVE  Len(opened[n]) <= LeakOf(Cardinality(Procs)) + crashes
    BY DEF OpenLifetimesBounded
  <2>1. PICK k \in Nat : k = Cardinality(Procs)
    BY CountsFit
  <2>2. PICK kk \in Nat : kk = k * (k + 1)
    OBVIOUS
  <2>3. PICK L \in Nat : L = Len(opened[n])
    BY DEF RequestInv, ReqTypeOK, TypeOK
  <2>4. PICK c \in Nat : c = crashes
    BY ProcsAssumption DEF ProcsAssumption, RequestInv, ReqTypeOK
  <2>5. Allowed = 2 + kk /\ LeakOf(Cardinality(Procs)) = 1 + kk \div 2
    BY <2>1, <2>2 DEF Allowed, LeakOf
  <2>6. PICK D \in Nat, E \in Nat : D = Due(req, n) /\ E = DueShelved(req, n)
    BY DueType
  <2>7. 2 * L <= 2 + kk + 2 * c
    <3>1. 2 * L + D + (IF n \in archived THEN E ELSE 0) <= 2 + kk + 2 * c
      BY <2>3, <2>4, <2>5, <2>6 DEF LeakInv
    <3> QED BY <3>1
  <2>8. L <= 1 + kk \div 2 + c
    BY <2>7
  <2> QED BY <2>3, <2>4, <2>5, <2>8
<1> QED BY <1>1, InitRequestInv, NextRequestInv, InitLifetimes, NextLifetimes,
           PTL DEF ReqSpec

-----------------------------------------------------------------------------
(* Left alone, each request is one action of IssueLifecycle                 *)
(* (SerialRequests): first, that what GitHub has never heard of, the board  *)
(* has not either.                                                          *)

\* Rows, lifetimes and requests are about issues that exist, and only closed
\* issues grow old.
GithubRows ==
    /\ \A n \in tracked : OnGithub(n)
    /\ \A n \in Numbers : opened[n] # <<>> => OnGithub(n)
    /\ \A n \in aged : ghState[n] = "closed"
    /\ \A p \in Procs : req[p].at \notin Numberless => OnGithub(req[p].n)

-----------------------------------------------------------------------------
(* How far the request in progress has come from the settled state, in the  *)
(* words of the action it will have been.                                   *)

SameGithub == /\ ghState = Settled.ghState /\ closings = Settled.closings
              /\ aged = Settled.aged /\ assigned = Settled.assigned
SameRows   == /\ tracked = Settled.tracked /\ closedAt = Settled.closedAt
              /\ drifted = Settled.drifted
SameCards  == /\ column = Settled.column /\ archived = Settled.archived
              /\ ready = Settled.ready /\ opened = Settled.opened
SameOrder  == order = Settled.order
SameJob    == statsJob = Settled.statsJob

\* IssueStats::Finder has found the row, or made it.
FoundRow(n) == /\ tracked = Settled.tracked \cup {n}
               /\ closedAt = Atomic!FoundClosedAt(n)
               /\ drifted = Atomic!FoundDrift(n)

\* GitHub's answer is in the row.
StampedRow(n) == /\ tracked = Settled.tracked \cup {n}
                 /\ closedAt = [Settled.closedAt EXCEPT ![n] = GhClosedAt(n)]
                 /\ drifted = Settled.drifted \ {n}

ClosedIssue(n) ==
    /\ ghState = [Settled.ghState EXCEPT ![n] = "closed"]
    /\ closings = IF Settled.ghState[n] = "open"
                  THEN [Settled.closings EXCEPT ![n] = @ + 1]
                  ELSE Settled.closings
    /\ Settled.ghState[n] = "open" => Settled.closings[n] < MaxClosings

ReopenedIssue(n) ==
    /\ ghState = [Settled.ghState EXCEPT ![n] = "open"]
    /\ closings = Settled.closings
    /\ aged = Settled.aged \ {n}

SameIssue == ghState = Settled.ghState /\ closings = Settled.closings

AssignedTo(n, c) == /\ assigned = Atomic!AutoAssigned(n, c)
                    /\ aged = Atomic!AutoRelisted(n, c)

MovedCard(n, c) ==
    /\ column = [Settled.column EXCEPT ![n] = c]
    /\ opened = IF Settled.column[n] # c THEN Atomic!Restarted(n, c)
                                         ELSE Settled.opened
    /\ ready = IF Settled.column[n] # c THEN Atomic!Unready(n)
                                        ELSE Settled.ready

MoveTells(r) ==
    LET n      == r.n
        c      == r.c
        closes == c \in AutoClose /\ Settled.ghState[n] = "open"
    IN
    /\ r.force \in Forces
    /\ archived = Settled.archived /\ SameOrder /\ SameJob
    /\ Settled.ghState[n] # "absent"
    /\ r.at = "find" => SameRows
    /\ r.at # "find" => r.list = order[c]
    /\ r.at \in {"find", "look", "finish", "start", "unready", "place", "need",
                 "ask", "patch"} => SameGithub
    /\ r.at \in {"look", "finish", "start", "unready", "place", "need", "ask",
                 "patch", "state", "close", "stamp"} => FoundRow(n)
    /\ r.at \in {"find", "look"} => SameCards
    /\ r.at \in {"finish", "start", "unready", "place"} =>
           column = Settled.column /\ column[n] # c
    /\ r.at \in {"finish", "start", "unready"} => ready = Settled.ready
    /\ r.at = "finish" => opened = Settled.opened
    /\ r.at = "start" => opened = [Settled.opened EXCEPT ![n] = <<>>]
    /\ r.at \in {"unready", "place"} => opened = Atomic!Restarted(n, c)
    /\ r.at = "place" => ready = Atomic!Unready(n)
    /\ r.at \in {"need", "ask", "patch", "state", "close", "stamp", "sort"}
           => MovedCard(n, c)
    /\ r.at \in {"ask", "patch"} => c \in AutoAssign /\ n \notin assigned
    /\ r.at = "patch" => ~r.flag
    /\ r.at \in {"state", "close", "stamp", "sort"} => AssignedTo(n, c)
    /\ r.at \in {"state", "close"} => SameIssue
    /\ r.at \in {"close", "stamp"} => closes
    /\ r.at = "stamp" => ClosedIssue(n) /\ r.seen[n] = closings[n]
    /\ r.at = "sort" => IF closes THEN ClosedIssue(n) /\ StampedRow(n)
                                  ELSE SameIssue /\ FoundRow(n)

CloseTells(r) ==
    /\ assigned = Settled.assigned /\ SameCards /\ SameOrder /\ SameJob
    /\ Settled.ghState[r.n] # "absent"
    /\ r.at \in {"close", "reopen"} => SameGithub /\ SameRows
    /\ r.at \in {"stamp", "enqueue"} =>
           IF r.kind = "close" THEN ClosedIssue(r.n) /\ aged = Settled.aged
                               ELSE ReopenedIssue(r.n)
    /\ r.at = "stamp" => SameRows /\ r.seen[r.n] = GhClosedAt(r.n)
    /\ r.at = "enqueue" => StampedRow(r.n)

ArchiveTells(r) ==
    /\ SameGithub /\ SameOrder /\ SameJob
    /\ column = Settled.column /\ archived = Settled.archived
    /\ ready = Settled.ready
    /\ Settled.ghState[r.n] # "absent"
    /\ r.at # "check" => Settled.ghState[r.n] = "closed"
    /\ r.at \in {"check", "stat"} => SameRows
    /\ r.at \in {"check", "stat", "finish"} => opened = Settled.opened
    /\ r.at \in {"finish", "shelve"} => FoundRow(r.n)
    /\ r.at = "shelve" => opened = [Settled.opened EXCEPT ![r.n] = <<>>]

UnarchiveTells(r) ==
    /\ SameGithub /\ SameOrder /\ SameJob
    /\ column = Settled.column /\ archived = Settled.archived
    /\ ready = Settled.ready
    /\ Settled.ghState[r.n] # "absent"
    /\ r.at = "look" => SameRows
    /\ r.at \in {"look", "start"} => opened = Settled.opened
    /\ r.at \in {"start", "restore"} =>
           FoundRow(r.n) /\ r.n \in archived /\ r.column = column[r.n]
    /\ r.at = "restore" =>
           opened = [Settled.opened EXCEPT ![r.n] = Append(@, Settled.column[r.n])]

ReadyTells(r) ==
    /\ SameGithub /\ SameCards /\ SameOrder /\ SameJob
    /\ Settled.ghState[r.n] # "absent"
    /\ r.at = "look" => SameRows
    /\ r.at = "toggle" => FoundRow(r.n) /\ (r.flag <=> r.n \in ready)

AssignTells(r) ==
    /\ ghState = Settled.ghState /\ closings = Settled.closings
    /\ SameRows /\ SameCards /\ SameOrder /\ SameJob
    /\ Settled.ghState[r.n] # "absent"
    /\ r.at \in {"ask", "patch"} => aged = Settled.aged /\ assigned = Settled.assigned
    /\ r.at = "patch" /\ r.flag => r.n \in assigned
    /\ r.at = "stat" =>
           /\ aged = Settled.aged \ {r.n}
           /\ \/ assigned = Settled.assigned \cup {r.n}
              \/ /\ r.n \in Settled.assigned
                 /\ assigned = Settled.assigned \ {r.n}

\* GitHub has given out the number.
GivenOut(n) ==
    /\ n \notin Old /\ Settled.ghState[n] = "absent"
    /\ \A m \in Numbers : Settled.ghState[m] # "absent" => m < n
    /\ ghState = [Settled.ghState EXCEPT ![n] = "open"]
    /\ Settled.opened[n] = <<>>

NewRow(n) == /\ tracked = Settled.tracked \cup {n}
             /\ closedAt = Settled.closedAt /\ drifted = Settled.drifted

CreateTells(r) ==
    LET n == r.n
        c == DefaultColumn
    IN
    /\ r.c = c /\ r.force /\ r.list = Settled.order[c]
    /\ closings = Settled.closings /\ aged = Settled.aged
    /\ SameCards /\ SameJob
    /\ r.at = "create" => SameGithub /\ SameRows /\ SameOrder
    /\ r.at # "create" => GivenOut(n)
    /\ r.at = "insert" => SameRows /\ n \notin tracked
    /\ r.at \in {"need", "ask", "patch", "sort", "start"} => NewRow(n)
    /\ r.at \in {"insert", "need", "ask", "patch"} => assigned = Settled.assigned
    /\ r.at \in {"ask", "patch"} => c \in AutoAssign /\ n \notin assigned
    /\ r.at = "patch" => ~r.flag
    /\ r.at \in {"sort", "start"} => assigned = Atomic!AutoAssigned(n, c)
    /\ r.at \in {"insert", "need", "ask", "patch", "sort"} => SameOrder
    /\ r.at = "start" => order = [Settled.order EXCEPT ![c] = PutFirst(@, n)]

Fetched(r, wanted) ==
    \A n \in Numbers : r.seen[n] = IF n \in wanted THEN GhClosedAt(n) ELSE -1

\* The issues the job makes rows for.
Missing == {n \in Synced : n > LastNumber(Settled.tracked)}

SyncStatsTells(r) ==
    /\ SameGithub /\ SameCards /\ SameOrder
    /\ Settled.statsJob /\ ~statsJob
    /\ r.at \in {"fetch", "insert_rows"} => SameRows
    /\ r.at # "fetch" => Fetched(r, Synced)
    /\ r.at = "update_rows" =>
           /\ tracked = Settled.tracked \cup Missing
           /\ \A n \in Numbers : closedAt[n] = IF n \in Missing THEN GhClosedAt(n)
                                               ELSE Settled.closedAt[n]
           /\ drifted = Settled.drifted \ Missing
           /\ r.todo = Synced \ Missing

\* Boards::Synchronizer has shelved the cards in Put, and closed the lifetimes
\* of those in Cut.
Gone == (Settled.tracked \ Settled.archived) \ Listed
Put(r) == {n \in Gone : n \notin r.todo /\ (r.at \in {"finish", "shelve"} => n # r.n)}
Cut(r) == {n \in Gone : n \notin r.todo /\ (r.at = "finish" => n # r.n)}

SynchronizeTells(r) ==
    /\ SameGithub /\ SameRows /\ SameOrder /\ SameJob
    /\ column = Settled.column /\ ready = Settled.ready
    /\ r.at \in {"fetch", "query"} => SameCards
    /\ r.at = "query" => Fetched(r, Listed)
    /\ r.at \in {"finish", "shelve"} => r.n \in Gone \ r.todo
    /\ r.at = "sweep" => r.todo = {}
    /\ r.at \in {"next", "finish", "shelve", "sweep"} =>
           /\ r.todo \subseteq Gone
           /\ archived = Settled.archived \cup Put(r)
           /\ \A n \in Numbers : opened[n] = IF n \in Cut(r) THEN <<>>
                                             ELSE Settled.opened[n]

Progress(r) ==
    /\ r.kind = "move" => MoveTells(r)
    /\ r.kind \in {"close", "reopen"} => CloseTells(r)
    /\ r.kind = "archive" => ArchiveTells(r)
    /\ r.kind = "unarchive" => UnarchiveTells(r)
    /\ r.kind = "toggle_ready" => ReadyTells(r)
    /\ r.kind = "assign" => AssignTells(r)
    /\ r.kind = "create" => CreateTells(r)
    /\ r.kind = "sync_stats" => SyncStatsTells(r)
    /\ r.kind = "synchronize" => SynchronizeTells(r)

OneAtATime == \A p, q \in Procs : req[p] # Idle /\ req[q] # Idle => p = q

SerialInv ==
    /\ RequestInv
    /\ GithubRows
    /\ OneAtATime
    /\ \A p \in Procs : Progress(req[p])

-----------------------------------------------------------------------------
(***************************************************************************)
(* Steps.                                                                  *)
(***************************************************************************)

\* What a request is at, tells its next statement.
LEMMA ByLabel ==
    ASSUME NEW p \in Procs, Continue(p)
    PROVE  /\ At(p, "find") => FindCard(p)
           /\ At(p, "look") => Look(p)
           /\ At(p, "finish") => Finish(p)
           /\ At(p, "start") => Start(p)
           /\ At(p, "unready") => UnreadyCard(p)
           /\ At(p, "place") => Place(p)
           /\ At(p, "need") => NeedAssignee(p)
           /\ At(p, "ask") => Ask(p)
           /\ At(p, "patch") => Patch(p)
           /\ At(p, "state") => AskState(p)
           /\ At(p, "close") => CloseIssue(p)
           /\ At(p, "reopen") => ReopenIssue(p)
           /\ At(p, "stamp") => Stamp(p)
           /\ At(p, "enqueue") => Enqueue(p)
           /\ At(p, "sort") => Sort(p)
           /\ At(p, "check") => Check(p)
           /\ At(p, "stat") => Stat(p)
           /\ At(p, "shelve") => Shelve(p)
           /\ At(p, "restore") => Restore(p)
           /\ At(p, "toggle") => Toggle(p)
           /\ At(p, "create") => CreateIssue(p)
           /\ At(p, "insert") => Insert(p)
           /\ At(p, "fetch") => Fetch(p)
           /\ At(p, "insert_rows") => InsertRows(p)
           /\ At(p, "update_rows") => UpdateRows(p)
           /\ At(p, "query") => Query(p)
           /\ At(p, "next") => NextGone(p)
           /\ At(p, "sweep") => Sweep(p)
<1>1. /\ FindCard(p) => At(p, "find")
      /\ Look(p) => At(p, "look")
      /\ Finish(p) => At(p, "finish")
      /\ Start(p) => At(p, "start")
      /\ UnreadyCard(p) => At(p, "unready")
      /\ Place(p) => At(p, "place")
      /\ NeedAssignee(p) => At(p, "need")
      /\ Ask(p) => At(p, "ask")
      /\ Patch(p) => At(p, "patch")
      /\ AskState(p) => At(p, "state")
      /\ CloseIssue(p) => At(p, "close")
      /\ ReopenIssue(p) => At(p, "reopen")
      /\ Stamp(p) => At(p, "stamp")
      /\ Enqueue(p) => At(p, "enqueue")
      /\ Sort(p) => At(p, "sort")
      /\ Check(p) => At(p, "check")
      /\ Stat(p) => At(p, "stat")
      /\ Shelve(p) => At(p, "shelve")
      /\ Restore(p) => At(p, "restore")
      /\ Toggle(p) => At(p, "toggle")
      /\ CreateIssue(p) => At(p, "create")
      /\ Insert(p) => At(p, "insert")
      /\ Fetch(p) => At(p, "fetch")
      /\ InsertRows(p) => At(p, "insert_rows")
      /\ UpdateRows(p) => At(p, "update_rows")
      /\ Query(p) => At(p, "query")
      /\ NextGone(p) => At(p, "next")
      /\ Sweep(p) => At(p, "sweep")
  BY Zenon
     DEF FindCard, Look, Finish, Start, UnreadyCard, Place, NeedAssignee, Ask,
         Patch, AskState, CloseIssue, ReopenIssue, Stamp, Enqueue, Sort, Check,
         Stat, Shelve, Restore, Toggle, CreateIssue, Insert, Fetch, InsertRows,
         UpdateRows, Query, NextGone, Sweep
<1> QED BY <1>1 DEF Continue, At

\* Between requests the settled state is the lifecycle.
LEMMA SettledFields ==
    Settled = Lifecycle =>
        SameGithub /\ SameRows /\ SameCards /\ SameOrder /\ SameJob
BY DEF Lifecycle, SameGithub, SameRows, SameCards, SameOrder, SameJob

LEMMA SettledFieldsPrimed ==
    Settled' = Lifecycle' =>
        (SameGithub /\ SameRows /\ SameCards /\ SameOrder /\ SameJob)'
BY DEF Lifecycle, SameGithub, SameRows, SameCards, SameOrder, SameJob

\* A request that goes on leaves the settled state, one that ends settles.
Settling(p) ==
    /\ req'[p] # Idle => Settled' = Settled
    /\ req'[p] = Idle => Settled' = Lifecycle'

\* What was found stays found.
LEMMA FoundStays ==
    ASSUME NEW n, FoundRow(n), UNCHANGED <<tracked, closedAt, drifted, Settled>>
    PROVE  FoundRow(n)'
BY DEF FoundRow, Atomic!FoundClosedAt, Atomic!FoundDrift, Atomic!GhClosedAt

\* p works on r, alone, and comes to s.
Works(p, r, s) ==
    /\ r = req[p] /\ s = req'[p]
    /\ Continue(p)
    /\ Settling(p)
    /\ \A q \in Procs \ {p} : req[q] = Idle

\* An idle process is at no statement.
LEMMA NotIdle == \A t : t.at # "idle" => t # Idle
BY DEF Idle

\* A request that only goes on to another label.
LEMMA GoesTo ==
    ASSUME RequestInv, NEW p \in Procs, NEW r, NEW s, Works(p, r, s),
           NEW l, l # "idle", Goto(p, l)
    PROVE  /\ s.at = l /\ s.kind = r.kind /\ s.n = r.n /\ s.c = r.c
           /\ s.force = r.force /\ s.column = r.column /\ s.flag = r.flag
           /\ s.list = r.list /\ s.seen = r.seen /\ s.todo = r.todo
           /\ s # Idle /\ Settled' = Settled
<1>1. req \in [Procs -> Requests] /\ r \in Requests
  BY DEF RequestInv, Works
<1>2. s = [r EXCEPT !.at = l]
  BY <1>1 DEF Goto, Works
<1>3. /\ s.at = l /\ s.kind = r.kind /\ s.n = r.n /\ s.c = r.c
      /\ s.force = r.force /\ s.column = r.column /\ s.flag = r.flag
      /\ s.list = r.list /\ s.seen = r.seen /\ s.todo = r.todo
  BY <1>1, <1>2 DEF Requests
<1>4. s # Idle
  BY <1>3, NotIdle
<1> QED BY <1>3, <1>4 DEF Works, Settling

\* A request that ends leaves a settled state.
LEMMA Ends ==
    ASSUME RequestInv, NEW p \in Procs, NEW r, NEW s, Works(p, r, s), Done(p)
    PROVE  /\ s = Idle
           /\ SameGithub' /\ SameRows' /\ SameCards' /\ SameOrder' /\ SameJob'
<1>1. s = Idle
  BY DEF Done, Works, RequestInv
<1>2. Settled' = Lifecycle'
  BY <1>1 DEF Works, Settling
<1> QED BY <1>1, <1>2, SettledFieldsPrimed

\* What a request is, tells what it can be at.
LEMMA ByKind ==
    ASSUME RequestInv, NEW p \in Procs, NEW r, r = req[p]
    PROVE  /\ TypeOK /\ r \in Requests
           /\ r.at \notin {"create", "fetch", "insert_rows", "update_rows", "query",
                           "next", "sweep"} /\ r.kind # "none" => r.n \in Numbers
           /\ r.kind = "move" =>
                  r.at \in {"find", "look", "finish", "start", "unready", "place",
                            "need", "ask", "patch", "state", "close", "stamp",
                            "sort"}
           /\ r.kind = "close" => r.at \in {"close", "stamp", "enqueue"}
           /\ r.kind = "reopen" => r.at \in {"reopen", "stamp", "enqueue"}
           /\ r.kind = "archive" => r.at \in {"check", "stat", "finish", "shelve"}
           /\ r.kind = "unarchive" => r.at \in {"look", "start", "restore"}
           /\ r.kind = "toggle_ready" => r.at \in {"look", "toggle"}
           /\ r.kind = "assign" => r.at \in {"ask", "patch", "stat"}
           /\ r.kind = "create" =>
                  r.at \in {"create", "insert", "need", "ask", "patch", "sort",
                            "start"}
           /\ r.kind = "sync_stats" => r.at \in {"fetch", "insert_rows", "update_rows"}
           /\ r.kind = "synchronize" =>
                  r.at \in {"fetch", "query", "next", "finish", "shelve", "sweep"}
<1>1. r \in Requests /\ LabelTells(r) /\ NumberTells(r) /\ TypeOK
  BY DEF RequestInv, ReqTypeOK
<1>2. r.at \in Labels
  BY <1>1 DEF Requests
<1>3. r.at \notin {"create", "fetch", "insert_rows", "update_rows", "query",
                   "next", "sweep"} /\ r.kind # "none" => r.n \in Numbers
  BY <1>1 DEF NumberTells, Numberless, LabelTells
<1> QED BY <1>1, <1>2, <1>3 DEF LabelTells, Labels, Jobs

\* The row is looked for, by a request that has written no row before.
LEMMA FindsRow ==
    ASSUME RequestInv, NEW p \in Procs, NEW r, NEW s, Works(p, r, s),
           r.at \notin {"insert_rows", "update_rows"},
           NEW n \in Numbers, FindRow(n), SameRows \/ FoundRow(n),
           ghState = Settled.ghState, closings = Settled.closings,
           Settled' = Settled
    PROVE  FoundRow(n)'
<1>1. \A q \in Procs : ~HasFetched(q)
  BY DEF HasFetched, Works, Idle
<1>2. closedAt \in [Numbers -> Nat]
  BY DEF RequestInv, ReqTypeOK, TypeOK
<1>3. CASE SameRows
  BY <1>1, <1>2, <1>3
     DEF FindRow, FoundRow, SameRows, Find, FoundClosedAt, FoundDrift,
         Atomic!FoundClosedAt, Atomic!FoundDrift, GhClosedAt, Atomic!GhClosedAt
<1>4. CASE FoundRow(n)
  <2>1. tracked' = tracked /\ closedAt' = closedAt /\ drifted' = drifted
    BY <1>1, <1>2, <1>4 DEF FindRow, FoundRow, Find, FoundClosedAt, FoundDrift
  <2> QED BY <1>4, <2>1, FoundStays
<1> QED BY <1>3, <1>4

\* IssueStats::Archiver.
LEMMA ArchiveStep ==
    ASSUME RequestInv, NEW p \in Procs, NEW r, NEW s, Works(p, r, s),
           r.kind = "archive", ArchiveTells(r)
    PROVE  /\ s # Idle => ArchiveTells(s)'
           /\ s = Idle => Atomic!Archive(r.n) \/ UNCHANGED Atomic!vars
<1> DEFINE n == r.n
<1>1. /\ r.at \in {"check", "stat", "finish", "shelve"} /\ n \in Numbers
      /\ TypeOK /\ r = req[p] /\ Continue(p)
  BY ByKind DEF Works
<1>2. CASE At(p, "check")
  <2>1. Check(p)
    BY <1>1, <1>2, ByLabel
  <2>2. CASE ghState[n] = "closed"
    <3>1. Goto(p, "stat") /\ UNCHANGED vars
      BY <1>1, <2>1, <2>2 DEF Check
    <3>2. s.at = "stat" /\ s.n = n /\ s # Idle /\ Settled' = Settled
      BY <3>1, GoesTo
    <3> QED BY <1>1, <1>2, <2>2, <3>1, <3>2
             DEF ArchiveTells, SameGithub, SameRows, SameOrder, SameJob, vars, ghVars, statVars, At
  <2>3. CASE ghState[n] # "closed"
    <3>1. Done(p) /\ UNCHANGED vars
      BY <1>1, <2>1, <2>3 DEF Check
    <3>2. UNCHANGED Atomic!vars
      BY <1>1, <1>2, <3>1, Ends
         DEF ArchiveTells, SameGithub, SameRows, SameCards, SameOrder, SameJob,
             vars, ghVars, statVars, At, Atomic!vars, Atomic!ghVars,
             Atomic!statVars
    <3> QED BY <3>1, <3>2, Ends
  <2> QED BY <2>2, <2>3
<1>3. CASE At(p, "stat")
  <2>1. Stat(p)
    BY <1>1, <1>3, ByLabel
  <2>2. /\ Goto(p, "finish") /\ FindRow(n)
        /\ UNCHANGED <<ghVars, column, archived, ready, opened, order, statsJob>>
    BY <1>1, <2>1 DEF Stat
  <2>3. s.at = "finish" /\ s.n = n /\ s # Idle /\ Settled' = Settled
    BY <2>2, GoesTo
  <2>4. FoundRow(n)'
    <3>1. SameRows /\ SameGithub
      BY <1>1, <1>3 DEF ArchiveTells, At
    <3> QED BY <1>1, <1>3, <2>2, <2>3, <3>1, FindsRow DEF SameGithub, At
  <2> QED BY <1>1, <1>3, <2>2, <2>3, <2>4
            DEF ArchiveTells, SameGithub, SameOrder, SameJob, ghVars, At
<1>4. CASE At(p, "finish")
  <2>1. Finish(p)
    BY <1>1, <1>4, ByLabel
  <2>2. /\ Goto(p, "shelve") /\ opened' = [opened EXCEPT ![n] = <<>>]
        /\ UNCHANGED <<ghVars, statVars, order, statsJob, drifted>>
    BY <1>1, <2>1 DEF Finish, Finished
  <2>3. s.at = "shelve" /\ s.n = n /\ s # Idle /\ Settled' = Settled
    BY <2>2, GoesTo
  <2>4. FoundRow(n)'
    BY <1>1, <1>4, <2>2, <2>3, FoundStays DEF ArchiveTells, At, statVars
  <2>5. /\ SameGithub' /\ SameOrder' /\ SameJob'
        /\ column' = Settled'.column /\ archived' = Settled'.archived
        /\ ready' = Settled'.ready /\ Settled'.ghState[n] = "closed"
        /\ opened' = [Settled'.opened EXCEPT ![n] = <<>>]
    BY <1>1, <1>4, <2>2, <2>3
       DEF ArchiveTells, SameGithub, SameOrder, SameJob, ghVars, statVars, At
  <2> QED BY <2>3, <2>4, <2>5 DEF ArchiveTells
<1>5. CASE At(p, "shelve")
  <2>1. Shelve(p)
    BY <1>1, <1>5, ByLabel
  <2>2. /\ Done(p) /\ archived' = archived \cup {n}
        /\ UNCHANGED <<ghVars, tracked, column, ready, closedAt, opened, order,
                       statsJob, drifted>>
    BY <1>1, <2>1 DEF Shelve
  <2>3. Atomic!Archive(n)
    BY <1>1, <1>5, <2>2, Ends
       DEF ArchiveTells, SameGithub, SameRows, SameCards, SameOrder, SameJob,
           ghVars, FoundRow, At, Atomic!Archive, Atomic!Find, Atomic!ghVars,
           Atomic!FoundClosedAt, Atomic!FoundDrift, Atomic!GhClosedAt
  <2> QED BY <2>2, <2>3, Ends
<1> QED BY <1>1, <1>2, <1>3, <1>4, <1>5 DEF At

\* IssueStats::Unarchiver.
LEMMA UnarchiveStep ==
    ASSUME RequestInv, NEW p \in Procs, NEW r, NEW s, Works(p, r, s),
           r.kind = "unarchive", UnarchiveTells(r)
    PROVE  /\ s # Idle => UnarchiveTells(s)'
           /\ s = Idle => Atomic!Unarchive(r.n)
<1> DEFINE n == r.n
<1>1. /\ r.at \in {"look", "start", "restore"} /\ n \in Numbers
      /\ TypeOK /\ r = req[p] /\ s = req'[p] /\ Continue(p) /\ r \in Requests
      /\ req \in [Procs -> Requests]
  BY ByKind DEF Works, RequestInv
<1>2. CASE At(p, "look")
  <2>1. /\ Look(p) /\ FindRow(n)
        /\ UNCHANGED <<ghVars, column, archived, ready, opened, order, statsJob>>
    BY <1>1, <1>2, ByLabel DEF Look
  <2>2. SameRows /\ SameGithub
    BY <1>1, <1>2 DEF UnarchiveTells, At
  <2>3. CASE n \in archived
    <3>1. s = [r EXCEPT !.at = "start", !.column = column[n], !.flag = n \in ready]
      BY <1>1, <2>1, <2>3 DEF Look, AfterLook
    <3>2. s.at = "start" /\ s.n = n /\ s.column = column[n]
      BY <1>1, <3>1 DEF Requests
    <3>3. s # Idle /\ Settled' = Settled
      BY <3>2, NotIdle DEF Works, Settling
    <3>4. FoundRow(n)'
      BY <1>1, <1>2, <2>1, <2>2, <3>3, FindsRow DEF SameGithub, At
    <3> QED BY <1>1, <1>2, <2>1, <2>3, <3>2, <3>3, <3>4
            DEF UnarchiveTells, SameGithub, SameOrder, SameJob, ghVars, At
  <2>4. CASE n \notin archived
    <3>1. Done(p)
      BY <1>1, <2>1, <2>4 DEF Look, AfterLook, Done
    <3>2. \A q \in Procs : ~HasFetched(q)
      BY <1>1, <1>2 DEF HasFetched, Works, Idle, At
    <3>3. Atomic!Unarchive(n)
      BY <1>1, <1>2, <2>1, <2>2, <2>4, <3>1, <3>2, Ends
         DEF UnarchiveTells, SameGithub, SameRows, SameCards, SameOrder, SameJob,
             ghVars, At, Atomic!Unarchive, Atomic!Find, Atomic!ghVars, FindRow,
             Find, FoundClosedAt, FoundDrift, GhClosedAt, Atomic!OnGithub,
             Atomic!FoundClosedAt, Atomic!FoundDrift, Atomic!GhClosedAt
    <3> QED BY <3>1, <3>3, Ends
  <2> QED BY <2>3, <2>4
<1>3. CASE At(p, "start")
  <2>1. /\ Goto(p, "restore") /\ opened' = [opened EXCEPT ![n] = Append(@, r.column)]
        /\ UNCHANGED <<ghVars, statVars, order, statsJob, drifted>>
    BY <1>1, <1>3, ByLabel DEF Start, StartedIn
  <2>2. /\ s.at = "restore" /\ s.n = n /\ s.column = r.column /\ s # Idle
        /\ Settled' = Settled
    BY <2>1, GoesTo
  <2>3. FoundRow(n)'
    BY <1>1, <1>3, <2>1, <2>2, FoundStays DEF UnarchiveTells, At, statVars
  <2>4. /\ SameGithub' /\ SameOrder' /\ SameJob'
        /\ column' = Settled'.column /\ archived' = Settled'.archived
        /\ ready' = Settled'.ready /\ Settled'.ghState[n] # "absent"
        /\ n \in archived' /\ s.column = column'[n]
        /\ opened' = [Settled'.opened EXCEPT ![n] = Append(@, Settled'.column[n])]
    BY <1>1, <1>3, <2>1, <2>2
       DEF UnarchiveTells, SameGithub, SameOrder, SameJob, ghVars, statVars, At
  <2> QED BY <2>2, <2>3, <2>4 DEF UnarchiveTells
<1>4. CASE At(p, "restore")
  <2>1. /\ Done(p) /\ archived' = archived \ {n}
        /\ UNCHANGED <<ghVars, tracked, column, ready, closedAt, opened, order,
                       statsJob, drifted>>
    BY <1>1, <1>4, ByLabel DEF Restore
  <2>2. Atomic!Unarchive(n)
    BY <1>1, <1>4, <2>1, Ends
       DEF UnarchiveTells, SameGithub, SameRows, SameCards, SameOrder, SameJob,
           ghVars, FoundRow, At, Atomic!Unarchive, Atomic!Find, Atomic!ghVars,
           Atomic!OnGithub, Atomic!FoundClosedAt, Atomic!FoundDrift,
           Atomic!GhClosedAt
  <2> QED BY <2>1, <2>2, Ends
<1> QED BY <1>1, <1>2, <1>3, <1>4 DEF At

\* toggle_ready.
LEMMA ToggleReadyStep ==
    ASSUME RequestInv, NEW p \in Procs, NEW r, NEW s, Works(p, r, s),
           r.kind = "toggle_ready", ReadyTells(r)
    PROVE  /\ s # Idle => ReadyTells(s)'
           /\ s = Idle => Atomic!ToggleReady(r.n)
<1> DEFINE n == r.n
<1>1. /\ r.at \in {"look", "toggle"} /\ n \in Numbers
      /\ TypeOK /\ r = req[p] /\ s = req'[p] /\ Continue(p) /\ r \in Requests
      /\ req \in [Procs -> Requests]
  BY ByKind DEF Works, RequestInv
<1>2. CASE At(p, "look")
  <2>1. /\ Look(p) /\ FindRow(n)
        /\ UNCHANGED <<ghVars, column, archived, ready, opened, order, statsJob>>
    BY <1>1, <1>2, ByLabel DEF Look
  <2>2. SameRows /\ SameGithub
    BY <1>1, <1>2 DEF ReadyTells, At
  <2>3. s = [r EXCEPT !.at = "toggle", !.column = column[n], !.flag = n \in ready]
    BY <1>1, <2>1 DEF Look, AfterLook
  <2>4. s.at = "toggle" /\ s.n = n /\ (s.flag <=> n \in ready)
    BY <1>1, <2>3 DEF Requests
  <2>5. s # Idle /\ Settled' = Settled
    BY <2>4, NotIdle DEF Works, Settling
  <2>6. FoundRow(n)'
    BY <1>1, <1>2, <2>1, <2>2, <2>5, FindsRow DEF SameGithub, At
  <2> QED BY <1>1, <1>2, <2>1, <2>4, <2>5, <2>6
          DEF ReadyTells, SameGithub, SameCards, SameOrder, SameJob, ghVars, At
<1>3. CASE At(p, "toggle")
  <2>1. /\ Done(p) /\ ready' = IF r.flag THEN ready \ {n} ELSE ready \cup {n}
        /\ UNCHANGED <<ghVars, tracked, column, archived, closedAt, opened,
                       order, statsJob, drifted>>
    BY <1>1, <1>3, ByLabel DEF Toggle, Unready
  <2>2. Atomic!ToggleReady(n)
    BY <1>1, <1>3, <2>1, Ends
       DEF ReadyTells, SameGithub, SameRows, SameCards, SameOrder, SameJob,
           ghVars, FoundRow, At, Atomic!ToggleReady, Atomic!Find, Atomic!ghVars,
           Atomic!OnGithub, Atomic!FoundClosedAt, Atomic!FoundDrift,
           Atomic!GhClosedAt, Atomic!Unready
  <2> QED BY <2>1, <2>2, Ends
<1> QED BY <1>1, <1>2, <1>3 DEF At

\* assignee.
LEMMA AssignStep ==
    ASSUME RequestInv, NEW p \in Procs, NEW r, NEW s, Works(p, r, s),
           r.kind = "assign", AssignTells(r)
    PROVE  /\ s # Idle => AssignTells(s)'
           /\ s = Idle => Atomic!Assign(r.n)
<1> DEFINE n == r.n
<1>1. /\ r.at \in {"ask", "patch", "stat"} /\ n \in Numbers
      /\ TypeOK /\ r = req[p] /\ s = req'[p] /\ Continue(p) /\ r \in Requests
      /\ req \in [Procs -> Requests]
  BY ByKind DEF Works, RequestInv
<1>2. CASE At(p, "ask")
  <2>1. PICK same \in BOOLEAN :
            /\ same => n \in assigned
            /\ req' = [req EXCEPT ![p].at = "patch", ![p].flag = same]
            /\ UNCHANGED vars
    BY <1>1, <1>2, ByLabel DEF Ask
  <2>2. s = [r EXCEPT !.at = "patch", !.flag = same]
    BY <1>1, <2>1
  <2>3. s.at = "patch" /\ s.n = n /\ s.flag = same
    BY <1>1, <2>2 DEF Requests
  <2>4. s # Idle /\ Settled' = Settled
    BY <2>3, NotIdle DEF Works, Settling
  <2> QED BY <1>1, <1>2, <2>1, <2>3, <2>4
          DEF AssignTells, SameRows, SameCards, SameOrder, SameJob, vars, ghVars,
              statVars, At
<1>3. CASE At(p, "patch")
  <2>1. /\ Goto(p, "stat") /\ aged' = aged \ {n}
        /\ assigned' = IF r.flag THEN assigned \ {n} ELSE assigned \cup {n}
        /\ UNCHANGED <<ghState, closings, statVars, opened, order, statsJob, drifted>>
    BY <1>1, <1>3, ByLabel DEF Patch
  <2>2. s.at = "stat" /\ s.n = n /\ s # Idle /\ Settled' = Settled
    BY <2>1, GoesTo
  <2>3. /\ SameRows' /\ SameCards' /\ SameOrder' /\ SameJob'
        /\ ghState' = Settled'.ghState /\ closings' = Settled'.closings
        /\ Settled'.ghState[n] # "absent" /\ aged' = Settled'.aged \ {n}
    BY <1>1, <1>3, <2>1, <2>2
       DEF AssignTells, SameRows, SameCards, SameOrder, SameJob, statVars, At
  <2>4. \/ assigned' = Settled'.assigned \cup {n}
        \/ n \in Settled'.assigned /\ assigned' = Settled'.assigned \ {n}
    BY <1>1, <1>3, <2>1, <2>2 DEF AssignTells, At
  <2> QED BY <2>2, <2>3, <2>4 DEF AssignTells
<1>4. CASE At(p, "stat")
  <2>1. /\ Done(p) /\ FindRow(n)
        /\ UNCHANGED <<ghVars, column, archived, ready, opened, order, statsJob>>
    BY <1>1, <1>4, ByLabel DEF Stat
  <2>2. \A q \in Procs : ~HasFetched(q)
    BY <1>1, <1>4 DEF HasFetched, Works, Idle, At
  <2>3. Atomic!Assign(n)
    BY <1>1, <1>4, <2>1, <2>2, Ends
       DEF AssignTells, SameGithub, SameRows, SameCards, SameOrder, SameJob,
           ghVars, At, Atomic!Assign, Atomic!Find, Atomic!ghVars, FindRow, Find,
           FoundClosedAt, FoundDrift, GhClosedAt, Atomic!OnGithub,
           Atomic!FoundClosedAt, Atomic!FoundDrift, Atomic!GhClosedAt
  <2> QED BY <2>1, <2>3, Ends
<1> QED BY <1>1, <1>2, <1>3, <1>4 DEF At

\* Sorting is the same everywhere.
LEMMA PutFirstIsPutFirst == \A t, n : Atomic!PutFirst(t, n) = PutFirst(t, n)
BY Zenon DEF Atomic!PutFirst, Atomic!Cons, Atomic!RemoveFirst, Atomic!RemoveAt,
       Atomic!SelectInSeq, Atomic!Min, PutFirst, Cons, RemoveFirst, RemoveAt,
       SelectInSeq, Min

\* IssueStats::Closer and Reopener.
LEMMA CloseStep ==
    ASSUME RequestInv, NEW p \in Procs, NEW r, NEW s, Works(p, r, s),
           r.kind \in {"close", "reopen"}, CloseTells(r)
    PROVE  /\ s # Idle => CloseTells(s)'
           /\ s = Idle => Atomic!Close(r.n) \/ Atomic!Reopen(r.n)
<1> DEFINE n == r.n
<1>1. /\ r.at \in {"close", "reopen", "stamp", "enqueue"} /\ n \in Numbers
      /\ r.at = "close" => r.kind = "close"
      /\ r.at = "reopen" => r.kind = "reopen"
      /\ TypeOK /\ r = req[p] /\ s = req'[p] /\ Continue(p) /\ r \in Requests
      /\ req \in [Procs -> Requests]
  BY ByKind DEF Works, RequestInv
<1>2. ghState \in [Numbers -> {"absent", "open", "closed"}] /\ closings \in [Numbers -> Nat]
  BY <1>1 DEF TypeOK
<1>3. CASE At(p, "close")
  <2>1. /\ CloseOnGithub(n)
        /\ req' = [req EXCEPT ![p].at = "stamp", ![p].seen[n] = closings'[n]]
        /\ UNCHANGED <<aged, assigned, statVars, opened, order, statsJob, drifted>>
    BY <1>1, <1>3, ByLabel DEF CloseIssue
  <2>2. s = [r EXCEPT !.at = "stamp", !.seen[n] = closings'[n]]
    BY <1>1, <2>1
  <2>3. s.at = "stamp" /\ s.kind = r.kind /\ s.n = n /\ s.seen[n] = closings'[n]
    BY <1>1, <2>2 DEF Requests
  <2>4. s # Idle /\ Settled' = Settled
    BY <2>3, NotIdle DEF Works, Settling
  <2>5. SameGithub /\ SameRows /\ SameCards /\ SameOrder /\ SameJob /\ r.kind = "close"
    BY <1>1, <1>3 DEF CloseTells, At
  <2>6. /\ ClosedIssue(n)' /\ aged' = Settled'.aged
        /\ s.seen[n] = GhClosedAt(n)'
    BY <1>1, <1>2, <2>1, <2>3, <2>4, <2>5
       DEF ClosedIssue, CloseOnGithub, SameGithub, GhClosedAt
  <2>7. /\ assigned' = Settled'.assigned /\ SameRows' /\ SameCards' /\ SameOrder'
        /\ SameJob'
    BY <2>1, <2>4, <2>5
       DEF SameGithub, SameRows, SameCards, SameOrder, SameJob, statVars
  <2>8. Settled'.ghState[n] # "absent"
    BY <2>4 DEF CloseTells
  <2> QED BY <2>3, <2>4, <2>5, <2>6, <2>7, <2>8 DEF CloseTells
<1>4. CASE At(p, "reopen")
  <2>1. /\ ReopenOnGithub(n)
        /\ req' = [req EXCEPT ![p].at = "stamp", ![p].seen[n] = 0]
        /\ UNCHANGED <<assigned, statVars, opened, order, statsJob, drifted>>
    BY <1>1, <1>4, ByLabel DEF ReopenIssue
  <2>2. s = [r EXCEPT !.at = "stamp", !.seen[n] = 0]
    BY <1>1, <2>1
  <2>3. s.at = "stamp" /\ s.kind = r.kind /\ s.n = n /\ s.seen[n] = 0
    BY <1>1, <2>2 DEF Requests
  <2>4. s # Idle /\ Settled' = Settled
    BY <2>3, NotIdle DEF Works, Settling
  <2>5. SameGithub /\ SameRows /\ SameCards /\ SameOrder /\ SameJob /\ r.kind = "reopen"
    BY <1>1, <1>4 DEF CloseTells, At
  <2>6. ReopenedIssue(n)' /\ s.seen[n] = GhClosedAt(n)'
    BY <1>1, <1>2, <2>1, <2>3, <2>4, <2>5
       DEF ReopenedIssue, ReopenOnGithub, SameGithub, GhClosedAt
  <2>7. /\ assigned' = Settled'.assigned /\ SameRows' /\ SameCards' /\ SameOrder'
        /\ SameJob'
    BY <2>1, <2>4, <2>5
       DEF SameGithub, SameRows, SameCards, SameOrder, SameJob, statVars
  <2>8. Settled'.ghState[n] # "absent"
    BY <2>4 DEF CloseTells
  <2> QED BY <2>3, <2>4, <2>5, <2>6, <2>7, <2>8 DEF CloseTells
<1>5. CASE At(p, "stamp")
  <2>1. /\ Find(n) /\ closedAt' = [closedAt EXCEPT ![n] = r.seen[n]]
        /\ drifted' = IF r.seen[n] = GhClosedAt(n) THEN drifted \ {n} ELSE drifted
        /\ Goto(p, "enqueue")
        /\ UNCHANGED <<ghVars, column, archived, ready, opened, order, statsJob>>
    BY <1>1, <1>5, ByLabel DEF Stamp
  <2>2. /\ s.at = "enqueue" /\ s.kind = r.kind /\ s.n = n /\ s # Idle
        /\ Settled' = Settled
    BY <2>1, GoesTo
  <2>3. /\ SameRows /\ r.seen[n] = GhClosedAt(n)
        /\ SameCards /\ SameOrder /\ SameJob /\ assigned = Settled.assigned
        /\ Settled.ghState[n] # "absent"
        /\ r.kind = "close" => ClosedIssue(n) /\ aged = Settled.aged
        /\ r.kind # "close" => ReopenedIssue(n)
    BY <1>1, <1>5 DEF CloseTells, At
  <2>4. StampedRow(n)'
    BY <2>1, <2>2, <2>3 DEF StampedRow, SameRows, Find, GhClosedAt, ghVars
  <2>5. /\ r.kind = "close" => ClosedIssue(n)' /\ aged' = Settled'.aged
        /\ r.kind # "close" => ReopenedIssue(n)'
    BY <2>1, <2>2, <2>3 DEF ClosedIssue, ReopenedIssue, ghVars
  <2>6. SameCards' /\ SameOrder' /\ SameJob' /\ assigned' = Settled'.assigned
    BY <2>1, <2>2, <2>3 DEF SameCards, SameOrder, SameJob, ghVars
  <2> QED BY <2>2, <2>3, <2>4, <2>5, <2>6 DEF CloseTells
<1>6. CASE At(p, "enqueue")
  <2>1. /\ Done(p) /\ statsJob'
        /\ UNCHANGED <<ghVars, statVars, opened, order, drifted>>
    BY <1>1, <1>6, ByLabel DEF Enqueue, ControlCharted
  <2>2. statsJob' = TRUE
    BY <1>1, <1>6, ByLabel DEF Enqueue, ControlCharted, TypeOK
  <2>3. /\ StampedRow(n) /\ SameCards /\ SameOrder /\ SameJob
        /\ assigned = Settled.assigned /\ Settled.ghState[n] # "absent"
        /\ r.kind = "close" => ClosedIssue(n) /\ aged = Settled.aged
        /\ r.kind # "close" => ReopenedIssue(n)
    BY <1>1, <1>6 DEF CloseTells, At
  <2>4. CASE r.kind = "close"
    <3>1. closings[n] = GhClosedAt(n)
      BY <1>1, <2>3, <2>4, <1>2 DEF ClosedIssue, GhClosedAt
    <3>2. Atomic!Close(n)
      BY <2>1, <2>2, <2>3, <2>4, <3>1, Ends
         DEF StampedRow, ClosedIssue, SameGithub, SameRows, SameCards, SameOrder,
             SameJob, ghVars, statVars, Atomic!Close, Atomic!CloseOnGithub,
             Atomic!OnGithub, Atomic!Find
    <3> QED BY <2>1, <3>2, Ends
  <2>5. CASE r.kind # "close"
    <3>1. GhClosedAt(n) = 0
      BY <1>1, <2>3, <2>5, <1>2 DEF ReopenedIssue, GhClosedAt
    <3>2. Atomic!Reopen(n)
      BY <2>1, <2>2, <2>3, <2>5, <3>1, Ends
         DEF StampedRow, ReopenedIssue, SameGithub, SameRows, SameCards, SameOrder,
             SameJob, ghVars, statVars, Atomic!Reopen, Atomic!ReopenOnGithub,
             Atomic!OnGithub, Atomic!Find
    <3> QED BY <2>1, <3>2, Ends
  <2> QED BY <2>4, <2>5
<1> QED BY <1>1, <1>3, <1>4, <1>5, <1>6 DEF At

\* IssueStats::Creator.
LEMMA CreateStep ==
    ASSUME RequestInv, GithubRows, NEW p \in Procs, NEW r, NEW s, Works(p, r, s),
           r.kind = "create", CreateTells(r)
    PROVE  /\ s # Idle => CreateTells(s)'
           /\ s = Idle => r.n \in Numbers /\ Atomic!Create(r.n)
<1> DEFINE n == r.n
           c == DefaultColumn
<1>1. /\ r.at \in {"create", "insert", "need", "ask", "patch", "sort", "start"}
      /\ r.at # "create" => n \in Numbers
      /\ TypeOK /\ r = req[p] /\ s = req'[p] /\ Continue(p) /\ r \in Requests
      /\ req \in [Procs -> Requests]
  BY ByKind DEF Works, RequestInv
<1>2. /\ r.c = c /\ r.force /\ r.list = Settled.order[c]
      /\ closings = Settled.closings /\ aged = Settled.aged
      /\ SameCards /\ SameJob
      /\ r.at # "create" => GivenOut(n)
  BY DEF CreateTells
<1>3. /\ ghState \in [Numbers -> {"absent", "open", "closed"}] /\ c \in Columns
      /\ opened \in [Numbers -> Seq(Columns)] /\ order \in [Columns -> Seq(Numbers)]
  BY <1>1, ColumnsAssumption DEF TypeOK, ColumnsAssumption
<1>4. ASSUME NEW l, Goto(p, l), l \notin {"idle", "create"}, r.at # "create",
             UNCHANGED <<ghState, closings, aged, column, archived, ready,
                         opened, statsJob>>
      PROVE  /\ s.at = l /\ s.n = n /\ s # Idle /\ Settled' = Settled
             /\ s.flag = r.flag
             /\ s.c = c /\ s.force /\ s.list = Settled'.order[c]
             /\ closings' = Settled'.closings /\ aged' = Settled'.aged
             /\ SameCards' /\ SameJob' /\ GivenOut(n)'
  <2>1. /\ s.at = l /\ s.n = n /\ s # Idle /\ Settled' = Settled
        /\ s.flag = r.flag /\ s.c = c /\ s.force /\ s.list = r.list
    BY <1>2, <1>4, GoesTo
  <2>2. closings' = Settled'.closings /\ aged' = Settled'.aged /\ SameCards' /\ SameJob'
    BY <1>2, <1>4, <2>1 DEF SameCards, SameJob
  <2>3. GivenOut(n)'
    BY <1>2, <1>4, <2>1 DEF GivenOut
  <2> QED BY <1>2, <2>1, <2>2, <2>3
<1>5. CASE At(p, "create")
  <2>1. SameGithub /\ SameRows /\ SameOrder
    BY <1>1, <1>5 DEF CreateTells, At
  <2>2. PICK m \in Numbers \ Old :
            /\ ghState[m] = "absent"
            /\ \A k \in Numbers : OnGithub(k) => k < m
            /\ ghState' = [ghState EXCEPT ![m] = "open"]
            /\ req' = [req EXCEPT ![p].at = "insert", ![p].n = m]
            /\ UNCHANGED <<closings, aged, assigned, statVars, opened, order,
                           statsJob, drifted>>
    BY <1>1, <1>5, ByLabel DEF CreateIssue
  <2>3. s = [r EXCEPT !.at = "insert", !.n = m]
    BY <1>1, <2>2
  <2>4. /\ s.at = "insert" /\ s.n = m /\ s.c = r.c /\ s.force = r.force
        /\ s.list = r.list
    BY <1>1, <2>3 DEF Requests
  <2>5. s # Idle /\ Settled' = Settled
    BY <2>4, NotIdle DEF Works, Settling
  <2>6. opened[m] = <<>> /\ m \notin tracked
    BY <2>2 DEF GithubRows, OnGithub
  <2>7. GivenOut(m)'
    BY <1>2, <2>1, <2>2, <2>5, <2>6 DEF GivenOut, SameGithub, SameCards, OnGithub
  <2>8. /\ closings' = Settled'.closings /\ aged' = Settled'.aged
        /\ SameCards' /\ SameJob' /\ SameRows' /\ m \notin tracked'
        /\ assigned' = Settled'.assigned /\ SameOrder'
    BY <1>2, <2>1, <2>2, <2>5, <2>6
       DEF SameGithub, SameCards, SameRows, SameJob, SameOrder, statVars
  <2> QED BY <1>2, <2>4, <2>5, <2>7, <2>8 DEF CreateTells
<1>6. CASE At(p, "insert")
  <2>1. /\ SameRows /\ SameOrder /\ n \notin tracked /\ assigned = Settled.assigned
    BY <1>1, <1>6 DEF CreateTells, At
  <2>2. /\ Goto(p, "need") /\ tracked' = tracked \cup {n}
        /\ UNCHANGED <<ghVars, column, archived, ready, closedAt, opened, order,
                       statsJob, drifted>>
    BY <1>1, <1>6, <2>1, ByLabel DEF Insert, Find
  <2>3. /\ s.at = "need" /\ s.n = n /\ s # Idle /\ Settled' = Settled
        /\ s.c = c /\ s.force /\ s.list = Settled'.order[c]
        /\ closings' = Settled'.closings /\ aged' = Settled'.aged
        /\ SameCards' /\ SameJob' /\ GivenOut(n)'
    BY <1>4, <1>6, <1>1, <2>2 DEF ghVars, At
  <2>4. NewRow(n)' /\ SameOrder' /\ assigned' = Settled'.assigned
    BY <2>1, <2>2, <2>3 DEF NewRow, SameRows, SameOrder, ghVars
  <2> QED BY <2>3, <2>4 DEF CreateTells
<1>7. CASE At(p, "need")
  <2>1. NewRow(n) /\ SameOrder /\ assigned = Settled.assigned
    BY <1>1, <1>7 DEF CreateTells, At
  <2>2. /\ Goto(p, IF c \in AutoAssign /\ n \notin assigned THEN "ask" ELSE "sort")
        /\ UNCHANGED vars
    BY <1>1, <1>2, <1>7, ByLabel DEF NeedAssignee, AfterAssign
  <2>3. PICK l \in {"ask", "sort"} :
            /\ Goto(p, l)
            /\ l = "ask" => c \in AutoAssign /\ n \notin assigned
            /\ l = "sort" => ~(c \in AutoAssign /\ n \notin assigned)
    BY <2>2
  <2>4. /\ s.at = l /\ s.n = n /\ s # Idle /\ Settled' = Settled
        /\ s.c = c /\ s.force /\ s.list = Settled'.order[c]
        /\ closings' = Settled'.closings /\ aged' = Settled'.aged
        /\ SameCards' /\ SameJob' /\ GivenOut(n)'
    BY <1>1, <1>4, <1>7, <2>2, <2>3 DEF vars, ghVars, statVars, At
  <2>5. NewRow(n)' /\ SameOrder' /\ assigned' = Settled'.assigned
    BY <2>1, <2>2, <2>4 DEF NewRow, SameOrder, vars, ghVars, statVars
  <2>6. l = "ask" => c \in AutoAssign /\ n \notin assigned'
    BY <2>2, <2>3 DEF vars, ghVars
  <2>7. l = "sort" => assigned' = Atomic!AutoAssigned(n, c)'
    BY <2>1, <2>2, <2>3, <2>4 DEF Atomic!AutoAssigned, vars, ghVars
  <2> QED BY <2>3, <2>4, <2>5, <2>6, <2>7 DEF CreateTells
<1>8. CASE At(p, "ask")
  <2>1. /\ NewRow(n) /\ SameOrder /\ assigned = Settled.assigned
        /\ c \in AutoAssign /\ n \notin assigned
    BY <1>1, <1>8 DEF CreateTells, At
  <2>2. /\ req' = [req EXCEPT ![p].at = "patch", ![p].flag = FALSE]
        /\ UNCHANGED vars
    BY <1>1, <1>8, <2>1, ByLabel DEF Ask
  <2>3. s = [r EXCEPT !.at = "patch", !.flag = FALSE]
    BY <1>1, <2>2
  <2>4. /\ s.at = "patch" /\ s.n = n /\ s.c = r.c /\ s.force = r.force
        /\ s.list = r.list /\ s.flag = FALSE
    BY <1>1, <2>3 DEF Requests
  <2>5. s # Idle /\ Settled' = Settled
    BY <2>4, NotIdle DEF Works, Settling
  <2>6. NewRow(n)' /\ SameOrder' /\ assigned' = Settled'.assigned /\ n \notin assigned'
    BY <2>1, <2>2, <2>5 DEF NewRow, SameOrder, vars, ghVars, statVars
  <2>7. /\ closings' = Settled'.closings /\ aged' = Settled'.aged
        /\ SameCards' /\ SameJob'
    BY <1>2, <2>2, <2>5 DEF SameCards, SameJob, vars, ghVars, statVars
  <2>8. GivenOut(n)'
    BY <1>1, <1>2, <1>8, <2>2, <2>5 DEF GivenOut, vars, ghVars, At
  <2> QED BY <1>2, <2>1, <2>4, <2>5, <2>6, <2>7, <2>8 DEF CreateTells
<1>9. CASE At(p, "patch")
  <2>1. /\ NewRow(n) /\ SameOrder /\ assigned = Settled.assigned
        /\ c \in AutoAssign /\ ~r.flag /\ GivenOut(n)
    BY <1>1, <1>2, <1>9 DEF CreateTells, At
  <2>2. /\ Goto(p, "sort") /\ assigned' = assigned \cup {n} /\ aged' = aged \ {n}
        /\ UNCHANGED <<ghState, closings, statVars, opened, order, statsJob, drifted>>
    BY <1>1, <1>9, <2>1, ByLabel DEF Patch, AfterAssign
  <2>3. aged' = aged
    <3>1. n \in Numbers /\ ghState[n] = "open"
      BY <1>1, <1>3, <1>9, <2>1, <1>2 DEF GivenOut, At
    <3> QED BY <2>2, <3>1 DEF GithubRows
  <2>4. /\ s.at = "sort" /\ s.n = n /\ s # Idle /\ Settled' = Settled
        /\ s.c = c /\ s.force /\ s.list = Settled'.order[c]
        /\ closings' = Settled'.closings /\ aged' = Settled'.aged
        /\ SameCards' /\ SameJob' /\ GivenOut(n)'
    BY <1>1, <1>4, <1>9, <2>2, <2>3 DEF statVars, At
  <2>5. NewRow(n)' /\ SameOrder' /\ assigned' = Atomic!AutoAssigned(n, c)'
    BY <2>1, <2>2, <2>4 DEF NewRow, SameOrder, statVars, Atomic!AutoAssigned
  <2> QED BY <2>4, <2>5 DEF CreateTells
<1>10. CASE At(p, "sort")
  <2>1. NewRow(n) /\ SameOrder /\ assigned = Atomic!AutoAssigned(n, c)
    BY <1>1, <1>10 DEF CreateTells, At
  <2>2. /\ Goto(p, "start") /\ order' = [order EXCEPT ![c] = PutFirst(r.list, n)]
        /\ UNCHANGED <<ghVars, statVars, opened, statsJob, drifted>>
    BY <1>1, <1>2, <1>10, ByLabel DEF Sort
  <2>4. /\ s.at = "start" /\ s.n = n /\ s # Idle /\ Settled' = Settled
        /\ s.c = c /\ s.force /\ s.list = Settled'.order[c]
        /\ closings' = Settled'.closings /\ aged' = Settled'.aged
        /\ SameCards' /\ SameJob' /\ GivenOut(n)'
    BY <1>1, <1>4, <1>10, <2>2 DEF ghVars, statVars, At
  <2>5. NewRow(n)' /\ assigned' = Atomic!AutoAssigned(n, c)'
    BY <2>1, <2>2, <2>4 DEF NewRow, ghVars, statVars, Atomic!AutoAssigned
  <2>6. order' = [Settled'.order EXCEPT ![c] = PutFirst(@, n)]
    BY <1>2, <2>1, <2>2, <2>4 DEF SameOrder
  <2> QED BY <2>4, <2>5, <2>6 DEF CreateTells
<1>11. CASE At(p, "start")
  <2>1. /\ NewRow(n) /\ assigned = Atomic!AutoAssigned(n, c) /\ GivenOut(n)
        /\ order = [Settled.order EXCEPT ![c] = PutFirst(@, n)] /\ n \in Numbers
    BY <1>1, <1>2, <1>11 DEF CreateTells, At
  <2>2. /\ Done(p) /\ opened' = [opened EXCEPT ![n] = Append(@, c)]
        /\ UNCHANGED <<ghVars, statVars, order, statsJob, drifted>>
    BY <1>1, <1>2, <1>11, ByLabel DEF Start, StartedIn
  <2>3. opened' = [Settled.opened EXCEPT ![n] = <<c>>]
    <3>1. opened = Settled.opened /\ opened[n] = <<>>
      BY <1>2, <2>1 DEF GivenOut, SameCards
    <3>2. Append(<<>>, c) = <<c>>
      OBVIOUS
    <3> QED BY <1>3, <2>1, <2>2, <3>1, <3>2
  <2>4. order' = [Settled.order EXCEPT ![c] = Atomic!PutFirst(@, n)]
    BY <2>1, <2>2, PutFirstIsPutFirst
  <2>5. Atomic!Create(n)
    BY <1>2, <2>1, <2>2, <2>3, <2>4, Ends
       DEF NewRow, GivenOut, SameGithub, SameRows, SameCards, SameOrder, SameJob,
           ghVars, statVars, Atomic!Create, Atomic!OnGithub, Atomic!Find
  <2> QED BY <2>1, <2>2, <2>5, Ends
<1> QED BY <1>1, <1>5, <1>6, <1>7, <1>8, <1>9, <1>10, <1>11 DEF At

\* IssueStats::Mover.
LEMMA MoveStep ==
    ASSUME RequestInv, NEW p \in Procs, NEW r, NEW s, Works(p, r, s),
           r.kind = "move", MoveTells(r)
    PROVE  /\ s # Idle => MoveTells(s)'
           /\ s = Idle => /\ r.c \in Columns /\ r.force \in Forces
                          /\ Atomic!Move(r.n, r.c, r.force)
<1> DEFINE n == r.n
           c == r.c
           closes == c \in AutoClose /\ Settled.ghState[n] = "open"
           Kept == /\ s.n = n /\ s.c = c /\ s.force \in Forces /\ s # Idle
                   /\ s.list = order'[c]
                   /\ Settled' = Settled
                   /\ archived' = Settled'.archived /\ SameOrder' /\ SameJob'
                   /\ Settled'.ghState[n] # "absent"
<1>1. /\ r.at \in {"find", "look", "finish", "start", "unready", "place", "need",
                   "ask", "patch", "state", "close", "stamp", "sort"}
      /\ n \in Numbers /\ c \in Columns /\ r.force \in BOOLEAN
      /\ TypeOK /\ r = req[p] /\ s = req'[p] /\ Continue(p) /\ r \in Requests
      /\ req \in [Procs -> Requests]
  <2>1. r \in Requests
    BY ByKind DEF Works
  <2> QED BY <2>1, ByKind DEF Works, RequestInv, Requests
<1>2. /\ r.force \in Forces
      /\ archived = Settled.archived /\ SameOrder /\ SameJob
      /\ Settled.ghState[n] # "absent"
      /\ r.at # "find" => r.list = order[c]
  BY DEF MoveTells
<1>3. /\ ghState \in [Numbers -> {"absent", "open", "closed"}]
      /\ opened \in [Numbers -> Seq(Columns)] /\ column \in [Numbers -> Columns]
      /\ order \in [Columns -> Seq(Numbers)] /\ closings \in [Numbers -> Nat]
      /\ closedAt \in [Numbers -> Nat]
  BY <1>1 DEF TypeOK
<1>4. ASSUME s.n = n, s.c = c, s.force = r.force, s.list = order[c],
             s.at # "idle", UNCHANGED <<archived, order, statsJob>>
      PROVE  Kept
  <2>1. s # Idle /\ Settled' = Settled
    BY <1>4, NotIdle DEF Works, Settling
  <2> QED BY <1>2, <1>4, <2>1 DEF SameOrder, SameJob
<1>5. ASSUME NEW l, Goto(p, l), l # "idle", r.at # "find",
             UNCHANGED <<archived, order, statsJob>>
      PROVE  Kept /\ s.at = l /\ s.flag = r.flag /\ s.seen = r.seen
  <2>1. /\ s.at = l /\ s.n = n /\ s.c = c /\ s.force = r.force /\ s.list = r.list
        /\ s.flag = r.flag /\ s.seen = r.seen
    BY <1>5, GoesTo
  <2> QED BY <1>2, <1>4, <1>5, <2>1
<1>6. ASSUME NEW l, r.at \in {"find", "look"}, FindRow(n), SameRows \/ FoundRow(n),
             SameGithub, UNCHANGED ghVars, Kept
      PROVE  FoundRow(n)' /\ SameGithub'
  BY <1>1, <1>6, FindsRow DEF SameGithub, ghVars
<1>7. CASE At(p, "find")
  <2>1. SameRows /\ SameGithub /\ SameCards
    BY <1>1, <1>7 DEF MoveTells, At
  <2>2. /\ FindRow(n)
        /\ req' = [req EXCEPT ![p].at = "look", ![p].list = order[c]]
        /\ UNCHANGED <<ghVars, column, archived, ready, opened, order, statsJob>>
    BY <1>1, <1>7, ByLabel DEF FindCard
  <2>3. s = [r EXCEPT !.at = "look", !.list = order[c]]
    BY <1>1, <2>2
  <2>4. /\ s.at = "look" /\ s.n = n /\ s.c = c /\ s.force = r.force
        /\ s.list = order[c]
    BY <1>1, <2>3 DEF Requests
  <2>5. Kept
    BY <1>4, <2>2, <2>4
  <2>6. FoundRow(n)' /\ SameGithub'
    BY <1>1, <1>6, <1>7, <2>1, <2>2, <2>5 DEF At
  <2>7. SameCards'
    BY <2>1, <2>2, <2>5 DEF SameCards
  <2> QED BY <2>4, <2>5, <2>6, <2>7 DEF MoveTells
<1>8. CASE At(p, "look")
  <2>1. FoundRow(n) /\ SameGithub /\ SameCards
    BY <1>1, <1>8 DEF MoveTells, At
  <2>2. /\ Look(p) /\ FindRow(n)
        /\ UNCHANGED <<ghVars, column, archived, ready, opened, order, statsJob>>
    BY <1>1, <1>8, ByLabel DEF Look
  <2>3. PICK l \in {"finish", "need"} :
            /\ s = [r EXCEPT !.at = l, !.column = column[n], !.flag = n \in ready]
            /\ l = "finish" <=> column[n] # c
    BY <1>1, <2>2 DEF Look, AfterLook
  <2>4. s.at = l /\ s.n = n /\ s.c = c /\ s.force = r.force /\ s.list = r.list
    BY <1>1, <2>3 DEF Requests
  <2>5. Kept
    BY <1>1, <1>2, <1>4, <1>8, <2>2, <2>3, <2>4 DEF At
  <2>6. FoundRow(n)' /\ SameGithub'
    BY <1>1, <1>6, <1>8, <2>1, <2>2, <2>5 DEF At
  <2>7. CASE l = "finish"
    <3>1. /\ column' = Settled'.column /\ column'[n] # c
          /\ opened' = Settled'.opened /\ ready' = Settled'.ready
      BY <2>1, <2>2, <2>3, <2>5, <2>7 DEF SameCards
    <3> QED BY <2>4, <2>5, <2>6, <2>7, <3>1 DEF MoveTells
  <2>8. CASE l = "need"
    <3>1. MovedCard(n, c)'
      <4>1. column[n] = c
        BY <2>3, <2>8
      <4>2. column = [column EXCEPT ![n] = c]
        BY <1>1, <1>3, <4>1
      <4>3. /\ column' = Settled'.column /\ opened' = Settled'.opened
            /\ ready' = Settled'.ready
        BY <2>1, <2>2, <2>5 DEF SameCards
      <4>4. column' = column
        BY <2>2
      <4> QED BY <4>1, <4>2, <4>3, <4>4 DEF MovedCard
    <3> QED BY <2>4, <2>5, <2>6, <2>8, <3>1 DEF MoveTells
  <2> QED BY <2>7, <2>8
<1>9. CASE At(p, "finish")
  <2>1. /\ FoundRow(n) /\ SameGithub /\ column = Settled.column /\ column[n] # c
        /\ ready = Settled.ready /\ opened = Settled.opened
    BY <1>1, <1>9 DEF MoveTells, At
  <2>2. /\ Goto(p, "start") /\ opened' = [opened EXCEPT ![n] = <<>>]
        /\ UNCHANGED <<ghVars, statVars, order, statsJob, drifted>>
    BY <1>1, <1>9, ByLabel DEF Finish, Finished
  <2>3. Kept /\ s.at = "start"
    BY <1>1, <1>5, <1>9, <2>2 DEF statVars, At
  <2>4. FoundRow(n)' /\ SameGithub'
    BY <2>1, <2>2, <2>3, FoundStays DEF SameGithub, ghVars, statVars
  <2>5. /\ column' = Settled'.column /\ column'[n] # c /\ ready' = Settled'.ready
        /\ opened' = [Settled'.opened EXCEPT ![n] = <<>>]
    BY <2>1, <2>2, <2>3 DEF statVars
  <2> QED BY <2>3, <2>4, <2>5 DEF MoveTells
<1>10. CASE At(p, "start")
  <2>1. /\ FoundRow(n) /\ SameGithub /\ column = Settled.column /\ column[n] # c
        /\ ready = Settled.ready /\ opened = [Settled.opened EXCEPT ![n] = <<>>]
    BY <1>1, <1>10 DEF MoveTells, At
  <2>2. /\ Goto(p, "unready") /\ opened' = [opened EXCEPT ![n] = Append(@, c)]
        /\ UNCHANGED <<ghVars, statVars, order, statsJob, drifted>>
    BY <1>1, <1>10, ByLabel DEF Start, StartedIn
  <2>3. Kept /\ s.at = "unready"
    BY <1>1, <1>5, <1>10, <2>2 DEF statVars, At
  <2>4. FoundRow(n)' /\ SameGithub'
    BY <2>1, <2>2, <2>3, FoundStays DEF SameGithub, ghVars, statVars
  <2>5. column' = Settled'.column /\ column'[n] # c /\ ready' = Settled'.ready
    BY <2>1, <2>2, <2>3 DEF statVars
  <2>6. opened' = Atomic!Restarted(n, c)'
    <3>1. Append(<<>>, c) = <<c>>
      OBVIOUS
    <3>2. opened[n] = <<>>
      BY <1>1, <1>3, <2>1
    <3> QED BY <1>1, <1>3, <2>1, <2>2, <2>3, <3>1, <3>2 DEF Atomic!Restarted
  <2> QED BY <2>3, <2>4, <2>5, <2>6 DEF MoveTells
<1>11. CASE At(p, "unready")
  <2>1. /\ FoundRow(n) /\ SameGithub /\ column = Settled.column /\ column[n] # c
        /\ ready = Settled.ready /\ opened = Atomic!Restarted(n, c)
    BY <1>1, <1>11 DEF MoveTells, At
  <2>2. /\ Goto(p, "place") /\ ready' = ready \ {n}
        /\ UNCHANGED <<ghVars, tracked, column, archived, closedAt, opened, order,
                       statsJob, drifted>>
    BY <1>1, <1>11, ByLabel DEF UnreadyCard, Unready
  <2>3. Kept /\ s.at = "place"
    BY <1>1, <1>5, <1>11, <2>2 DEF At
  <2>4. FoundRow(n)' /\ SameGithub'
    BY <2>1, <2>2, <2>3, FoundStays DEF SameGithub, ghVars
  <2>5. /\ column' = Settled'.column /\ column'[n] # c
        /\ ready' = Atomic!Unready(n)' /\ opened' = Atomic!Restarted(n, c)'
    BY <2>1, <2>2, <2>3 DEF Atomic!Unready, Atomic!Restarted
  <2> QED BY <2>3, <2>4, <2>5 DEF MoveTells
<1>12. CASE At(p, "place")
  <2>1. /\ FoundRow(n) /\ SameGithub /\ column = Settled.column /\ column[n] # c
        /\ ready = Atomic!Unready(n) /\ opened = Atomic!Restarted(n, c)
    BY <1>1, <1>12 DEF MoveTells, At
  <2>2. /\ Goto(p, "need") /\ column' = [column EXCEPT ![n] = c]
        /\ UNCHANGED <<ghVars, tracked, archived, ready, closedAt, opened, order,
                       statsJob, drifted>>
    BY <1>1, <1>12, ByLabel DEF Place
  <2>3. Kept /\ s.at = "need"
    BY <1>1, <1>5, <1>12, <2>2 DEF At
  <2>4. FoundRow(n)' /\ SameGithub'
    BY <2>1, <2>2, <2>3, FoundStays DEF SameGithub, ghVars
  <2>5. MovedCard(n, c)'
    BY <2>1, <2>2, <2>3 DEF MovedCard, Atomic!Unready, Atomic!Restarted
  <2> QED BY <2>3, <2>4, <2>5 DEF MoveTells
<1>13. ASSUME MovedCard(n, c), UNCHANGED <<column, opened, ready>>, Kept
       PROVE  MovedCard(n, c)'
  BY <1>13 DEF MovedCard, Atomic!Unready, Atomic!Restarted
<1>14. CASE At(p, "need")
  <2>1. FoundRow(n) /\ SameGithub /\ MovedCard(n, c)
    BY <1>1, <1>14 DEF MoveTells, At
  <2>2. PICK l \in {"ask", "state"} :
            /\ Goto(p, l) /\ UNCHANGED vars
            /\ l = "ask" <=> (c \in AutoAssign /\ n \notin assigned)
    BY <1>1, <1>14, ByLabel DEF NeedAssignee, AfterAssign
  <2>3. Kept /\ s.at = l
    BY <1>1, <1>5, <1>14, <2>2 DEF vars, statVars, At
  <2>4. FoundRow(n)' /\ SameGithub' /\ MovedCard(n, c)'
    BY <1>13, <2>1, <2>2, <2>3, FoundStays DEF SameGithub, vars, ghVars, statVars
  <2>5. l = "ask" => c \in AutoAssign /\ n \notin assigned'
    BY <2>2 DEF vars, ghVars
  <2>6. l = "state" => AssignedTo(n, c)' /\ SameIssue'
    BY <2>1, <2>2, <2>3
       DEF AssignedTo, SameIssue, SameGithub, Atomic!AutoAssigned,
           Atomic!AutoRelisted, vars, ghVars
  <2> QED BY <2>2, <2>3, <2>4, <2>5, <2>6 DEF MoveTells
<1>15. CASE At(p, "ask")
  <2>1. /\ FoundRow(n) /\ SameGithub /\ MovedCard(n, c)
        /\ c \in AutoAssign /\ n \notin assigned
    BY <1>1, <1>15 DEF MoveTells, At
  <2>2. /\ req' = [req EXCEPT ![p].at = "patch", ![p].flag = FALSE]
        /\ UNCHANGED vars
    BY <1>1, <1>15, <2>1, ByLabel DEF Ask
  <2>3. s = [r EXCEPT !.at = "patch", !.flag = FALSE]
    BY <1>1, <2>2
  <2>4. /\ s.at = "patch" /\ s.n = n /\ s.c = c /\ s.force = r.force
        /\ s.list = r.list /\ s.flag = FALSE
    BY <1>1, <2>3 DEF Requests
  <2>5. Kept
    BY <1>1, <1>2, <1>4, <1>15, <2>2, <2>4 DEF vars, statVars, At
  <2>6. FoundRow(n)' /\ SameGithub' /\ MovedCard(n, c)' /\ n \notin assigned'
    BY <1>13, <2>1, <2>2, <2>5, FoundStays DEF SameGithub, vars, ghVars, statVars
  <2> QED BY <2>1, <2>4, <2>5, <2>6 DEF MoveTells
<1>16. CASE At(p, "patch")
  <2>1. /\ FoundRow(n) /\ SameGithub /\ MovedCard(n, c)
        /\ c \in AutoAssign /\ n \notin assigned /\ ~r.flag
    BY <1>1, <1>16 DEF MoveTells, At
  <2>2. /\ Goto(p, "state") /\ assigned' = assigned \cup {n} /\ aged' = aged \ {n}
        /\ UNCHANGED <<ghState, closings, statVars, opened, order, statsJob, drifted>>
    BY <1>1, <1>16, <2>1, ByLabel DEF Patch, AfterAssign
  <2>3. Kept /\ s.at = "state"
    BY <1>1, <1>5, <1>16, <2>2 DEF statVars, At
  <2>4. FoundRow(n)' /\ MovedCard(n, c)'
    BY <1>13, <2>1, <2>2, <2>3, FoundStays DEF statVars
  <2>5. AssignedTo(n, c)' /\ SameIssue'
    BY <2>1, <2>2, <2>3
       DEF AssignedTo, SameIssue, SameGithub, Atomic!AutoAssigned,
           Atomic!AutoRelisted
  <2> QED BY <2>3, <2>4, <2>5 DEF MoveTells
<1>17. ASSUME AssignedTo(n, c), UNCHANGED <<assigned, aged>>, Kept
       PROVE  AssignedTo(n, c)'
  BY <1>17 DEF AssignedTo, Atomic!AutoAssigned, Atomic!AutoRelisted
<1>18. CASE At(p, "state")
  <2>1. FoundRow(n) /\ MovedCard(n, c) /\ AssignedTo(n, c) /\ SameIssue
    BY <1>1, <1>18 DEF MoveTells, At
  <2>2. PICK l \in {"close", "sort"} :
            /\ Goto(p, l) /\ UNCHANGED vars
            /\ l = "close" <=> closes
    BY <1>1, <1>18, <2>1, ByLabel DEF AskState, SameIssue
  <2>3. Kept /\ s.at = l
    BY <1>1, <1>5, <1>18, <2>2 DEF vars, statVars, At
  <2>4. FoundRow(n)' /\ MovedCard(n, c)' /\ AssignedTo(n, c)' /\ SameIssue'
    BY <1>13, <1>17, <2>1, <2>2, <2>3, FoundStays
       DEF SameIssue, vars, ghVars, statVars
  <2> QED BY <2>2, <2>3, <2>4 DEF MoveTells
<1>19. CASE At(p, "close")
  <2>1. /\ FoundRow(n) /\ MovedCard(n, c) /\ AssignedTo(n, c) /\ SameIssue
        /\ closes
    BY <1>1, <1>19 DEF MoveTells, At
  <2>2. /\ CloseOnGithub(n)
        /\ req' = [req EXCEPT ![p].at = "stamp", ![p].seen[n] = closings'[n]]
        /\ UNCHANGED <<aged, assigned, statVars, opened, order, statsJob, drifted>>
    BY <1>1, <1>19, ByLabel DEF CloseIssue
  <2>3. s = [r EXCEPT !.at = "stamp", !.seen[n] = closings'[n]]
    BY <1>1, <2>2
  <2>4. /\ s.at = "stamp" /\ s.n = n /\ s.c = c /\ s.force = r.force
        /\ s.list = r.list /\ s.seen[n] = closings'[n]
    BY <1>1, <2>3 DEF Requests
  <2>5. Kept
    BY <1>1, <1>2, <1>4, <1>19, <2>2, <2>4 DEF statVars, At
  <2>6. FoundRow(n)' /\ MovedCard(n, c)' /\ AssignedTo(n, c)'
    BY <1>13, <1>17, <2>1, <2>2, <2>5, FoundStays DEF statVars
  <2>7. ClosedIssue(n)'
    BY <2>1, <2>2, <2>5 DEF ClosedIssue, CloseOnGithub, SameIssue
  <2> QED BY <2>1, <2>4, <2>5, <2>6, <2>7 DEF MoveTells
<1>20. CASE At(p, "stamp")
  <2>1. /\ FoundRow(n) /\ MovedCard(n, c) /\ AssignedTo(n, c) /\ ClosedIssue(n)
        /\ closes /\ r.seen[n] = closings[n]
    BY <1>1, <1>20 DEF MoveTells, At
  <2>2. /\ Find(n) /\ closedAt' = [closedAt EXCEPT ![n] = r.seen[n]]
        /\ drifted' = IF r.seen[n] = GhClosedAt(n) THEN drifted \ {n} ELSE drifted
        /\ Goto(p, "sort")
        /\ UNCHANGED <<ghVars, column, archived, ready, opened, order, statsJob>>
    BY <1>1, <1>20, ByLabel DEF Stamp
  <2>3. Kept /\ s.at = "sort"
    BY <1>1, <1>5, <1>20, <2>2 DEF At
  <2>4. MovedCard(n, c)' /\ AssignedTo(n, c)'
    BY <1>13, <1>17, <2>1, <2>2, <2>3 DEF ghVars
  <2>5. ClosedIssue(n)'
    BY <2>1, <2>2, <2>3 DEF ClosedIssue, ghVars
  <2>6. StampedRow(n)'
    <3>1. r.seen[n] = GhClosedAt(n) /\ GhClosedAt(n)' = GhClosedAt(n)
      BY <1>1, <1>3, <2>1, <2>2 DEF GhClosedAt, ClosedIssue, ghVars
    <3>2. /\ tracked' = Settled'.tracked \cup {n}
          /\ drifted' = Settled'.drifted \ {n}
      BY <2>1, <2>2, <2>3, <3>1 DEF FoundRow, Find, Atomic!FoundDrift
    <3>3. closedAt' = [Settled'.closedAt EXCEPT ![n] = GhClosedAt(n)']
      BY <1>1, <1>3, <2>1, <2>2, <2>3, <3>1 DEF FoundRow, Atomic!FoundClosedAt
    <3> QED BY <3>2, <3>3 DEF StampedRow
  <2> QED BY <2>1, <2>3, <2>4, <2>5, <2>6 DEF MoveTells
<1>21. CASE At(p, "sort")
  <2>1. /\ MovedCard(n, c) /\ AssignedTo(n, c)
        /\ closes => ClosedIssue(n) /\ StampedRow(n)
        /\ ~closes => SameIssue /\ FoundRow(n)
        /\ r.list = order[c]
    BY <1>1, <1>21 DEF MoveTells, At
  <2>2. /\ Done(p)
        /\ order' = IF r.force THEN [order EXCEPT ![c] = PutFirst(r.list, n)]
                               ELSE order
        /\ UNCHANGED <<ghVars, statVars, opened, statsJob, drifted>>
    BY <1>1, <1>21, ByLabel DEF Sort
  <2>3. s = Idle /\ SameGithub' /\ SameRows' /\ SameCards' /\ SameOrder' /\ SameJob'
    BY <2>2, Ends
  <2>4. Settled'.order = IF r.force THEN [Settled.order EXCEPT ![c] = Atomic!PutFirst(@, n)]
                                    ELSE Settled.order
    BY <1>2, <2>1, <2>2, <2>3, PutFirstIsPutFirst DEF SameOrder
  <2>5. /\ Settled'.column = [Settled.column EXCEPT ![n] = c]
        /\ Settled'.opened = IF c # Settled.column[n] THEN Atomic!Restarted(n, c)
                                                      ELSE Settled.opened
        /\ Settled'.ready = IF c # Settled.column[n] THEN Atomic!Unready(n)
                                                     ELSE Settled.ready
        /\ Settled'.archived = Settled.archived /\ Settled'.statsJob = Settled.statsJob
        /\ Settled'.assigned = Atomic!AutoAssigned(n, c)
        /\ Settled'.aged = Atomic!AutoRelisted(n, c)
    BY <1>2, <2>1, <2>2, <2>3
       DEF MovedCard, AssignedTo, SameGithub, SameCards, SameJob, ghVars, statVars
  <2>6. CASE closes
    <3>1. GhClosedAt(n) = Settled.closings[n] + 1
      BY <1>1, <1>3, <2>1, <2>6 DEF GhClosedAt, ClosedIssue
    <3>2. /\ Settled'.tracked = Settled.tracked \cup {n}
          /\ Settled'.closedAt = [Settled.closedAt EXCEPT ![n] = Settled.closings[n] + 1]
          /\ Settled'.drifted = Settled.drifted \ {n}
      BY <2>1, <2>2, <2>3, <2>6, <3>1 DEF StampedRow, SameRows, statVars
    <3>3. /\ Settled'.ghState = [Settled.ghState EXCEPT ![n] = "closed"]
          /\ Settled'.closings = [Settled.closings EXCEPT ![n] = @ + 1]
          /\ Settled.closings[n] < MaxClosings
      BY <2>1, <2>2, <2>3, <2>6 DEF ClosedIssue, SameGithub, ghVars
    <3> QED BY <1>1, <1>2, <2>3, <2>4, <2>5, <2>6, <3>2, <3>3
            DEF Atomic!Move, Atomic!CloseOnGithub, Atomic!OnGithub, Atomic!Find
  <2>7. CASE ~closes
    <3>1. /\ Settled'.tracked = Settled.tracked \cup {n}
          /\ Settled'.closedAt = Atomic!FoundClosedAt(n)
          /\ Settled'.drifted = Atomic!FoundDrift(n)
          /\ Settled'.ghState = Settled.ghState /\ Settled'.closings = Settled.closings
      BY <2>1, <2>2, <2>3, <2>7
         DEF FoundRow, SameRows, SameIssue, SameGithub, ghVars, statVars
    <3> QED BY <1>1, <1>2, <2>3, <2>4, <2>5, <2>7, <3>1
            DEF Atomic!Move, Atomic!OnGithub, Atomic!Find
  <2> QED BY <2>6, <2>7
<1> QED BY <1>1, <1>7, <1>8, <1>9, <1>10, <1>11, <1>12, <1>14, <1>15, <1>16,
           <1>18, <1>19, <1>20, <1>21 DEF At

\* The largest number, what GitHub lists and what the job looks at are the same
\* everywhere.
LEMMA LastNumberIsLastNumber == \A S : Atomic!LastNumber(S) = LastNumber(S)
BY Zenon DEF Atomic!LastNumber, LastNumber, Atomic!Max, Max

LEMMA SettledListed ==
    ASSUME SameGithub
    PROVE  /\ Atomic!Listed = Listed /\ Atomic!Synced = Synced
           /\ \A n : Atomic!GhClosedAt(n) = GhClosedAt(n)
BY DEF SameGithub, Atomic!Listed, Listed, Atomic!Synced, Synced, Atomic!OnGithub,
       OnGithub, Atomic!GhClosedAt, GhClosedAt

\* Graphs::IssueStatsWorker.
LEMMA SyncStatsStep ==
    ASSUME RequestInv, NEW p \in Procs, NEW r, NEW s, Works(p, r, s),
           r.kind = "sync_stats", SyncStatsTells(r)
    PROVE  /\ s # Idle => SyncStatsTells(s)'
           /\ s = Idle => Atomic!SyncStats
<1>1. /\ r.at \in {"fetch", "insert_rows", "update_rows"}
      /\ TypeOK /\ r = req[p] /\ s = req'[p] /\ Continue(p) /\ r \in Requests
      /\ req \in [Procs -> Requests]
  BY ByKind DEF Works, RequestInv
<1>2. /\ SameGithub /\ SameCards /\ SameOrder
      /\ Settled.statsJob /\ ~statsJob
      /\ r.at # "fetch" => Fetched(r, Synced)
  BY DEF SyncStatsTells
<1>3. /\ Synced \subseteq Numbers /\ tracked \subseteq Numbers
      /\ closedAt \in [Numbers -> Nat]
      /\ \A n \in Numbers : GhClosedAt(n) \in Nat
  BY <1>1 DEF TypeOK, Synced, Listed, GhClosedAt
<1>4. ASSUME UNCHANGED <<ghVars, column, archived, ready, opened, order, statsJob>>,
             Settled' = Settled
      PROVE  /\ SameGithub' /\ SameCards' /\ SameOrder'
             /\ Settled'.statsJob /\ ~statsJob' /\ Synced' = Synced
             /\ \A n : GhClosedAt(n)' = GhClosedAt(n)
  <2>1. SameGithub' /\ SameCards' /\ SameOrder' /\ Settled'.statsJob /\ ~statsJob'
    BY <1>2, <1>4 DEF SameGithub, SameCards, SameOrder, ghVars
  <2>2. Synced' = Synced /\ \A n : GhClosedAt(n)' = GhClosedAt(n)
    BY <1>4 DEF ghVars, Synced, Listed, OnGithub, GhClosedAt
  <2> QED BY <2>1, <2>2
<1>5. CASE At(p, "fetch")
  <2>1. /\ req' = [req EXCEPT
               ![p].at = "insert_rows",
               ![p].seen = [n \in Numbers |-> IF n \in Synced THEN GhClosedAt(n)
                                                              ELSE -1]]
        /\ UNCHANGED vars
    BY <1>1, <1>5, ByLabel DEF Fetch
  <2>2. s = [r EXCEPT !.at = "insert_rows",
                      !.seen = [n \in Numbers |-> IF n \in Synced THEN GhClosedAt(n)
                                                                  ELSE -1]]
    BY <1>1, <2>1
  <2>3. s.at = "insert_rows" /\ Fetched(s, Synced)
    BY <1>1, <2>2 DEF Requests, Fetched
  <2>4. s # Idle /\ Settled' = Settled
    BY <2>3, NotIdle DEF Works, Settling
  <2>5. SameRows /\ SameRows'
    BY <1>1, <1>5, <2>1, <2>4 DEF SyncStatsTells, At, SameRows, vars, statVars
  <2>6. /\ SameGithub' /\ SameCards' /\ SameOrder'
        /\ Settled'.statsJob /\ ~statsJob' /\ Synced' = Synced
        /\ \A n : GhClosedAt(n)' = GhClosedAt(n)
    BY <1>4, <2>1, <2>4 DEF vars, statVars
  <2>7. Fetched(s, Synced)'
    BY <2>3, <2>6 DEF Fetched
  <2> QED BY <2>3, <2>4, <2>5, <2>6, <2>7 DEF SyncStatsTells
<1>6. CASE At(p, "insert_rows")
  <2>1. SameRows /\ Fetched(r, Synced)
    BY <1>1, <1>2, <1>6 DEF SyncStatsTells, At
  <2>2. {n \in Numbers : r.seen[n] # -1} = Synced
    BY <1>3, <2>1 DEF Fetched
  <2>2a. \A n \in Missing : n \in Numbers /\ r.seen[n] = GhClosedAt(n)
    BY <1>3, <2>1 DEF Fetched, Missing
  <2>3. /\ tracked' = tracked \cup Missing
        /\ closedAt' = SeenIn(Missing, r)
        /\ drifted' = DriftAfter(Missing, r)
        /\ req' = [req EXCEPT ![p].at = "update_rows", ![p].todo = Synced \ Missing]
        /\ UNCHANGED <<ghVars, column, archived, ready, opened, order, statsJob>>
    <3>1. Missing = {n \in {m \in Numbers : r.seen[m] # -1} : n > LastNumber(tracked)}
      BY <2>1, <2>2 DEF SameRows, Missing
    <3> QED BY <1>1, <1>6, <2>2, <3>1, ByLabel DEF InsertRows
  <2>4. s = [r EXCEPT !.at = "update_rows", !.todo = Synced \ Missing]
    BY <1>1, <2>3
  <2>5. s.at = "update_rows" /\ s.todo = Synced \ Missing /\ s.seen = r.seen
    BY <1>1, <2>4 DEF Requests
  <2>6. s # Idle /\ Settled' = Settled
    BY <2>5, NotIdle DEF Works, Settling
  <2>7. /\ SameGithub' /\ SameCards' /\ SameOrder'
        /\ Settled'.statsJob /\ ~statsJob' /\ Synced' = Synced
        /\ \A n : GhClosedAt(n)' = GhClosedAt(n)
    BY <1>4, <2>3, <2>6
  <2>8. Fetched(s, Synced)'
    BY <2>1, <2>5, <2>7 DEF Fetched
  <2>9. Missing' = Missing
    BY <2>6, <2>7 DEF LastNumber, Missing
  <2>10. /\ tracked' = Settled'.tracked \cup Missing'
         /\ drifted' = Settled'.drifted \ Missing'
         /\ s.todo = Synced' \ Missing'
    BY <2>1, <2>2a, <2>3, <2>5, <2>6, <2>7, <2>9 DEF SameRows, DriftAfter
  <2>11. \A n \in Numbers : closedAt'[n] = IF n \in Missing' THEN GhClosedAt(n)'
                                           ELSE Settled'.closedAt[n]
    BY <1>3, <2>1, <2>2a, <2>3, <2>6, <2>7, <2>9 DEF SameRows, SeenIn
  <2> QED BY <2>5, <2>6, <2>7, <2>8, <2>9, <2>10, <2>11 DEF SyncStatsTells
<1>7. CASE At(p, "update_rows")
  <2> DEFINE updated == Missing \cup (Synced \cap Settled.tracked)
  <2>1. /\ Fetched(r, Synced) /\ tracked = Settled.tracked \cup Missing
        /\ \A n \in Numbers : closedAt[n] = IF n \in Missing THEN GhClosedAt(n)
                                            ELSE Settled.closedAt[n]
        /\ drifted = Settled.drifted \ Missing
        /\ r.todo = Synced \ Missing
    BY <1>1, <1>2, <1>7 DEF SyncStatsTells, At
  <2>2. /\ closedAt' = SeenIn(r.todo \cap tracked, r)
        /\ drifted' = DriftAfter(r.todo \cap tracked, r)
        /\ Done(p)
        /\ UNCHANGED <<ghVars, tracked, column, archived, ready, opened, order,
                       statsJob>>
    BY <1>1, <1>7, ByLabel DEF UpdateRows
  <2>3. \A n \in Synced : r.seen[n] = GhClosedAt(n)
    BY <1>3, <2>1 DEF Fetched
  <2>4. /\ Missing = {n \in Atomic!Synced : n > Atomic!LastNumber(Settled.tracked)}
        /\ Atomic!Synced = Synced
        /\ \A n : Atomic!GhClosedAt(n) = GhClosedAt(n)
    BY <1>2, SettledListed, LastNumberIsLastNumber DEF Missing
  <2>5. closedAt' = [n \in Numbers |-> IF n \in updated THEN GhClosedAt(n)
                                       ELSE Settled.closedAt[n]]
    BY <2>1, <2>2, <2>3 DEF SeenIn
  <2>6. drifted' = Settled.drifted \ updated
    BY <2>1, <2>2, <2>3 DEF DriftAfter
  <2>7. /\ SameGithub' /\ SameRows' /\ SameCards' /\ SameOrder' /\ SameJob'
        /\ s = Idle
    BY <2>2, Ends
  <2>8. statsJob' = FALSE
    BY <1>1, <1>2, <2>2 DEF TypeOK
  <2>9. Atomic!SyncStats
    BY <1>2, <2>1, <2>2, <2>4, <2>5, <2>6, <2>7, <2>8
       DEF Atomic!SyncStats, SameGithub, SameRows, SameCards, SameOrder, SameJob,
           ghVars, Atomic!ghVars
  <2> QED BY <2>7, <2>9
<1> QED BY <1>1, <1>5, <1>6, <1>7 DEF At

\* Boards::Synchronizer.
LEMMA SynchronizeStep ==
    ASSUME RequestInv, GithubRows, NEW p \in Procs, NEW r, NEW s, Works(p, r, s),
           r.kind = "synchronize", SynchronizeTells(r)
    PROVE  /\ s # Idle => SynchronizeTells(s)'
           /\ s = Idle => Atomic!Synchronize
<1>1. /\ r.at \in {"fetch", "query", "next", "finish", "shelve", "sweep"}
      /\ TypeOK /\ r = req[p] /\ s = req'[p] /\ Continue(p) /\ r \in Requests
      /\ req \in [Procs -> Requests]
  BY ByKind DEF Works, RequestInv
<1>2. /\ SameGithub /\ SameRows /\ SameOrder /\ SameJob
      /\ column = Settled.column /\ ready = Settled.ready
  BY DEF SynchronizeTells
<1>3. /\ tracked \subseteq Numbers /\ Listed \subseteq Numbers
      /\ opened \in [Numbers -> Seq(Columns)]
      /\ \A n \in Numbers : GhClosedAt(n) \in Nat
  BY <1>1 DEF TypeOK, Listed, GhClosedAt
<1>4. ASSUME UNCHANGED <<ghVars, tracked, column, ready, closedAt, order, statsJob,
                         drifted>>,
             Settled' = Settled
      PROVE  /\ SameGithub' /\ SameRows' /\ SameOrder' /\ SameJob'
             /\ column' = Settled'.column /\ ready' = Settled'.ready
             /\ Listed' = Listed /\ Gone' = Gone
             /\ \A n : GhClosedAt(n)' = GhClosedAt(n)
  <2>1. /\ SameGithub' /\ SameRows' /\ SameOrder' /\ SameJob'
        /\ column' = Settled'.column /\ ready' = Settled'.ready
    BY <1>2, <1>4 DEF SameGithub, SameRows, SameOrder, SameJob, ghVars
  <2>2. Listed' = Listed /\ \A n : GhClosedAt(n)' = GhClosedAt(n)
    BY <1>4 DEF ghVars, Listed, OnGithub, GhClosedAt
  <2> QED BY <1>4, <2>1, <2>2 DEF Gone
<1>5. \A n \in Gone : n \in Numbers /\ ghState[n] = "closed"
  BY <1>2, <1>3 DEF Gone, SameRows, GithubRows, Listed
<1>6. CASE At(p, "fetch")
  <2>1. /\ req' = [req EXCEPT
               ![p].at = "query",
               ![p].seen = [n \in Numbers |-> IF n \in Listed THEN GhClosedAt(n)
                                                              ELSE -1]]
        /\ UNCHANGED vars
    BY <1>1, <1>6, ByLabel DEF Fetch
  <2>2. s = [r EXCEPT !.at = "query",
                      !.seen = [n \in Numbers |-> IF n \in Listed THEN GhClosedAt(n)
                                                                  ELSE -1]]
    BY <1>1, <2>1
  <2>3. s.at = "query" /\ Fetched(s, Listed)
    BY <1>1, <2>2 DEF Requests, Fetched
  <2>4. s # Idle /\ Settled' = Settled
    BY <2>3, NotIdle DEF Works, Settling
  <2>5. SameCards'
    BY <1>1, <1>6, <2>1, <2>4 DEF SynchronizeTells, At, SameCards, vars, statVars
  <2>6. /\ SameGithub' /\ SameRows' /\ SameOrder' /\ SameJob'
        /\ column' = Settled'.column /\ ready' = Settled'.ready
        /\ Listed' = Listed
        /\ \A n : GhClosedAt(n)' = GhClosedAt(n)
    BY <1>4, <2>1, <2>4 DEF vars, statVars
  <2>7. Fetched(s, Listed)'
    BY <2>3, <2>6 DEF Fetched
  <2> QED BY <2>3, <2>4, <2>5, <2>6, <2>7 DEF SynchronizeTells
<1>7. CASE At(p, "query")
  <2>1. SameCards /\ Fetched(r, Listed)
    BY <1>1, <1>7 DEF SynchronizeTells, At
  <2>2. {n \in tracked \ archived : r.seen[n] = -1} = Gone
    BY <1>2, <1>3, <2>1 DEF Fetched, Gone, SameRows, SameCards
  <2>3. /\ req' = [req EXCEPT ![p].at = "next", ![p].todo = Gone]
        /\ UNCHANGED vars
    BY <1>1, <1>7, <2>2, ByLabel DEF Query
  <2>4. s = [r EXCEPT !.at = "next", !.todo = Gone]
    BY <1>1, <2>3
  <2>5. s.at = "next" /\ s.todo = Gone
    BY <1>1, <2>4 DEF Requests
  <2>6. s # Idle /\ Settled' = Settled
    BY <2>5, NotIdle DEF Works, Settling
  <2>7. /\ SameGithub' /\ SameRows' /\ SameOrder' /\ SameJob'
        /\ column' = Settled'.column /\ ready' = Settled'.ready
        /\ Gone' = Gone
    BY <1>4, <2>3, <2>6 DEF vars, statVars
  <2>8. Put(s)' = {} /\ Cut(s)' = {}
    BY <2>5, <2>7 DEF Put, Cut
  <2>9. archived' = Settled'.archived /\ opened' = Settled'.opened
    BY <2>1, <2>3, <2>6 DEF SameCards, vars, statVars
  <2> QED BY <2>5, <2>6, <2>7, <2>8, <2>9 DEF SynchronizeTells
<1>8. ASSUME At(p, "next") \/ At(p, "finish") \/ At(p, "shelve") \/ At(p, "sweep")
      PROVE  /\ r.todo \subseteq Gone
             /\ archived = Settled.archived \cup Put(r)
             /\ \A n \in Numbers : opened[n] = IF n \in Cut(r) THEN <<>>
                                               ELSE Settled.opened[n]
             /\ At(p, "finish") \/ At(p, "shelve") => r.n \in Gone \ r.todo
             /\ At(p, "sweep") => r.todo = {}
  BY <1>1, <1>8 DEF SynchronizeTells, At
<1>9. CASE At(p, "next")
  <2>1. CASE r.todo = {}
    <3>1. Goto(p, "sweep") /\ UNCHANGED vars
      BY <1>1, <1>9, <2>1, ByLabel DEF NextGone
    <3>2. s.at = "sweep" /\ s.todo = r.todo /\ s # Idle /\ Settled' = Settled
      BY <3>1, GoesTo
    <3>3. /\ SameGithub' /\ SameRows' /\ SameOrder' /\ SameJob'
          /\ column' = Settled'.column /\ ready' = Settled'.ready
          /\ Gone' = Gone
      BY <1>4, <3>1, <3>2 DEF vars, statVars
    <3>4. Put(s)' = Put(r) /\ Cut(s)' = Cut(r)
      BY <1>1, <1>9, <3>2, <3>3 DEF Put, Cut, At
    <3> QED BY <1>8, <1>9, <2>1, <3>1, <3>2, <3>3, <3>4
            DEF SynchronizeTells, vars, statVars
  <2>2. CASE r.todo # {}
    <3>1. PICK n \in r.todo :
              /\ req' = [req EXCEPT ![p] =
                     [r EXCEPT !.todo = r.todo \ {n}, !.n = n,
                               !.at = IF ghState[n] = "closed" THEN "finish"
                                                               ELSE "next"]]
              /\ UNCHANGED vars
      BY <1>1, <1>9, <2>2, ByLabel DEF NextGone
    <3>2. n \in Gone /\ ghState[n] = "closed"
      BY <1>5, <1>8, <1>9, <3>1
    <3>3. s = [r EXCEPT !.todo = r.todo \ {n}, !.n = n, !.at = "finish"]
      BY <1>1, <3>1, <3>2
    <3>4. s.at = "finish" /\ s.n = n /\ s.todo = r.todo \ {n}
      BY <1>1, <3>3 DEF Requests
    <3>5. s # Idle /\ Settled' = Settled
      BY <3>4, NotIdle DEF Works, Settling
    <3>6. /\ SameGithub' /\ SameRows' /\ SameOrder' /\ SameJob'
          /\ column' = Settled'.column /\ ready' = Settled'.ready
          /\ Gone' = Gone
      BY <1>4, <3>1, <3>5 DEF vars, statVars
    <3>7. Put(s)' = Put(r) /\ Cut(s)' = Cut(r)
      BY <1>1, <1>9, <3>1, <3>4, <3>6 DEF Put, Cut, At
    <3>8. s.n \in Gone' \ s.todo /\ s.todo \subseteq Gone'
      BY <1>8, <1>9, <3>2, <3>4, <3>6
    <3> QED BY <1>8, <1>9, <3>1, <3>4, <3>5, <3>6, <3>7, <3>8
            DEF SynchronizeTells, vars, statVars
  <2> QED BY <2>1, <2>2
<1>10. CASE At(p, "finish")
  <2>1. /\ Goto(p, "shelve") /\ opened' = [opened EXCEPT ![r.n] = <<>>]
        /\ UNCHANGED <<ghVars, statVars, order, statsJob, drifted>>
    BY <1>1, <1>10, ByLabel DEF Finish, Finished
  <2>2. /\ s.at = "shelve" /\ s.n = r.n /\ s.todo = r.todo /\ s # Idle
        /\ Settled' = Settled
    BY <2>1, GoesTo
  <2>3. /\ SameGithub' /\ SameRows' /\ SameOrder' /\ SameJob'
        /\ column' = Settled'.column /\ ready' = Settled'.ready
        /\ Gone' = Gone
    BY <1>4, <2>1, <2>2 DEF statVars
  <2>4. r.n \in Gone \ r.todo /\ r.n \in Numbers
    BY <1>5, <1>8, <1>10
  <2>5. Put(s)' = Put(r) /\ Cut(s)' = Cut(r) \cup {r.n}
    BY <1>1, <1>10, <2>2, <2>3, <2>4 DEF Put, Cut, At
  <2>6. \A n \in Numbers : opened'[n] = IF n \in Cut(s)' THEN <<>>
                                        ELSE Settled'.opened[n]
    BY <1>3, <1>8, <1>10, <2>1, <2>2, <2>4, <2>5
  <2>7. archived' = Settled'.archived \cup Put(s)' /\ s.todo \subseteq Gone'
    BY <1>8, <1>10, <2>1, <2>2, <2>3, <2>5 DEF statVars
  <2> QED BY <2>2, <2>3, <2>4, <2>6, <2>7 DEF SynchronizeTells
<1>11. CASE At(p, "shelve")
  <2>1. /\ Goto(p, "next") /\ archived' = archived \cup {r.n}
        /\ UNCHANGED <<ghVars, tracked, column, ready, closedAt, opened, order,
                       statsJob, drifted>>
    BY <1>1, <1>11, ByLabel DEF Shelve
  <2>2. /\ s.at = "next" /\ s.todo = r.todo /\ s # Idle /\ Settled' = Settled
    BY <2>1, GoesTo
  <2>3. /\ SameGithub' /\ SameRows' /\ SameOrder' /\ SameJob'
        /\ column' = Settled'.column /\ ready' = Settled'.ready
        /\ Gone' = Gone
    BY <1>4, <2>1, <2>2
  <2>4. r.n \in Gone \ r.todo
    BY <1>8, <1>11
  <2>5. Put(s)' = Put(r) \cup {r.n} /\ Cut(s)' = Cut(r)
    BY <1>1, <1>11, <2>2, <2>3, <2>4 DEF Put, Cut, At
  <2>6. \A n \in Numbers : opened'[n] = IF n \in Cut(s)' THEN <<>>
                                        ELSE Settled'.opened[n]
    BY <1>8, <1>11, <2>1, <2>2, <2>5
  <2>7. archived' = Settled'.archived \cup Put(s)' /\ s.todo \subseteq Gone'
    BY <1>8, <1>11, <2>1, <2>2, <2>3, <2>5
  <2> QED BY <2>2, <2>3, <2>6, <2>7 DEF SynchronizeTells
<1>12. CASE At(p, "sweep")
  <2>1. /\ Done(p) /\ column' = Swept(archived)
        /\ UNCHANGED <<ghVars, tracked, archived, ready, closedAt, opened, order,
                       statsJob, drifted>>
    BY <1>1, <1>12, ByLabel DEF Sweep
  <2>2. Put(r) = Gone /\ Cut(r) = Gone
    BY <1>1, <1>8, <1>12 DEF Put, Cut, At
  <2>3. archived' = Settled.archived \cup Gone
    BY <1>8, <1>12, <2>1, <2>2
  <2>4. opened' = [n \in Numbers |-> IF n \in Gone THEN <<>> ELSE Settled.opened[n]]
    BY <1>3, <1>8, <1>12, <2>1, <2>2
  <2>5. column' = Atomic!Swept(archived')
    BY <1>2, <2>1 DEF Swept, Atomic!Swept
  <2>6. (Settled.tracked \ Settled.archived) \ Atomic!Listed = Gone
    BY <1>2, SettledListed DEF Gone
  <2>7. /\ SameGithub' /\ SameRows' /\ SameCards' /\ SameOrder' /\ SameJob'
        /\ s = Idle
    BY <2>1, Ends
  <2>8. Atomic!Synchronize
    BY <1>2, <2>1, <2>3, <2>4, <2>5, <2>6, <2>7
       DEF Atomic!Synchronize, SameGithub, SameRows, SameCards, SameOrder, SameJob,
           ghVars, Atomic!ghVars
  <2> QED BY <2>7, <2>8
<1> QED BY <1>1, <1>6, <1>7, <1>9, <1>10, <1>11, <1>12 DEF At

-----------------------------------------------------------------------------
(***************************************************************************)
(* Rows and lifetimes of issues that exist.                                *)
(***************************************************************************)

\* A request that comes to work on an issue works on one that GitHub has.
LEMMA NumbersGiven ==
    ASSUME RequestInv, GithubRows, NEW p \in Procs, Continue(p),
           NEW r, r = req[p], NEW s, s = req'[p],
           \A n \in Numbers : OnGithub(n) => OnGithub(n)'
    PROVE  s.at \notin Numberless => OnGithub(s.n)'
<1>1. /\ r \in Requests /\ LabelTells(r) /\ NumberTells(r) /\ RowTells(r, tracked)
      /\ r.at \notin Numberless => OnGithub(r.n)
      /\ req \in [Procs -> Requests] /\ Idle.at = "idle"
      /\ ghState \in [Numbers -> {"absent", "open", "closed"}]
  BY DEF RequestInv, ReqTypeOK, TypeOK, GithubRows, Idle
<1>2. s = Idle \/ s.n = r.n \/ At(p, "create") \/ At(p, "next")
  BY ContinueFrame
<1>3. CASE At(p, "create")
  <2>1. PICK n \in Numbers \ Old :
            /\ ghState' = [ghState EXCEPT ![n] = "open"]
            /\ req' = [req EXCEPT ![p].at = "insert", ![p].n = n]
    BY <1>3, ByLabel DEF CreateIssue
  <2>2. s = [r EXCEPT !.at = "insert", !.n = n]
    BY <1>1, <2>1
  <2>3. s.n = n
    BY <1>1, <2>2 DEF Requests
  <2> QED BY <1>1, <2>1, <2>3 DEF OnGithub
<1>4. CASE At(p, "next")
  <2>1. CASE r.todo = {}
    <3>1. req' = [req EXCEPT ![p].at = "sweep"]
      BY <1>4, <2>1, ByLabel DEF NextGone, Goto
    <3>2. s = [r EXCEPT !.at = "sweep"]
      BY <1>1, <3>1
    <3>3. s.at = "sweep"
      BY <1>1, <3>2 DEF Requests
    <3> QED BY <3>3 DEF Numberless
  <2>2. CASE r.todo # {}
    <3>1. PICK n \in r.todo :
              req' = [req EXCEPT ![p] =
                  [r EXCEPT !.todo = r.todo \ {n}, !.n = n,
                            !.at = IF ghState[n] = "closed" THEN "finish"
                                                            ELSE "next"]]
      BY <1>4, <2>2, ByLabel DEF NextGone
    <3>2. s = [r EXCEPT !.todo = r.todo \ {n}, !.n = n,
                        !.at = IF ghState[n] = "closed" THEN "finish" ELSE "next"]
      BY <1>1, <3>1
    <3>3. s.n = n
      BY <1>1, <3>2 DEF Requests
    <3>4. n \in tracked /\ n \in Numbers
      BY <1>1, <1>4, <3>1 DEF LabelTells, RowTells, At, Requests
    <3> QED BY <3>3, <3>4 DEF GithubRows
  <2> QED BY <2>1, <2>2
<1>5. ASSUME r.at \in {"fetch", "insert_rows", "query", "update_rows", "sweep"}
      PROVE  s.at \in Numberless
  <2>1. CASE r.at = "fetch"
    <3> DEFINE l    == IF r.kind = "sync_stats" THEN "insert_rows" ELSE "query"
               seen == [n \in Numbers |->
                            IF n \in IF r.kind = "sync_stats" THEN Synced ELSE Listed
                            THEN GhClosedAt(n) ELSE -1]
    <3>1. req' = [req EXCEPT ![p].at = l, ![p].seen = seen]
      BY <1>1, <2>1, ByLabel DEF At, Fetch
    <3>2. l \in Numberless
      BY DEF Numberless
    <3> HIDE DEF l, seen
    <3>3. s = [r EXCEPT !.at = l, !.seen = seen]
      BY <1>1, <3>1
    <3>4. s.at = l
      BY <1>1, <3>3 DEF Requests
    <3> QED BY <3>2, <3>4
  <2>2. CASE r.at = "insert_rows"
    <3>1. InsertRows(p)
      BY <2>2, ByLabel DEF At
    <3>2. PICK todo : req' = [req EXCEPT ![p].at = "update_rows", ![p].todo = todo]
      BY <3>1 DEF InsertRows
    <3>3. s = [r EXCEPT !.at = "update_rows", !.todo = todo]
      BY <1>1, <3>2
    <3>4. s.at = "update_rows"
      BY <1>1, <3>3 DEF Requests
    <3> QED BY <3>4 DEF Numberless
  <2>3. CASE r.at = "query"
    <3>1. Query(p)
      BY <2>3, ByLabel DEF At
    <3>2. PICK todo : req' = [req EXCEPT ![p].at = "next", ![p].todo = todo]
      BY <3>1 DEF Query
    <3>3. s = [r EXCEPT !.at = "next", !.todo = todo]
      BY <1>1, <3>2
    <3>4. s.at = "next"
      BY <1>1, <3>3 DEF Requests
    <3> QED BY <3>4 DEF Numberless
  <2>4. CASE r.at \in {"update_rows", "sweep"}
    <3>1. Done(p)
      BY <2>4, ByLabel DEF At, UpdateRows, Sweep
    <3>2. s = Idle
      BY <1>1, <3>1 DEF Done
    <3> QED BY <1>1, <3>2 DEF Numberless
  <2> QED BY <1>5, <2>1, <2>2, <2>3, <2>4
<1>6. r.at # "idle"
  BY ByLabel, Zenon
     DEF Continue, FindCard, Look, Finish, Start, UnreadyCard, Place,
         NeedAssignee, Ask, Patch, AskState, CloseIssue, ReopenIssue, Stamp,
         Enqueue, Sort, Check, Stat, Shelve, Restore, Toggle, CreateIssue, Insert,
         Fetch, InsertRows, UpdateRows, Query, NextGone, Sweep, At
<1>7. CASE r.at \notin Numberless /\ s.n = r.n
  <2>1. r.n \in Numbers
    BY <1>1, <1>7 DEF NumberTells
  <2> QED BY <1>1, <1>7, <2>1
<1> QED BY <1>1, <1>2, <1>3, <1>4, <1>5, <1>6, <1>7 DEF Numberless, At

\* What a statement writes is about issues that GitHub has.
LEMMA GithubRowsContinue ==
    ASSUME RequestInv, GithubRows, NEW p \in Procs, Progress(req[p]), Continue(p)
    PROVE  GithubRows'
<1> DEFINE r == req[p]
<1>0. /\ TypeOK /\ r \in Requests
      /\ LabelTells(r) /\ NumberTells(r)
      /\ r.at \notin Numberless => OnGithub(r.n) /\ r.n \in Numbers
  BY DEF RequestInv, ReqTypeOK, GithubRows, NumberTells
<1>1. /\ ghState \in [Numbers -> {"absent", "open", "closed"}]
      /\ opened \in [Numbers -> Seq(Columns)] /\ aged \subseteq Numbers
      /\ tracked \subseteq Numbers
  BY <1>0 DEF TypeOK
<1>2. ReqNext
  BY DEF ReqNext
<1>3. \A n \in Numbers : OnGithub(n) => OnGithub(n)'
  BY <1>2, GithubKeeps
<1>4. \A q \in Procs : req'[q].at \notin Numberless => ghState'[req'[q].n] # "absent"
  <2>1. req'[p].at \notin Numberless => ghState'[req'[p].n] # "absent"
    <3>1. PICK s : s = req'[p]
      OBVIOUS
    <3>2. s.at \notin Numberless => ghState'[s.n] # "absent"
      BY <1>3, <3>1, NumbersGiven DEF OnGithub
    <3> QED BY <3>1, <3>2
  <2>2. ASSUME NEW q \in Procs \ {p}, req'[q].at \notin Numberless
        PROVE  ghState'[req'[q].n] # "absent"
    <3>1. req'[q] = req[q]
      BY ContinueFrame
    <3>2. req[q].n \in Numbers /\ OnGithub(req[q].n)
      BY <2>2, <3>1 DEF RequestInv, NumberTells, GithubRows
    <3> QED BY <1>3, <3>1, <3>2 DEF OnGithub
  <2> QED BY <2>1, <2>2
<1> DEFINE Rows  == \A n \in tracked' : n \in tracked \/ OnGithub(n)
           Opens == \A n \in Numbers : opened'[n] # <<>> => opened[n] # <<>> \/ OnGithub(n)
           Ages  == \A n \in aged' : ghState'[n] = "closed"
<1> SUFFICES Rows /\ Opens /\ Ages
  <2>1. ASSUME Rows, Opens, Ages
        PROVE  /\ \A n \in tracked' : OnGithub(n)'
               /\ \A n \in Numbers : opened'[n] # <<>> => OnGithub(n)'
               /\ \A n \in aged' : ghState'[n] = "closed"
    <3>1. tracked' \subseteq Numbers
      BY TypeContinue DEF RequestInv, ReqTypeOK, TypeOK
    <3> QED BY <1>3, <2>1, <3>1 DEF GithubRows
  <2> QED BY <1>4, <2>1 DEF GithubRows, OnGithub
<1>5. /\ UNCHANGED tracked => Rows
      /\ UNCHANGED opened => Opens
      /\ UNCHANGED <<ghState, aged>> => Ages
  BY DEF GithubRows
<1>6. CASE UNCHANGED <<ghState, aged, tracked, opened>>
  BY <1>5, <1>6
<1>7. CASE NeedAssignee(p) \/ Ask(p) \/ AskState(p) \/ Check(p) \/ Query(p)
           \/ Fetch(p) \/ NextGone(p)
  <2>1. UNCHANGED vars
    BY <1>7, Zenon DEF NeedAssignee, Ask, AskState, Check, Query, Fetch, NextGone
  <2> QED BY <1>6, <2>1 DEF vars, ghVars, statVars
<1>8. CASE UnreadyCard(p) \/ Place(p) \/ Enqueue(p) \/ Sort(p) \/ Shelve(p)
           \/ Restore(p) \/ Toggle(p) \/ UpdateRows(p) \/ Sweep(p)
  BY <1>6, <1>8 DEF UnreadyCard, Place, Enqueue, Sort, Shelve, Restore, Toggle,
                    UpdateRows, Sweep, ghVars, statVars
<1>9. CASE FindCard(p) \/ Look(p) \/ Stat(p) \/ Stamp(p) \/ Insert(p)
  <2>1. /\ tracked' = tracked \cup {r.n}
        /\ UNCHANGED <<ghState, aged, opened>>
    BY <1>9 DEF FindCard, Look, Stat, Stamp, Insert, FindRow, Find, ghVars
  <2>2. r.at \in {"find", "look", "stat", "stamp", "insert"}
    BY <1>9 DEF FindCard, Look, Stat, Stamp, Insert, At
  <2> QED BY <1>0, <1>5, <2>1, <2>2 DEF Numberless
<1>10. CASE Finish(p) \/ Start(p)
  <2>1. /\ \A n \in Numbers \ {r.n} : opened'[n] = opened[n]
        /\ UNCHANGED <<ghState, aged, tracked>>
    BY <1>1, <1>10 DEF Finish, Start, Finished, ghVars, statVars
  <2>2. r.at \in {"finish", "start"}
    BY <1>10 DEF Finish, Start, At
  <2> QED BY <1>0, <1>5, <2>1, <2>2 DEF Numberless
<1>11. CASE Patch(p)
  <2>1. aged' \subseteq aged /\ UNCHANGED <<ghState, tracked, opened>>
    BY <1>11 DEF Patch, statVars
  <2> QED BY <1>5, <2>1 DEF GithubRows
<1>12. CASE CloseIssue(p) \/ ReopenIssue(p) \/ CreateIssue(p)
  <2>1. UNCHANGED <<tracked, opened>>
    BY <1>12 DEF CloseIssue, ReopenIssue, CreateIssue, statVars
  <2>2. CASE CloseIssue(p)
    BY <1>1, <1>5, <2>1, <2>2 DEF CloseIssue, CloseOnGithub, GithubRows
  <2>3. CASE ReopenIssue(p)
    BY <1>1, <1>5, <2>1, <2>3 DEF ReopenIssue, ReopenOnGithub, GithubRows
  <2>4. CASE CreateIssue(p)
    <3>1. PICK n \in Numbers \ Old :
              /\ ghState[n] = "absent" /\ ghState' = [ghState EXCEPT ![n] = "open"]
              /\ UNCHANGED aged
      BY <2>4 DEF CreateIssue
    <3> QED BY <1>1, <1>5, <2>1, <3>1 DEF GithubRows
  <2> QED BY <1>12, <2>2, <2>3, <2>4
<1>13. CASE InsertRows(p)
  <2>1. r.at = "insert_rows" /\ r.kind = "sync_stats"
    BY <1>0, <1>13 DEF InsertRows, At, LabelTells
  <2>2. Fetched(r, Synced)
    BY <2>1 DEF Progress, SyncStatsTells
  <2>3. /\ \A n \in tracked' : n \in tracked \/ (n \in Numbers /\ r.seen[n] # -1)
        /\ UNCHANGED <<ghState, aged, opened>>
    BY <1>13 DEF InsertRows, ghVars
  <2> QED BY <1>5, <2>2, <2>3 DEF Fetched, Synced, Listed
<1> QED BY <1>7, <1>8, <1>9, <1>10, <1>11, <1>12, <1>13 DEF Continue

-----------------------------------------------------------------------------
(***************************************************************************)
(* A request arrives, when nothing else is under way.                      *)
(***************************************************************************)

\* At its first statement a request has changed nothing; a job that starts has
\* left the queue.
LEMMA BeginStep ==
    ASSUME RequestInv, NEW p \in Procs, Begin(p), AllIdle, before' = Lifecycle,
           NEW s, s = req'[p]
    PROVE  /\ s # Idle /\ s.kind # "none"
           /\ Progress(s)'
           /\ s.at \notin Numberless => OnGithub(s.n)
           /\ \A q \in Procs \ {p} : req'[q] = Idle
           /\ Settled' = Settled
           /\ UNCHANGED <<ghState, aged, tracked, opened>>
<1>1. /\ req \in [Procs -> Requests] /\ Settled = Lifecycle
      /\ \A q \in Procs \ {p} : req'[q] = Idle
  BY BeginFrame DEF RequestInv, AllIdle, Settled
<1>2. ASSUME s # Idle PROVE Settled' = Settled /\ ~AllIdle'
  BY <1>1, <1>2 DEF AllIdle, Settled
<1>3. ASSUME UNCHANGED vars, s # Idle
      PROVE  /\ SameGithub' /\ SameRows' /\ SameCards' /\ SameOrder' /\ SameJob'
             /\ Settled'.ghState = ghState
  <2>1. SameGithub /\ SameRows /\ SameCards /\ SameOrder /\ SameJob
    BY <1>1, SettledFields
  <2>2. Settled' = Settled
    BY <1>2, <1>3
  <2> QED BY <1>3, <2>1, <2>2
          DEF SameGithub, SameRows, SameCards, SameOrder, SameJob, vars, ghVars,
              statVars
<1>4. ASSUME NEW n \in Numbers, NEW c \in Columns, NEW force \in Forces,
             ArriveMove(p, n, c, force)
      PROVE  /\ s # Idle /\ s.kind # "none" /\ Progress(s)' /\ OnGithub(s.n)
             /\ UNCHANGED vars
  <2>1. /\ Arrive(p, [Idle EXCEPT !.kind = "move", !.n = n, !.c = c, !.force = force])
        /\ UNCHANGED vars /\ OnGithub(n)
    BY <1>4 DEF ArriveMove
  <2>2. s = [Idle EXCEPT !.kind = "move", !.n = n, !.c = c, !.force = force,
                         !.at = "find"]
    BY <1>1, <2>1 DEF Arrive, Idle, FirstStep
  <2>3. s.kind = "move" /\ s.at = "find" /\ s.n = n /\ s.c = c /\ s.force = force
    BY <2>2 DEF Idle
  <2>4. s # Idle
    BY <2>3, NotIdle
  <2>5. MoveTells(s)'
    BY <1>3, <2>1, <2>3, <2>4 DEF MoveTells, SameCards, OnGithub
  <2> QED BY <2>1, <2>3, <2>4, <2>5 DEF Progress
<1>5. ASSUME NEW n \in Numbers, NEW kind \in Kinds, ArriveOther(p, kind, n)
      PROVE  /\ s # Idle /\ s.kind # "none" /\ Progress(s)' /\ OnGithub(s.n)
             /\ UNCHANGED vars
  <2>1. /\ Arrive(p, [Idle EXCEPT !.kind = kind, !.n = n])
        /\ UNCHANGED vars /\ OnGithub(n)
        /\ kind \in {"close", "reopen", "archive", "unarchive", "toggle_ready",
                     "assign"}
    BY <1>5, ProcsAssumption DEF ArriveOther, ProcsAssumption
  <2>2. s = [Idle EXCEPT !.kind = kind, !.n = n, !.at = FirstStep[kind]]
    BY <1>1, <2>1 DEF Arrive, Idle
  <2>3. s.kind = kind /\ s.at = FirstStep[kind] /\ s.n = n
    BY <2>2 DEF Idle
  <2>4. /\ kind = "close" => s.at = "close"
        /\ kind = "reopen" => s.at = "reopen"
        /\ kind = "archive" => s.at = "check"
        /\ kind \in {"unarchive", "toggle_ready"} => s.at = "look"
        /\ kind = "assign" => s.at = "ask"
    BY <2>1, <2>3 DEF FirstStep
  <2>5. s # Idle
    BY <2>1, <2>4, NotIdle
  <2>6. /\ SameGithub' /\ SameRows' /\ SameCards' /\ SameOrder' /\ SameJob'
        /\ Settled'.ghState[s.n] # "absent"
    BY <1>3, <2>1, <2>3, <2>5 DEF OnGithub
  <2>7. Progress(s)'
    <3>1. kind \in {"close", "reopen"} => CloseTells(s)'
      BY <2>4, <2>6 DEF CloseTells, SameGithub
    <3>2. kind = "archive" => ArchiveTells(s)'
      BY <2>4, <2>6 DEF ArchiveTells, SameCards
    <3>3. kind = "unarchive" => UnarchiveTells(s)'
      BY <2>4, <2>6 DEF UnarchiveTells, SameCards
    <3>4. kind = "toggle_ready" => ReadyTells(s)'
      BY <2>4, <2>6 DEF ReadyTells
    <3>5. kind = "assign" => AssignTells(s)'
      <4>1. CASE kind = "assign"
        <5>1. s.at = "ask"
          BY <2>4, <4>1
        <5>2. Idle.flag = FALSE /\ s.flag = FALSE
          BY <2>2 DEF Idle
        <5> QED BY <2>6, <5>1, <5>2 DEF AssignTells, SameGithub
      <4> QED BY <4>1
    <3> QED BY <2>1, <2>3, <3>1, <3>2, <3>3, <3>4, <3>5 DEF Progress
  <2> QED BY <2>1, <2>3, <2>5, <2>7
<1>6. CASE ArriveCreate(p)
  <2>1. /\ Arrive(p, [Idle EXCEPT !.kind = "create", !.force = TRUE,
                                  !.list = order[DefaultColumn]])
        /\ UNCHANGED vars
    BY <1>6 DEF ArriveCreate
  <2>2. s = [Idle EXCEPT !.kind = "create", !.force = TRUE,
                         !.list = order[DefaultColumn], !.at = "create"]
    BY <1>1, <2>1 DEF Arrive, Idle, FirstStep
  <2>3. /\ s.kind = "create" /\ s.at = "create" /\ s.c = DefaultColumn /\ s.force
        /\ s.list = order[DefaultColumn]
    BY <2>2 DEF Idle
  <2>4. s # Idle
    BY <2>3, NotIdle
  <2>5. Settled'.order = order
    BY <1>1, <1>2, <2>4 DEF Lifecycle
  <2>6. CreateTells(s)'
    BY <1>3, <2>1, <2>3, <2>4, <2>5 DEF CreateTells, SameGithub
  <2> QED BY <1>1, <1>2, <2>1, <2>3, <2>4, <2>6
          DEF Progress, Numberless, vars, ghVars, statVars
<1>7. CASE StartSyncStats(p)
  <2>1. /\ Arrive(p, [Idle EXCEPT !.kind = "sync_stats"])
        /\ statsJob /\ statsJob' = FALSE
        /\ UNCHANGED <<ghVars, statVars, opened, order, drifted>>
    BY <1>7 DEF StartSyncStats
  <2>2. s = [Idle EXCEPT !.kind = "sync_stats", !.at = "fetch"]
    BY <1>1, <2>1 DEF Arrive, Idle, FirstStep
  <2>3. s.kind = "sync_stats" /\ s.at = "fetch"
    BY <2>2 DEF Idle
  <2>4. s # Idle
    BY <2>3, NotIdle
  <2>5. /\ SameGithub' /\ SameRows' /\ SameCards' /\ SameOrder'
        /\ Settled'.statsJob
    BY <1>1, <1>2, <2>1, <2>4
       DEF Lifecycle, SameGithub, SameRows, SameCards, SameOrder, ghVars, statVars
  <2>6. SyncStatsTells(s)'
    BY <2>1, <2>3, <2>5 DEF SyncStatsTells
  <2> QED BY <1>1, <1>2, <2>1, <2>3, <2>4, <2>6
          DEF Progress, Numberless, ghVars, statVars
<1>8. CASE StartSynchronize(p)
  <2>1. /\ Arrive(p, [Idle EXCEPT !.kind = "synchronize"])
        /\ UNCHANGED vars
    BY <1>8 DEF StartSynchronize
  <2>2. s = [Idle EXCEPT !.kind = "synchronize", !.at = "fetch"]
    BY <1>1, <2>1 DEF Arrive, Idle, FirstStep
  <2>3. s.kind = "synchronize" /\ s.at = "fetch"
    BY <2>2 DEF Idle
  <2>4. s # Idle
    BY <2>3, NotIdle
  <2>5. SynchronizeTells(s)'
    BY <1>3, <2>1, <2>3, <2>4 DEF SynchronizeTells, SameCards
  <2> QED BY <1>1, <1>2, <2>1, <2>3, <2>4, <2>5
          DEF Progress, Numberless, vars, ghVars, statVars
<1>9. CASE s # Idle /\ s.kind # "none" /\ Progress(s)' /\ OnGithub(s.n) /\ UNCHANGED vars
  BY <1>1, <1>2, <1>9 DEF vars, ghVars, statVars
<1> QED BY <1>4, <1>5, <1>6, <1>7, <1>8, <1>9 DEF Begin

-----------------------------------------------------------------------------
(***************************************************************************)
(* A request goes on, or ends.                                             *)
(***************************************************************************)

\* Whatever the request is, its next statement keeps the account of what it
\* has done, and its last one makes it an action of the lifecycle.
LEMMA ContinueStep ==
    ASSUME RequestInv, GithubRows, NEW p \in Procs, NEW r, NEW s, Works(p, r, s),
           Progress(r)
    PROVE  /\ Progress(s)'
           /\ s = Idle => Atomic!Next \/ UNCHANGED Atomic!vars
<1>1. /\ r \in Requests /\ r = req[p] /\ s = req'[p] /\ Continue(p)
      /\ LabelTells(r)
      /\ s = Idle \/ (s.kind = r.kind /\ s # Idle)
      /\ Idle.kind = "none"
  BY ContinueFrame DEF RequestInv, Works, Idle
<1>2. r.at # "idle"
  BY <1>1, ByLabel, Zenon
     DEF Continue, FindCard, Look, Finish, Start, UnreadyCard, Place,
         NeedAssignee, Ask, Patch, AskState, CloseIssue, ReopenIssue, Stamp,
         Enqueue, Sort, Check, Stat, Shelve, Restore, Toggle, CreateIssue, Insert,
         Fetch, InsertRows, UpdateRows, Query, NextGone, Sweep, At
<1>3. r.kind \in {"create", "move", "close", "reopen", "archive", "unarchive",
                  "toggle_ready", "assign", "sync_stats", "synchronize"}
  <2>1. r.kind \in Kinds \cup {"none"}
    BY <1>1 DEF Requests
  <2>2. r.kind # "none"
    BY <1>1, <1>2 DEF LabelTells
  <2> QED BY <2>1, <2>2, ProcsAssumption DEF ProcsAssumption, Jobs
<1>4. s = Idle => Progress(s)'
  BY <1>1 DEF Progress
<1>5. ASSUME r.at \notin {"create", "fetch", "insert_rows", "update_rows", "query",
                          "next", "sweep"}
      PROVE  r.n \in Numbers
  BY <1>1, <1>3, <1>5, ByKind
<1>6. ASSUME r.kind \notin {"create", "sync_stats", "synchronize"}
      PROVE  r.n \in Numbers
  BY <1>1, <1>3, <1>5, <1>6, ByKind
<1>7. CASE r.kind = "move"
  <2>1. /\ s # Idle => MoveTells(s)'
        /\ s = Idle => r.c \in Columns /\ r.force \in Forces
                           /\ Atomic!Move(r.n, r.c, r.force)
    BY <1>7, MoveStep DEF Progress
  <2> QED BY <1>1, <1>4, <1>6, <1>7, <2>1
          DEF Progress, Atomic!Next, Atomic!Request
<1>8. CASE r.kind \in {"close", "reopen"}
  <2>1. /\ s # Idle => CloseTells(s)'
        /\ s = Idle => Atomic!Close(r.n) \/ Atomic!Reopen(r.n)
    BY <1>8, CloseStep DEF Progress
  <2> QED BY <1>1, <1>4, <1>6, <1>8, <2>1
          DEF Progress, Atomic!Next, Atomic!Request
<1>9. CASE r.kind = "archive"
  <2>1. /\ s # Idle => ArchiveTells(s)'
        /\ s = Idle => Atomic!Archive(r.n) \/ UNCHANGED Atomic!vars
    BY <1>9, ArchiveStep DEF Progress
  <2> QED BY <1>1, <1>4, <1>6, <1>9, <2>1
          DEF Progress, Atomic!Next, Atomic!Request
<1>10. CASE r.kind = "unarchive"
  <2>1. /\ s # Idle => UnarchiveTells(s)'
        /\ s = Idle => Atomic!Unarchive(r.n)
    BY <1>10, UnarchiveStep DEF Progress
  <2> QED BY <1>1, <1>4, <1>6, <1>10, <2>1
          DEF Progress, Atomic!Next, Atomic!Request
<1>11. CASE r.kind = "toggle_ready"
  <2>1. /\ s # Idle => ReadyTells(s)'
        /\ s = Idle => Atomic!ToggleReady(r.n)
    BY <1>11, ToggleReadyStep DEF Progress
  <2> QED BY <1>1, <1>4, <1>6, <1>11, <2>1
          DEF Progress, Atomic!Next, Atomic!Request
<1>12. CASE r.kind = "assign"
  <2>1. /\ s # Idle => AssignTells(s)'
        /\ s = Idle => Atomic!Assign(r.n)
    BY <1>12, AssignStep DEF Progress
  <2> QED BY <1>1, <1>4, <1>6, <1>12, <2>1
          DEF Progress, Atomic!Next, Atomic!Request
<1>13. CASE r.kind = "create"
  <2>1. /\ s # Idle => CreateTells(s)'
        /\ s = Idle => r.n \in Numbers /\ Atomic!Create(r.n)
    BY <1>13, CreateStep DEF Progress
  <2> QED BY <1>1, <1>4, <1>13, <2>1
          DEF Progress, Atomic!Next, Atomic!Request
<1>14. CASE r.kind = "sync_stats"
  <2>1. /\ s # Idle => SyncStatsTells(s)'
        /\ s = Idle => Atomic!SyncStats
    BY <1>14, SyncStatsStep DEF Progress
  <2> QED BY <1>1, <1>4, <1>14, <2>1 DEF Progress, Atomic!Next
<1>15. CASE r.kind = "synchronize"
  <2>1. /\ s # Idle => SynchronizeTells(s)'
        /\ s = Idle => Atomic!Synchronize
    BY <1>15, SynchronizeStep DEF Progress
  <2> QED BY <1>1, <1>4, <1>15, <2>1 DEF Progress, Atomic!Next
<1> QED BY <1>3, <1>7, <1>8, <1>9, <1>10, <1>11, <1>12, <1>13, <1>14, <1>15

-----------------------------------------------------------------------------
(***************************************************************************)
(* Single steps, between requests.                                         *)
(***************************************************************************)

\* What is one step in both is the same step.
LEMMA EnvironmentStep ==
    ASSUME Environment, Settled = Lifecycle, Settled' = Lifecycle'
    PROVE  Atomic!Next
<1>1. SameGithub /\ SameRows /\ SameCards /\ SameOrder /\ SameJob
  BY SettledFields
<1>2. SameGithub' /\ SameRows' /\ SameCards' /\ SameOrder' /\ SameJob'
  BY SettledFieldsPrimed
<1> USE DEF SameGithub, SameRows, SameCards, SameOrder, SameJob, ghVars, statVars,
            Atomic!ghVars, Atomic!statVars
<1>3. ASSUME NEW n \in Numbers, Update(n) PROVE Atomic!Next
  <2>1. Atomic!Update(n)
    BY <1>1, <1>2, <1>3 DEF Update, Atomic!Update, OnGithub, Atomic!OnGithub
  <2> QED BY <2>1 DEF Atomic!Next, Atomic!Request
<1>4. ASSUME NEW n \in Numbers, External(n) PROVE Atomic!Next
  <2>1. GithubCreate(n) => Atomic!GithubCreate(n)
    BY <1>1, <1>2 DEF GithubCreate, Atomic!GithubCreate, OnGithub, Atomic!OnGithub
  <2>2. GithubClose(n) => Atomic!GithubClose(n)
    BY <1>1, <1>2 DEF GithubClose, Atomic!GithubClose, CloseOnGithub,
                      Atomic!CloseOnGithub
  <2>3. GithubReopen(n) => Atomic!GithubReopen(n)
    BY <1>1, <1>2 DEF GithubReopen, Atomic!GithubReopen, ReopenOnGithub,
                      Atomic!ReopenOnGithub
  <2>4. GithubAge(n) => Atomic!GithubAge(n)
    BY <1>1, <1>2 DEF GithubAge, Atomic!GithubAge
  <2> QED BY <1>4, <2>1, <2>2, <2>3, <2>4
          DEF External, Atomic!External, Atomic!Next
<1>5. ASSUME NEW c \in Columns, NEW list \in BrowserLists, SortColumn(c, list)
      PROVE  Atomic!Next
  <2>1. Atomic!SortColumn(c, list)
    BY <1>1, <1>2, <1>5 DEF SortColumn, Atomic!SortColumn
  <2> QED BY <2>1 DEF Atomic!Next
<1>6. ASSUME NEW looked \in SUBSET Numbers, NEW seenOpen \in SUBSET Numbers,
             NEW earlier \in SUBSET Numbers, BoardRead(looked, seenOpen, earlier)
      PROVE  Atomic!Next
  <2>1. Atomic!LastNumber(Settled.tracked \cup earlier) = LastNumber(tracked \cup earlier)
    BY <1>1, LastNumberIsLastNumber
  <2>2. Atomic!BoardRead(looked, seenOpen, earlier)
    BY <1>1, <1>2, <1>6, <2>1
       DEF BoardRead, Atomic!BoardRead, OnGithub, Atomic!OnGithub
  <2> QED BY <2>2 DEF Atomic!Next
<1> QED BY <1>3, <1>4, <1>5, <1>6 DEF Environment

\* It concerns issues that GitHub has, and lets only closed ones grow old.
LEMMA GithubRowsEnvironment ==
    ASSUME RequestInv, GithubRows, Environment
    PROVE  GithubRows'
<1>1. ReqNext
  BY DEF ReqNext
<1>2. \A n \in Numbers : OnGithub(n) => OnGithub(n)'
  BY <1>1, GithubKeeps
<1>3. /\ ghState \in [Numbers -> {"absent", "open", "closed"}]
      /\ tracked \subseteq Numbers /\ aged \subseteq Numbers
      /\ \A p \in Procs : req[p].at \notin Numberless => req[p].n \in Numbers
  BY DEF RequestInv, ReqTypeOK, TypeOK, NumberTells
<1>4. req' = req
  BY DEF Environment, reqVars
<1>5. ASSUME NEW n \in Numbers, Update(n) \/ External(n)
      PROVE  /\ UNCHANGED <<tracked, opened>>
             /\ \A m \in aged' : ghState'[m] = "closed"
  <2>1. UNCHANGED <<tracked, opened>>
    BY <1>5 DEF Update, External, GithubCreate, GithubClose, GithubReopen,
                GithubAge, statVars
  <2>2. \A m \in aged' : ghState'[m] = "closed"
    BY <1>3, <1>5
       DEF GithubRows, Update, External, GithubCreate, GithubClose, GithubReopen,
           GithubAge, CloseOnGithub, ReopenOnGithub
  <2> QED BY <2>1, <2>2
<1>6. ASSUME NEW c, NEW list, SortColumn(c, list)
      PROVE  UNCHANGED <<tracked, opened, aged, ghState>>
  BY <1>6 DEF SortColumn, ghVars, statVars
<1>7. ASSUME NEW looked \in SUBSET Numbers, NEW seenOpen \in SUBSET Numbers,
             NEW earlier \in SUBSET Numbers, BoardRead(looked, seenOpen, earlier)
      PROVE  /\ UNCHANGED <<opened, aged, ghState>>
             /\ \A n \in tracked' : n \in tracked \/ OnGithub(n)
  BY <1>7 DEF BoardRead, ghVars
<1>8. /\ \A n \in tracked' : (n \in tracked \/ OnGithub(n)) /\ n \in Numbers
      /\ UNCHANGED opened
      /\ \A m \in aged' : ghState'[m] = "closed"
  <2>1. tracked' \subseteq Numbers
    BY TypeEnvironment DEF RequestInv, ReqTypeOK, TypeOK
  <2> QED BY <1>5, <1>6, <1>7, <2>1 DEF Environment, GithubRows
<1> QED BY <1>2, <1>3, <1>4, <1>8 DEF GithubRows

-----------------------------------------------------------------------------
(***************************************************************************)
(* The invariant, and the refinement.                                      *)
(***************************************************************************)

\* The requests of the serial program are requests.
LEMMA SerialIsRequests == SerialNext => ReqNext
BY DEF SerialNext, ReqNext

LEMMA InitSerialInv == SerialInit => SerialInv
<1> SUFFICES ASSUME SerialInit PROVE SerialInv
  OBVIOUS
<1>1. RequestInv
  BY InitRequestInv DEF SerialInit
<1>2. /\ \A p \in Procs : req[p] = Idle
      /\ Idle.kind = "none" /\ Idle.at = "idle"
  BY DEF SerialInit, ReqInit, Idle
<1>3. GithubRows
  BY <1>2 DEF SerialInit, ReqInit, Init, GithubRows, Numberless
<1>4. OneAtATime /\ \A p \in Procs : Progress(req[p])
  BY <1>2 DEF OneAtATime, Progress
<1> QED BY <1>1, <1>3, <1>4 DEF SerialInv

\* What has been done stays done, while nothing happens.
LEMMA ProgressStays ==
    ASSUME UNCHANGED serialVars, NEW r, Progress(r)
    PROVE  Progress(r)'
<1>1. UNCHANGED <<ghState, closings, aged, assigned, tracked, column, archived,
                  ready, closedAt, opened, order, statsJob, drifted, req, before>>
  BY DEF serialVars, allVars, vars, ghVars, statVars, reqVars
<1>2. Settled' = Settled
  BY <1>1 DEF Settled, AllIdle, Lifecycle
<1>3. /\ SameGithub' <=> SameGithub
      /\ SameRows' <=> SameRows
      /\ SameCards' <=> SameCards
      /\ SameOrder' <=> SameOrder
      /\ SameJob' <=> SameJob
      /\ SameIssue' <=> SameIssue
  BY <1>1, <1>2 DEF SameGithub, SameRows, SameCards, SameOrder, SameJob, SameIssue
<1>4. /\ \A n : FoundRow(n)' <=> FoundRow(n)
      /\ \A n : StampedRow(n)' <=> StampedRow(n)
      /\ \A n : NewRow(n)' <=> NewRow(n)
      /\ \A n : GhClosedAt(n)' = GhClosedAt(n)
      /\ Synced' = Synced /\ Listed' = Listed
  BY <1>1, <1>2
     DEF FoundRow, StampedRow, NewRow, GhClosedAt, Synced, Listed, OnGithub,
         Atomic!FoundClosedAt, Atomic!FoundDrift, Atomic!GhClosedAt
<1>5. /\ \A n : ClosedIssue(n)' <=> ClosedIssue(n)
      /\ \A n : ReopenedIssue(n)' <=> ReopenedIssue(n)
      /\ \A n : GivenOut(n)' <=> GivenOut(n)
  BY <1>1, <1>2 DEF ClosedIssue, ReopenedIssue, GivenOut
<1>6. /\ \A n, c : AssignedTo(n, c)' <=> AssignedTo(n, c)
      /\ \A n, c : MovedCard(n, c)' <=> MovedCard(n, c)
      /\ \A n, c : Atomic!AutoAssigned(n, c)' = Atomic!AutoAssigned(n, c)
      /\ \A n, c : Atomic!Restarted(n, c)' = Atomic!Restarted(n, c)
      /\ \A n : Atomic!Unready(n)' = Atomic!Unready(n)
  BY <1>1, <1>2
     DEF AssignedTo, MovedCard, Atomic!AutoAssigned, Atomic!AutoRelisted,
         Atomic!Restarted, Atomic!Unready
<1>7. /\ Missing' = Missing /\ Gone' = Gone
      /\ Put(r)' = Put(r) /\ Cut(r)' = Cut(r)
      /\ \A S : Fetched(r, S)' <=> Fetched(r, S)
  BY <1>2, <1>4 DEF Missing, Gone, Put, Cut, Fetched, LastNumber
<1>8. MoveTells(r) => MoveTells(r)'
  BY <1>1, <1>2, <1>3, <1>4, <1>5, <1>6 DEF MoveTells
<1>9. CloseTells(r) => CloseTells(r)'
  BY <1>1, <1>2, <1>3, <1>4, <1>5 DEF CloseTells
<1>10. ArchiveTells(r) => ArchiveTells(r)'
  BY <1>1, <1>2, <1>3, <1>4 DEF ArchiveTells
<1>11. UnarchiveTells(r) => UnarchiveTells(r)'
  BY <1>1, <1>2, <1>3, <1>4 DEF UnarchiveTells
<1>12. ReadyTells(r) => ReadyTells(r)'
  BY <1>1, <1>2, <1>3, <1>4 DEF ReadyTells
<1>13. AssignTells(r) => AssignTells(r)'
  BY <1>1, <1>2, <1>3 DEF AssignTells
<1>14. CreateTells(r) => CreateTells(r)'
  BY <1>1, <1>2, <1>3, <1>4, <1>5, <1>6 DEF CreateTells
<1>15. SyncStatsTells(r) => SyncStatsTells(r)'
  BY <1>1, <1>2, <1>3, <1>4, <1>7 DEF SyncStatsTells
<1>16. SynchronizeTells(r) => SynchronizeTells(r)'
  BY <1>1, <1>2, <1>3, <1>4, <1>7 DEF SynchronizeTells
<1> QED BY <1>8, <1>9, <1>10, <1>11, <1>12, <1>13, <1>14, <1>15, <1>16 DEF Progress

\* One step of the serial program keeps the invariant, and is an action of the
\* lifecycle or none.
LEMMA NextSerialInv ==
    ASSUME SerialInv, [SerialNext]_serialVars
    PROVE  SerialInv' /\ (Atomic!Next \/ UNCHANGED Atomic!vars)
<1>0. /\ RequestInv /\ GithubRows /\ OneAtATime /\ req \in [Procs -> Requests]
      /\ \A p \in Procs : Progress(req[p]) /\ LabelTells(req[p])
      /\ Idle.kind = "none" /\ Idle.at = "idle"
  BY DEF SerialInv, RequestInv, Idle
<1>1. RequestInv'
  <2>1. [ReqNext]_allVars
    BY SerialIsRequests DEF serialVars
  <2> QED BY <1>0, <2>1, NextRequestInv
<1>2. ASSUME Settled' = Settled PROVE UNCHANGED Atomic!vars
  BY <1>2 DEF Atomic!vars, Atomic!ghVars, Atomic!statVars
<1>3. \A s : s = Idle => Progress(s)'
  BY <1>0 DEF Progress
<1>4. ASSUME NEW p \in Procs, AllIdle, Begin(p), before' = Lifecycle
      PROVE  SerialInv' /\ UNCHANGED Atomic!vars
  <2>1. PICK s : s = req'[p]
    OBVIOUS
  <2>2. /\ s # Idle /\ s.kind # "none"
        /\ Progress(s)'
        /\ s.at \notin Numberless => OnGithub(s.n)
        /\ \A q \in Procs \ {p} : req'[q] = Idle
        /\ Settled' = Settled
        /\ UNCHANGED <<ghState, aged, tracked, opened>>
    BY <1>0, <1>4, <2>1, BeginStep
  <2>3. GithubRows'
    BY <1>0, <2>1, <2>2 DEF GithubRows, OnGithub, Numberless
  <2>4. OneAtATime'
    BY <2>2 DEF OneAtATime
  <2>5. ASSUME NEW q \in Procs PROVE Progress(req[q])'
    BY <1>3, <2>1, <2>2
  <2> QED BY <1>1, <1>2, <2>2, <2>3, <2>4, <2>5 DEF SerialInv
<1>5. ASSUME AllIdle, Environment, before' = Lifecycle
      PROVE  SerialInv' /\ Atomic!Next
  <2>1. req' = req
    BY <1>5 DEF Environment, reqVars
  <2>2. Settled = Lifecycle /\ Settled' = Lifecycle'
    BY <1>5, <2>1 DEF Settled, AllIdle
  <2>3. OneAtATime' /\ GithubRows'
    BY <1>0, <1>5, <2>1, GithubRowsEnvironment DEF OneAtATime
  <2>4. ASSUME NEW q \in Procs PROVE Progress(req[q])'
    BY <1>3, <1>5, <2>1 DEF AllIdle
  <2> QED BY <1>1, <1>5, <2>2, <2>3, <2>4, EnvironmentStep DEF SerialInv
<1>6. ASSUME NEW p \in Procs, Continue(p),
             before' = IF AllIdle THEN Lifecycle ELSE before
      PROVE  SerialInv' /\ (Atomic!Next \/ UNCHANGED Atomic!vars)
  <2>1. PICK r, s : r = req[p] /\ s = req'[p]
    OBVIOUS
  <2>2. r # Idle
    <3>1. r.at # "idle"
      BY <1>6, <2>1, Zenon
         DEF Continue, FindCard, Look, Finish, Start, UnreadyCard, Place,
             NeedAssignee, Ask, Patch, AskState, CloseIssue, ReopenIssue, Stamp,
             Enqueue, Sort, Check, Stat, Shelve, Restore, Toggle, CreateIssue,
             Insert, Fetch, InsertRows, UpdateRows, Query, NextGone, Sweep, At
    <3> QED BY <1>0, <3>1
  <2>3. /\ \A q \in Procs \ {p} : req[q] = Idle /\ req'[q] = Idle
        /\ ~AllIdle /\ before' = before /\ Settled = before
    BY <1>0, <1>6, <2>1, <2>2, ContinueFrame DEF OneAtATime, AllIdle, Settled
  <2>4. Settling(p)
    BY <2>1, <2>3 DEF Settling, AllIdle, Settled
  <2>5. Works(p, r, s)
    BY <1>6, <2>1, <2>3, <2>4 DEF Works
  <2>6. /\ Progress(s)'
        /\ s = Idle => Atomic!Next \/ UNCHANGED Atomic!vars
    BY <1>0, <2>1, <2>5, ContinueStep
  <2>7. s # Idle => UNCHANGED Atomic!vars
    BY <1>2, <2>1, <2>4 DEF Settling
  <2>8. GithubRows'
    BY <1>0, <1>6, GithubRowsContinue
  <2>9. OneAtATime'
    BY <2>3 DEF OneAtATime
  <2>10. ASSUME NEW q \in Procs PROVE Progress(req[q])'
    BY <1>3, <2>1, <2>3, <2>6
  <2> QED BY <1>1, <2>6, <2>7, <2>8, <2>9, <2>10 DEF SerialInv
<1>7. CASE UNCHANGED serialVars
  <2>1. UNCHANGED <<ghState, aged, tracked, opened, req>> /\ Settled' = Settled
    BY <1>7 DEF serialVars, allVars, vars, ghVars, statVars, reqVars, Settled,
                AllIdle, Lifecycle
  <2>2. GithubRows' /\ OneAtATime'
    BY <1>0, <2>1 DEF GithubRows, OnGithub, OneAtATime
  <2>3. ASSUME NEW q \in Procs PROVE Progress(req[q])'
    <3>1. PICK r : r = req[q]
      OBVIOUS
    <3>2. Progress(r)'
      BY <1>0, <1>7, <3>1, ProgressStays
    <3> QED BY <2>1, <3>1, <3>2
  <2> QED BY <1>1, <1>2, <2>1, <2>2, <2>3 DEF SerialInv
<1> QED BY <1>4, <1>5, <1>6, <1>7 DEF SerialNext

\* Left alone, the statements of each service object, in the order of the code
\* and with the copies it keeps, add up to the request as a whole: every
\* request and job of IssueRequests, run without rivals to its end, is one
\* action of IssueLifecycle, for any issues, columns and browsers.
THEOREM RequestsImplementLifecycle == SerialSpec => ImplementsLifecycle
<1>1. SerialInit => Atomic!Init
  <2> SUFFICES ASSUME SerialInit PROVE Atomic!Init
    OBVIOUS
  <2>1. Settled = Lifecycle
    BY DEF SerialInit, ReqInit, AllIdle, Settled
  <2> QED BY <2>1, SettledFields
          DEF SerialInit, ReqInit, Init, Atomic!Init, SameGithub, SameRows,
              SameCards, SameOrder, SameJob
<1>2. SerialInv /\ [SerialNext]_serialVars =>
          SerialInv' /\ [Atomic!Next]_(Atomic!vars)
  BY NextSerialInv
<1> QED BY <1>1, <1>2, InitSerialInv, PTL
        DEF SerialSpec, ImplementsLifecycle, Atomic!Spec
=============================================================================
