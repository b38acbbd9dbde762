----------------------------- MODULE IssueRequests -----------------------------
(***************************************************************************)
(* The requests and jobs of IssueLifecycle, statement by statement.        *)
(*                                                                         *)
(* A service object runs without a transaction and without a lock: each of *)
(* its queries, updates and GitHub calls takes effect at once, other       *)
(* Unicorn processes and Sidekiq threads run in between, and an error or a *)
(* killed worker leaves what was done so far.  What a request has read it  *)
(* keeps: column, flag, list and seen are its copies.                      *)
(*                                                                         *)
(* Board reads, saved sortings and changes on GitHub stay single steps.    *)
(***************************************************************************)
EXTENDS IssueLifecycle

CONSTANTS
    Procs,      \* Unicorn processes and Sidekiq threads
    Kinds,      \* the kinds of requests and jobs of this instance
    Threads,    \* sidekiq_concurrency: jobs that may run at the same time
    MaxCrashes  \* bound: requests and jobs that die half way

Jobs == {"sync_stats", "synchronize"}

ASSUME ProcsAssumption ==
    /\ IsFiniteSet(Procs)
    /\ Kinds \subseteq {"create", "move", "close", "reopen", "archive",
                        "unarchive", "toggle_ready", "assign"} \cup Jobs
    /\ Threads \in Nat
    /\ MaxCrashes \in Nat

VARIABLES
    req,     \* what each process works on, and what it has read
    lone,    \* history: requests no other request or job on the card overlaps
    crashes  \* history: requests and jobs that died

reqVars == <<req, lone, crashes>>
allVars == <<vars, reqVars>>

\* -1 in "seen" is an issue that GitHub did not list, or was not asked about.
Idle == [kind |-> "none", at |-> "idle", n |-> 0, c |-> DefaultColumn,
         force |-> FALSE, column |-> DefaultColumn, flag |-> FALSE,
         list |-> <<>>, seen |-> [n \in Numbers |-> -1], todo |-> {}]

At(p, label)   == req[p].at = label
Goto(p, label) == req' = [req EXCEPT ![p].at = label]
Done(p)        == req' = [req EXCEPT ![p] = Idle]

\* The history of a step that neither starts a request nor kills one.
Working == /\ lone' = {p \in lone : req'[p] # Idle}
           /\ UNCHANGED crashes

-----------------------------------------------------------------------------
(* Arrival of a request, start of a job.                                    *)

FirstStep ==
    [create |-> "create", move |-> "find", close |-> "close",
     reopen |-> "reopen", archive |-> "check", unarchive |-> "look",
     toggle_ready |-> "look", assign |-> "ask", sync_stats |-> "fetch",
     synchronize |-> "fetch"]

OnCard(r, n) == r.kind # "none" /\ (r.n = n \/ r.kind \in Jobs \cup {"create"})

\* Closings that are under way count: MaxClosings never holds up a request.
Closing(r, n) ==
    /\ r.n = n
    /\ \/ r.kind = "close"
       \/ r.kind = "move" /\ r.c \in AutoClose
HasRoom(n)    == closings[n] + Cardinality({p \in Procs : Closing(req[p], n)})
                     < MaxClosings

Arrive(p, r) ==
    LET rivals == {q \in Procs : \/ OnCard(req[q], r.n)
                                 \/ r.kind \in Jobs /\ req[q] # Idle}
    IN
    /\ req[p] = Idle
    /\ r.kind \in Kinds
    /\ req' = [req EXCEPT ![p] = [r EXCEPT !.at = FirstStep[r.kind]]]
    /\ lone' = IF rivals = {} THEN lone \cup {p} ELSE lone \ (rivals \cup {p})
    /\ UNCHANGED crashes

ArriveMove(p, n, c, force) ==
    /\ OnGithub(n)
    /\ c \in AutoClose => HasRoom(n)
    /\ Arrive(p, [Idle EXCEPT !.kind = "move", !.n = n, !.c = c, !.force = force])
    /\ UNCHANGED vars

ArriveOther(p, kind, n) ==
    /\ kind \notin Jobs \cup {"create", "move"}
    /\ OnGithub(n)
    /\ kind = "close" => HasRoom(n)
    /\ Arrive(p, [Idle EXCEPT !.kind = kind, !.n = n])
    /\ UNCHANGED vars

\* The columns of the board are loaded with it, before GitHub is called.
ArriveCreate(p) ==
    /\ Arrive(p, [Idle EXCEPT !.kind = "create", !.force = TRUE,
                              !.list = order[DefaultColumn]])
    /\ UNCHANGED vars

HasThread == Cardinality({p \in Procs : req[p].kind \in Jobs}) < Threads

\* unique: :until_executing, the lock is gone as soon as the job starts.
StartSyncStats(p) ==
    /\ statsJob
    /\ HasThread
    /\ Arrive(p, [Idle EXCEPT !.kind = "sync_stats"])
    /\ statsJob' = FALSE
    /\ UNCHANGED <<ghVars, statVars, opened, order, drifted>>

StartSynchronize(p) ==
    /\ HasThread
    /\ Arrive(p, [Idle EXCEPT !.kind = "synchronize"])
    /\ UNCHANGED vars

-----------------------------------------------------------------------------
(* Statements shared by several services.                                   *)

\* IssueStats::Finder.  For the history: an IssueStatsWorker that has fetched
\* and not yet written may write what it has seen over the row found here.
HasFetched(p) == req[p].at \in {"insert_rows", "update_rows"}

FindRow(n) ==
    /\ Find(n)
    /\ closedAt' = FoundClosedAt(n)
    /\ drifted' = IF \E p \in Procs : HasFetched(p) THEN drifted ELSE FoundDrift(n)

\* IssuesController#move_to finds the row and the column moved to, and keeps
\* the manual order the column has now.
FindCard(p) ==
    /\ At(p, "find")
    /\ FindRow(req[p].n)
    /\ req' = [req EXCEPT ![p].at = "look", ![p].list = order[req[p].c]]
    /\ Working
    /\ UNCHANGED <<ghVars, column, archived, ready, opened, order, statsJob>>

\* The service reads the row: Mover its column, Unarchiver its column and
\* whether it is archived, toggle_ready its label.
AfterLook(r) ==
    CASE r.kind = "move" /\ column[r.n] # r.c        -> "finish"
      [] r.kind = "move" /\ column[r.n] = r.c        -> "need"
      [] r.kind = "unarchive" /\ r.n \in archived    -> "start"
      [] r.kind = "unarchive" /\ r.n \notin archived -> "idle"
      [] r.kind = "toggle_ready"                     -> "toggle"

Look(p) ==
    LET r    == req[p]
        next == AfterLook(r)
    IN
    /\ At(p, "look")
    /\ FindRow(r.n)
    /\ req' = [req EXCEPT ![p] =
                   IF next = "idle" THEN Idle
                   ELSE [r EXCEPT !.at = next, !.column = column[r.n],
                                  !.flag = r.n \in ready]]
    /\ Working
    /\ UNCHANGED <<ghVars, column, archived, ready, opened, order, statsJob>>

\* Lifetimes::Finisher
FinishedLast(n) == [opened EXCEPT ![n] = IF @ = <<>> THEN @ ELSE Front(@)] \* mutant
Finished(n)     == [opened EXCEPT ![n] = <<>>]

Finish(p) ==
    LET r == req[p] IN
    /\ At(p, "finish")
    /\ opened' = Finished(r.n)
    /\ Goto(p, IF r.kind = "move" THEN "start" ELSE "shelve")
    /\ Working
    /\ UNCHANGED <<ghVars, statVars, order, statsJob, drifted>>

\* Lifetimes::Starter, in the column moved to, in the column Unarchiver read
\* before, or in the default column.
StartedInRead(r) == r.column                                      \* mutant
StartedIn(r) == IF r.kind = "unarchive" THEN r.column ELSE r.c

Start(p) ==
    LET r == req[p] IN
    /\ At(p, "start")
    /\ opened' = [opened EXCEPT ![r.n] = Append(@, StartedIn(r))]
    /\ CASE r.kind = "move"      -> Goto(p, "unready")
         [] r.kind = "unarchive" -> Goto(p, "restore")
         [] r.kind = "create"    -> Done(p)
    /\ Working
    /\ UNCHANGED <<ghVars, statVars, order, statsJob, drifted>>

\* IssueStats::Sorter, on the order read when the column was found.
Sort(p) ==
    LET r == req[p] IN
    /\ At(p, "sort")
    /\ order' = IF r.force THEN [order EXCEPT ![r.c] = PutFirst(r.list, r.n)]
                           ELSE order
    /\ IF r.kind = "move" THEN Done(p) ELSE Goto(p, "start")
    /\ Working
    /\ UNCHANGED <<ghVars, statVars, opened, statsJob, drifted>>

\* Archiver and Assigner find the row only now.
Stat(p) ==
    LET r == req[p] IN
    /\ At(p, "stat")
    /\ FindRow(r.n)
    /\ IF r.kind = "archive" THEN Goto(p, "finish") ELSE Done(p)
    /\ Working
    /\ UNCHANGED <<ghVars, column, archived, ready, opened, order, statsJob>>

-----------------------------------------------------------------------------
(* The assignee: AutoAssigner asks GitHub whether there is one, then        *)
(* GithubApi::Issues#assign asks again and writes.                          *)

AfterAssign(r) == IF r.kind = "move" THEN "state" ELSE "sort"

NeedAssignee(p) ==
    LET r == req[p] IN
    /\ At(p, "need")
    /\ Goto(p, IF r.c \in AutoAssign /\ r.n \notin assigned THEN "ask"
                                                          ELSE AfterAssign(r))
    /\ Working
    /\ UNCHANGED vars

\* flag: the assignee is the one to be assigned, so the answer is nil.
Ask(p) ==
    /\ At(p, "ask")
    /\ \E same \in BOOLEAN :
           /\ same => req[p].n \in assigned
           /\ req' = [req EXCEPT ![p].at = "patch", ![p].flag = same]
    /\ Working
    /\ UNCHANGED vars

Patch(p) ==
    LET r == req[p] IN
    /\ At(p, "patch")
    /\ assigned' = IF r.flag THEN assigned \ {r.n} ELSE assigned \cup {r.n}
    /\ aged' = aged \ {r.n}
    /\ Goto(p, IF r.kind = "assign" THEN "stat" ELSE AfterAssign(r))
    /\ Working
    /\ UNCHANGED <<ghState, closings, statVars, opened, order, statsJob, drifted>>

-----------------------------------------------------------------------------
(* Mover, Archiver, Unarchiver, Ready and Unready write the row.            *)

\* The rest of Mover#call: the label goes before the column changes.
UnreadyCard(p) ==
    /\ At(p, "unready")
    /\ ready' = Unready(req[p].n)
    /\ Goto(p, "place")
    /\ Working
    /\ UNCHANGED <<ghVars, tracked, column, archived, closedAt, opened, order,
                   statsJob, drifted>>

Place(p) ==
    /\ At(p, "place")
    /\ column' = [column EXCEPT ![req[p].n] = req[p].c]
    /\ Goto(p, "need")
    /\ Working
    /\ UNCHANGED <<ghVars, tracked, archived, ready, closedAt, opened, order,
                   statsJob, drifted>>

\* Archiver asks GitHub for the state before anything else.
Check(p) ==
    /\ At(p, "check")
    /\ IF ghState[req[p].n] = "closed" THEN Goto(p, "stat") ELSE Done(p)
    /\ Working
    /\ UNCHANGED vars

Shelve(p) ==
    LET r == req[p] IN
    /\ At(p, "shelve")
    /\ archived' = archived \cup {r.n}
    /\ IF r.kind = "archive" THEN Done(p) ELSE Goto(p, "next")
    /\ Working
    /\ UNCHANGED <<ghVars, tracked, column, ready, closedAt, opened, order,
                   statsJob, drifted>>

Restore(p) ==
    /\ At(p, "restore")
    /\ archived' = archived \ {req[p].n}
    /\ Done(p)
    /\ Working
    /\ UNCHANGED <<ghVars, tracked, column, ready, closedAt, opened, order,
                   statsJob, drifted>>

\* Ready or Unready, chosen by the label the controller has read.
Toggle(p) ==
    LET r == req[p] IN
    /\ At(p, "toggle")
    /\ ready' = IF r.flag THEN Unready(r.n) ELSE ready \cup {r.n}
    /\ Done(p)
    /\ Working
    /\ UNCHANGED <<ghVars, tracked, column, archived, closedAt, opened, order,
                   statsJob, drifted>>

-----------------------------------------------------------------------------
(* Closer and Reopener: GitHub first, then the row, then the job.           *)

\* AutoCloser
AskState(p) ==
    LET r == req[p] IN
    /\ At(p, "state")
    /\ Goto(p, IF r.c \in AutoClose /\ ghState[r.n] = "open" THEN "close"
                                                            ELSE "sort")
    /\ Working
    /\ UNCHANGED vars

CloseIssue(p) ==
    LET n == req[p].n IN
    /\ At(p, "close")
    /\ CloseOnGithub(n)
    /\ req' = [req EXCEPT ![p].at = "stamp", ![p].seen[n] = closings'[n]]
    /\ Working
    /\ UNCHANGED <<aged, assigned, statVars, opened, order, statsJob, drifted>>

ReopenIssue(p) ==
    LET n == req[p].n IN
    /\ At(p, "reopen")
    /\ ReopenOnGithub(n)
    /\ req' = [req EXCEPT ![p].at = "stamp", ![p].seen[n] = 0]
    /\ Working
    /\ UNCHANGED <<assigned, statVars, opened, order, statsJob, drifted>>

\* The row takes the closed_at of GitHub's answer, however old it is now.
Stamp(p) ==
    LET r == req[p] IN
    /\ At(p, "stamp")
    /\ Find(r.n)
    /\ closedAt' = [closedAt EXCEPT ![r.n] = r.seen[r.n]]
    /\ drifted' = IF r.seen[r.n] = GhClosedAt(r.n) THEN drifted \ {r.n}
                                                   ELSE drifted
    /\ Goto(p, IF r.kind = "move" THEN "sort" ELSE "enqueue")
    /\ Working
    /\ UNCHANGED <<ghVars, column, archived, ready, opened, order, statsJob>>

\* after_action :fetch_control_chart
CloseCharted  == {"close"}                                        \* mutant
ControlCharted == {"close", "reopen"}

Enqueue(p) ==
    /\ At(p, "enqueue")
    /\ statsJob' = (statsJob \/ req[p].kind \in ControlCharted)
    /\ Done(p)
    /\ Working
    /\ UNCHANGED <<ghVars, statVars, opened, order, drifted>>

-----------------------------------------------------------------------------
(* IssueStats::Creator.                                                     *)

CreateIssue(p) ==
    /\ At(p, "create")
    /\ \E n \in Numbers \ Old :
           /\ ghState[n] = "absent"
           /\ \A m \in Numbers : OnGithub(m) => m < n
           /\ ghState' = [ghState EXCEPT ![n] = "open"]
           /\ req' = [req EXCEPT ![p].at = "insert", ![p].n = n]
    /\ Working
    /\ UNCHANGED <<closings, aged, assigned, statVars, opened, order, statsJob,
                   drifted>>

\* issue_stats.create! raises when a board read has already made the row.
Insert(p) ==
    LET n == req[p].n IN
    /\ At(p, "insert")
    /\ Find(n)
    /\ IF n \in tracked THEN Done(p) ELSE Goto(p, "need")
    /\ Working
    /\ UNCHANGED <<ghVars, column, archived, ready, closedAt, opened, order,
                   statsJob, drifted>>

-----------------------------------------------------------------------------
(* Graphs::IssueStatsWorker and Boards::Synchronizer.                       *)

Fetch(p) ==
    LET wanted == IF req[p].kind = "sync_stats" THEN Synced ELSE Listed IN
    /\ At(p, "fetch")
    /\ req' = [req EXCEPT
           ![p].at = IF req[p].kind = "sync_stats" THEN "insert_rows" ELSE "query",
           ![p].seen = [n \in Numbers |-> IF n \in wanted THEN GhClosedAt(n)
                                                         ELSE -1]]
    /\ Working
    /\ UNCHANGED vars

\* What remains drifted after the rows in S took the values in r.seen.
DriftAfter(S, r) == drifted \ {n \in S : r.seen[n] = GhClosedAt(n)}
SeenIn(S, r) == [n \in Numbers |-> IF n \in S THEN r.seen[n] ELSE closedAt[n]]

InsertRows(p) ==
    LET r       == req[p]
        listed  == {n \in Numbers : r.seen[n] # -1}
        created == {n \in listed : n > LastNumber(tracked)}
    IN
    /\ At(p, "insert_rows")
    /\ tracked' = tracked \cup created
    /\ closedAt' = SeenIn(created, r)
    /\ drifted' = DriftAfter(created, r)
    /\ req' = [req EXCEPT ![p].at = "update_rows", ![p].todo = listed \ created]
    /\ Working
    /\ UNCHANGED <<ghVars, column, archived, ready, opened, order, statsJob>>

UpdateRows(p) ==
    LET r       == req[p]
        updated == r.todo \cap tracked
    IN
    /\ At(p, "update_rows")
    /\ closedAt' = SeenIn(updated, r)
    /\ drifted' = DriftAfter(updated, r)
    /\ Done(p)
    /\ Working
    /\ UNCHANGED <<ghVars, tracked, column, archived, ready, opened, order,
                   statsJob>>

\* The visible rows GitHub did not list.
Query(p) ==
    LET r == req[p] IN
    /\ At(p, "query")
    /\ req' = [req EXCEPT
           ![p].at = "next",
           ![p].todo = {n \in tracked \ archived : r.seen[n] = -1}]
    /\ Working
    /\ UNCHANGED vars

\* One IssueStats::Archiver after the other.
NextGone(p) ==
    LET r == req[p] IN
    /\ At(p, "next")
    /\ IF r.todo = {} THEN Goto(p, "sweep")
       ELSE \E n \in r.todo :
              req' = [req EXCEPT ![p] =
                  [r EXCEPT !.todo = r.todo \ {n}, !.n = n,
                            !.at = IF ghState[n] = "closed" THEN "finish"
                                                            ELSE "next"]]
    /\ Working
    /\ UNCHANGED vars

Sweep(p) ==
    /\ At(p, "sweep")
    /\ column' = Swept(archived)
    /\ Done(p)
    /\ Working
    /\ UNCHANGED <<ghVars, tracked, archived, ready, closedAt, opened, order,
                   statsJob, drifted>>

-----------------------------------------------------------------------------
\* An error of GitHub or of the database, a killed worker: nothing is undone.
\* Sidekiq puts the job back (retry: 2).
Crash(p) ==
    /\ req[p] # Idle
    /\ crashes < MaxCrashes
    /\ crashes' = crashes + 1
    /\ Done(p)
    /\ lone' = lone \ {p}
    /\ statsJob' = (statsJob \/ req[p].kind = "sync_stats")
    /\ UNCHANGED <<ghVars, statVars, opened, order, drifted>>

ReqInit ==
    /\ Init
    /\ req = [p \in Procs |-> Idle]
    /\ lone = {}
    /\ crashes = 0

Begin(p) ==
    \/ \E n \in Numbers, c \in Columns, force \in Forces :
           ArriveMove(p, n, c, force)
    \/ \E n \in Numbers, kind \in Kinds : ArriveOther(p, kind, n)
    \/ ArriveCreate(p)
    \/ StartSyncStats(p)
    \/ StartSynchronize(p)

Continue(p) ==
    \/ FindCard(p)     \/ Look(p)        \/ Finish(p)      \/ Start(p)
    \/ UnreadyCard(p)  \/ Place(p)       \/ NeedAssignee(p) \/ Ask(p)
    \/ Patch(p)        \/ AskState(p)    \/ CloseIssue(p)  \/ ReopenIssue(p)
    \/ Stamp(p)        \/ Enqueue(p)     \/ Sort(p)        \/ Check(p)
    \/ Stat(p)         \/ Shelve(p)      \/ Restore(p)     \/ Toggle(p)
    \/ CreateIssue(p)  \/ Insert(p)      \/ Fetch(p)       \/ InsertRows(p)
    \/ UpdateRows(p)   \/ Query(p)       \/ NextGone(p)    \/ Sweep(p)

\* Single steps of IssueLifecycle that need no request here.  Two months are
\* longer than a request takes and a job waits.
Environment ==
    /\ \/ \E n \in Numbers :
              /\ Update(n) \/ External(n)
              /\ closings'[n] # closings[n] => HasRoom(n)
              /\ n \in aged' \ aged =>
                     ~statsJob /\ \A p \in Procs : ~OnCard(req[p], n)
       \/ \E c \in Columns, list \in BrowserLists : SortColumn(c, list)
       \/ \E looked, seenOpen, earlier \in SUBSET Numbers :
              BoardRead(looked, seenOpen, earlier)
    /\ UNCHANGED reqVars

ReqNext ==
    \/ \E p \in Procs : Begin(p) \/ Continue(p) \/ Crash(p)
    \/ Environment

ReqSpec == ReqInit /\ [][ReqNext]_allVars

-----------------------------------------------------------------------------
ReqTypeOK ==
    /\ TypeOK
    /\ lone \subseteq {p \in Procs : req[p] # Idle}
    /\ crashes \in 0..MaxCrashes
    /\ \A p \in Procs :
           /\ req[p].kind \in Kinds \cup {"none"}
           /\ req[p].n \in Numbers \cup {0}
           /\ req[p].c \in Columns /\ req[p].column \in Columns
           /\ req[p].force \in BOOLEAN /\ req[p].flag \in BOOLEAN
           /\ req[p].list \in Seq(Numbers)
           /\ req[p].seen \in [Numbers -> Int]
           /\ req[p].todo \subseteq Numbers

Quiet == ~statsJob /\ \A p \in Procs : req[p] = Idle

\* However requests overlap and die, the lifetimes of a card do not pile up
\* in the long run.  One process leaks one, through Unarchiver.  A process
\* that has read the row, or closed the lifetimes, and not yet written can be
\* overtaken by all that the others leak, and then adds its own; a crash adds
\* one at most.
LeakOf(procs) == 1 + (procs * (procs + 1)) \div 2
OpenLifetimesBounded ==
    \A n \in Numbers : Len(opened[n]) <= LeakOf(Cardinality(Procs)) + crashes

\* A move to another column that no request on the same card and no job
\* overlaps sets right what races and crashes have left: the card stands in
\* the new column, has its lifetime open and no other, and is not ready.
LoneMoveHeals ==
    [][\A p \in lone :
           LET r == req[p] IN
           r.kind = "move" /\ r.column # r.c /\ req'[p] = Idle
               /\ crashes' = crashes
           => /\ column'[r.n] = r.c
              /\ opened'[r.n] = <<r.c>>
              /\ r.n \notin ready']_allVars

\* Requests that close and reopen the same issue at the same time may leave
\* any closed_at, but the job each of them enqueues last has the final word:
\* when nothing runs and nothing is queued, closed_at is GitHub's, for every
\* card the job looks at.  It needs columns without auto-close (Mover closes
\* and enqueues nothing) and one thread for jobs (of two IssueStatsWorkers
\* the older may write last).
QuietClosedAtAgrees ==
    Quiet => \A n \in (tracked \cap Synced) \ drifted :
                 closedAt[n] = GhClosedAt(n)
=============================================================================
