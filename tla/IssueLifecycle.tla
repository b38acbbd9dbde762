---------------------------- MODULE IssueLifecycle ----------------------------
(***************************************************************************)
(* The cards of one board: the issue_stats table, the open rows of the     *)
(* lifetimes table, the serialized column.issues lists, and the issues of  *)
(* the GitHub repository they shadow.  One action is one request or job,   *)
(* run to its end; IssueRequests interleaves their statements.             *)
(*                                                                         *)
(* Data kept out: titles, labels, comments, due dates, activities, the     *)
(* in_at and out_at times of closed lifetimes.  A closed_at time is the    *)
(* ordinal of the closing that set it, 0 is nil.                           *)
(***************************************************************************)
EXTENDS Integers, SequencesExt

CONSTANTS
    Numbers,        \* issue numbers GitHub may give out
    Old,            \* the issues that exist before the board does
    Columns,        \* the columns of the board (BoardColumns changes them)
    DefaultColumn,  \* board.columns.first
    LastColumn,     \* board.columns.last
    AutoAssign,     \* columns with is_auto_assign
    AutoClose,      \* columns with is_auto_close
    BrowserLists,   \* the lists of numbers a browser may send for a column
    Forces,         \* move_to/force from the issue window, move_to from a drag
    MaxClosings     \* bound: how often one issue is closed

ASSUME NumbersAssumption ==
    /\ Numbers \subseteq Nat \ {0}
    /\ IsFiniteSet(Numbers)
    /\ Old \subseteq Numbers
    /\ \A o \in Old, n \in Numbers \ Old : o < n

ASSUME ColumnsAssumption ==
    /\ DefaultColumn \in Columns
    /\ LastColumn \in Columns
    /\ AutoAssign \subseteq Columns
    /\ AutoClose \subseteq Columns

ASSUME InputsAssumption ==
    /\ BrowserLists \subseteq {s \in Seq(Numbers) : IsInjective(s)}
    /\ Forces \subseteq BOOLEAN
    /\ MaxClosings \in Nat

VARIABLES
    ghState,   \* GitHub: "absent", "open" or "closed"
    closings,  \* GitHub: times the issue was closed; the last one is closed_at
    aged,      \* GitHub: closed issues not updated for two months
    assigned,  \* GitHub: issues with an assignee
    tracked,   \* numbers with a row in issue_stats
    column,    \* issue_stats.column_id
    archived,  \* numbers whose archived_at is set
    ready,     \* numbers whose is_ready is set
    closedAt,  \* issue_stats.closed_at
    opened,    \* columns of the lifetimes with out_at nil, oldest first
    order,     \* column.issues, the manual order of a column
    statsJob,  \* an IssueStatsWorker job waits in the queue
    drifted    \* history: changed on GitHub since closed_at was last copied

ghVars    == <<ghState, closings, aged, assigned>>
statVars  == <<tracked, column, archived, ready, closedAt>>
vars      == <<ghVars, statVars, opened, order, statsJob, drifted>>

-----------------------------------------------------------------------------
(* GitHub as the services see it.                                           *)

OnGithub(n)   == ghState[n] # "absent"
GhClosedAt(n) == IF ghState[n] = "closed" THEN closings[n] ELSE 0

\* GithubApi::Issues#issues: every open issue and the closed ones that were
\* updated in the last two months.
Listed == {n \in Numbers : OnGithub(n) /\ n \notin aged}

\* GithubApi::Issues#close: closing a closed issue changes nothing.
CloseOnGithub(n) ==
    /\ ghState[n] = "open" => closings[n] < MaxClosings
    /\ ghState' = [ghState EXCEPT ![n] = "closed"]
    /\ closings' = IF ghState[n] = "open"
                   THEN [closings EXCEPT ![n] = @ + 1]
                   ELSE closings

\* GithubApi::Issues#reopen.
ReopenOnGithub(n) ==
    /\ ghState' = [ghState EXCEPT ![n] = "open"]
    /\ aged' = aged \ {n}
    /\ UNCHANGED closings

-----------------------------------------------------------------------------
(* Helpers of the services.                                                 *)

\* board.issue_stats.maximum(:number).to_i
LastNumber(S) == IF S = {} THEN 0 ELSE Max(S)

\* IssueStats::Finder: the row is found, or created in the default column
\* with GitHub's closed_at and without a lifetime.
FindOnly(n) == UNCHANGED tracked                                  \* mutant
Find(n)     == tracked' = tracked \cup {n}

FoundBlank(n) == closedAt                                         \* mutant
FoundClosedAt(n) ==
    [closedAt EXCEPT ![n] = IF n \in tracked THEN @ ELSE GhClosedAt(n)]
FoundDrift(n) == IF n \in tracked THEN drifted ELSE drifted \ {n}

\* Lifetimes::Finisher, then Lifetimes::Starter in the column moved to.
StartOnly(n, c)  == [opened EXCEPT ![n] = Append(@, c)]           \* mutant
StartInOld(n, c) == [opened EXCEPT ![n] = <<column[n]>>]          \* mutant
Restarted(n, c)  == [opened EXCEPT ![n] = <<c>>]

\* IssueStats::Unready.
StillReady(n) == ready                                            \* mutant
Unready(n)    == ready \ {n}

\* IssueStats::Sorter with is_force_sort: unshift, then uniq.
Unshift(s, n)  == Cons(n, s)                                      \* mutant
PutLast(s, n)  == Append(RemoveFirst(s, n), n)                    \* mutant
PutFirst(s, n) == Cons(n, RemoveFirst(s, n))

\* IssueStats::AutoAssigner: an assignee is set only where there is none, and
\* updating the issue on GitHub lists it again.
AutoAssigned(n, c) == IF c \in AutoAssign THEN assigned \cup {n} ELSE assigned
AutoRelisted(n, c) ==
    IF c \in AutoAssign /\ n \notin assigned THEN aged \ {n} ELSE aged

-----------------------------------------------------------------------------
(* Requests of IssuesController.                                            *)

\* create: IssueStats::Creator with a number GitHub has just given out.
Create(n) ==
    /\ ghState[n] = "absent" /\ n \notin Old
    /\ \A m \in Numbers : OnGithub(m) => m < n
    /\ ghState' = [ghState EXCEPT ![n] = "open"]
    /\ Find(n)
    /\ assigned' = AutoAssigned(n, DefaultColumn)
    /\ order' = [order EXCEPT ![DefaultColumn] = PutFirst(@, n)]
    /\ opened' = [opened EXCEPT ![n] = <<DefaultColumn>>]
    /\ UNCHANGED <<closings, aged, column, archived, ready, closedAt,
                   statsJob, drifted>>

\* move_to: IssueStats::Mover, with its AutoAssigner, AutoCloser and Sorter.
\* Nothing asks whether the card is archived.
Move(n, c, force) ==
    LET changes == c # column[n]
        closes  == c \in AutoClose /\ ghState[n] = "open"
    IN
    /\ OnGithub(n)
    /\ Find(n)
    /\ column' = [column EXCEPT ![n] = c]
    /\ opened' = IF changes THEN Restarted(n, c) ELSE opened
    /\ ready' = IF changes THEN Unready(n) ELSE ready
    /\ assigned' = AutoAssigned(n, c)
    /\ aged' = AutoRelisted(n, c)
    /\ IF closes
       THEN /\ CloseOnGithub(n)
            /\ closedAt' = [closedAt EXCEPT ![n] = closings[n] + 1]
            /\ drifted' = drifted \ {n}
       ELSE /\ closedAt' = FoundClosedAt(n)
            /\ drifted' = FoundDrift(n)
            /\ UNCHANGED <<ghState, closings>>
    /\ order' = IF force THEN [order EXCEPT ![c] = PutFirst(@, n)] ELSE order
    /\ UNCHANGED <<archived, statsJob>>

\* close: IssueStats::Closer, then IssueStatsWorker is enqueued.
Close(n) ==
    /\ OnGithub(n)
    /\ CloseOnGithub(n)
    /\ Find(n)
    /\ closedAt' = [closedAt EXCEPT ![n] = closings'[n]]
    /\ drifted' = drifted \ {n}
    /\ statsJob' = TRUE
    /\ UNCHANGED <<aged, assigned, column, archived, ready, opened, order>>

\* reopen: IssueStats::Reopener, then IssueStatsWorker is enqueued.
Reopen(n) ==
    /\ OnGithub(n)
    /\ ReopenOnGithub(n)
    /\ Find(n)
    /\ closedAt' = [closedAt EXCEPT ![n] = 0]
    /\ drifted' = drifted \ {n}
    /\ statsJob' = TRUE
    /\ UNCHANGED <<assigned, column, archived, ready, opened, order>>

\* archive: IssueStats::Archiver returns early unless GitHub says closed.
Archive(n) ==
    /\ ghState[n] = "closed"
    /\ Find(n)
    /\ archived' = archived \cup {n}
    /\ opened' = [opened EXCEPT ![n] = <<>>]
    /\ closedAt' = FoundClosedAt(n)
    /\ drifted' = FoundDrift(n)
    /\ UNCHANGED <<ghVars, column, ready, order, statsJob>>

\* unarchive: IssueStats::Unarchiver starts a lifetime and finishes none.  A
\* card that is not archived is only found, or created.
Unarchive(n) ==
    /\ OnGithub(n)
    /\ Find(n)
    /\ archived' = archived \ {n}
    /\ opened' = IF n \in archived
                 THEN [opened EXCEPT ![n] = Append(@, column[n])]
                 ELSE opened
    /\ closedAt' = FoundClosedAt(n)
    /\ drifted' = FoundDrift(n)
    /\ UNCHANGED <<ghVars, column, ready, order, statsJob>>

\* toggle_ready: IssueStats::Ready or Unready.
ToggleReady(n) ==
    /\ OnGithub(n)
    /\ Find(n)
    /\ ready' = IF n \in ready THEN Unready(n) ELSE ready \cup {n}
    /\ closedAt' = FoundClosedAt(n)
    /\ drifted' = FoundDrift(n)
    /\ UNCHANGED <<ghVars, column, archived, opened, order, statsJob>>

\* assignee: IssueStats::Assigner; assigning the current assignee clears it,
\* assigning somebody else replaces it.
Assign(n) ==
    /\ OnGithub(n)
    /\ Find(n)
    /\ \/ assigned' = assigned \cup {n}
       \/ n \in assigned /\ assigned' = assigned \ {n}
    /\ aged' = aged \ {n}
    /\ closedAt' = FoundClosedAt(n)
    /\ drifted' = FoundDrift(n)
    /\ UNCHANGED <<ghState, closings, column, archived, ready, opened, order,
                   statsJob>>

\* update, update_labels, and any comment: GitHub lists the issue again.
Update(n) ==
    /\ OnGithub(n)
    /\ aged' = aged \ {n}
    /\ UNCHANGED <<ghState, closings, assigned, statVars, opened, order,
                   statsJob, drifted>>

\* ColumnsController#update: the list a browser has on screen, without
\* duplicates, replaces column.issues.
SortColumn(c, list) ==
    /\ order' = [order EXCEPT ![c] = list]
    /\ UNCHANGED <<ghVars, statVars, opened, statsJob, drifted>>

-----------------------------------------------------------------------------
(* Board reads and background jobs.                                         *)

\* IssueStatsMapper, while a signed-in reader looks at the cached issues
\* "looked".  A row is made for every missing open issue, and for a missing
\* closed one above the largest number.  That number is read from the table
\* once, at the first missing closed issue, when the rows of the open issues
\* before it ("earlier") are already there.  The cached copy of a drifted
\* issue may be older than its last change.
BoardRead(looked, seenOpen, earlier) ==
    LET missing == looked \ tracked
        last    == LastNumber(tracked \cup earlier)
        late    == {n \in missing \ seenOpen : last # 0 /\ n > last}
        new     == seenOpen \cup late
    IN
    /\ \A n \in looked : OnGithub(n)
    /\ seenOpen \subseteq missing
    /\ \A n \in missing \ drifted : n \in seenOpen <=> ghState[n] = "open"
    /\ earlier \subseteq seenOpen
    /\ tracked' = tracked \cup new
    /\ closedAt' = [n \in Numbers |-> IF n \in late THEN closings[n]
                                                    ELSE closedAt[n]]
    /\ UNCHANGED <<ghVars, column, archived, ready, opened, order, statsJob,
                   drifted>>

\* Graphs::IssueStatsWorker#fetch_issues_to_sync.
SyncedOpen == {n \in Listed : ghState[n] = "open"}                \* mutant
Synced     == {n \in Listed : ghState[n] = "open" \/ n \notin Old}

\* Graphs::IssueStatsWorker: open issues, and closed ones younger than the
\* board, get a row above the largest number and a fresh closed_at below it.
SyncStats ==
    LET created == {n \in Synced : n > LastNumber(tracked)}
        updated == created \cup (Synced \cap tracked)
    IN
    /\ statsJob
    /\ tracked' = tracked \cup created
    /\ closedAt' = [n \in Numbers |-> IF n \in updated THEN GhClosedAt(n)
                                                       ELSE closedAt[n]]
    /\ drifted' = drifted \ updated
    /\ statsJob' = FALSE
    /\ UNCHANGED <<ghVars, column, archived, ready, opened, order>>

\* Boards::Synchronizer#move_archived_issues_to_last_column.
SweptAll(shelf) == [n \in Numbers |-> LastColumn]                 \* mutant
Swept(shelf)    == [n \in Numbers |-> IF n \in shelf THEN LastColumn
                                                     ELSE column[n]]

\* Boards::Synchronizer, run by the cumulative worker: cards GitHub no longer
\* lists are archived, and every archived card goes to the last column.
Synchronize ==
    LET gone == (tracked \ archived) \ Listed
    IN
    /\ archived' = archived \cup gone
    /\ opened' = [n \in Numbers |-> IF n \in gone THEN <<>> ELSE opened[n]]
    /\ column' = Swept(archived')
    /\ UNCHANGED <<ghVars, tracked, ready, closedAt, order, statsJob, drifted>>

-----------------------------------------------------------------------------
(* What people do on GitHub itself (external to the program).               *)

GithubCreate(n) ==
    /\ ghState[n] = "absent" /\ n \notin Old
    /\ \A m \in Numbers : OnGithub(m) => m < n
    /\ ghState' = [ghState EXCEPT ![n] = "open"]
    /\ UNCHANGED <<closings, aged, assigned, statVars, opened, order, statsJob,
                   drifted>>

GithubClose(n) ==
    /\ ghState[n] = "open"
    /\ CloseOnGithub(n)
    /\ drifted' = drifted \cup {n}
    /\ UNCHANGED <<aged, assigned, statVars, opened, order, statsJob>>

GithubReopen(n) ==
    /\ ghState[n] = "closed"
    /\ ReopenOnGithub(n)
    /\ drifted' = drifted \cup {n}
    /\ UNCHANGED <<assigned, statVars, opened, order, statsJob>>

\* Two months pass without an update of a closed issue.
GithubAge(n) ==
    /\ ghState[n] = "closed"
    /\ n \notin aged
    /\ aged' = aged \cup {n}
    /\ UNCHANGED <<ghState, closings, assigned, statVars, opened, order,
                   statsJob, drifted>>

-----------------------------------------------------------------------------
\* The board has just been created over a repository with the issues in Old.
Init ==
    /\ ghState \in {s \in [Numbers -> {"absent", "open", "closed"}] :
                        \A n \in Numbers : s[n] = "absent" <=> n \notin Old}
    /\ closings = [n \in Numbers |-> IF ghState[n] = "closed" THEN 1 ELSE 0]
    /\ aged \in SUBSET {n \in Numbers : ghState[n] = "closed"}
    /\ assigned = {}
    /\ tracked = {}
    /\ column = [n \in Numbers |-> DefaultColumn]
    /\ archived = {}
    /\ ready = {}
    /\ closedAt = [n \in Numbers |-> 0]
    /\ opened = [n \in Numbers |-> <<>>]
    /\ order = [c \in Columns |-> <<>>]
    /\ statsJob = FALSE
    /\ drifted = {}

Request(n) ==
    \/ Create(n)
    \/ \E c \in Columns, force \in Forces : Move(n, c, force)
    \/ Close(n)
    \/ Reopen(n)
    \/ Archive(n)
    \/ Unarchive(n)
    \/ ToggleReady(n)
    \/ Assign(n)
    \/ Update(n)

External(n) ==
    \/ GithubCreate(n)
    \/ GithubClose(n)
    \/ GithubReopen(n)
    \/ GithubAge(n)

Next ==
    \/ \E n \in Numbers : Request(n) \/ External(n)
    \/ \E c \in Columns, list \in BrowserLists : SortColumn(c, list)
    \/ \E looked, seenOpen, earlier \in SUBSET Numbers :
           BoardRead(looked, seenOpen, earlier)
    \/ SyncStats
    \/ Synchronize

Spec == Init /\ [][Next]_vars

\* Sidekiq runs a queued job sooner or later; nobody has to click anything.
FairSpec == Spec /\ WF_vars(SyncStats)

-----------------------------------------------------------------------------
TypeOK ==
    /\ ghState \in [Numbers -> {"absent", "open", "closed"}]
    /\ closings \in [Numbers -> Nat]
    /\ aged \subseteq Numbers
    /\ assigned \subseteq Numbers
    /\ tracked \subseteq Numbers
    /\ column \in [Numbers -> Columns]
    /\ archived \subseteq tracked
    /\ ready \subseteq tracked
    /\ closedAt \in [Numbers -> Nat]
    /\ opened \in [Numbers -> Seq(Columns)]
    /\ order \in [Columns -> Seq(Numbers)]
    /\ statsJob \in BOOLEAN
    /\ drifted \subseteq Numbers

\* The lifetime a visible card entered last, if it is open, is the one of the
\* column the card stands in: whatever was moved, archived, swept to the last
\* column and sent back before, the roadmap's "current column" is the board's.
CurrentLifetimeInColumn ==
    \A n \in tracked \ archived :
        opened[n] # <<>> => opened[n][Len(opened[n])] = column[n]

\* An archived card has at most one open lifetime and a visible one at most
\* two: Mover, Archiver and the sweep close what Unarchiver leaves open, so
\* the leak of Unarchiver (a lifetime opened by moving the archived card is
\* never finished) does not grow.
LifetimeLeakBounded ==
    \A n \in Numbers : Len(opened[n]) <= (IF n \in archived THEN 1 ELSE 2)

\* closed_at of a card disagrees with GitHub only about an issue that was
\* closed or reopened on GitHub itself: no sequence of the board's own
\* requests and jobs makes them disagree.
ClosedAtDriftsOnGithubOnly ==
    \A n \in tracked \ drifted : closedAt[n] = GhClosedAt(n)

\* column.issues never names an issue twice, whatever browsers and forced
\* moves write to it.
OrderHasNoDuplicates == \A c \in Columns : IsInjective(order[c])

\* A visible card that changes its column loses its ready label and has
\* exactly the lifetime of the new column open: a column is only left
\* through Mover or after archiving.
MoveRestartsStage ==
    [][\A n \in tracked \ archived :
           column'[n] # column[n] /\ n \notin archived'
               => n \notin ready' /\ opened'[n] = <<column'[n]>>]_vars

\* Once a queued IssueStatsWorker has run, every listed issue the worker
\* looks at and that has a row shows GitHub's closed_at, also when it drifted.
ClosedAtRepaired ==
    \A n \in Listed : (ghState[n] = "open" \/ n \notin Old) /\ n \in tracked
                          => closedAt[n] = GhClosedAt(n)
StatsJobRepairsClosedAt == statsJob ~> ClosedAtRepaired

\* spec/services/issue_stats_mapper_spec.rb names it: "first import - only
\* open issues".  On a board without cards, a read creates cards for open
\* issues only.
FirstImportOnlyOpen ==
    [][tracked = {} /\ drifted = {}
       /\ (\E looked, seenOpen, earlier \in SUBSET Numbers :
               BoardRead(looked, seenOpen, earlier))
           => \A n \in tracked' : ghState[n] = "open"]_vars

-----------------------------------------------------------------------------
\* The promise of CardBoard, kept by the rows of issue_stats.
Board == INSTANCE CardBoard WITH
    shown   <- tracked \ archived,
    shelved <- archived,
    place   <- column

\* Every request, job and change on GitHub is a step of CardBoard on the
\* cards, or leaves the cards alone: no row is lost, cards enter in the
\* default column, and only the sweep of archived cards moves a card that
\* nobody moved.
ImplementsCardBoard == Board!BoardSpec
=============================================================================
