---------------------------- MODULE GraphHistories ----------------------------
(***************************************************************************)
(* The daily entries behind the graphs: board_histories written by         *)
(* Graphs::CumulativeWorker, or repo_histories written by                  *)
(* Graphs::LinesWorker.  A Sidekiq job copies the last entry to the days   *)
(* it finds missing and saves today's entry, statement by statement.       *)
(*                                                                         *)
(* What a job measures (lines of code, a CfdSnapshot) is told apart by the *)
(* day it was measured on.                                                 *)
(***************************************************************************)
EXTENDS Integers, SequencesExt

CONSTANTS
    Graphs,          \* "cumulative", "lines" or both
    Procs,           \* Sidekiq threads
    MaxDay,          \* bound: days
    MaxCrashes       \* bound: jobs that die

ASSUME GraphAssumption ==
    /\ Graphs \subseteq {"cumulative", "lines"}
    /\ MaxDay \in Nat \ {0}
    /\ MaxCrashes \in Nat

VARIABLES
    graph,     \* which of the graphs it is; never changes
    today,
    entry,     \* the entries: collected_on -> the day of its measurement
    queued,    \* a job waits in the queue
    req,       \* what each thread works on
    asked,     \* history: a job was asked for today
    torn,      \* history: a job has died, or has run across midnight
    crashes    \* history: jobs that died

history == <<asked, torn, crashes>>
vars == <<graph, today, entry, queued, req, history>>

Days == 1..MaxDay
None == -1   \* no entry
Nil  == 0    \* an entry without its value

Idle == [at |-> "idle", day |-> 0, value |-> Nil, known |-> FALSE, missing |-> {}]

At(p, label)   == req[p].at = label
Goto(p, label) == req' = [req EXCEPT ![p].at = label]
Done(p)        == req' = [req EXCEPT ![p] = Idle]

Collected == {d \in Days : entry[d] # None}

-----------------------------------------------------------------------------
\* after_action of a request, or a visit of the graph: unique jobs drops a
\* job while another one waits.
DropWhileRunning == \A p \in Procs : req[p] = Idle                \* mutant
Accepted         == TRUE

Enqueue ==
    /\ queued' = (queued \/ Accepted)
    /\ asked' = TRUE
    /\ UNCHANGED <<graph, today, entry, req, torn, crashes>>

\* BaseWorker#fill_missing_days, until it knows the days and the entry.
LastEntry  == CHOOSE d \in Collected : \A e \in Collected : e <= d
FirstEntry == CHOOSE d \in Collected : \A e \in Collected : d <= e
CopyFirst  == entry[FirstEntry]                                   \* mutant
ToCopy     == entry[LastEntry]

MissingButOne == (LastEntry + 2)..(today - 1)                     \* mutant
MissingDays   == (LastEntry + 1)..(today - 1)

Start(p) ==
    /\ queued
    /\ req[p] = Idle
    /\ queued' = FALSE
    /\ req' = [req EXCEPT ![p] =
                   IF Collected = {} THEN [Idle EXCEPT !.at = "fill"]
                   ELSE [Idle EXCEPT !.at = "fill", !.value = ToCopy,
                                     !.missing = MissingDays]]
    /\ UNCHANGED <<graph, today, entry, history>>

\* The latest missing day comes first.  A day that got an entry meanwhile
\* fails its validation and is passed over.
Fill(p) ==
    LET r == req[p]
        d == Max(r.missing)
    IN
    /\ At(p, "fill")
    /\ IF r.missing = {}
       THEN /\ Goto(p, IF graph = "lines" THEN "measure" ELSE "find")
            /\ UNCHANGED entry
       ELSE /\ entry' = [entry EXCEPT ![d] = IF @ = None THEN r.value ELSE @]
            /\ req' = [req EXCEPT ![p].missing = @ \ {d}]
    /\ UNCHANGED <<graph, today, queued, history>>

\* repo_lines, or the data of the CfdSnapshot; no lines, no entry.
Measure(p) ==
    /\ At(p, "measure")
    /\ \/ req' = [req EXCEPT
              ![p].value = today,
              ![p].at    = IF graph = "lines" THEN "find" ELSE "save"]
       \/ graph = "lines" /\ Done(p)
    /\ UNCHANGED <<graph, today, entry, queued, history>>

\* where(collected_on: Date.today).first
SaveAtOnce(known) ==                                              \* mutant
    IF graph = "cumulative" \/ known THEN "save" ELSE "create"
AfterFind(known) ==
    IF graph = "cumulative" THEN "measure"
    ELSE IF known THEN "save" ELSE "create"

Find(p) ==
    LET known == entry[today] # None IN
    /\ At(p, "find")
    /\ req' = [req EXCEPT
           ![p].day   = today,
           ![p].known = known,
           ![p].at    = AfterFind(known)]
    /\ UNCHANGED <<graph, today, entry, queued, history>>

\* LinesWorker creates the entry before it has its lines.  An entry that is
\* not valid any more is not saved later either.
CreateEntry(p) ==
    LET r == req[p] IN
    /\ At(p, "create")
    /\ IF entry[r.day] = None
       THEN /\ entry' = [entry EXCEPT ![r.day] = Nil]
            /\ req' = [req EXCEPT ![p].at = "save", ![p].known = TRUE]
       ELSE Done(p) /\ UNCHANGED entry
    /\ UNCHANGED <<graph, today, queued, history>>

Save(p) ==
    LET r == req[p] IN
    /\ At(p, "save")
    /\ entry' = IF r.known \/ entry[r.day] = None
                THEN [entry EXCEPT ![r.day] = r.value] ELSE entry
    /\ Done(p)
    /\ UNCHANGED <<graph, today, queued, history>>

Crash(p) ==
    /\ req[p] # Idle
    /\ crashes < MaxCrashes
    /\ crashes' = crashes + 1
    /\ Done(p)
    /\ queued' = TRUE
    /\ torn' = TRUE
    /\ UNCHANGED <<graph, today, entry, asked>>

Midnight ==
    /\ today < MaxDay
    /\ today' = today + 1
    /\ asked' = FALSE
    /\ torn' = (torn \/ \E p \in Procs : req[p] # Idle)
    /\ UNCHANGED <<graph, entry, queued, req, crashes>>

Init ==
    /\ graph \in Graphs
    /\ today = 1
    /\ entry = [d \in Days |-> None]
    /\ queued = FALSE
    /\ req = [p \in Procs |-> Idle]
    /\ asked = FALSE
    /\ torn = FALSE
    /\ crashes = 0

Work(p) ==
    \/ Start(p)  \/ Fill(p)  \/ Measure(p)  \/ Find(p)
    \/ CreateEntry(p)  \/ Save(p)

Next ==
    \/ Enqueue
    \/ Midnight
    \/ \E p \in Procs : Work(p) \/ Crash(p)

Spec == Init /\ [][Next]_vars

\* Sidekiq works on; nobody has to look at a graph, no day has to pass.
FairSpec == Spec /\ \A p \in Procs : WF_vars(Work(p))

-----------------------------------------------------------------------------
GraphTypeOK ==
    /\ graph \in Graphs
    /\ today \in Days
    /\ entry \in [Days -> Days \cup {None, Nil}]
    /\ graph = "cumulative" => \A d \in Days : entry[d] # Nil
    /\ queued \in BOOLEAN /\ asked \in BOOLEAN /\ torn \in BOOLEAN
    /\ crashes \in 0..MaxCrashes
    /\ \A p \in Procs :
           /\ req[p].day \in Days \cup {0}
           /\ req[p].value \in Days \cup {Nil}
           /\ req[p].missing \subseteq Days

\* app/views/graphs/lines/_graph.html.erb draws the entries one day apart
\* (pointInterval: 24 * 3600 * 1000) from the first one on.
Quiet == ~queued /\ \A p \in Procs : req[p] = Idle
PointsOnTheirDays ==
    \A d \in Collected, e \in Days :
        e < d /\ (\E f \in Collected : f < e) => e \in Collected

\* Until a job dies or runs across midnight the days with an entry are without
\* a gap whenever no job is at work or waits, however jobs overlap, so each
\* is drawn on its own day.
WholeJobsLeaveNoGap == Quiet /\ ~torn => PointsOnTheirDays

\* Until then, an entry shows what was measured on its day, or repeats the
\* entry of the day before, also when two jobs fill the same days at once.
FilledFromDayBefore ==
    Quiet /\ ~torn => \A d \in Days : entry[d] \in Days =>
                          \/ entry[d] = d
                          \/ d > 1 /\ entry[d - 1] = entry[d]

\* A day on which a CumulativeWorker was asked for gets its entry, even if
\* the job of the day before is still running or a job dies: the queue
\* forgets a job when it starts.
AskedDayIsCollected ==
    asked /\ graph = "cumulative" ~> (entry[today] # None \/ ~asked)
=============================================================================
