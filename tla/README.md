# Agile Season in TLA+

Agile Season is a kanban board over the issues of a GitHub repository: a Rails
application whose only data of its own are the columns of a board, one row per
issue that says in which column the issue stands, and histories for graphs.
Everything else is GitHub's; it is read through GitHub's API and kept in a
cache.  The modules in this directory describe the parts of `src/` where that
split is hard to get right: what a request reads, what it writes, in which
order, and what other requests, jobs, webhooks and people on GitHub do in
between.

- [The system](#the-system): components, state, operations, interactions
- [Modules](#modules): what models what, and how to read it
- [Runs](#runs): what TLC checks, with which bounds, and what it shows
- [Theorems](#theorems): what is proved, and along which argument
- [What the code does that a reader may not expect](#what-the-code-does-that-a-reader-may-not-expect)
- [Not modelled](#not-modelled) and [Plan](#plan)

## The system

Several single-threaded Unicorn workers serve requests, Sidekiq runs jobs in
threads (`config/deploy/production.rb:16`), browsers run React and subscribe to
Faye.  They share a Postgres database, a memcached cache and GitHub.  **No
service object opens a transaction or takes a lock: every statement commits on
its own**, and a request keeps what it has read until it ends.  Sidekiq retries
a job that died, and drops a job while an equal one waits (`unique:
:until_executing`: until it starts, not until it ends).

| component | state it keeps | operations | talks to |
|---|---|---|---|
| Issue lifecycle (`IssuesController`, `services/issue_stats/*`, `lifetimes/*`) | `issue_stats` (column, closed_at, archived_at, is_ready), `lifetimes`, `columns.issues` | create, move (with automatic assigning and closing), close, reopen, archive, unarchive, toggle ready, assign, update, sort a column | GitHub, the stats job, the cache, Faye |
| Board reads (`IssueStatsMapper`, `BoardBag`) | none of their own; they make missing rows | show the board, show a column | cache, rows |
| Stats job (`Graphs::IssueStatsWorker`), synchronizer (`Boards::Synchronizer`) | a queue entry | copy closed_at, archive what GitHub no longer lists, sweep the archive to the last column | GitHub, rows |
| Columns (`ColumnsController`, `ColumnTransporter`) | `columns`, their order | add, remove, move left and right | rows, lifetimes |
| Issue cache (`Cached::*`, `BoardBag#update_cache`, `WebhooksController`) | one memcached entry per board: a hash of all issues and its age | read, fetch in two calls, change one issue and write the hash back, take a webhook | GitHub |
| Graph histories (`Graphs::CumulativeWorker`, `LinesWorker`) | `board_histories`, `repo_histories`: one entry a day | fill missing days, save today's entry | GitHub, rows |
| Comments and checklists | comment counts in the cache, checklist numbers in rows | index, create, update, delete, toggle a checkbox | GitHub, cache |
| Webhook registration (`GithubApi::Hooks`, `WebhookWorker`) | the hook on GitHub | find or create, remove with the board | GitHub |
| Live updates (Faye), dragging | what a browser shows | broadcast, delayed reload of columns | browsers |
| Issue window (`react/main.js`, `comment-list.jsx`, `title.jsx`, `upload-form.jsx`, ...) | what one window shows: title, labels, assignee, due date, state, column, ready, comments and their forms; the cards behind it | open, every button, list and form, the answers and what they change on the board | `IssuesController`, `CommentsController`, the board's DOM |
| React runtime (`react/bundle.js`: the copy of React 0.14 the window runs on) | instances, the page, the cache of nodes, listeners, the queues of a batch | mount, setState, flush, unmount, dispatch of events | the browser, the window's components |
| Access, subscriptions, settings, exports, sessions, presenters | see [Not modelled](#not-modelled) | | |

What makes the components correct, and what makes that hard:

- *Lifecycle.*  The open lifetime of a card is that of its column; no card
  disappears; `closed_at` is GitHub's.  Hard: moves of archived cards, sweeps,
  requests that interleave statement by statement, requests that die between
  two statements, jobs that write what they fetched minutes ago, rows that a
  board read makes while a request creates the same issue.
- *Board view.*  A column shows its visible cards once each.  Hard: the manual
  order comes from browsers and is as old as they are.
- *Columns.*  The orders stand for a list, a card always stands in a column
  that exists.  Hard: check and removal are two statements, orders are
  rewritten one row at a time, `issue_stats.column_id` has no foreign key.
- *Cache.*  It catches up with GitHub, and a request does not undo another's
  update.  Hard: the hash is read, changed and written back as a whole;
  webhooks come late, twice or never; open and closed issues are two calls.
- *Graphs.*  One entry a day, without gaps.  Hard: midnight, deaths, overlap.
- *Issue window.*  It ends up showing the issue, the card on the board too, and
  loses no text.  Hard: it shows a click before the server has agreed, never
  waits, reads only some answers, and an older answer may overwrite a newer
  click; closing it unmounts nothing, so an answer may find its window gone.
- *React.*  After each task the page is what the components would render, events
  reach the components the page nests, callbacks run once and after their
  updates.  Hard: updates asked for by updates and by callbacks, children that
  move while others come and go, ids and caches that outlive their nodes, and
  exceptions in the middle of all that.

`PROJECT.json` lists every component and, under `hazards`, each place in the
code where one of these difficulties bites, with the properties that cover it.

## Modules

| module | what it is | extends / instantiates |
|---|---|---|
| `CardBoard` | abstract promise of the cards: appear, move, shelve, restore, sweep | |
| `IssueLifecycle` | the lifecycle, **one action per request or job** | instantiates `CardBoard` |
| `BoardView` | what a column shows (`BoardBag#column_issues`) | `IssueLifecycle` |
| `OrderLemmas` | lemmas on least and greatest numbers, lists without duplicates, counting up, functions defined by recursion | |
| `IssueLifecycleProofs` | theorems, those about `BoardView` too | `BoardView`, `OrderLemmas` |
| `IssueRequests` | the lifecycle, **one action per statement**, several processes, deaths | `IssueLifecycle` |
| `SerialRequests` | `IssueRequests` when nothing overlaps, shown to implement `IssueLifecycle` | `IssueRequests`, instantiates `IssueLifecycle` |
| `IssueRequestsProofs` | theorems, and the refinement of `SerialRequests` | `SerialRequests`, `IssueLifecycleProofs` |
| `ColumnList` | abstract promise of the columns: a list | |
| `BoardColumns` | `ColumnsController` and `ColumnTransporter`, statement by statement, with the requests that place cards | instantiates `ColumnList` |
| `BoardColumnsProofs` | theorems | `BoardColumns`, `OrderLemmas` |
| `IssueCache` | the cached hash of issues, requests, webhooks, expiry | |
| `IssueCacheProofs` | theorems | `IssueCache`, `OrderLemmas` |
| `GraphHistories` | the daily entries of both graph workers | |
| `GraphHistoriesProofs` | theorems | `GraphHistories`, `OrderLemmas` |
| `IssueWindow` | the window of one issue, its cards on the board and the server's answers | |
| `IssueWindowProofs` | theorems | `IssueWindow`, `OrderLemmas` |
| `ReactIds` | the ids of DOM nodes and the walks over them (`ReactInstanceHandles`, `traverseAllChildren`) | |
| `ReactIdsProofs` | theorems | `ReactIds`, `OrderLemmas` |
| `ReactDom` | the page, the cache of nodes by id (`ReactMount.getNode`), the operations on nodes | `ReactIds` |
| `ReactListeners` | plugins, event types, native listeners, the listeners by name and id | `ReactDom` |
| `ReactClient` | the window's components, cut down to what React tells apart | |
| `ReactReconcile` | mount, update and unmount of components (`ReactCompositeComponent`, `ReactDOMComponent`, `ReactMultiChild`) | `ReactListeners`, `ReactClient` |
| `ReactRuntime` | transactions, batches, flushes, events; one action per task of the browser | `ReactReconcile` |
| `MC*` | instances for TLC: sets, lists, symmetry | the module they are named after |

### IssueLifecycle and CardBoard

The state is the three tables, the part of GitHub the services ask for, and the
queue entry of the stats job.  A row is a member of `tracked`; `column`,
`archived`, `ready`, `closedAt` are its attributes.  `opened[n]` is the
sequence of the columns of the lifetimes of `n` whose `out_at` is nil; closed
lifetimes are never read by anything modelled here and are dropped.  A time is
the ordinal of the closing that set it (`closings`), 0 is nil; nothing compares
two closing times except for equality.  `aged` are the closed issues GitHub no
longer lists because they were not updated for two months.  `drifted` is a
history variable: issues closed or reopened on GitHub itself since `closed_at`
was last copied; only properties and the staleness of the cache in `BoardRead`
look at it.

Each request of `IssuesController` is an action of the same name with every
service it calls inside: `Move` contains `Finder`, `Mover`, `Finisher`,
`Starter`, `Unready`, `AutoAssigner`, `AutoCloser`, `Closer` and `Sorter`.
`BoardRead(looked, seenOpen, earlier)` is `IssueStatsMapper` over the issues
`looked` in the order of the cache: `earlier` are the open ones met before the
first missing closed one, when `last_number` is read and remembered.
`SyncStats` and `Synchronize` are the jobs.  The four `Github...` actions are
people on github.com and are external.

`CardBoard` knows only which cards are shown, which are on the shelf and where
they stand.  Under the mapping `shown = tracked \ archived`, `shelved =
archived`, `place = column` every action is a step of it or leaves the cards
alone: rows are never lost, a card enters in the default column, and only a
move or a sweep of the shelf changes a column.

### IssueRequests and SerialRequests

`req[p]` is what process `p` works on: the kind of request, where it is (`at`),
and everything it has read and keeps: the column the row had (`column`), the
flag it decides by, the manual order loaded with the column (`list`), what
GitHub answered (`seen`), the rows still to do (`todo`).  One action is one
query, update or call of GitHub.  `Crash` ends a request anywhere and undoes
nothing; a stats job goes back into the queue.  Board reads, sortings and
changes on GitHub stay single steps.  `lone` (a history variable) holds the
requests nothing else on the same card has overlapped.  `drifted` is followed
statement by statement too: a row that is made while a stats job holds what it
has fetched may be overwritten with older news, and is not taken for current.

`SerialRequests` adds a history variable with the lifecycle as the request in
progress found it and runs one request at a time.  Read through that, every
finished request is exactly one action of `IssueLifecycle`: the atomic module
is not an assumption beside the detailed one, it is what the statements add up
to.

### BoardColumns and ColumnList

`rank` is `columns.order`; ids are never reused.  `LastRank`, `Key`, `Load` and
`WriteOrder` are `ColumnTransporter`: the order is multiplied by ten, the moved
column gets 11 tenths off or on, all are sorted (equal keys in any order) and
each changed order is one update (`todo` is the set of those left; the least
comes next).  Removal is the check (`Blank`) and the
delete, `dependent: :destroy` included: it goes over the association that the
check has loaded, which is empty.  `lifetimes.column_id` has a foreign key, so
a move into a removed column fails at `Start`; `issue_stats.column_id` has none
(`db/schema.rb:140-145`), so one that is past `Start` succeeds.  `raced` (a
history variable) says that requests have overlapped or one has died; until
then the orders, with the updates under way applied, stand for the list of
`ColumnList`.

### IssueCache

`cache` is the value of the entry, `req[p].copy` is BoardBag's memoized
`@issues_hash`.  A request gets a copy (`Current`, or `FetchOpen`,
`FetchClosed`, `Store`), changes one issue in it and writes all of it (`Put`).
Mover may call GitHub twice with one copy (`again`).  An issue is a version, a
state and a count of comments; comments send no webhook.  Time is one bit:
`Expire` is five minutes without a write.  `twisted` (a history variable) says
that requests have overlapped, or that a webhook was lost or came in another
order than the changes.

### GraphHistories

Days count from 1.  An entry is the day its value was measured on: that is all
the properties tell apart.  Each job asks for today's date anew (`Start`,
`Measure`, `Find`), as the code does.  `LinesWorker` creates its entry before
the value is in it (`CreateEntry`), `CumulativeWorker` does not.  `torn` (a
history variable) says that a job has died or has run across midnight.

### IssueWindow

`win` is the state of `IssueModal` and of the components in it, `cards` are the
cards of this issue in the board of the same page, `issue` and `comments` are
the server.  A click changes `win` and puts a request into the bag `sent`
(`Ask`); `Execute` is the controller and gives an answer and, for whoever
listens, reloads of columns; `Arrive` is the callback of the request.  Requests
are executed in any order, answers arrive in any order, both may be lost,
`Refuse` is a request the server turns down.  The server is one value: what
happens inside a request is the subject of `IssueRequests` and `IssueCache`.
Texts are sets of the pieces they are put together from.

Opening a card makes a new window from the data of the card (`OpenCard`); the
answers asked for by the old one still arrive, and its `inCard` handle to the
card may be detached by then (`StillHeld`, `Detached`).  `met` (a history
variable) collects what may explain a difference between window and server: a
click while a request was under way (`hurry`) or before the first two answers
(`early`), a second comment while one was being saved, losses and refusals,
changes by others, a move, a state button the card of the issue would not have.
`unsaved` are submitted pieces of text the server never stored.

### The React modules

JavaScript runs one task at a time, so the whole world of a page is one record
`w` and the runtime is a library of operators from worlds to worlds, in the order
of the code; `ReactRuntime` has the only variable, `w`, and **one step is one
task of the browser**: a window is opened, an answer arrives, the user clicks
or types.  The fields of `w` are listed at the head of each module, with the
variables of `bundle.js` they stand for.

An exception is the field `err`: `AndThen` and `Each` do not run what follows,
`Closing` runs a wrapper all the same and rethrows (`Transaction.closeAll`),
`EndOfTask` ends the task.  `Given` names an intermediate world.  `Each` is
written with a recursive function, the walks over trees as `RECURSIVE`
operators; no theorem is stated about these modules.

The client is cut from the window: a list of rows that are comments with a text
area, events, avatars, labels with a checkbox, what a window shows of its issue,
lists of columns, assignees and labels with their buttons, markdown and bare
text.  What its own code does in a task, which components it sets, in which
order, with which callbacks, whether it stops the event, is not fixed but chosen
with the step (`Programs`, `Thens`): React must work for all of it.  The window
itself passes no callbacks to `setState`; they are modelled because they are
part of what the runtime promises.  `Bad` is a comment whose user is missing:
its `render` throws.

`hurt`, `ran`, `due`, `promised`, `called`, `early` and `strayed` are history:
the windows an exception has cost an update, the handlers the last event ran and
should have run, the callbacks asked for and run, whether one ran too early,
whether an update took the focus from a node that stayed, or moved its caret.

## Runs

| run | question | instance |
|---|---|---|
| `lifecycle` | Do rows, lifetimes and `closed_at` stay consistent under every order of whole requests and jobs, is `CardBoard` implemented, does a queued stats job repair `closed_at`? | 2 issues (1 older than the board), 2 columns, the last closes issues |
| `lifecycle_order` | Does a column show its visible cards once each, whatever list a browser stores, and does a forced move come first? | 2 issues, 2 columns, all lists |
| `requests_race` | How far can two overlapping requests, one of which may die, take lifetimes, columns and labels apart, and does one undisturbed move repair it? | 1 issue, 2 columns, 2 processes, 1 death |
| `requests_closed_at` | When nothing runs and nothing is queued, is `closed_at` GitHub's? | 1 issue closed up to 3 times, 3 processes |
| `requests_serial` | Do the statements of each service add up to the action of `IssueLifecycle`? | 1 issue, 3 columns with every automatic flag, all kinds of requests |
| `columns` | Do the orders stand for a list, and what is left of it after races and deaths? | 2 columns and one more to come, 1 card, 2 processes, 1 death |
| `cache` | Does the cache catch up with GitHub, and what does an undisturbed request keep in spite of all others? | 2 issues: one with 3 versions, one created and commented on; 2 webhooks under way, 2 processes |
| `window` | Does the window agree with the server when nothing is under way, does the board behind it, does a comment survive, which clicks may overtake each other, does saving end? | 1 issue, closed at first, 2 columns, 2 users, 1 label, 3 comments, 3 clicks, 2 mishaps |
| `react` | Does the page show the state after every task, is nothing left behind, do events and callbacks find their way, does an exception cost only its own window? | 2 windows, 4 tasks, 4 lists of rows, 3 sets of handlers |
| `graph_entries` | Are the entries without gaps, filled from the day before, and does a day on which a job was asked for get its entry? | both graphs, 4 days, 2 jobs, 1 death, midnight anywhere |

Two more runs find a counterexample to what the repository says of itself;
they are under [findings](#what-the-code-does-that-a-reader-may-not-expect).

What the properties say (each is stated in words above its definition):

- `CurrentLifetimeInColumn`, `LifetimeLeakBounded`, `MoveRestartsStage`:
  Unarchiver starts a lifetime and finishes none, so a card moved while
  archived has two open lifetimes once it is back.  They never become three,
  the newest is always that of the card's column, and the next move closes
  both.
- `ClosedAtDriftsOnGithubOnly`, `StatsJobRepairsClosedAt`: no sequence of the
  board's own requests takes `closed_at` away from GitHub's, and a queued job
  brings back what was changed on GitHub, for the issues it looks at.  (Closed
  issues older than the board are not looked at.)
- `OrderHasNoDuplicates`, `ColumnShowsItsCards`, `ForcedMoveComesFirst`: as the
  names say, for orders of any age.
- `OpenLifetimesBounded`: with `P` processes at most `1 + P(P+1)/2` lifetimes
  of a card are open, plus one for each death.  One process leaks one, through
  Unarchiver; one that has read the row and not yet written can be overtaken by
  all that the others leak.
- `LoneMoveHeals`: whatever races and deaths have left, a move to another
  column that no request on the card and no job overlaps leaves one open
  lifetime, that of the new column, and no ready label.
- `QuietClosedAtAgrees`: racing close and reopen requests may leave any
  `closed_at`, but the job that the last of them enqueues has the final word.
  It needs columns without automatic closing (Mover closes and enqueues
  nothing) and one Sidekiq thread: with the two threads of
  `config/deploy/production.rb:16` two stats jobs of a board can overlap, and
  the one that fetched first may write last.
- `SerialImplementsColumnList`, `SerialCardsStandInColumns`: until requests
  overlap.  `DenseTransportSwaps`, `LoneTransportRenumbers`: an undisturbed
  move renumbers from 1 whatever it finds, and on orders without gaps it swaps
  two neighbours.  `RemovalKeepsCards`: always.
- `SerialCacheAgrees`: until requests overlap or webhooks are lost or twisted,
  the entry is complete and current whenever nothing is under way, whatever was
  changed between the two calls of a fetch.  `LoneRequestAdvances`: always, for
  a request that nothing overlaps; for the issue the request itself changed,
  the cache may go back from a later copy to GitHub's answer (the webhook of
  the later change then comes).  `LoneSyncCounts`: opening an issue repairs its
  count of comments.
- `WholeJobsLeaveNoGap`, `FilledFromDayBefore`: until a job dies or runs across
  midnight, however jobs overlap.  `AskedDayIsCollected`: always, under
  fairness.
- `PatientWindowAgrees`, `PatientBoardAgrees`: a user who waits for each answer
  sees the issue as it is, and the card stands once on the board, as it is now,
  even if the window was opened over an old card.  What a move changes on the
  server (assignee, ready, state) the window does not read, so these three are
  promised only without a move.
- `ClicksCommute`: the ready button, new and deleted comments may overtake each
  other after the first two answers; the rest may not.
- `SubmittedTextSafe`: the form is emptied by the answer, so a submitted comment
  is in the form, on its way, or stored.  `SavingEnds`: a form goes pale while
  its text is saved, and comes back, unless a request is lost or refused.
- `PageShowsState`: after each task the page below the window is what its
  components would render from nothing with the states they have, ids, order,
  text and checkboxes included, and no node that stayed lost the focus, nor its
  caret the place while its text stayed.
- `IdleIsClean`: between tasks no batch is open, events are let in, no component
  waits; listeners and cache entries are those of mounted nodes.
- `HandlersAsNested`: an event runs the handlers of the nodes it is in, as the
  page nests them, down and up, until one stops it: computed by the code from
  ids, by the property from the page.
- `CalledAsPromised`: a callback of `setState` runs once, after all updates of
  the batch, unless its component is gone.

The four properties of `react` except the windows that an exception has cost an
update (`hurt`), and say that no other window suffers.

**Bounds.**  Two issues are enough for the interference the code has between
issues (largest number, shared order, shared hash); statements of a request
touch one issue, so races are checked on one.  Two columns already give
"another column" and "the last column"; three are used where neighbours on both
sides (`columns`) or a column that is neither first nor last
(`requests_serial`) matter.  Two processes give every pairwise interleaving;
`requests_closed_at` has three because a close, a reopen and the job are
needed.  `MaxClosings` is 1 where closing again changes nothing the properties
see, 2 or 3 where an old answer must be told from a new one.  In `cache` the
first issue has three versions: with two, a change on GitHub could not follow a
request's own change.  Four days are the fewest in which two missing days are
filled after a day that differs from the first.  In `window` three clicks are a
change, one that overtakes it, and opening the window again; each user keeps to
one of five sets of buttons (`FiveUses`), chosen so that the buttons that act on
the same part of the issue are together; the issue starts closed, from where
every state button can be reached.  In `react` four tasks are enough to open a
window, change it, replace it, and let an answer for the old one arrive; the
rows are chosen so that from list to list children move in both directions, come,
go and change type under one key, and the keys `a` and `a.b` begin alike and hold
a separator.  Numbers are `MaxClosings`, `MaxCrashes`, `MaxVersion`,
`MaxComments`, `MaxPayloads`, `MaxDay`, `MaxClicks`, `MaxCalls`, `MaxMishaps`,
`MaxWindows`, `MaxTasks`; each is a guard and named in the module.

**Deadlock** is checked by `lifecycle`, `lifecycle_order`, `requests_race`,
`requests_closed_at` and `graph_entries`.  It is not checked where the bounds or
the code let the system stop: a board without columns refuses every request on
columns (`columns`), in `requests_serial` and `cache` a process may wait for a
closing or a version beyond the bound, and in `window` and `react` clicks and
tasks run out.

**Fairness.**  `IssueLifecycle!FairSpec` has weak fairness of `SyncStats`, and
`GraphHistories!FairSpec` of the work of each thread: Sidekiq takes a queued job
and works on (and a death puts the job back; deaths are bounded).
`IssueWindow!FairSpec` has it of the server and of the arrival of answers: a
request that is not lost is executed and answered.  Nobody has to click, look at
a graph, or let a day pass, and GitHub does nothing anybody relies on.

## Theorems

Everything here is proved for every value of the constants that the named
assumptions allow: any number of issues, columns, processes, days and comments,
every bound.  The runs check the same definitions on small instances.

| module | theorem | says |
|---|---|---|
| `IssueLifecycleProofs` | `TypeCorrect` | `Spec => []TypeOK` |
| | `LifetimesFollowColumns` | `Spec => []CurrentLifetimeInColumn` |
| | `LifetimeLeakIsBounded` | `Spec => []LifetimeLeakBounded` |
| | `ClosedAtAgrees` | `Spec => []ClosedAtDriftsOnGithubOnly` |
| | `OrdersAreSets` | `Spec => []OrderHasNoDuplicates` |
| | `MovesRestartStages` | `Spec => MoveRestartsStage` |
| | `ColumnsShowTheirCards` | `Spec => []ColumnShowsItsCards` |
| | `ForcedMovesComeFirst` | `Spec => ForcedMoveComesFirst` |
| | `StatsJobWaitsOrRepairs` | `Spec => [][statsJob => statsJob' \/ ClosedAtRepaired']_vars` |
| | `LifecycleImplementsCardBoard` | `Spec => ImplementsCardBoard` |
| `IssueRequestsProofs` | `RequestTypes` | `ReqSpec => []ReqTypeOK` |
| | `RequestsImplementCardBoard` | `ReqSpec => ImplementsCardBoard` |
| | `LoneMovesHeal` | `ReqSpec => LoneMoveHeals` |
| | `OpenLifetimesHold` | `ReqSpec => []OpenLifetimesBounded` |
| | `QuietClosedAt` | `ReqSpec => []QuietClosedAtAgrees`, if `AutoClose = {}`, `Threads <= 1`, `MaxCrashes = 0` |
| | `RequestsImplementLifecycle` | `SerialSpec => ImplementsLifecycle` |
| `BoardColumnsProofs` | `ColumnsTypes` | `Spec => []ColumnsTypeOK` |
| | `RemovalKeepsCardsHolds` | `Spec => RemovalKeepsCards` |
| | `SerialCardsStandInColumnsHolds` | `Spec => []SerialCardsStandInColumns` |
| | `LoneTransportRenumbersHolds` | `Spec => LoneTransportRenumbers` |
| | `DenseTransportSwapsHolds` | `Spec => DenseTransportSwaps` |
| | `ColumnsImplementColumnList` | `Spec => SerialImplementsColumnList` |
| `IssueCacheProofs` | `CacheTypes` | `Spec => []CacheTypeOK` |
| | `LoneRequestsAdvance` | `Spec => LoneRequestAdvances` |
| | `LoneSyncsCount` | `Spec => LoneSyncCounts` |
| | `SerialCacheCatchesUp` | `Spec => []SerialCacheAgrees` |
| `GraphHistoriesProofs` | `GraphTypes` | `Spec => []GraphTypeOK` |
| | `WholeJobsLeaveNoGapHolds` | `Spec => []WholeJobsLeaveNoGap` |
| | `FilledFromDayBeforeHolds` | `Spec => []FilledFromDayBefore` |
| | `AskedDayHasAJob` | `Spec => []AskedDayIsUnderWay` |
| `IssueWindowProofs` | `WindowTypes` | `Spec => []WindowTypeOK` |
| | `SubmittedTextSafeHolds` | `Spec => []SubmittedTextSafe` |
| | `PatientBoardAgreesHolds` | `Spec => []PatientBoardAgrees` |
| | `PatientWindowAgreesHolds` | `Spec => []PatientWindowAgrees` |
| | `ClicksCommuteHolds` | `Spec => []ClicksCommute` |
| | `SavingAwaitsItsAnswer` | `Spec => []SavingAwaitsAnswer` |
| `ReactIdsProofs` | `ParentOfChild` | the parent that is read off a child's id is the id it was made under |
| | `IdTellsParentAndName` | `CreateReactID` is injective |
| | `AncestorsOfChild` | the ancestors of a child are itself and those of its parent |
| | `RootOfChild` | a child belongs to the root of its parent |
| | `EventsGoDown`, `EventsBubbleUp` | an event goes through the ancestors of its target, all of them, each once, downwards and upwards |
| | `KeysStayApart` | different keys stay different when they are escaped, and hold no separator |
| | `SiblingsHaveTheirOwnNames` | siblings have one name only for one key or one place |
| | `ChildrenMountApart` | the children that mount have different names |
| | `NoChildIsLost` | all children mount, in their order, unless two have one key |
| | `NoTwoNodesWithOneId` | one id is one parent, one key and, without a key, one place |

**Assumptions.**  Only those the modules name.  `NumbersAssumption`,
`ColumnsAssumption`, `InputsAssumption` (`IssueLifecycle`): finitely many
issues, numbered from 1, those older than the board first; the default and the
last column are columns; browsers send lists without duplicates.
`ProcsAssumption`: finitely many processes, the kinds of requests the code has.
`BoardColumns!ColumnsAssumption`: finitely many ids, a board starts with at
least two columns.  `CacheAssumption`: finitely many issues, at least one, and
finitely many processes; `NoneAssumption`: nil is neither an issue nor a hash.
`GraphAssumption` names the two graphs and bounds that are numbers;
`WindowAssumption` finite sets of columns, labels and pieces of text, that the window
has a user, and that "nobody" is none.  TLC evaluates all of them in the runs.  `QuietClosedAt` alone
has hypotheses of its own; each excludes something the code does that breaks
the property, and they are those the run `requests_closed_at` sets (see
[Runs](#runs)).

**IssueLifecycle.**  Neither lifetime property is inductive alone.  `Unarchive`
opens a lifetime in the card's column without looking, so the bound of two for a
visible card needs the bound of one for an archived card; `Synchronize` moves
archived cards without touching their lifetimes, so "the newest lifetime is the
column's" holds only for visible cards and survives `Unarchive` because that
appends the current column; and a request that finds no row makes one *as the
variables stand*, so `BlankRows` says that a number without a row has the
default column, no lifetime and no `closed_at`.  `LifetimeInv` is the
conjunction of the three.  That it is kept is proved once, for an abstract step
(`CardStep`, `RowStep`: what may happen to one card), by
`CardStepKeepsLifetimeInv`; `NextCardStep` shows that every action is such a
step for every card.  `MovesRestartStages` and the refinement reuse the same
invariants.  `ClosedAtAgrees` needs `BlankRows` too, because a new row copies
GitHub's `closed_at` over a blank.  `OrdersAreSets` rests on `PutFirstType`
(unshift, then uniq, keeps a list without duplicates).

**BoardView.**  Both theorems are about a fold over an order of any length.
`OrderLemmas!CountingUp` is what makes that possible: a set of numbers that has
0, and with each number below `N` the next, has all up to `N`.  The positions up
to which the fold has picked the right cards are such a set.  With it
`RecursionOnSubsets` and `RecursionOnNumbers` show that the functions behind
`FoldLeft` and behind a recursive definition exist, so that their equations may
be used.

**IssueRequests.**  Types are not inductive by themselves: a statement uses
what an earlier one has read.  `RequestInv` adds that a label tells which kinds
of request can be there (`LabelTells`), when a request knows its number
(`NumberTells`) and when its row exists (`RowTells`).  On it rest:

- `LoneMoveInv`: a request in `lone` shares its card with no other request and
  with no job, and nobody can be given its number, which GitHub has already.
  `HealTells` follows the move: its lifetimes are closed, then the new one is
  open, then the label is gone, then the column is written.
- `LeakInv` (with `GivenInv`) weighs what is open against what may still be
  opened.  Each request has one role for a card: it has closed all lifetimes
  and will open one ("moving"), has seen the card archived and will open one
  ("armed"), has opened it ("holding"), has closed all and will archive the
  card ("shelving"), or none of these.
  Twice the open lifetimes plus what the roles are worth (`Due`, and
  `DueShelved` while the card is archived) is at most `2 + P(P+1)` plus two for
  each death.  `Finish` pays for all, because it closes everything; a request
  that shelves gives every other process another round (`Rounds`).  The bound
  on the lifetimes alone is not kept by a single step.
- `ClosedAtInv`: for an issue that has not changed on GitHub itself, a
  difference between `closed_at` and GitHub has a reason that is under way: the
  job is queued, a close or reopen has yet to enqueue it (`Pending`), or a job
  at work will write the right value (`WillWrite`).
  `WritesTell` says that what a request is about to write is right or
  followed by a job; `OneJob` is the one thread; `NoRowInv` covers rows that
  are still to be made.

**SerialRequests.**  `SerialInv` is `RequestInv`, one request at a time, and
`Progress`: for every label, how far the lifecycle has come from the settled
state, in the words of the action of `IssueLifecycle` the request will have
been.  `GithubRows` is needed because a new number must find a blank row, and
because archiving what GitHub no longer lists must meet closed issues only.  A
last statement makes the action's step, every other one a stutter.

**BoardColumns.**  `ColumnsInv` has, besides types: `SerialInv`, until requests
overlap (whoever deletes a column found it empty, whoever is about to put cards
into one found it there); and `LoneInv`: the updates a lone transport has left
lead all columns to their places in one sequence (`LeadsTo`), so that the last
update leaves 1, 2, 3, ... whatever it began with.  For the refinement
`ListInv` adds that between transports no two columns have the same order.
`DenseTransportSwaps` is a fact about sorting numbers that are ten apart, of
which one has been moved by eleven.

**IssueCache.**  `VersionInv`: no copy, in the cache, in a request or in a
webhook, is ahead of GitHub.  `LoneInv`: the copy of a lone request is what the
cache holds, or was fetched after that was written.  `SerialInv`: until
something overlaps or is twisted, what the cache or a copy lacks is brought by a
webhook under way or by what the request at work will do, and the last webhook
of an issue tells its present state (`LastTells`, `CacheTells`, `BringsTells`).

**GraphHistories.**  `GraphInv` has, until a job dies or runs across midnight,
`WholeInv`: no entry is after today and all jobs work on today; the days a job
has left begin after the entry it copies and are filled from the latest on; two
jobs that fill one day fill it alike; every gap is being filled by somebody; an
entry was measured on its day or repeats the day before, or will once that is
filled.

**IssueWindow.**  Every action is shown to have one of a few effects on the
window, the cards and the two bags (`StepHasEffect` and its parts), and each
invariant is proved against the effects.  `TextInv`: whichever message carries a
submitted comment carries all that is unsaved.  `BoardInv`: a change that is
asked for is alone on its way, and every column shows the card rightly or is
about to be fetched.  `PatientInv`: what the window of a patient user may lack
while the comments are awaited (`Awaited`), a change is asked for (`Asked`), its
answer is under way (`Answered`) and otherwise (`Settled`).  `CommuteInv`: the
window and the server differ by the parity of the ready toggles under way, by
the comments whose creation is still to be answered, and by the deletions still
to be executed.

**ReactIds.**  Ids are sequences over any set of characters with the separator in
it; a name holds none, which `KeysStayApart` proves of escaped keys.  The walks
are recursive functions, the escaping is a fold: each is followed to its end by
`CountingUp`.  A turn of `TraverseParentPath` goes to the next beginning of the
target that ends at a boundary, so the visited ids are the ancestors in order of
length.  The theorems on names take places from 0 to 9, because the model writes
an index as one digit: no more than ten children without a key, where the code
has no such limit.  `HandlersAsNested` rests on these theorems, and on the page
being built with the ids, which is model-checked.

**What liveness rests on.**  Three theorems are the part of a liveness property
that has nothing to do with fairness: what must happen is always under way, and
no step loses it.  `StatsJobWaitsOrRepairs`: a queued stats job stays queued
until the step that repairs `closed_at` of the issues it looks at.
`AskedDayHasAJob`: a day that was asked for has its entry, or a job queued, or
one at work that will write that day, also when an older job overlaps with
midnight or jobs die.  `SavingAwaitsItsAnswer`: a pale form's own request or
answer is still to come, unless something was lost or refused; most of the proof shows of
the other clicks, edits, answers and windows that they make no form pale.

**Only model-checked.**  `StatsJobRepairsClosedAt`, `AskedDayIsCollected` and
`SavingEnds` are liveness properties: beyond the three theorems above they need
fairness and `ENABLED`, which the prover does not have.  `PageShowsState`,
`IdleIsClean`, `HandlersAsNested` and `CalledAsPromised` belong to `ReactDom`,
`ReactReconcile` and `ReactRuntime`, which follow the code in calling themselves
(a component mounts components, a flush starts a flush) and are written with
`RECURSIVE` operators, which the prover does not support; of these modules only
`ReactIds` is proved about.  What a walk over a list computes can be proved where
it is a fold or a recursive function, as above; the induction theorems of the
library itself cannot be used, as they take an operator as a parameter.  The two
properties under [findings](#what-the-code-does-that-a-reader-may-not-expect)
are refuted by their runs.

## What the code does that a reader may not expect

Shown by a run:

- `lifecycle_first_import`.  The mapper's spec says the first import makes rows
  for open issues only.  `last_number` is read when the first missing closed
  issue is met, after rows of open issues listed before it were made, so closed
  issues with larger numbers than those are imported too.
- `columns_removed_under_card`.  The settings page says only empty columns can
  be removed.  A card that is moved or created into the column between the
  check and the delete keeps a `column_id` that no longer exists, and the board
  fails for everybody.

Met while modelling, in the modules but not the subject of a run:

- The graphs draw entries one day apart.  A job that fills the missing
  days before midnight and saves after it leaves a day without an entry for good,
  and later points are drawn a day early; `torn` excepts it.
- A graph job that dies while it fills missing days, latest first, leaves a gap
  that its retry does not see (`base_worker.rb:22`).
- All columns can be removed, against the validation in `board.rb:15`; then
  `create` fails on nil, and new cards get no column.
- Moving a column towards a gap that a removal left only renumbers it.
- Every write of the cache, of a webhook too, renews `fetched_at`: a busy board
  is never fetched again (`update_base.rb:14`).
- A comment made while the entry is expired is counted by the fetch and again
  by `inc_comments_count`.
- Creator's `create!` fails when a board read has made the row first: the card
  then has no lifetime and is not put first.
- The window never reads the answer of a move (`main.js:166`), though the move
  may assign, close and clear the ready label: it shows the old values until it
  is opened again.  Comments are fetched once.
- A label click sends the whole list of labels as the window has it, over labels
  somebody else has set since.
- A comment whose request is lost leaves the form pale; ctrl-enter sends it
  again, the button does not come back.
- While any comment is open for editing, an image dropped on the comment form is
  taken for the other form's (`isNeedSkip`).
- A window that is opened again replaces the page under the old one, which React
  is never told (`show.coffee:65`): its instances, listeners and cached nodes
  stay, and a later answer for it throws in `getNode` while changes to children
  may be waiting in `updateQueue` (`bundle.js:14181`), where they stay.
- An exception ends the flush (`bundle.js:16308`): components behind it keep
  their old page until they are set again.  The development build that is shipped
  swallows exceptions of event handlers (`invokeGuardedCallback`).
- Two automatic assignments of the same person race: the second sees the
  assignee and clears it (`GithubApi::Issues#assign` toggles).

## Not modelled

- *Comments and checklists*: the counts in the cache are in `IssueCache`; the
  checklist numbers that racing jobs overwrite are planned.
- *Webhook registration, live updates, dragging, access, subscriptions, CFD
  snapshot, roadmap and control statistics*: planned, see below.
- *Caches of comments, events, labels, collaborators*: the same `Cached::Base`
  with no update but the fetch.
- *Issue window*: the date picker, how popovers look, the close button and the
  address bar, `focusToEnd`, the list of activities, the upload to S3 itself,
  readers' windows (`IsReadonly` has no run).
- *React*: server rendering, `propTypes` and warnings, context, updates of a
  mounted root, the other event plugins and browsers' fallbacks,
  pooling, more than one ref per class, lifecycle hooks other than
  `componentWillReceiveProps`, properties other than content, style and check
  mark, selections of more than one place.
- *Settings, exports, activities, docs*: single-attribute updates and read-only
  pages.  *Tracking, uploads, sessions, markdown, presenters*: input and
  output, formatting, other people's services.
- In the modelled parts: titles, labels, comments' texts, due dates,
  activities, WIP limits, the times of closed lifetimes, guests (their reads
  change nothing).

## Plan

Done, in this order: `CardBoard`, `IssueLifecycle`, `BoardView`,
`IssueLifecycleProofs`, `IssueRequests`, `SerialRequests`, `ColumnList`,
`BoardColumns`, `IssueCache`, `GraphHistories`, `IssueWindow`, the React
modules; then `OrderLemmas`, `BoardColumnsProofs`, `GraphHistoriesProofs`,
`IssueCacheProofs`, `IssueWindowProofs`, `IssueRequestsProofs`,
`ReactIdsProofs`.

Next modules:

1. `Hooks`: `GithubApi::Hooks`, `WebhookWorker` and the life of a board (create,
   destroy), several boards of one repository.  To be composed with
   `IssueCache`: webhooks are delivered only while a hook exists, and
   `SerialCacheAgrees` then depends on it.
2. `CfdSnapshot`: the total and the groups are two queries; against moves and
   creations of `IssueRequests`; the entry it writes is that of
   `GraphHistories`.  With it the graph algorithms as operators (cumulative
   builder, roadmap lanes, frequency and control statistics) against reference
   definitions over bounded inputs.
3. `BoardUpdates`: several browsers and the delays of their reloads (one browser
   is in `IssueWindow`), the two concurrent requests of a drag (`move_to` and
   `columns#update`), over
   `BoardView`.  Abstractly: a browser that is left alone ends up showing the
   board.
4. `Checklists`: `SyncChecklist` and `CheckboxSynchronizer` against edits of
   comments.
5. `Access` and `Subscriptions`: the rules of `Ability` and `BoardBag` as
   operators, the check and the two writes of early access.

Next proofs:

1. What `QuietClosedAt` becomes with automatic closing: which difference a move
   may leave, and that the next job repairs it.
2. The listeners of `ReactListeners` by name and id, apart from the page: that a
   listener is there exactly while its component is mounted.
