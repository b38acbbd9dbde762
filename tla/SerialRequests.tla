---------------------------- MODULE SerialRequests ----------------------------
(***************************************************************************)
(* IssueRequests when nothing overlaps and nothing dies: every request and *)
(* job, taken as a whole, is then one action of IssueLifecycle.  The atomic *)
(* lifecycle is what the statements do when they are left alone.           *)
(***************************************************************************)
EXTENDS IssueRequests

VARIABLE before  \* history: the lifecycle as the request in progress found it

serialVars == <<allVars, before>>

AllIdle == \A p \in Procs : req[p] = Idle

Lifecycle ==
    [ghState |-> ghState, closings |-> closings, aged |-> aged,
     assigned |-> assigned, tracked |-> tracked, column |-> column,
     archived |-> archived, ready |-> ready, closedAt |-> closedAt,
     opened |-> opened, order |-> order, statsJob |-> statsJob,
     drifted |-> drifted]

SerialInit == ReqInit /\ before = Lifecycle

SerialNext ==
    /\ \/ AllIdle /\ ((\E p \in Procs : Begin(p)) \/ Environment)
       \/ \E p \in Procs : Continue(p)
    /\ before' = IF AllIdle THEN Lifecycle ELSE before

SerialSpec == SerialInit /\ [][SerialNext]_serialVars

\* What a reader of the database sees between requests.
Settled == IF AllIdle THEN Lifecycle ELSE before

Atomic == INSTANCE IssueLifecycle WITH
    ghState  <- Settled.ghState,
    closings <- Settled.closings,
    aged     <- Settled.aged,
    assigned <- Settled.assigned,
    tracked  <- Settled.tracked,
    column   <- Settled.column,
    archived <- Settled.archived,
    ready    <- Settled.ready,
    closedAt <- Settled.closedAt,
    opened   <- Settled.opened,
    order    <- Settled.order,
    statsJob <- Settled.statsJob,
    drifted  <- Settled.drifted

\* Left alone, the statements of each service object, in the order of the
\* code and with the copies it keeps, add up to the request as a whole.
ImplementsLifecycle == Atomic!Spec
=============================================================================
