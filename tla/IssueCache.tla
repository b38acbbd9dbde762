------------------------------ MODULE IssueCache ------------------------------
(***************************************************************************)
(* The cached issues of a board: one memcached entry holds the hash of all *)
(* issues (Cached::Issues), requests read it, fetch it when it is five     *)
(* minutes old, change one issue in their own copy and write the copy back *)
(* as a whole (BoardBag#update_cache); webhooks do the same.               *)
(*                                                                         *)
(* An issue is its state, its count of comments and a version that grows   *)
(* with every other change.  Time is "fresh": false once five minutes have *)
(* passed since the last write.  Issues so old that GitHub no longer lists *)
(* them are left to IssueLifecycle.                                        *)
(***************************************************************************)
EXTENDS Integers, SequencesExt

CONSTANTS
    Numbers,      \* issue numbers
    Procs,        \* processes that serve requests and webhooks
    Kinds,        \* the kinds of requests of this instance
    None,         \* no entry, no issue, no copy
    Repositories, \* the issues a board may start with
    MaxVersion,   \* bound: versions of each issue
    MaxComments,  \* bound: comments ever made on each issue
    MaxPayloads   \* bound: webhooks under way

ASSUME CacheAssumption ==
    /\ IsFiniteSet(Numbers) /\ IsFiniteSet(Procs) /\ Numbers # {}
    /\ Kinds \subseteq {"read", "change", "move", "comment", "uncomment", "sync"}
    /\ Repositories \subseteq
           [Numbers -> {None} \cup [version : {1}, open : BOOLEAN, comments : {0}]]
    /\ MaxVersion \in [Numbers -> Nat]
    /\ MaxComments \in [Numbers -> Nat]
    /\ MaxPayloads \in Nat

VARIABLES
    github,    \* the issues on GitHub
    posted,    \* history: how many comments were ever made
    payloads,  \* webhooks that GitHub has sent and nobody has received
    cache,     \* the value of the entry
    fresh,     \* fetched_at is less than five minutes ago
    req,       \* what each process works on, and its copy of the hash
    lone,      \* history: requests that no other request overlaps
    twisted    \* history: requests have overlapped, or webhooks were lost or
               \* came in another order than the changes

cacheVars == <<cache, fresh>>
ghVars    == <<github, posted>>
history   == <<lone, twisted>>
vars      == <<ghVars, payloads, cacheVars, req, history>>


Issue   == [version : Nat \ {0}, open : BOOLEAN, comments : Nat]
Hash    == [Numbers -> Issue \cup {None}]
Copy    == [version : Nat \ {0}, open : BOOLEAN, comments : Int]
Copies  == [Numbers -> Copy \cup {None}]
NoIssue == [n \in Numbers |-> None]

ASSUME NoneAssumption == None \notin Copy /\ None \notin Copies

\* copy is BoardBag's @issues_hash, issue the answer of GitHub.
Idle == [kind |-> "none", at |-> "idle", n |-> CHOOSE n \in Numbers : TRUE,
         copy |-> None, issue |-> None, again |-> FALSE]

At(p, label) == req[p].at = label
Become(p, r) == /\ req' = [req EXCEPT ![p] = r]
                /\ lone' = {q \in lone : req'[q] # Idle}
                /\ UNCHANGED twisted

Busy == \E p \in Procs : req[p] # Idle

-----------------------------------------------------------------------------
(* GitHub.                                                                  *)

Exists(n) == github[n] # None
NewIssue  == [version |-> 1, open |-> TRUE, comments |-> 0]
HasRoom(n) == Exists(n) => github[n].version < MaxVersion[n]

Changes(issue) ==
    {[issue EXCEPT !.version = issue.version + 1],
     [issue EXCEPT !.version = issue.version + 1, !.open = ~issue.open]}

\* A change of an issue, and the webhook that tells of it.
ChangeIssue(n, issue) ==
    /\ HasRoom(n)
    /\ Len(payloads) < MaxPayloads
    /\ github' = [github EXCEPT ![n] = issue]
    /\ payloads' = Append(payloads, [n |-> n, issue |-> issue])

GithubChange(n) ==
    /\ \/ /\ Exists(n)
          /\ \E issue \in Changes(github[n]) : ChangeIssue(n, issue)
       \/ /\ ~Exists(n)
          /\ ChangeIssue(n, NewIssue)
    /\ UNCHANGED <<posted, cacheVars, req, history>>

LosePayload ==
    /\ \E i \in 1..Len(payloads) : payloads' = RemoveAt(payloads, i)
    /\ twisted' = TRUE
    /\ UNCHANGED <<ghVars, cacheVars, req, lone>>

-----------------------------------------------------------------------------
(* Requests.  Each starts with a new BoardBag, and so without a copy.       *)

Arrive(p, kind, n) ==
    /\ req[p] = Idle
    /\ kind \in Kinds
    /\ kind # "read" => Exists(n)
    /\ kind \in {"change", "move"} => HasRoom(n)
    /\ kind \in {"comment", "uncomment", "sync"} => MaxComments[n] > 0
    /\ req' = [req EXCEPT ![p] =
                   [Idle EXCEPT !.kind = kind, !.n = n, !.again = (kind = "move"),
                                !.at = IF kind = "read" THEN "current"
                                                        ELSE "github"]]
    /\ lone' = IF Busy THEN {} ELSE {p}
    /\ twisted' = (twisted \/ Busy)
    /\ UNCHANGED <<ghVars, payloads, cacheVars>>

\* github_api.update_issue, assign, close, reopen: the answer is the changed
\* issue.  Mover calls GitHub twice, to assign and to close, and still has
\* the copy of the first time for the second.
AskGithub(p) ==
    LET r == req[p] IN
    /\ At(p, "github")
    /\ r.kind \in {"change", "move"}
    /\ \E issue \in Changes(github[r.n]) :
           /\ ChangeIssue(r.n, issue)
           /\ Become(p, [r EXCEPT !.issue = issue,
                                  !.at = IF r.copy = None THEN "current" ELSE "put"])
    /\ UNCHANGED <<posted, cacheVars>>

\* CommentsController#create, #delete: no webhook tells of comments.
Delta(r) == IF r.kind = "comment" THEN 1 ELSE -1

Comment(p) ==
    LET r == req[p] IN
    /\ At(p, "github")
    /\ r.kind \in {"comment", "uncomment"}
    /\ IF r.kind = "comment" THEN posted[r.n] < MaxComments[r.n]
                             ELSE github[r.n].comments > 0
    /\ github' = [github EXCEPT ![r.n].comments = @ + Delta(r)]
    /\ posted' = IF r.kind = "comment" THEN [posted EXCEPT ![r.n] = @ + 1]
                                       ELSE posted
    /\ Become(p, [r EXCEPT !.at = "current"])
    /\ UNCHANGED <<payloads, cacheVars>>

\* CommentsController#index fetches the comments and counts them.
CountComments(p) ==
    LET r == req[p] IN
    /\ At(p, "github")
    /\ r.kind = "sync"
    /\ Become(p, [r EXCEPT !.issue = github[r.n], !.at = "current"])
    /\ UNCHANGED <<ghVars, payloads, cacheVars>>

-----------------------------------------------------------------------------
(* Cached::Base#call                                                        *)

\* What follows when the request has its copy.
AfterCopy(r) ==
    IF r.kind = "read" \/ (r.kind \in {"comment", "uncomment", "sync"}
                           /\ r.copy[r.n] = None)
    THEN Idle
    ELSE [r EXCEPT !.at = "put"]

Expired == cache = None \/ ~fresh

Current(p) ==
    LET r == req[p] IN
    /\ At(p, "current")
    /\ IF Expired THEN Become(p, [r EXCEPT !.at = "fetch_open"])
                  ELSE Become(p, AfterCopy([r EXCEPT !.copy = cache]))
    /\ UNCHANGED <<ghVars, payloads, cacheVars>>

\* GithubApi::Issues#issues: two calls, and the hash keeps the later copy.
FetchOpen(p) ==
    LET r == req[p] IN
    /\ At(p, "fetch_open")
    /\ Become(p, [r EXCEPT
           !.at   = "fetch_closed",
           !.copy = [n \in Numbers |-> IF Exists(n) /\ github[n].open
                                       THEN github[n] ELSE None]])
    /\ UNCHANGED <<ghVars, payloads, cacheVars>>

OpenOnly(copy)   == copy                                          \* mutant
WithClosed(copy) == [n \in Numbers |-> IF Exists(n) /\ ~github[n].open
                                       THEN github[n] ELSE copy[n]]

FetchClosed(p) ==
    LET r == req[p] IN
    /\ At(p, "fetch_closed")
    /\ Become(p, [r EXCEPT !.at = "store", !.copy = WithClosed(r.copy)])
    /\ UNCHANGED <<ghVars, payloads, cacheVars>>

\* Cached::UpdateBase: whatever is written is as good as fetched just now.
WriteNothing(hash) == cache' = None /\ fresh' = TRUE              \* mutant
Write(hash) == cache' = hash /\ fresh' = TRUE

Store(p) ==
    LET r == req[p] IN
    /\ At(p, "store")
    /\ Write(r.copy)
    /\ Become(p, AfterCopy(r))
    /\ UNCHANGED <<ghVars, payloads>>

-----------------------------------------------------------------------------
(* BoardBag#update_cache: one issue changes in the copy, all are written.   *)

Recounted(r) ==                                                   \* mutant
    IF r.kind \in {"change", "move", "webhook"} THEN r.issue
    ELSE [r.copy[r.n] EXCEPT !.comments = @ + Delta(r)]
Updated(r) ==
    CASE r.kind \in {"change", "move"} -> r.issue
      [] r.kind \in {"comment", "uncomment"} ->
             [r.copy[r.n] EXCEPT !.comments = @ + Delta(r)]
      [] r.kind = "sync" ->
             [r.copy[r.n] EXCEPT !.comments = r.issue.comments]
      [] r.kind = "webhook" -> r.issue

OneOnly(r)  == [NoIssue EXCEPT ![r.n] = Updated(r)]               \* mutant
Replaced(r) == [r.copy EXCEPT ![r.n] = Updated(r)]

Put(p) ==
    LET r == req[p] IN
    /\ At(p, "put")
    /\ Write(Replaced(r))
    /\ Become(p, IF r.again
                 THEN [r EXCEPT !.at = "github", !.copy = Replaced(r),
                                !.again = FALSE]
                 ELSE Idle)
    /\ UNCHANGED <<ghVars, payloads>>

\* WebhooksController#github: an entry of any age is read, one that is not
\* there is not made.
KnownOnly(copy, n) == copy # None /\ copy[n] # None               \* mutant
Refreshes(copy, n) == copy # None

Receive(p) ==
    /\ req[p] = Idle
    /\ \E i \in 1..Len(payloads) :
           LET w == payloads[i] IN
           /\ payloads' = RemoveAt(payloads, i)
           /\ IF Refreshes(cache, w.n)
              THEN /\ req' = [req EXCEPT ![p] =
                          [Idle EXCEPT !.kind = "webhook", !.at = "put",
                                       !.n = w.n, !.issue = w.issue,
                                       !.copy = cache]]
              ELSE UNCHANGED req
           /\ lone' = IF req' = req THEN lone ELSE {}
           /\ twisted' = (twisted \/ Busy \/ i > 1)
    /\ UNCHANGED <<ghVars, cacheVars>>

-----------------------------------------------------------------------------
\* Five minutes without a write, longer than any request takes.
Expire ==
    /\ cache # None
    /\ ~Busy
    /\ fresh
    /\ fresh' = FALSE
    /\ UNCHANGED <<ghVars, payloads, cache, req, history>>

\* memcached drops an entry, or its month is over.
Evict ==
    /\ cache # None
    /\ cache' = None
    /\ fresh' = FALSE
    /\ UNCHANGED <<ghVars, payloads, req, history>>

Init ==
    /\ github \in Repositories
    /\ posted = [n \in Numbers |-> 0]
    /\ payloads = <<>>
    /\ cache = None
    /\ fresh = FALSE
    /\ req = [p \in Procs |-> Idle]
    /\ lone = {}
    /\ twisted = FALSE

Step(p) ==
    \/ \E n \in Numbers, kind \in Kinds : Arrive(p, kind, n)
    \/ Receive(p)    \/ AskGithub(p)  \/ Comment(p)  \/ CountComments(p)
    \/ Current(p)    \/ FetchOpen(p)  \/ FetchClosed(p)
    \/ Store(p)      \/ Put(p)

Next ==
    \/ \E p \in Procs : Step(p)
    \/ \E n \in Numbers : GithubChange(n)
    \/ LosePayload
    \/ Expire
    \/ Evict

Spec == Init /\ [][Next]_vars

-----------------------------------------------------------------------------
CacheTypeOK ==
    /\ github \in Hash
    /\ posted \in [Numbers -> Nat]
    /\ payloads \in Seq([n : Numbers, issue : Issue])
    /\ cache \in Copies \cup {None}
    /\ fresh \in BOOLEAN
    /\ cache = None => ~fresh
    /\ lone \subseteq {p \in Procs : req[p] # Idle}
    /\ twisted \in BOOLEAN
    /\ \A p \in Procs :
           /\ req[p].kind \in Kinds \cup {"none", "webhook"}
           /\ req[p].n \in Numbers
           /\ req[p].copy \in Copies \cup {None}
           /\ req[p].issue \in Issue \cup {None}

\* A request that overlaps no other request and no webhook takes no issue it
\* did not change out of the cache and none back to an older copy, whatever
\* people change on GitHub meanwhile; the issue it did change is there as
\* GitHub answered it, even where a fetch has seen a later copy since.
LoneRequestAdvances ==
    [][\A p \in lone :
           LET r       == req[p]
               changes == At(p, "put") /\ r.kind \in {"change", "move"}
           IN
           cache' # cache /\ (At(p, "put") \/ At(p, "store")) /\ req'[p] # r
           => /\ changes => cache'[r.n] = r.issue
              /\ cache # None =>
                     \A n \in {m \in Numbers : cache[m] # None} :
                         /\ At(p, "put") => cache'[n] # None
                         /\ cache'[n] # None /\ ~(changes /\ n = r.n) =>
                                cache'[n].version >= cache[n].version]_vars

\* Opening an issue while nothing else runs sets its count of comments right,
\* whatever racing or repeated counting has made of it.
LoneSyncCounts ==
    [][\A p \in lone :
           LET r == req[p] IN
           At(p, "put") /\ r.kind = "sync" /\ req'[p] # r
               => cache'[r.n].comments = github[r.n].comments]_vars

\* As long as requests come one after the other and webhooks in the order of
\* the changes, the cache has caught up with GitHub as soon as nothing is
\* under way, however own changes, changes on GitHub and fetches were mixed:
\* every issue is in the entry, in its last version.
Quiet == payloads = <<>> /\ ~Busy
SerialCacheAgrees ==
    Quiet /\ ~twisted /\ cache # None =>
        \A n \in Numbers :
            Exists(n) => /\ cache[n] # None
                         /\ cache[n].version = github[n].version
                         /\ cache[n].open = github[n].open
=============================================================================
