--------------------------- MODULE IssueCacheProofs ---------------------------
(***************************************************************************)
(* Theorems about IssueCache, for any issues and any number of processes.  *)
(***************************************************************************)
EXTENDS IssueCache, OrderLemmas

Labels == {"idle", "github", "current", "fetch_open", "fetch_closed", "store",
           "put"}
Payload == [n : Numbers, issue : Issue]
Requests == [kind : Kinds \cup {"none", "webhook"}, at : Labels, n : Numbers,
             copy : Copies \cup {None}, issue : Issue \cup {None},
             again : BOOLEAN]

\* What a request is at, tells which request it is and what it has read.
LabelTells(r) ==
    /\ r.at = "idle" <=> r = Idle
    /\ r.at = "idle" <=> r.kind = "none"
    /\ r.at = "github" => r.kind \notin {"read", "webhook"}
    /\ r.kind = "webhook" => r.at = "put"
    /\ r.at \in {"fetch_closed", "store", "put"} => r.copy # None
    /\ r.at \notin {"idle", "github"} /\ r.kind \in {"change", "move", "sync", "webhook"}
           => r.issue # None
    /\ r.at = "put" => r.kind # "read"
    /\ r.at = "put" /\ r.kind \in {"comment", "uncomment", "sync"}
           => r.copy[r.n] # None
    /\ r.again => r.kind = "move"

TypeInv ==
    /\ github \in Hash
    /\ posted \in [Numbers -> Nat]
    /\ payloads \in Seq(Payload)
    /\ cache \in Copies \cup {None}
    /\ fresh \in BOOLEAN
    /\ cache = None => ~fresh
    /\ req \in [Procs -> Requests]
    /\ lone \subseteq {p \in Procs : req[p] # Idle}
    /\ twisted \in BOOLEAN
    /\ \A p \in Procs : /\ LabelTells(req[p])
                        /\ req[p].kind \notin {"none", "read", "webhook"} => Exists(req[p].n)

-----------------------------------------------------------------------------
\* No copy is ahead of GitHub, wherever it is.
IssueBehind(n, issue) == Exists(n) /\ issue.version <= github[n].version
HashBehind(hash) ==
    \A n \in Numbers : hash[n] # None => IssueBehind(n, hash[n])
RequestBehind(r) ==
    /\ r.copy # None => HashBehind(r.copy)
    /\ r.issue # None => IssueBehind(r.n, r.issue)
CacheBehind    == cache # None => HashBehind(cache)
PayloadsBehind ==
    \A i \in 1..Len(payloads) : IssueBehind(payloads[i].n, payloads[i].issue)
VersionInv     == /\ CacheBehind
                  /\ PayloadsBehind
                  /\ \A p \in Procs : RequestBehind(req[p])

\* What a request that overlaps no other knows of the cache: its copy is the
\* entry, or was fetched after the entry was written.
NotBefore(hash) ==
    \A n \in Numbers : hash[n] # None /\ cache[n] # None
                           => hash[n].version >= cache[n].version
LoneTells(p) ==
    LET r == req[p] IN
    /\ \A q \in Procs \ {p} : req[q] = Idle
    /\ r.kind # "webhook"
    /\ cache # None /\ r.copy # None =>
           IF r.at \in {"fetch_closed", "store"} THEN NotBefore(r.copy)
                                                 ELSE r.copy = cache
    /\ r.kind = "sync" /\ r.at # "github" => r.issue.comments = github[r.n].comments
LoneInv == \A p \in lone : LoneTells(p)

-----------------------------------------------------------------------------
\* A webhook that tells of the issue has been sent and not received.
Announced(n) == \E i \in 1..Len(payloads) : payloads[i].n = n
Agrees(n, issue) == /\ issue # None
                    /\ issue.version = github[n].version
                    /\ issue.open = github[n].open
LastTells ==
    \A i \in 1..Len(payloads) :
        (\A j \in (i + 1)..Len(payloads) : payloads[j].n # payloads[i].n)
        => Agrees(payloads[i].n, payloads[i].issue)

\* What the cache lacks, the request under way or a webhook will bring.
BringsTells(r) ==
    /\ r.kind = "webhook" => Announced(r.n) \/ Agrees(r.n, r.issue)
    /\ r.kind \in {"change", "move"} /\ r.issue # None => Announced(r.n)
    /\ r.copy # None => \A n \in Numbers :
           Exists(n) /\ (r.at = "fetch_closed" => github[n].open)
           => \/ Announced(n)
              \/ Agrees(n, r.copy[n])
              \/ r.kind = "webhook" /\ r.n = n
OneBusy    == \A p, q \in Procs : req[p] # Idle /\ req[q] # Idle => p = q
CacheTells ==
    cache # None => \A n \in Numbers :
        Exists(n) => \/ Announced(n)
                     \/ Agrees(n, cache[n])
                     \/ \E p \in Procs : req[p].kind = "webhook" /\ req[p].n = n
SerialInv  == ~twisted => /\ OneBusy
                          /\ LastTells
                          /\ CacheTells
                          /\ \A p \in Procs : BringsTells(req[p])

-----------------------------------------------------------------------------
(***************************************************************************)
(* What the steps of a process do to its request.                          *)
(***************************************************************************)

\* A process has no request at first.
LEMMA IdleIsRequest == Idle \in Requests /\ LabelTells(Idle)
<1>1. (CHOOSE n \in Numbers : TRUE) \in Numbers
  BY CacheAssumption DEF CacheAssumption
<1> QED BY <1>1 DEF Idle, Requests, Labels, LabelTells

\* The request of p is at l now, with that copy and that issue; or it ends.
Only(p) == /\ \E t : req' = [req EXCEPT ![p] = t]
           /\ \A q \in Procs \ {p} : req'[q] = req[q]
Turns(p, l, copy, issue) ==
    /\ Only(p)
    /\ req'[p] \in [kind : {req[p].kind}, at : {l}, n : {req[p].n},
                    copy : {copy}, issue : {issue}, again : {req[p].again, FALSE}]
    /\ lone' = {q \in lone : req'[q] # Idle}
    /\ UNCHANGED twisted
Ends(p) ==
    /\ Only(p)
    /\ req'[p] = Idle
    /\ lone' = {q \in lone : req'[q] # Idle}
    /\ UNCHANGED twisted

\* Become is either of them.
LEMMA Becomes ==
    ASSUME req \in [Procs -> Requests], NEW p \in Procs, NEW t, Become(p, t)
    PROVE  /\ req' = [req EXCEPT ![p] = t] /\ req'[p] = t
           /\ t = Idle => Ends(p)
           /\ \A l, copy, issue :
                  t \in [kind : {req[p].kind}, at : {l}, n : {req[p].n},
                         copy : {copy}, issue : {issue},
                         again : {req[p].again, FALSE}]
                  => Turns(p, l, copy, issue)
BY DEF Become, Ends, Turns, Only

\* The answer of GitHub is the changed issue.
LEMMA AskEffect ==
    ASSUME TypeInv, NEW p \in Procs, AskGithub(p)
    PROVE  /\ req[p].at = "github" /\ req[p].kind \in {"change", "move"}
           /\ \E issue \in Changes(github[req[p].n]) :
                  /\ ChangeIssue(req[p].n, issue)
                  /\ \/ req[p].copy = None /\ Turns(p, "current", None, issue)
                     \/ req[p].copy # None /\ Turns(p, "put", req[p].copy, issue)
           /\ UNCHANGED <<posted, cacheVars>>
<1>1. PICK r \in Requests : r = req[p]
  BY DEF TypeInv
<1>2. PICK issue \in Changes(github[r.n]) :
          /\ ChangeIssue(r.n, issue)
          /\ Become(p, [r EXCEPT !.issue = issue,
                                 !.at = IF r.copy = None THEN "current" ELSE "put"])
  BY <1>1, Zenon DEF AskGithub
<1>3. PICK l : l = IF r.copy = None THEN "current" ELSE "put"
  OBVIOUS
<1> DEFINE t == [r EXCEPT !.issue = issue, !.at = l]
<1>4. t \in [kind : {r.kind}, at : {l}, n : {r.n}, copy : {r.copy},
             issue : {issue}, again : {r.again, FALSE}]
  BY DEF Requests
<1>5. Become(p, t)
  BY <1>2, <1>3
<1> HIDE DEF t
<1>6. Turns(p, l, r.copy, issue)
  BY <1>1, <1>4, <1>5, Becomes DEF TypeInv
<1> QED BY <1>1, <1>2, <1>3, <1>6 DEF AskGithub, At

\* Comments are made and counted before the copy is taken.
LEMMA CommentEffect ==
    ASSUME TypeInv, NEW p \in Procs, Comment(p)
    PROVE  /\ req[p].at = "github" /\ req[p].kind \in {"comment", "uncomment"}
           /\ Turns(p, "current", req[p].copy, req[p].issue)
           /\ github' \in Hash /\ posted' \in [Numbers -> Nat]
           /\ \A n \in Numbers : n # req[p].n => github'[n] = github[n]
           /\ \A n \in Numbers : Exists(n) =>
                  /\ github'[n] # None
                  /\ github'[n].version = github[n].version
                  /\ github'[n].open = github[n].open
           /\ \A n \in Numbers : github'[n] # None => Exists(n)
           /\ UNCHANGED <<payloads, cacheVars>>
<1>1. PICK r \in Requests : r = req[p]
  BY DEF TypeInv
<1>2. /\ r.at = "github" /\ r.kind \in {"comment", "uncomment"}
      /\ IF r.kind = "comment" THEN posted[r.n] < MaxComments[r.n]
                               ELSE github[r.n].comments > 0
      /\ UNCHANGED <<payloads, cacheVars>>
  BY <1>1 DEF Comment, At
<1>3. Turns(p, "current", r.copy, r.issue)
  <2> DEFINE t == [r EXCEPT !.at = "current"]
  <2>1. Become(p, t)
    BY <1>1 DEF Comment
  <2>2. t \in [kind : {r.kind}, at : {"current"}, n : {r.n}, copy : {r.copy},
               issue : {r.issue}, again : {r.again, FALSE}]
    BY DEF Requests
  <2> HIDE DEF t
  <2> QED BY <1>1, <2>1, <2>2, Becomes DEF TypeInv
<1>4. Exists(r.n) /\ r.n \in Numbers
  BY <1>1, <1>2 DEF TypeInv, Requests
<1>5. PICK old \in Issue : old = github[r.n]
  BY <1>4 DEF TypeInv, Hash, Exists
<1> DEFINE new == [old EXCEPT !.comments = old.comments + Delta(r)]
<1>6. github' = [github EXCEPT ![r.n] = new]
  BY <1>1, <1>5 DEF Comment
<1>7. new \in Issue /\ new.version = old.version /\ new.open = old.open
  BY <1>2, <1>5 DEF Issue, Delta
<1>8. new # None
  BY <1>7, NoneAssumption DEF NoneAssumption, Issue, Copy
<1> HIDE DEF new
<1>9. posted' \in [Numbers -> Nat]
  BY <1>1, <1>4 DEF Comment, TypeInv
<1>10. github' \in Hash
  BY <1>6, <1>7 DEF TypeInv, Hash
<1>11. /\ \A n \in Numbers : n # r.n => github'[n] = github[n]
       /\ github'[r.n] = new
  BY <1>4, <1>6 DEF TypeInv, Hash
<1> QED BY <1>1, <1>2, <1>3, <1>4, <1>5, <1>7, <1>8, <1>9, <1>10, <1>11 DEF Exists

\* So are the comments of an issue that is opened.
LEMMA CountEffect ==
    ASSUME TypeInv, NEW p \in Procs, CountComments(p)
    PROVE  /\ req[p].at = "github" /\ req[p].kind = "sync"
           /\ Turns(p, "current", req[p].copy, github[req[p].n])
           /\ UNCHANGED <<ghVars, payloads, cacheVars>>
<1>1. PICK r \in Requests : r = req[p]
  BY DEF TypeInv
<1> DEFINE t == [r EXCEPT !.issue = github[r.n], !.at = "current"]
<1>2. Become(p, t)
  BY <1>1 DEF CountComments
<1>3. t \in [kind : {r.kind}, at : {"current"}, n : {r.n}, copy : {r.copy},
             issue : {github[r.n]}, again : {r.again, FALSE}]
  BY DEF Requests
<1> HIDE DEF t
<1>4. Turns(p, "current", r.copy, github[r.n])
  BY <1>1, <1>2, <1>3, Becomes DEF TypeInv
<1> QED BY <1>1, <1>4 DEF CountComments, At

\* With its copy a request ends, or goes on to change it.
LEMMA AfterCopyEffect ==
    ASSUME TypeInv, NEW p \in Procs, NEW s \in Requests, Become(p, AfterCopy(s)),
           s.kind = req[p].kind, s.n = req[p].n, s.again = req[p].again
    PROVE  \/ Ends(p)
           \/ /\ Turns(p, "put", s.copy, s.issue)
              /\ s.kind # "read"
              /\ s.kind \in {"comment", "uncomment", "sync"} => s.copy[s.n] # None
<1>0. req \in [Procs -> Requests]
  BY DEF TypeInv
<1>1. CASE s.kind = "read" \/ (s.kind \in {"comment", "uncomment", "sync"}
                               /\ s.copy[s.n] = None)
  BY <1>0, <1>1, Becomes DEF AfterCopy
<1>2. CASE ~(s.kind = "read" \/ (s.kind \in {"comment", "uncomment", "sync"}
                                 /\ s.copy[s.n] = None))
  <2> DEFINE t == [s EXCEPT !.at = "put"]
  <2>1. Become(p, t)
    BY <1>2 DEF AfterCopy
  <2>2. t \in [kind : {s.kind}, at : {"put"}, n : {s.n}, copy : {s.copy},
               issue : {s.issue}, again : {s.again, FALSE}]
    BY DEF Requests
  <2> HIDE DEF t
  <2>3. Turns(p, "put", s.copy, s.issue)
    BY <1>0, <2>1, <2>2, Becomes
  <2> QED BY <1>2, <2>3
<1> QED BY <1>1, <1>2

\* The entry is copied, unless it has to be fetched.
LEMMA CurrentEffect ==
    ASSUME TypeInv, NEW p \in Procs, Current(p)
    PROVE  /\ req[p].at = "current"
           /\ \/ Turns(p, "fetch_open", req[p].copy, req[p].issue)
              \/ Ends(p)
              \/ /\ cache # None
                 /\ Turns(p, "put", cache, req[p].issue)
                 /\ req[p].kind # "read"
                 /\ req[p].kind \in {"comment", "uncomment", "sync"}
                        => cache[req[p].n] # None
           /\ UNCHANGED <<ghVars, payloads, cacheVars>>
<1>1. PICK r \in Requests : r = req[p]
  BY DEF TypeInv
<1>2. r.at = "current" /\ UNCHANGED <<ghVars, payloads, cacheVars>>
  BY <1>1 DEF Current, At
<1>3. CASE Expired
  <2> DEFINE t == [r EXCEPT !.at = "fetch_open"]
  <2>1. Become(p, t)
    BY <1>1, <1>3 DEF Current
  <2>2. t \in [kind : {r.kind}, at : {"fetch_open"}, n : {r.n}, copy : {r.copy},
               issue : {r.issue}, again : {r.again, FALSE}]
    BY DEF Requests
  <2> HIDE DEF t
  <2>3. Turns(p, "fetch_open", r.copy, r.issue)
    BY <1>1, <2>1, <2>2, Becomes DEF TypeInv
  <2> QED BY <1>1, <1>2, <2>3
<1>4. CASE ~Expired
  <2> DEFINE s == [r EXCEPT !.copy = cache]
  <2>1. Become(p, AfterCopy(s)) /\ cache # None
    BY <1>1, <1>4 DEF Current, Expired
  <2>2. /\ s \in Requests /\ s.kind = r.kind /\ s.n = r.n /\ s.again = r.again
        /\ s.copy = cache /\ s.issue = r.issue
    BY DEF Requests, TypeInv
  <2> HIDE DEF s
  <2> QED BY <1>1, <1>2, <2>1, <2>2, AfterCopyEffect
<1> QED BY <1>3, <1>4

\* Two calls fetch the issues.
LEMMA FetchOpenEffect ==
    ASSUME TypeInv, NEW p \in Procs, FetchOpen(p)
    PROVE  /\ req[p].at = "fetch_open"
           /\ Turns(p, "fetch_closed",
                    [n \in Numbers |-> IF Exists(n) /\ github[n].open
                                       THEN github[n] ELSE None], req[p].issue)
           /\ UNCHANGED <<ghVars, payloads, cacheVars>>
<1>1. PICK r \in Requests : r = req[p]
  BY DEF TypeInv
<1>2. PICK c : c = [n \in Numbers |-> IF Exists(n) /\ github[n].open
                                      THEN github[n] ELSE None]
  OBVIOUS
<1> DEFINE t == [r EXCEPT !.at = "fetch_closed", !.copy = c]
<1>3. Become(p, t)
  BY <1>1, <1>2 DEF FetchOpen
<1>4. t \in [kind : {r.kind}, at : {"fetch_closed"}, n : {r.n}, copy : {c},
             issue : {r.issue}, again : {r.again, FALSE}]
  BY DEF Requests
<1> HIDE DEF t
<1>5. Turns(p, "fetch_closed", c, r.issue)
  BY <1>1, <1>3, <1>4, Becomes DEF TypeInv
<1> QED BY <1>1, <1>2, <1>5 DEF FetchOpen, At

\* The closed ones come second, and hide the open ones.
LEMMA FetchClosedEffect ==
    ASSUME TypeInv, NEW p \in Procs, FetchClosed(p)
    PROVE  /\ req[p].at = "fetch_closed"
           /\ Turns(p, "store", WithClosed(req[p].copy), req[p].issue)
           /\ UNCHANGED <<ghVars, payloads, cacheVars>>
<1>1. PICK r \in Requests : r = req[p]
  BY DEF TypeInv
<1>2. PICK c : c = WithClosed(r.copy)
  OBVIOUS
<1> DEFINE t == [r EXCEPT !.at = "store", !.copy = c]
<1>3. Become(p, t)
  BY <1>1, <1>2 DEF FetchClosed
<1>4. t \in [kind : {r.kind}, at : {"store"}, n : {r.n}, copy : {c},
             issue : {r.issue}, again : {r.again, FALSE}]
  BY DEF Requests
<1> HIDE DEF t
<1>5. Turns(p, "store", c, r.issue)
  BY <1>1, <1>3, <1>4, Becomes DEF TypeInv
<1> QED BY <1>1, <1>2, <1>5 DEF FetchClosed, At

\* What was fetched is written as it is.
LEMMA StoreEffect ==
    ASSUME TypeInv, NEW p \in Procs, Store(p)
    PROVE  /\ req[p].at = "store"
           /\ cache' = req[p].copy /\ fresh' = TRUE
           /\ \/ Ends(p)
              \/ /\ Turns(p, "put", req[p].copy, req[p].issue)
                 /\ req[p].kind # "read"
                 /\ req[p].kind \in {"comment", "uncomment", "sync"}
                        => req[p].copy[req[p].n] # None
           /\ UNCHANGED <<ghVars, payloads>>
<1>1. req[p] \in Requests /\ Become(p, AfterCopy(req[p]))
  BY DEF TypeInv, Store
<1> QED BY <1>1, AfterCopyEffect DEF Store, Write, At

\* The changed issue is one, and in its place in the copy.
LEMMA UpdatedIssue ==
    ASSUME TypeInv, NEW p \in Procs, req[p].at = "put"
    PROVE  /\ Updated(req[p]) \in Copy /\ Updated(req[p]) # None
           /\ req[p].copy \in Copies /\ Replaced(req[p]) \in Copies
           /\ Replaced(req[p])[req[p].n] = Updated(req[p])
           /\ \A n \in Numbers : n # req[p].n => Replaced(req[p])[n] = req[p].copy[n]
           /\ req[p].kind \in {"change", "move", "webhook"} =>
                  req[p].issue \in Issue /\ Updated(req[p]) = req[p].issue
           /\ req[p].kind \in {"comment", "uncomment", "sync"} =>
                  /\ req[p].copy[req[p].n] # None
                  /\ Updated(req[p]).version = req[p].copy[req[p].n].version
                  /\ Updated(req[p]).open = req[p].copy[req[p].n].open
           /\ req[p].kind = "sync" => Updated(req[p]).comments = req[p].issue.comments
           /\ req[p].kind \in {"change", "move", "webhook", "comment", "uncomment", "sync"}
<1>1. PICK r \in Requests : r = req[p]
  BY DEF TypeInv
<1>2. LabelTells(r) /\ r.at = "put"
  BY <1>1 DEF TypeInv
<1>3. /\ r.kind \in {"change", "move", "webhook", "comment", "uncomment", "sync"}
      /\ r.n \in Numbers /\ r.copy \in Copies
  BY <1>2, CacheAssumption DEF CacheAssumption, LabelTells, Requests
<1>4. CASE r.kind \in {"change", "move", "webhook"}
  <2>1. Updated(r) = r.issue /\ r.issue \in Issue
    BY <1>2, <1>4 DEF Updated, LabelTells, Requests
  <2>2. r.issue \in Copy
    BY <2>1 DEF Issue, Copy
  <2>3. /\ Replaced(r) \in Copies
        /\ Replaced(r)[r.n] = Updated(r)
        /\ \A n \in Numbers : n # r.n => Replaced(r)[n] = r.copy[n]
    BY <1>3, <2>1, <2>2 DEF Replaced, Copies
  <2> QED BY <1>1, <1>3, <1>4, <2>1, <2>2, <2>3, NoneAssumption DEF NoneAssumption
<1>5. CASE r.kind \in {"comment", "uncomment", "sync"}
  <2>1. PICK old \in Copy : old = r.copy[r.n] /\ r.copy[r.n] # None
    BY <1>2, <1>3, <1>5 DEF LabelTells, Copies
  <2>2. r.kind = "sync" => r.issue \in Issue /\ r.issue.comments \in Nat
    BY <1>2 DEF LabelTells, Requests, Issue
  <2>3. PICK k \in Int : /\ Updated(r) = [old EXCEPT !.comments = k]
                         /\ r.kind = "sync" => k = r.issue.comments
    <3>1. CASE r.kind = "sync"
      BY <2>1, <2>2, <3>1 DEF Updated
    <3>2. CASE r.kind \in {"comment", "uncomment"}
      <4>1. old.comments + Delta(r) \in Int
        BY DEF Copy, Delta
      <4> QED BY <2>1, <3>2, <4>1 DEF Updated
    <3> QED BY <1>5, <3>1, <3>2
  <2>4. /\ Updated(r) \in Copy /\ Updated(r).version = old.version
        /\ Updated(r).open = old.open /\ Updated(r).comments = k
    BY <2>3 DEF Copy
  <2>5. /\ Replaced(r) \in Copies
        /\ Replaced(r)[r.n] = Updated(r)
        /\ \A n \in Numbers : n # r.n => Replaced(r)[n] = r.copy[n]
    BY <1>3, <2>4 DEF Replaced, Copies
  <2> QED BY <1>1, <1>3, <1>5, <2>1, <2>3, <2>4, <2>5, NoneAssumption DEF NoneAssumption
<1> QED BY <1>3, <1>4, <1>5

\* The copy is written as a whole.
LEMMA PutEffect ==
    ASSUME TypeInv, NEW p \in Procs, Put(p)
    PROVE  /\ req[p].at = "put"
           /\ cache' = Replaced(req[p]) /\ fresh' = TRUE
           /\ \/ Ends(p)
              \/ /\ Turns(p, "github", Replaced(req[p]), req[p].issue)
                 /\ req[p].again
           /\ UNCHANGED <<ghVars, payloads>>
<1>1. PICK r \in Requests : r = req[p]
  BY DEF TypeInv
<1>2. PICK c : c = Replaced(r)
  OBVIOUS
<1> DEFINE t == [r EXCEPT !.at = "github", !.copy = c, !.again = FALSE]
<1>3. IF r.again THEN Become(p, t) ELSE Become(p, Idle)
  BY <1>1, <1>2 DEF Put
<1>4. t \in [kind : {r.kind}, at : {"github"}, n : {r.n}, copy : {c},
             issue : {r.issue}, again : {r.again, FALSE}]
  BY DEF Requests
<1> HIDE DEF t
<1>5. Ends(p) \/ (Turns(p, "github", c, r.issue) /\ r.again)
  BY <1>1, <1>3, <1>4, Becomes DEF TypeInv
<1> QED BY <1>1, <1>2, <1>5 DEF Put, Write, At

\* A webhook is received: its request starts with the entry, if there is one.
LEMMA ReceiveEffect ==
    ASSUME TypeInv, NEW p \in Procs, Receive(p)
    PROVE  /\ req[p] = Idle
           /\ Only(p)
           /\ \E i \in 1..Len(payloads) :
                  /\ payloads' \in Seq(Payload) /\ Len(payloads') = Len(payloads) - 1
                  /\ \A j \in 1..(Len(payloads) - 1) :
                         payloads'[j] = IF j < i THEN payloads[j] ELSE payloads[j + 1]
                  /\ payloads[i] \in Payload
                  /\ \/ cache = None /\ UNCHANGED <<req, lone>>
                     \/ /\ cache # None /\ lone' = {}
                        /\ req'[p] \in [kind : {"webhook"}, at : {"put"},
                                        n : {payloads[i].n}, copy : {cache},
                                        issue : {payloads[i].issue}, again : {FALSE}]
                  /\ twisted' = (twisted \/ Busy \/ i > 1)
           /\ UNCHANGED <<ghVars, cacheVars>>
<1>1. PICK i \in 1..Len(payloads) :
          LET w == payloads[i] IN
          /\ payloads' = RemoveAt(payloads, i)
          /\ IF Refreshes(cache, w.n)
             THEN /\ req' = [req EXCEPT ![p] =
                         [Idle EXCEPT !.kind = "webhook", !.at = "put",
                                      !.n = w.n, !.issue = w.issue,
                                      !.copy = cache]]
             ELSE UNCHANGED req
          /\ lone' = IF req' = req THEN lone ELSE {}
          /\ twisted' = (twisted \/ Busy \/ i > 1)
  BY Zenon DEF Receive
<1>2. /\ payloads' \in Seq(Payload) /\ Len(payloads') = Len(payloads) - 1
      /\ \A j \in 1..(Len(payloads) - 1) :
             payloads'[j] = IF j < i THEN payloads[j] ELSE payloads[j + 1]
  BY <1>1, OneRemoved DEF TypeInv
<1>3. payloads[i] \in Payload /\ twisted' = (twisted \/ Busy \/ i > 1)
  BY <1>1 DEF TypeInv
<1>4. req[p] = Idle /\ UNCHANGED <<ghVars, cacheVars>>
  BY DEF Receive
<1>5. PICK w : w = payloads[i]
  OBVIOUS
<1> DEFINE t == [Idle EXCEPT !.kind = "webhook", !.at = "put", !.n = w.n,
                             !.issue = w.issue, !.copy = cache]
<1>6. t \in [kind : {"webhook"}, at : {"put"}, n : {w.n}, copy : {cache},
             issue : {w.issue}, again : {FALSE}] /\ t # Idle
  BY DEF Idle
<1>7. CASE cache = None
  <2>1. UNCHANGED <<req, lone>>
    BY <1>1, <1>7 DEF Refreshes
  <2>2. req' = [req EXCEPT ![p] = req[p]]
    BY <2>1 DEF TypeInv
  <2>3. Only(p)
    BY <2>1, <2>2 DEF Only
  <2> QED BY <1>2, <1>3, <1>4, <1>7, <2>1, <2>3
<1>8. CASE cache # None
  <2>1. req' = [req EXCEPT ![p] = t]
    BY <1>1, <1>5, <1>8 DEF Refreshes
  <2> HIDE DEF t
  <2>2. req'[p] = t /\ Only(p)
    BY <2>1 DEF TypeInv, Only
  <2>3. lone' = {}
    BY <1>1, <1>4, <1>6, <2>2
  <2> QED BY <1>2, <1>3, <1>4, <1>5, <1>6, <1>8, <2>2, <2>3
<1> QED BY <1>7, <1>8

\* A request that arrives has no copy and no answer yet.
LEMMA ArriveEffect ==
    ASSUME TypeInv, NEW p \in Procs, NEW n \in Numbers, NEW kind \in Kinds,
           Arrive(p, kind, n)
    PROVE  /\ req[p] = Idle
           /\ Only(p)
           /\ req'[p] \in [kind : {kind}, at : {"current", "github"}, n : {n},
                           copy : {None}, issue : {None}, again : {kind = "move"}]
           /\ req'[p].at = "current" <=> kind = "read"
           /\ kind # "read" => Exists(n)
           /\ lone' = IF Busy THEN {} ELSE {p}
           /\ twisted' = (twisted \/ Busy)
           /\ UNCHANGED <<ghVars, payloads, cacheVars>>
<1>1. PICK l, a : /\ l = IF kind = "read" THEN "current" ELSE "github"
                  /\ a = (kind = "move")
  OBVIOUS
<1> DEFINE t == [Idle EXCEPT !.kind = kind, !.n = n, !.again = a, !.at = l]
<1>2. req' = [req EXCEPT ![p] = t]
  BY <1>1 DEF Arrive
<1>3. t \in [kind : {kind}, at : {l}, n : {n}, copy : {None}, issue : {None},
             again : {kind = "move"}]
  BY <1>1 DEF Idle
<1> HIDE DEF t
<1>4. req'[p] = t /\ Only(p)
  BY <1>2 DEF TypeInv, Only
<1>5. /\ req[p] = Idle /\ (kind # "read" => Exists(n))
      /\ lone' = IF Busy THEN {} ELSE {p}
      /\ twisted' = (twisted \/ Busy)
      /\ UNCHANGED <<ghVars, payloads, cacheVars>>
  BY DEF Arrive
<1> QED BY <1>1, <1>3, <1>4, <1>5

-----------------------------------------------------------------------------
(***************************************************************************)
(* Type correctness.                                                       *)
(***************************************************************************)

\* A change on GitHub and its webhook.
LEMMA ChangeEffect ==
    ASSUME TypeInv, NEW n \in Numbers, NEW issue \in Issue, ChangeIssue(n, issue)
    PROVE  /\ github' \in Hash /\ github'[n] = issue /\ issue # None
           /\ \A m \in Numbers : m # n => github'[m] = github[m]
           /\ \A m \in Numbers : Exists(m) => Exists(m)'
           /\ payloads' \in Seq(Payload)
           /\ Len(payloads') = Len(payloads) + 1
           /\ \A i \in 1..Len(payloads) : payloads'[i] = payloads[i]
           /\ payloads'[Len(payloads) + 1].n = n
           /\ payloads'[Len(payloads) + 1].issue = issue
<1>1. issue # None
  BY NoneAssumption DEF NoneAssumption, Issue, Copy
<1>2. github' = [github EXCEPT ![n] = issue]
  BY DEF ChangeIssue
<1>3. /\ github' \in Hash /\ github'[n] = issue
      /\ \A m \in Numbers : m # n => github'[m] = github[m]
  BY <1>2 DEF TypeInv, Hash
<1>4. \A m \in Numbers : Exists(m) => Exists(m)'
  BY <1>1, <1>3 DEF Exists
<1>5. PICK w \in Payload : w = [n |-> n, issue |-> issue]
  BY DEF Payload
<1>6. payloads' = Append(payloads, w) /\ w.n = n /\ w.issue = issue
  BY <1>5 DEF ChangeIssue
<1>7. /\ payloads' \in Seq(Payload)
      /\ Len(payloads') = Len(payloads) + 1
      /\ \A i \in 1..Len(payloads) : payloads'[i] = payloads[i]
      /\ payloads'[Len(payloads) + 1] = w
  BY <1>6, AppendProperties DEF TypeInv
<1> QED BY <1>1, <1>3, <1>4, <1>6, <1>7

\* A changed issue is one version later and has its comments.
LEMMA ChangedIssue ==
    ASSUME NEW old \in Issue, NEW issue \in Changes(old)
    PROVE  /\ issue \in Issue /\ issue.version = old.version + 1
           /\ issue.comments = old.comments
<1>1. CASE issue = [old EXCEPT !.version = old.version + 1]
  BY <1>1 DEF Issue
<1>2. CASE issue = [old EXCEPT !.version = old.version + 1, !.open = ~old.open]
  <2>1. old.version \in Nat \ {0} /\ (~old.open) \in BOOLEAN
    BY DEF Issue
  <2>2. PICK v, o : v = old.version + 1 /\ o = ~old.open
    OBVIOUS
  <2>3. issue = [old EXCEPT !.version = v, !.open = o] /\ o \in BOOLEAN /\ v \in Nat \ {0}
    BY <1>2, <2>1, <2>2
  <2> QED BY <2>2, <2>3 DEF Issue
<1> QED BY <1>1, <1>2 DEF Changes

\* A step of a process keeps the types, when its request stays one.
LEMMA OneRequest ==
    ASSUME TypeInv, NEW p \in Procs, Only(p), req'[p] \in Requests,
           LabelTells(req'[p]),
           req'[p].kind \notin {"none", "read", "webhook"} => github'[req'[p].n] # None,
           \A n \in Numbers : Exists(n) => Exists(n)',
           lone' \subseteq {q \in Procs : req'[q] # Idle}, twisted' \in BOOLEAN,
           github' \in Hash, posted' \in [Numbers -> Nat], payloads' \in Seq(Payload),
           cache' \in Copies \cup {None}, fresh' \in BOOLEAN,
           cache' = None => ~fresh'
    PROVE  TypeInv'
<1>1. req' \in [Procs -> Requests]
  BY DEF TypeInv, Only
<1>2. ASSUME NEW q \in Procs
      PROVE  /\ LabelTells(req'[q])
             /\ req'[q].kind \notin {"none", "read", "webhook"} => github'[req'[q].n] # None
  <2>1. CASE q = p
    BY <2>1
  <2>2. CASE q # p
    <3>1. req'[q] = req[q] /\ req[q] \in Requests
      BY <2>2 DEF Only, TypeInv
    <3>2. /\ LabelTells(req[q])
          /\ req[q].kind \notin {"none", "read", "webhook"} => Exists(req[q].n)
      BY DEF TypeInv
    <3>3. req[q].n \in Numbers
      BY <3>1 DEF Requests
    <3> QED BY <3>1, <3>2, <3>3 DEF Exists
  <2> QED BY <2>1, <2>2
<1> QED BY <1>1, <1>2 DEF TypeInv, Exists

\* The same, for a request that ends or goes on.
LEMMA OnRequest ==
    ASSUME TypeInv, NEW p \in Procs,
           \/ Ends(p)
           \/ \E l \in Labels \ {"idle"}, copy \in Copies \cup {None}, issue \in Issue \cup {None} :
                  /\ Turns(p, l, copy, issue)
                  /\ req[p].at # "idle"
                  /\ l = "github" => req[p].kind \notin {"read", "webhook"}
                  /\ req[p].kind = "webhook" => l = "put"
                  /\ l \in {"fetch_closed", "store", "put"} => copy # None
                  /\ l # "github" /\ req[p].kind \in {"change", "move", "sync", "webhook"}
                         => issue # None
                  /\ l = "put" => req[p].kind # "read"
                  /\ l = "put" /\ req[p].kind \in {"comment", "uncomment", "sync"}
                         => copy[req[p].n] # None,
           \A n \in Numbers : Exists(n) => Exists(n)',
           github' \in Hash, posted' \in [Numbers -> Nat], payloads' \in Seq(Payload),
           cache' \in Copies \cup {None}, fresh' \in BOOLEAN,
           cache' = None => ~fresh'
    PROVE  TypeInv'
<1>1. CASE Ends(p)
  <2>1. /\ Only(p) /\ req'[p] = Idle
        /\ lone' = {q \in lone : req'[q] # Idle} /\ twisted' = twisted
    BY <1>1 DEF Ends
  <2>2. Idle.kind = "none"
    BY DEF Idle
  <2> QED BY <2>1, <2>2, IdleIsRequest, OneRequest DEF TypeInv
<1>2. ASSUME NEW l \in Labels \ {"idle"}, NEW copy \in Copies \cup {None},
             NEW issue \in Issue \cup {None},
             Turns(p, l, copy, issue),
             req[p].at # "idle",
             l = "github" => req[p].kind \notin {"read", "webhook"},
             req[p].kind = "webhook" => l = "put",
             l \in {"fetch_closed", "store", "put"} => copy # None,
             l # "github" /\ req[p].kind \in {"change", "move", "sync", "webhook"}
                 => issue # None,
             l = "put" => req[p].kind # "read",
             l = "put" /\ req[p].kind \in {"comment", "uncomment", "sync"}
                 => copy[req[p].n] # None
      PROVE  TypeInv'
  <2>1. PICK r \in Requests : /\ r = req[p] /\ LabelTells(r)
                              /\ r.kind \notin {"none", "read", "webhook"} => Exists(r.n)
    BY DEF TypeInv
  <2>2. /\ Only(p)
        /\ req'[p] \in [kind : {r.kind}, at : {l}, n : {r.n}, copy : {copy},
                        issue : {issue}, again : {r.again, FALSE}]
        /\ lone' = {q \in lone : req'[q] # Idle} /\ twisted' = twisted
    BY <1>2, <2>1 DEF Turns
  <2>3. req'[p] \in Requests
    BY <2>2 DEF Requests
  <2>4. r.kind # "none" /\ r.n \in Numbers
    BY <1>2, <2>1 DEF LabelTells, Requests
  <2>5. req'[p].at # Idle.at
    BY <1>2, <2>2 DEF Idle
  <2>6. LabelTells(req'[p])
    BY <1>2, <2>1, <2>2, <2>4, <2>5 DEF LabelTells
  <2>7. req'[p].kind \notin {"none", "read", "webhook"} => github'[req'[p].n] # None
    BY <2>1, <2>2, <2>4 DEF Exists
  <2> QED BY <2>2, <2>3, <2>6, <2>7, OneRequest DEF TypeInv
<1> QED BY <1>1, <1>2

\* Every step of a process keeps the types.
LEMMA TypeStep ==
    ASSUME TypeInv, NEW p \in Procs, Step(p)
    PROVE  TypeInv'
<1>0. PICK r \in Requests : /\ r = req[p] /\ LabelTells(r) /\ r.n \in Numbers
                            /\ r.kind \notin {"none", "read", "webhook"} => Exists(r.n)
  BY DEF TypeInv, Requests
<1>1. UNCHANGED ghVars =>
          /\ \A n \in Numbers : Exists(n) => Exists(n)'
          /\ github' \in Hash /\ posted' \in [Numbers -> Nat]
  BY DEF ghVars, Exists, TypeInv
<1>2. UNCHANGED cacheVars =>
          /\ cache' \in Copies \cup {None} /\ fresh' \in BOOLEAN
          /\ cache' = None => ~fresh'
  BY DEF cacheVars, TypeInv
<1>3. UNCHANGED payloads => payloads' \in Seq(Payload)
  BY DEF TypeInv
<1>4. \A n \in Numbers : Exists(n) => github[n] \in Issue
  BY DEF TypeInv, Hash, Exists
<1>5. Issue \subseteq Copy
  BY DEF Issue, Copy
<1>6. /\ r.copy \in Copies \cup {None} /\ r.issue \in Issue \cup {None}
      /\ r.at \in Labels
  BY DEF Requests
<1>7. ASSUME NEW n \in Numbers, NEW kind \in Kinds, Arrive(p, kind, n)
      PROVE  TypeInv'
  <2>1. /\ Only(p)
        /\ req'[p] \in [kind : {kind}, at : {"current", "github"}, n : {n},
                        copy : {None}, issue : {None}, again : {kind = "move"}]
        /\ req'[p].at = "current" <=> kind = "read"
        /\ kind # "read" => Exists(n)
        /\ lone' = IF Busy THEN {} ELSE {p}
        /\ twisted' = (twisted \/ Busy)
        /\ UNCHANGED <<ghVars, payloads, cacheVars>>
    BY <1>7, ArriveEffect
  <2>2. kind \notin {"none", "webhook"}
    BY CacheAssumption DEF CacheAssumption
  <2>3. req'[p] \in Requests
    BY <2>1 DEF Requests, Labels
  <2>4. req'[p] # Idle
    <3>1. req'[p].kind # Idle.kind
      BY <2>1, <2>2 DEF Idle
    <3> QED BY <3>1
  <2>5. LabelTells(req'[p])
    BY <2>1, <2>2, <2>4 DEF LabelTells
  <2>6. Exists(n) => github'[n] # None
    BY <1>1, <2>1 DEF Exists
  <2>7. lone' \subseteq {q \in Procs : req'[q] # Idle} /\ twisted' \in BOOLEAN
    BY <2>1, <2>4 DEF TypeInv, Busy
  <2> QED BY <1>1, <1>2, <1>3, <2>1, <2>3, <2>5, <2>6, <2>7, OneRequest
<1>8. CASE Receive(p)
  <2>1. /\ Only(p) /\ req[p] = Idle
        /\ UNCHANGED <<ghVars, cacheVars>>
    BY <1>8, ReceiveEffect
  <2>2. PICK i \in 1..Len(payloads) :
            /\ payloads' \in Seq(Payload)
            /\ payloads[i] \in Payload
            /\ \/ cache = None /\ UNCHANGED <<req, lone>>
               \/ /\ cache # None /\ lone' = {}
                  /\ req'[p] \in [kind : {"webhook"}, at : {"put"},
                                  n : {payloads[i].n}, copy : {cache},
                                  issue : {payloads[i].issue}, again : {FALSE}]
            /\ twisted' = (twisted \/ Busy \/ i > 1)
    BY <1>8, ReceiveEffect
  <2>3. twisted' \in BOOLEAN
    BY <2>2
  <2>4. CASE cache = None /\ UNCHANGED <<req, lone>>
    <3>1. /\ req'[p] = Idle /\ Idle.kind = "none"
          /\ lone' \subseteq {q \in Procs : req'[q] # Idle}
      BY <2>1, <2>4 DEF Idle, TypeInv
    <3> QED BY <1>1, <1>2, <2>1, <2>2, <2>3, <3>1, IdleIsRequest, OneRequest
  <2>5. CASE cache # None /\ lone' = {}
             /\ req'[p] \in [kind : {"webhook"}, at : {"put"},
                             n : {payloads[i].n}, copy : {cache},
                             issue : {payloads[i].issue}, again : {FALSE}]
    <3>1. payloads[i].issue # None
      BY <1>5, <2>2, NoneAssumption DEF NoneAssumption, Payload
    <3>2. req'[p] \in Requests
      BY <2>2, <2>5 DEF Requests, Payload, Labels, TypeInv
    <3>3. req'[p].kind # Idle.kind
      BY <2>5 DEF Idle
    <3>4. LabelTells(req'[p])
      BY <2>5, <3>1, <3>3 DEF LabelTells
    <3>5. req'[p].kind = "webhook" /\ lone' = {}
      BY <2>5
    <3> QED BY <1>1, <1>2, <2>1, <2>2, <2>3, <3>2, <3>4, <3>5, OneRequest
  <2> QED BY <2>2, <2>4, <2>5
<1>9. CASE AskGithub(p)
  <2>1. /\ r.at = "github" /\ r.kind \in {"change", "move"}
        /\ UNCHANGED <<posted, cacheVars>>
    BY <1>0, <1>9, AskEffect
  <2>2. PICK issue \in Changes(github[r.n]) :
            /\ ChangeIssue(r.n, issue)
            /\ \/ r.copy = None /\ Turns(p, "current", None, issue)
               \/ r.copy # None /\ Turns(p, "put", r.copy, issue)
    BY <1>0, <1>9, AskEffect
  <2>3. github[r.n] \in Issue
    BY <1>0, <1>4, <2>1
  <2>4. issue \in Issue
    BY <2>2, <2>3, ChangedIssue
  <2>5. /\ github' \in Hash /\ issue # None
        /\ \A m \in Numbers : Exists(m) => Exists(m)'
        /\ payloads' \in Seq(Payload)
    BY <1>0, <2>2, <2>4, ChangeEffect
  <2>6. posted' \in [Numbers -> Nat]
    BY <2>1 DEF TypeInv
  <2>7. \E l \in Labels \ {"idle"}, copy \in Copies \cup {None} :
            /\ Turns(p, l, copy, issue)
            /\ l \in {"current", "put"} /\ (l = "put" => copy # None)
    <3>1. CASE r.copy = None /\ Turns(p, "current", None, issue)
      BY <3>1 DEF Labels
    <3>2. CASE r.copy # None /\ Turns(p, "put", r.copy, issue)
      BY <1>6, <3>2 DEF Labels
    <3> QED BY <2>2, <3>1, <3>2
  <2> QED BY <1>0, <1>2, <2>1, <2>4, <2>5, <2>6, <2>7, OnRequest
<1>10. CASE Comment(p)
  <2>1. /\ r.at = "github" /\ r.kind \in {"comment", "uncomment"}
        /\ Turns(p, "current", r.copy, r.issue)
        /\ github' \in Hash /\ posted' \in [Numbers -> Nat]
        /\ \A n \in Numbers : Exists(n) => github'[n] # None
        /\ UNCHANGED <<payloads, cacheVars>>
    BY <1>0, <1>10, CommentEffect
  <2>2. \A n \in Numbers : Exists(n) => Exists(n)'
    BY <2>1 DEF Exists
  <2>3. /\ cache' \in Copies \cup {None} /\ fresh' \in BOOLEAN
        /\ cache' = None => ~fresh'
        /\ payloads' \in Seq(Payload)
    BY <1>2, <1>3, <2>1
  <2>4. "current" \in Labels \ {"idle"}
    BY DEF Labels
  <2> QED BY <1>0, <1>6, <2>1, <2>2, <2>3, <2>4, OnRequest
<1>11. CASE CountComments(p)
  <2>1. /\ r.at = "github" /\ r.kind = "sync"
        /\ Turns(p, "current", r.copy, github[r.n])
        /\ UNCHANGED <<ghVars, payloads, cacheVars>>
    BY <1>0, <1>11, CountEffect
  <2>2. github[r.n] \in Issue /\ github[r.n] # None
    BY <1>0, <1>4, <2>1 DEF Exists
  <2>3. "current" \in Labels \ {"idle"}
    BY DEF Labels
  <2> QED BY <1>0, <1>1, <1>2, <1>3, <1>6, <2>1, <2>2, <2>3, OnRequest
<1>12. CASE Current(p)
  <2>1. /\ r.at = "current"
        /\ \/ Turns(p, "fetch_open", r.copy, r.issue)
           \/ Ends(p)
           \/ /\ cache # None
              /\ Turns(p, "put", cache, r.issue)
              /\ r.kind # "read"
              /\ r.kind \in {"comment", "uncomment", "sync"} => cache[r.n] # None
        /\ UNCHANGED <<ghVars, payloads, cacheVars>>
    BY <1>0, <1>12, CurrentEffect
  <2>2. cache \in Copies \cup {None} /\ r.kind # "webhook"
    BY <1>0, <2>1 DEF TypeInv, LabelTells
  <2>3. r.kind \in {"change", "move", "sync"} => r.issue # None
    BY <1>0, <2>1 DEF LabelTells
  <2>4. CASE Ends(p)
    BY <1>1, <1>2, <1>3, <2>1, <2>4, OnRequest
  <2>5. CASE Turns(p, "fetch_open", r.copy, r.issue)
    <3>1. "fetch_open" \in Labels \ {"idle"}
      BY DEF Labels
    <3> QED BY <1>0, <1>1, <1>2, <1>3, <1>6, <2>1, <2>2, <2>3, <2>5, <3>1, OnRequest
  <2>6. CASE /\ cache # None
             /\ Turns(p, "put", cache, r.issue)
             /\ r.kind # "read"
             /\ r.kind \in {"comment", "uncomment", "sync"} => cache[r.n] # None
    BY <1>0, <1>1, <1>2, <1>3, <1>6, <2>1, <2>2, <2>3, <2>6, OnRequest DEF Labels
  <2> QED BY <2>1, <2>4, <2>5, <2>6
<1>13. CASE FetchOpen(p)
  <2>1. PICK copy : copy = [n \in Numbers |-> IF Exists(n) /\ github[n].open
                                               THEN github[n] ELSE None]
    OBVIOUS
  <2>2. /\ r.at = "fetch_open"
        /\ Turns(p, "fetch_closed", copy, r.issue)
        /\ UNCHANGED <<ghVars, payloads, cacheVars>>
    BY <1>0, <1>13, <2>1, FetchOpenEffect
  <2>3. copy \in Copies /\ copy # None
    BY <1>4, <1>5, <2>1, NoneAssumption DEF NoneAssumption, Copies
  <2> QED BY <1>0, <1>1, <1>2, <1>3, <1>6, <2>2, <2>3, OnRequest DEF Labels, LabelTells
<1>14. CASE FetchClosed(p)
  <2>1. PICK copy : copy = WithClosed(r.copy)
    OBVIOUS
  <2>2. /\ r.at = "fetch_closed"
        /\ Turns(p, "store", copy, r.issue)
        /\ UNCHANGED <<ghVars, payloads, cacheVars>>
    BY <1>0, <1>14, <2>1, FetchClosedEffect
  <2>3. copy \in Copies /\ copy # None
    BY <1>0, <1>4, <1>5, <1>6, <2>1, <2>2, NoneAssumption
       DEF NoneAssumption, Copies, WithClosed, LabelTells
  <2> QED BY <1>0, <1>1, <1>2, <1>3, <1>6, <2>2, <2>3, OnRequest DEF Labels, LabelTells
<1>15. CASE Store(p)
  <2>1. /\ r.at = "store"
        /\ cache' = r.copy /\ fresh' = TRUE
        /\ \/ Ends(p)
           \/ /\ Turns(p, "put", r.copy, r.issue)
              /\ r.kind # "read"
              /\ r.kind \in {"comment", "uncomment", "sync"} => r.copy[r.n] # None
        /\ UNCHANGED <<ghVars, payloads>>
    BY <1>0, <1>15, StoreEffect
  <2>2. /\ r.copy \in Copies /\ cache' # None /\ r.kind # "webhook"
        /\ r.kind \in {"change", "move", "sync"} => r.issue # None
    BY <1>0, <1>6, <2>1, NoneAssumption DEF NoneAssumption, LabelTells
  <2>3. CASE Ends(p)
    BY <1>1, <1>3, <2>1, <2>2, <2>3, OnRequest
  <2>4. CASE /\ Turns(p, "put", r.copy, r.issue)
             /\ r.kind # "read"
             /\ r.kind \in {"comment", "uncomment", "sync"} => r.copy[r.n] # None
    BY <1>0, <1>1, <1>3, <1>6, <2>1, <2>2, <2>4, OnRequest DEF Labels
  <2> QED BY <2>1, <2>3, <2>4
<1>16. CASE Put(p)
  <2>1. PICK copy : copy = Replaced(r)
    OBVIOUS
  <2>2. /\ r.at = "put"
        /\ cache' = copy /\ fresh' = TRUE
        /\ \/ Ends(p)
           \/ Turns(p, "github", copy, r.issue) /\ r.again
        /\ UNCHANGED <<ghVars, payloads>>
    BY <1>0, <1>16, <2>1, PutEffect
  <2>3. copy \in Copies /\ copy # None
    BY <1>0, <2>1, <2>2, UpdatedIssue, NoneAssumption DEF NoneAssumption
  <2>4. CASE Ends(p)
    BY <1>1, <1>3, <2>2, <2>3, <2>4, OnRequest
  <2>5. CASE Turns(p, "github", copy, r.issue) /\ r.again
    <3>1. r.kind = "move"
      BY <1>0, <2>5 DEF LabelTells
    <3> QED BY <1>0, <1>1, <1>3, <1>6, <2>2, <2>3, <2>5, <3>1, OnRequest DEF Labels
  <2> QED BY <2>2, <2>4, <2>5
<1> QED BY <1>7, <1>8, <1>9, <1>10, <1>11, <1>12, <1>13, <1>14, <1>15, <1>16 DEF Step

\* A change that people make on GitHub.
LEMMA GithubEffect ==
    ASSUME TypeInv, NEW n \in Numbers, GithubChange(n)
    PROVE  \E issue \in Issue :
               /\ ChangeIssue(n, issue)
               /\ Exists(n) => /\ issue.version = github[n].version + 1
                               /\ issue.comments = github[n].comments
               /\ UNCHANGED <<posted, cacheVars, req, history>>
<1>1. UNCHANGED <<posted, cacheVars, req, history>>
  BY DEF GithubChange
<1>2. CASE Exists(n) /\ \E issue \in Changes(github[n]) : ChangeIssue(n, issue)
  <2>1. PICK issue \in Changes(github[n]) : ChangeIssue(n, issue)
    BY <1>2
  <2>2. github[n] \in Issue
    BY <1>2 DEF TypeInv, Hash, Exists
  <2>3. /\ issue \in Issue /\ issue.version = github[n].version + 1
        /\ issue.comments = github[n].comments
    BY <2>2, ChangedIssue
  <2> QED BY <1>1, <2>1, <2>3
<1>3. CASE ~Exists(n) /\ ChangeIssue(n, NewIssue)
  <2>1. NewIssue \in Issue
    BY DEF NewIssue, Issue
  <2> QED BY <1>1, <1>3, <2>1
<1> QED BY <1>2, <1>3 DEF GithubChange

\* Every step keeps the types.
LEMMA NextTypeInv ==
    ASSUME TypeInv, [Next]_vars
    PROVE  TypeInv'
<1>1. ASSUME NEW n \in Numbers, GithubChange(n) PROVE TypeInv'
  <2>1. PICK issue \in Issue : /\ ChangeIssue(n, issue)
                               /\ UNCHANGED <<posted, cacheVars, req, history>>
    BY <1>1, GithubEffect
  <2>2. /\ github' \in Hash /\ payloads' \in Seq(Payload)
        /\ \A m \in Numbers : Exists(m) => Exists(m)'
    BY <2>1, ChangeEffect
  <2>3. /\ UNCHANGED posted /\ UNCHANGED cache /\ UNCHANGED fresh
        /\ UNCHANGED req /\ UNCHANGED lone /\ UNCHANGED twisted
    BY <2>1 DEF cacheVars, history
  <2>4. \A p \in Procs : req[p].n \in Numbers
    BY DEF TypeInv, Requests
  <2>5. \A p \in Procs : req[p].kind \notin {"none", "read", "webhook"}
                             => Exists(req[p].n)'
    BY <2>2, <2>3, <2>4 DEF TypeInv
  <2> QED BY <2>2, <2>3, <2>5 DEF TypeInv
<1>2. CASE LosePayload
  <2>1. PICK i \in 1..Len(payloads) : payloads' = RemoveAt(payloads, i)
    BY <1>2 DEF LosePayload
  <2>2. payloads' \in Seq(Payload)
    BY <2>1, OneRemoved DEF TypeInv
  <2> QED BY <1>2, <2>2 DEF LosePayload, ghVars, cacheVars, TypeInv, Exists
<1>3. CASE Expire
  BY <1>3 DEF Expire, ghVars, history, TypeInv, Exists
<1>4. CASE Evict
  BY <1>4 DEF Evict, ghVars, history, TypeInv, Exists
<1>5. CASE UNCHANGED vars
  BY <1>5 DEF vars, ghVars, cacheVars, history, TypeInv, Exists
<1> QED BY <1>1, <1>2, <1>3, <1>4, <1>5, TypeStep DEF Next

\* The types hold at first.
LEMMA InitTypeInv ==
    ASSUME Init
    PROVE  TypeInv
<1>1. github \in Hash
  <2>1. [version : {1}, open : BOOLEAN, comments : {0}] \subseteq Issue
    BY DEF Issue
  <2> QED BY <2>1, CacheAssumption DEF CacheAssumption, Init, Hash
<1>2. posted \in [Numbers -> Nat] /\ payloads \in Seq(Payload)
  BY DEF Init
<1>3. req \in [Procs -> Requests] /\ \A p \in Procs : req[p] = Idle
  BY IdleIsRequest DEF Init
<1>4. Idle.kind = "none"
  BY DEF Idle
<1> QED BY <1>1, <1>2, <1>3, <1>4, IdleIsRequest DEF Init, TypeInv

\* The entry, the requests and the webhooks are what they should be: a
\* request has read a whole copy before it changes or stores one, and no
\* step puts anything else into the cache.
THEOREM CacheTypes == Spec => []CacheTypeOK
<1>1. TypeInv => CacheTypeOK
  BY DEF TypeInv, CacheTypeOK, Requests, Payload
<1> QED BY <1>1, InitTypeInv, NextTypeInv, PTL DEF Spec

-----------------------------------------------------------------------------
(***************************************************************************)
(* No copy is ahead of GitHub.                                             *)
(***************************************************************************)

\* No issue leaves GitHub, and versions only grow; where they do not, the
\* issue may only have other comments.
LEMMA GithubGrows ==
    ASSUME TypeInv, [Next]_vars
    PROVE  /\ \A n \in Numbers : Exists(n) => github[n] \in Issue
           /\ \A n \in Numbers : Exists(n) =>
                  /\ github'[n] \in Issue /\ github'[n] # None
                  /\ github'[n].version >= github[n].version
<1> DEFINE Grown(n) == /\ github'[n] # None
                       /\ github'[n].version >= github[n].version
<1>1. /\ github' \in Hash
      /\ \A n \in Numbers : Exists(n) => github[n] \in Issue
  BY NextTypeInv DEF TypeInv, Exists, Hash
<1>2. \A n \in Numbers : Exists(n) => github[n].version \in Nat
  BY <1>1 DEF Issue
<1> SUFFICES \A n \in Numbers : Exists(n) => Grown(n)
  BY <1>1 DEF Hash
<1>3. ASSUME UNCHANGED github PROVE \A n \in Numbers : Exists(n) => Grown(n)
  BY <1>2, <1>3 DEF Exists
<1>4. ASSUME NEW m \in Numbers, NEW issue \in Issue, ChangeIssue(m, issue),
             Exists(m) => issue.version = github[m].version + 1
      PROVE  \A n \in Numbers : Exists(n) => Grown(n)
  <2>1. /\ github'[m] = issue /\ issue # None
        /\ \A n \in Numbers : n # m => github'[n] = github[n]
    BY <1>4, ChangeEffect
  <2> QED BY <1>2, <1>4, <2>1 DEF Exists
<1>5. ASSUME NEW p \in Procs, AskGithub(p)
      PROVE  \A n \in Numbers : Exists(n) => Grown(n)
  <2>1. PICK r \in Requests : /\ r = req[p] /\ r.n \in Numbers
                              /\ r.kind \notin {"none", "read", "webhook"} => Exists(r.n)
    BY DEF TypeInv, Requests
  <2>2. r.kind \in {"change", "move"}
    BY <1>5, <2>1, AskEffect
  <2>3. PICK issue \in Changes(github[r.n]) : ChangeIssue(r.n, issue)
    BY <1>5, <2>1, AskEffect
  <2>4. issue \in Issue /\ issue.version = github[r.n].version + 1
    BY <1>1, <2>1, <2>2, <2>3, ChangedIssue
  <2> QED BY <1>4, <2>1, <2>3, <2>4
<1>6. ASSUME NEW p \in Procs, Comment(p)
      PROVE  \A n \in Numbers : Exists(n) => Grown(n)
  <2>1. \A n \in Numbers : Exists(n) => /\ github'[n] # None
                                        /\ github'[n].version = github[n].version
    BY <1>6, CommentEffect
  <2> QED BY <1>2, <2>1
<1>7. ASSUME NEW n \in Numbers, GithubChange(n)
      PROVE  \A m \in Numbers : Exists(m) => Grown(m)
  BY <1>4, <1>7, GithubEffect
<1>8. \/ \E p \in Procs : AskGithub(p) \/ Comment(p)
      \/ \E n \in Numbers : GithubChange(n)
      \/ UNCHANGED github
  <2> HIDE DEF Grown
  <2>1. ASSUME NEW p \in Procs, Step(p), ~AskGithub(p), ~Comment(p)
        PROVE  UNCHANGED github
    <3>1. ASSUME NEW n \in Numbers, NEW kind \in Kinds, Arrive(p, kind, n)
          PROVE  UNCHANGED github
      BY <3>1 DEF Arrive, ghVars
    <3>2. CASE Receive(p) \/ CountComments(p) \/ Current(p)
      <4>1. Receive(p) => UNCHANGED github
        BY Zenon DEF Receive, ghVars
      <4>2. CountComments(p) \/ Current(p) => UNCHANGED github
        BY DEF CountComments, Current, ghVars
      <4> QED BY <3>2, <4>1, <4>2
    <3>3. CASE FetchOpen(p) \/ FetchClosed(p) \/ Store(p) \/ Put(p)
      BY <3>3 DEF FetchOpen, FetchClosed, Store, Put, ghVars
    <3> QED BY <2>1, <3>1, <3>2, <3>3 DEF Step
  <2>2. LosePayload \/ Expire \/ Evict \/ UNCHANGED vars => UNCHANGED github
    BY DEF LosePayload, Expire, Evict, vars, ghVars
  <2> QED BY <2>1, <2>2 DEF Next
<1> HIDE DEF Grown
<1> QED BY <1>3, <1>5, <1>6, <1>7, <1>8

\* So what was not ahead stays so.
LEMMA BehindStays ==
    ASSUME TypeInv, [Next]_vars
    PROVE  /\ \A n \in Numbers, issue \in Copy :
                  IssueBehind(n, issue) => IssueBehind(n, issue)'
           /\ \A hash \in Copies : HashBehind(hash) => HashBehind(hash)'
           /\ \A r \in Requests : RequestBehind(r) => RequestBehind(r)'
<1>1. \A n \in Numbers, issue \in Copy : IssueBehind(n, issue) => IssueBehind(n, issue)'
  <2> SUFFICES ASSUME NEW n \in Numbers, NEW issue \in Copy, IssueBehind(n, issue)
               PROVE  IssueBehind(n, issue)'
    OBVIOUS
  <2>1. /\ github[n] \in Issue /\ github'[n] \in Issue /\ github'[n] # None
        /\ github'[n].version >= github[n].version
    BY GithubGrows DEF IssueBehind
  <2>2. /\ issue.version \in Int /\ github[n].version \in Int
        /\ github'[n].version \in Int
    BY <2>1 DEF Issue, Copy
  <2> QED BY <2>1, <2>2 DEF IssueBehind, Exists
<1>2. ASSUME NEW hash \in Copies, HashBehind(hash) PROVE HashBehind(hash)'
  <2>1. \A n \in Numbers : hash[n] # None => hash[n] \in Copy
    BY DEF Copies
  <2> QED BY <1>1, <1>2, <2>1 DEF HashBehind
<1>3. ASSUME NEW r \in Requests, RequestBehind(r) PROVE RequestBehind(r)'
  <2>1. /\ r.copy # None => r.copy \in Copies
        /\ r.issue # None => r.issue \in Copy
        /\ r.n \in Numbers
    BY DEF Requests, Issue, Copy
  <2> QED BY <1>1, <1>2, <1>3, <2>1 DEF RequestBehind
<1> QED BY <1>1, <1>2, <1>3

\* A request that is behind GitHub leaves the others as they are.
LEMMA OneBehind ==
    ASSUME TypeInv, VersionInv, [Next]_vars, NEW p \in Procs, NEW s, Only(p),
           s = req'[p], RequestBehind(s)', CacheBehind', PayloadsBehind'
    PROVE  VersionInv'
<1>1. ASSUME NEW q \in Procs PROVE RequestBehind(req[q])'
  <2>1. CASE q = p
    BY <2>1 DEF RequestBehind, HashBehind, IssueBehind, Exists
  <2>2. CASE q # p
    <3>1. PICK t \in Requests : t = req[q] /\ t = req'[q] /\ RequestBehind(t)
      BY <2>2 DEF TypeInv, VersionInv, Only
    <3>2. RequestBehind(t)'
      BY <3>1, BehindStays
    <3> QED BY <3>1, <3>2 DEF RequestBehind, HashBehind, IssueBehind, Exists
  <2> QED BY <2>1, <2>2
<1> QED BY <1>1 DEF VersionInv

\* What is read, written or answered at a step is not ahead of GitHub.
LEMMA VersionStep ==
    ASSUME TypeInv, VersionInv, [Next]_vars, NEW p \in Procs, Step(p)
    PROVE  VersionInv'
<1>0. PICK r \in Requests : /\ r = req[p] /\ LabelTells(r) /\ r.n \in Numbers
                            /\ r.kind \notin {"none", "read", "webhook"} => Exists(r.n)
                            /\ RequestBehind(r)
  BY DEF TypeInv, Requests, VersionInv
<1>1. /\ r.copy # None => HashBehind(r.copy)'
      /\ r.issue # None => IssueBehind(r.n, r.issue)'
  BY <1>0, BehindStays DEF RequestBehind
<1>2. PICK c \in Copies \cup {None} : c = cache /\ (c # None => HashBehind(c)')
  <2>1. PICK c \in Copies \cup {None} : c = cache
    BY DEF TypeInv
  <2>2. c # None => HashBehind(c)
    BY <2>1 DEF VersionInv, CacheBehind, HashBehind
  <2> QED BY <2>1, <2>2, BehindStays
<1>3. ASSUME cache' = c PROVE CacheBehind'
  BY <1>2, <1>3 DEF CacheBehind, HashBehind, IssueBehind, Exists
<1>4. PICK w \in Seq(Payload) :
          /\ w = payloads
          /\ \A i \in 1..Len(w) : IssueBehind(w[i].n, w[i].issue)'
  <2>1. PICK w \in Seq(Payload) : w = payloads
    BY DEF TypeInv
  <2>2. \A i \in 1..Len(w) : w[i] \in Payload
    OBVIOUS
  <2>3. \A i \in 1..Len(w) : /\ w[i].n \in Numbers /\ w[i].issue \in Copy
                             /\ IssueBehind(w[i].n, w[i].issue)
    BY <2>1, <2>2 DEF Payload, Issue, Copy, VersionInv, PayloadsBehind
  <2> QED BY <2>1, <2>3, BehindStays
<1>5. ASSUME payloads' = w PROVE PayloadsBehind'
  BY <1>4, <1>5 DEF PayloadsBehind, IssueBehind, Exists
<1>6. ASSUME Ends(p), CacheBehind', PayloadsBehind' PROVE VersionInv'
  <2>1. PICK s : s = req'[p] /\ s = Idle
    BY <1>6 DEF Ends
  <2>2. RequestBehind(s)'
    BY <2>1 DEF RequestBehind, Idle
  <2> QED BY <1>6, <2>1, <2>2, OneBehind DEF Ends
<1>7. ASSUME NEW l, NEW copy, NEW issue, Turns(p, l, copy, issue),
             copy # None => HashBehind(copy)', issue # None => IssueBehind(r.n, issue)',
             CacheBehind', PayloadsBehind'
      PROVE  VersionInv'
  <2>1. PICK s : s = req'[p]
    OBVIOUS
  <2>2. Only(p) /\ s.copy = copy /\ s.issue = issue /\ s.n = r.n
    BY <1>0, <1>7, <2>1 DEF Turns
  <2>3. RequestBehind(s)'
    BY <1>7, <2>2 DEF RequestBehind
  <2> QED BY <1>7, <2>1, <2>2, <2>3, OneBehind
<1>8. ASSUME NEW n \in Numbers, NEW kind \in Kinds, Arrive(p, kind, n)
      PROVE  VersionInv'
  <2>1. PICK s : s = req'[p]
    OBVIOUS
  <2>2. /\ Only(p) /\ s.copy = None /\ s.issue = None
        /\ UNCHANGED <<payloads, cacheVars>>
    BY <1>8, <2>1, ArriveEffect
  <2>3. RequestBehind(s)'
    BY <2>2 DEF RequestBehind
  <2>4. CacheBehind' /\ PayloadsBehind'
    BY <1>2, <1>3, <1>4, <1>5, <2>2 DEF cacheVars
  <2> QED BY <2>1, <2>2, <2>3, <2>4, OneBehind
<1>9. CASE Receive(p)
  <2>1. /\ Only(p) /\ req[p] = Idle /\ UNCHANGED cacheVars
    BY <1>9, ReceiveEffect
  <2>2. PICK i \in 1..Len(w) :
            /\ payloads' \in Seq(Payload) /\ Len(payloads') = Len(w) - 1
            /\ \A j \in 1..(Len(w) - 1) :
                   payloads'[j] = IF j < i THEN w[j] ELSE w[j + 1]
            /\ \/ cache = None /\ UNCHANGED <<req, lone>>
               \/ req'[p] \in [kind : {"webhook"}, at : {"put"},
                               n : {w[i].n}, copy : {c},
                               issue : {w[i].issue}, again : {FALSE}]
    BY <1>2, <1>4, <1>9, ReceiveEffect
  <2>3. CacheBehind'
    BY <1>2, <1>3, <2>1 DEF cacheVars
  <2>4. PayloadsBehind'
    <3>1. Len(w) \in Nat
      OBVIOUS
    <3>2. ASSUME NEW j \in 1..Len(payloads')
          PROVE  \E k \in 1..Len(w) : payloads'[j] = w[k]
      <4>1. j \in 1..(Len(w) - 1)
        BY <2>2
      <4>2. j \in 1..Len(w) /\ j + 1 \in 1..Len(w)
        BY <3>1, <4>1
      <4> QED BY <2>2, <4>1, <4>2
    <3> QED BY <1>4, <3>2 DEF PayloadsBehind, IssueBehind, Exists
  <2>5. PICK s : s = req'[p]
    OBVIOUS
  <2>6. RequestBehind(s)'
    <3>1. CASE UNCHANGED <<req, lone>>
      <4>1. s = Idle
        BY <2>1, <2>5, <3>1
      <4> QED BY <4>1 DEF RequestBehind, Idle
    <3>2. CASE req'[p] \in [kind : {"webhook"}, at : {"put"}, n : {w[i].n}, copy : {c},
                            issue : {w[i].issue}, again : {FALSE}]
      <4>1. s.copy = c /\ s.n = w[i].n /\ s.issue = w[i].issue
        BY <2>5, <3>2
      <4> QED BY <1>2, <1>4, <4>1 DEF RequestBehind
    <3> QED BY <2>2, <3>1, <3>2
  <2> QED BY <2>1, <2>3, <2>4, <2>5, <2>6, OneBehind
<1>10. CASE AskGithub(p)
  <2>1. r.kind \in {"change", "move"} /\ UNCHANGED <<posted, cacheVars>>
    BY <1>0, <1>10, AskEffect
  <2>2. PICK issue \in Changes(github[r.n]) :
            /\ ChangeIssue(r.n, issue)
            /\ \/ r.copy = None /\ Turns(p, "current", None, issue)
               \/ r.copy # None /\ Turns(p, "put", r.copy, issue)
    BY <1>0, <1>10, AskEffect
  <2>3. issue \in Issue
    BY <1>0, <2>1, <2>2, ChangedIssue, GithubGrows
  <2>4. /\ github'[r.n] = issue /\ issue # None
        /\ payloads' \in Seq(Payload)
        /\ Len(payloads') = Len(w) + 1
        /\ \A i \in 1..Len(w) : payloads'[i] = w[i]
        /\ payloads'[Len(w) + 1].n = r.n
        /\ payloads'[Len(w) + 1].issue = issue
    BY <1>0, <1>4, <2>2, <2>3, ChangeEffect
  <2>5. IssueBehind(r.n, issue)'
    BY <2>3, <2>4 DEF IssueBehind, Exists, Issue
  <2>6. PayloadsBehind'
    <3>1. Len(w) \in Nat
      OBVIOUS
    <3>2. \A i \in 1..Len(payloads') : i \in 1..Len(w) \/ i = Len(w) + 1
      BY <2>4, <3>1
    <3> QED BY <1>4, <2>4, <2>5, <3>2 DEF PayloadsBehind, IssueBehind, Exists
  <2>7. CacheBehind'
    BY <1>2, <1>3, <2>1 DEF cacheVars
  <2> QED BY <1>1, <1>7, <2>2, <2>5, <2>6, <2>7
<1>11. CASE Comment(p)
  <2>1. /\ Turns(p, "current", r.copy, r.issue)
        /\ UNCHANGED <<payloads, cacheVars>>
    BY <1>0, <1>11, CommentEffect
  <2>2. CacheBehind' /\ PayloadsBehind'
    BY <1>2, <1>3, <1>4, <1>5, <2>1 DEF cacheVars
  <2> QED BY <1>1, <1>7, <2>1, <2>2
<1>12. CASE CountComments(p)
  <2>1. PICK issue : issue = github[r.n]
    OBVIOUS
  <2>2. /\ Turns(p, "current", r.copy, issue) /\ r.kind = "sync"
        /\ UNCHANGED <<ghVars, payloads, cacheVars>>
    BY <1>0, <1>12, <2>1, CountEffect
  <2>3. IssueBehind(r.n, issue)'
    BY <1>0, <2>1, <2>2, GithubGrows DEF IssueBehind, Exists, Issue
  <2>4. CacheBehind' /\ PayloadsBehind'
    BY <1>2, <1>3, <1>4, <1>5, <2>2 DEF cacheVars
  <2> QED BY <1>1, <1>7, <2>2, <2>3, <2>4
<1>13. CASE Current(p)
  <2>1. /\ \/ Turns(p, "fetch_open", r.copy, r.issue)
           \/ Ends(p)
           \/ Turns(p, "put", c, r.issue)
        /\ UNCHANGED <<payloads, cacheVars>>
    BY <1>0, <1>2, <1>13, CurrentEffect
  <2>2. CacheBehind' /\ PayloadsBehind'
    BY <1>2, <1>3, <1>4, <1>5, <2>1 DEF cacheVars
  <2> QED BY <1>1, <1>2, <1>6, <1>7, <2>1, <2>2
<1>14. CASE FetchOpen(p)
  <2>1. PICK copy : copy = [n \in Numbers |-> IF Exists(n) /\ github[n].open
                                               THEN github[n] ELSE None]
    OBVIOUS
  <2>2. /\ Turns(p, "fetch_closed", copy, r.issue)
        /\ UNCHANGED <<ghVars, payloads, cacheVars>>
    BY <1>0, <1>14, <2>1, FetchOpenEffect
  <2>3. HashBehind(copy)'
    BY <2>1, <2>2, GithubGrows DEF HashBehind, IssueBehind, Exists, Issue, ghVars
  <2>4. CacheBehind' /\ PayloadsBehind'
    BY <1>2, <1>3, <1>4, <1>5, <2>2 DEF cacheVars
  <2> QED BY <1>1, <1>7, <2>2, <2>3, <2>4
<1>15. CASE FetchClosed(p)
  <2>1. PICK copy : copy = WithClosed(r.copy)
    OBVIOUS
  <2>2. /\ Turns(p, "store", copy, r.issue) /\ r.at = "fetch_closed"
        /\ UNCHANGED <<ghVars, payloads, cacheVars>>
    BY <1>0, <1>15, <2>1, FetchClosedEffect
  <2>3. HashBehind(r.copy) /\ r.copy \in Copies
    BY <1>0, <2>2 DEF RequestBehind, LabelTells, Requests
  <2>4. HashBehind(copy)'
    <3> SUFFICES ASSUME NEW n \in Numbers, copy[n] # None
                 PROVE  IssueBehind(n, copy[n])'
      BY DEF HashBehind, IssueBehind, Exists
    <3>1. CASE Exists(n) /\ ~github[n].open
      <4>1. copy[n] = github[n] /\ github'[n] = github[n]
        BY <2>1, <2>2, <3>1 DEF WithClosed, ghVars
      <4> QED BY <3>1, <4>1, GithubGrows DEF IssueBehind, Exists, Issue
    <3>2. CASE ~(Exists(n) /\ ~github[n].open)
      <4>1. copy[n] = r.copy[n]
        BY <2>1, <3>2 DEF WithClosed
      <4> QED BY <2>2, <2>3, <4>1 DEF HashBehind, IssueBehind, Exists, ghVars
    <3> QED BY <3>1, <3>2
  <2>5. CacheBehind' /\ PayloadsBehind'
    BY <1>2, <1>3, <1>4, <1>5, <2>2 DEF cacheVars
  <2> QED BY <1>1, <1>7, <2>2, <2>4, <2>5
<1>16. CASE Store(p)
  <2>1. /\ cache' = r.copy
        /\ Ends(p) \/ Turns(p, "put", r.copy, r.issue)
        /\ UNCHANGED <<ghVars, payloads>>
    BY <1>0, <1>16, StoreEffect
  <2>2. CacheBehind'
    BY <1>1, <2>1 DEF CacheBehind, HashBehind, IssueBehind, Exists
  <2>3. PayloadsBehind'
    BY <1>4, <1>5, <2>1
  <2> QED BY <1>1, <1>6, <1>7, <2>1, <2>2, <2>3
<1>17. CASE Put(p)
  <2>1. PICK copy : copy = Replaced(r)
    OBVIOUS
  <2>2. /\ r.at = "put" /\ cache' = copy
        /\ Ends(p) \/ Turns(p, "github", copy, r.issue)
        /\ UNCHANGED <<ghVars, payloads>>
    BY <1>0, <1>17, <2>1, PutEffect
  <2>3. /\ r.copy \in Copies /\ copy[r.n] = Updated(r)
        /\ \A n \in Numbers : n # r.n => copy[n] = r.copy[n]
        /\ r.kind \in {"change", "move", "webhook"} =>
               r.issue \in Issue /\ Updated(r) = r.issue
        /\ r.kind \in {"comment", "uncomment", "sync"} =>
               /\ r.copy[r.n] # None
               /\ Updated(r).version = r.copy[r.n].version
        /\ r.kind \in {"change", "move", "webhook", "comment", "uncomment", "sync"}
    BY <1>0, <2>1, <2>2, UpdatedIssue
  <2>4. HashBehind(r.copy)' /\ r.issue \in Issue => IssueBehind(r.n, r.issue)'
    BY <1>1, NoneAssumption DEF NoneAssumption, Issue, Copy
  <2>5. HashBehind(r.copy)'
    BY <1>1, <2>3, NoneAssumption DEF NoneAssumption
  <2>6. IssueBehind(r.n, copy[r.n])'
    <3>1. CASE r.kind \in {"change", "move", "webhook"}
      BY <2>3, <2>4, <2>5, <3>1
    <3>2. CASE r.kind \in {"comment", "uncomment", "sync"}
      BY <1>0, <2>3, <2>5, <3>2 DEF HashBehind, IssueBehind, Exists
    <3> QED BY <2>3, <3>1, <3>2
  <2>7. HashBehind(copy)'
    BY <2>3, <2>5, <2>6 DEF HashBehind, IssueBehind, Exists
  <2>8. CacheBehind'
    BY <2>2, <2>7 DEF CacheBehind, HashBehind, IssueBehind, Exists
  <2>9. PayloadsBehind'
    BY <1>4, <1>5, <2>2
  <2> QED BY <1>1, <1>6, <1>7, <2>2, <2>7, <2>8, <2>9
<1> QED BY <1>8, <1>9, <1>10, <1>11, <1>12, <1>13, <1>14, <1>15, <1>16, <1>17 DEF Step

\* Every step keeps copies behind GitHub.
LEMMA NextVersionInv ==
    ASSUME TypeInv, VersionInv, [Next]_vars
    PROVE  VersionInv'
<1>1. PICK c \in Copies \cup {None} : c = cache /\ (c # None => HashBehind(c)')
  <2>1. PICK c \in Copies \cup {None} : c = cache
    BY DEF TypeInv
  <2>2. c # None => HashBehind(c)
    BY <2>1 DEF VersionInv, CacheBehind, HashBehind
  <2> QED BY <2>1, <2>2, BehindStays
<1>2. ASSUME cache' = c \/ cache' = None PROVE CacheBehind'
  BY <1>1, <1>2 DEF CacheBehind, HashBehind, IssueBehind, Exists
<1>3. ASSUME UNCHANGED req PROVE \A p \in Procs : RequestBehind(req[p])'
  <2> SUFFICES ASSUME NEW p \in Procs PROVE RequestBehind(req[p])'
    OBVIOUS
  <2>1. PICK t \in Requests : t = req[p] /\ t = req'[p] /\ RequestBehind(t)
    BY <1>3 DEF TypeInv, VersionInv
  <2>2. RequestBehind(t)'
    BY <2>1, BehindStays
  <2> QED BY <2>1, <2>2 DEF RequestBehind, HashBehind, IssueBehind, Exists
<1>4. PICK w \in Seq(Payload) :
          /\ w = payloads
          /\ \A i \in 1..Len(w) : IssueBehind(w[i].n, w[i].issue)'
  <2>1. PICK w \in Seq(Payload) : w = payloads
    BY DEF TypeInv
  <2>2. \A i \in 1..Len(w) : w[i] \in Payload
    OBVIOUS
  <2>3. \A i \in 1..Len(w) : /\ w[i].n \in Numbers /\ w[i].issue \in Copy
                             /\ IssueBehind(w[i].n, w[i].issue)
    BY <2>1, <2>2 DEF Payload, Issue, Copy, VersionInv, PayloadsBehind
  <2> QED BY <2>1, <2>3, BehindStays
<1>5. ASSUME payloads' = w PROVE PayloadsBehind'
  BY <1>4, <1>5 DEF PayloadsBehind, IssueBehind, Exists
<1>6. ASSUME NEW n \in Numbers, GithubChange(n) PROVE VersionInv'
  <2>1. PICK issue \in Issue : /\ ChangeIssue(n, issue)
                               /\ UNCHANGED <<posted, cacheVars, req, history>>
    BY <1>6, GithubEffect
  <2>2. /\ github'[n] = issue /\ issue # None
        /\ payloads' \in Seq(Payload)
        /\ Len(payloads') = Len(w) + 1
        /\ \A i \in 1..Len(w) : payloads'[i] = w[i]
        /\ payloads'[Len(w) + 1].n = n
        /\ payloads'[Len(w) + 1].issue = issue
    BY <1>4, <2>1, ChangeEffect
  <2>3. IssueBehind(n, issue)'
    BY <2>2 DEF IssueBehind, Exists, Issue
  <2>4. PayloadsBehind'
    <3>1. Len(w) \in Nat
      OBVIOUS
    <3>2. \A i \in 1..Len(payloads') : i \in 1..Len(w) \/ i = Len(w) + 1
      BY <2>2, <3>1
    <3> QED BY <1>4, <2>2, <2>3, <3>2 DEF PayloadsBehind, IssueBehind, Exists
  <2>5. CacheBehind'
    BY <1>1, <1>2, <2>1 DEF cacheVars
  <2> QED BY <1>3, <2>1, <2>4, <2>5 DEF VersionInv
<1>7. CASE LosePayload
  <2>1. PICK i \in 1..Len(w) : payloads' = RemoveAt(w, i)
    BY <1>4, <1>7 DEF LosePayload
  <2>2. /\ Len(payloads') = Len(w) - 1
        /\ \A j \in 1..(Len(w) - 1) : payloads'[j] = IF j < i THEN w[j] ELSE w[j + 1]
    BY <2>1, OneRemoved
  <2>3. PayloadsBehind'
    <3>1. Len(w) \in Nat
      OBVIOUS
    <3>2. ASSUME NEW j \in 1..Len(payloads')
          PROVE  \E k \in 1..Len(w) : payloads'[j] = w[k]
      <4>1. j \in 1..(Len(w) - 1)
        BY <2>2
      <4>2. j \in 1..Len(w) /\ j + 1 \in 1..Len(w)
        BY <3>1, <4>1
      <4> QED BY <2>2, <4>1, <4>2
    <3> QED BY <1>4, <3>2 DEF PayloadsBehind, IssueBehind, Exists
  <2> QED BY <1>1, <1>2, <1>3, <1>7, <2>3 DEF LosePayload, cacheVars, VersionInv
<1>8. CASE Expire \/ Evict \/ UNCHANGED vars
  <2>1. UNCHANGED <<payloads, req>> /\ (cache' = c \/ cache' = None)
    BY <1>1, <1>8 DEF Expire, Evict, vars, cacheVars
  <2> QED BY <1>2, <1>3, <1>4, <1>5, <2>1 DEF VersionInv
<1> QED BY <1>6, <1>7, <1>8, VersionStep DEF Next

-----------------------------------------------------------------------------
(***************************************************************************)
(* A request that overlaps no other.                                       *)
(***************************************************************************)

\* It stays alone, if it goes on with the entry or with what it fetched.
LEMMA LoneTurns ==
    ASSUME TypeInv, LoneInv, NEW p \in Procs, req[p].at # "idle",
           NEW l, NEW copy, NEW issue, Turns(p, l, copy, issue),
           p \in lone /\ cache' # None /\ copy # None =>
               IF l \in {"fetch_closed", "store"}
               THEN \A n \in Numbers : copy[n] # None /\ cache'[n] # None
                                           => copy[n].version >= cache'[n].version
               ELSE copy = cache',
           p \in lone /\ req[p].kind = "sync" /\ l # "github"
               => issue.comments = github'[req[p].n].comments
    PROVE  LoneInv'
<1>1. PICK r \in Requests : r = req[p]
  BY DEF TypeInv
<1>2. /\ Only(p) /\ lone' = {q \in lone : req'[q] # Idle}
      /\ req'[p].kind = r.kind /\ req'[p].at = l /\ req'[p].n = r.n
      /\ req'[p].copy = copy /\ req'[p].issue = issue
  BY <1>1 DEF Turns
<1>3. req[p] # Idle
  BY DEF Idle
<1> SUFFICES ASSUME NEW q \in lone' PROVE LoneTells(q)'
  BY DEF LoneInv
<1>4. q \in lone /\ q = p
  BY <1>2, <1>3 DEF LoneInv, LoneTells
<1>5. r.kind # "webhook" /\ \A o \in Procs \ {p} : req'[o] = Idle
  BY <1>1, <1>2, <1>4 DEF LoneInv, LoneTells, Only
<1>6. r.kind = "sync" /\ l # "github" => issue.comments = github'[r.n].comments
  BY <1>1, <1>4
<1>7. cache' # None /\ copy # None =>
          IF l \in {"fetch_closed", "store"}
          THEN \A n \in Numbers : copy[n] # None /\ cache'[n] # None
                                      => copy[n].version >= cache'[n].version
          ELSE copy = cache'
  BY <1>4
<1> QED BY <1>2, <1>4, <1>5, <1>6, <1>7 DEF LoneTells, NotBefore

\* When it ends nothing is alone.
LEMMA LoneEnds ==
    ASSUME TypeInv, LoneInv, NEW p \in Procs, req[p].at # "idle", Ends(p)
    PROVE  LoneInv'
<1>1. Only(p) /\ lone' = {q \in lone : req'[q] # Idle} /\ req'[p] = Idle
  BY DEF Ends
<1>2. req[p] # Idle
  BY DEF Idle
<1>3. lone' = {}
  BY <1>1, <1>2 DEF LoneInv, LoneTells, TypeInv
<1> QED BY <1>3 DEF LoneInv

\* A request stays alone as long as nobody else comes, and its copy is then
\* the entry, or younger.
LEMMA LoneStep ==
    ASSUME TypeInv, VersionInv, LoneInv, [Next]_vars, NEW p \in Procs, Step(p)
    PROVE  LoneInv'
<1>0. PICK r \in Requests : /\ r = req[p] /\ LabelTells(r) /\ r.n \in Numbers
                            /\ r.kind \notin {"none", "read", "webhook"} => Exists(r.n)
  BY DEF TypeInv, Requests
<1>1. PICK c \in Copies \cup {None} : c = cache
  BY DEF TypeInv
<1>2. p \in lone /\ c # None /\ r.copy # None =>
          IF r.at \in {"fetch_closed", "store"}
          THEN \A n \in Numbers : r.copy[n] # None /\ c[n] # None
                                      => r.copy[n].version >= c[n].version
          ELSE r.copy = c
  BY <1>0, <1>1 DEF LoneInv, LoneTells, NotBefore
<1>3. p \in lone /\ r.kind = "sync" /\ r.at # "github"
          => r.issue.comments = github[r.n].comments
  BY <1>0 DEF LoneInv, LoneTells
<1>4. c # None => HashBehind(c)
  BY <1>1 DEF VersionInv, CacheBehind
<1>5. ASSUME NEW n \in Numbers, NEW kind \in Kinds, Arrive(p, kind, n)
      PROVE  LoneInv'
  <2>1. /\ Only(p) /\ req[p] = Idle
        /\ req'[p] \in [kind : {kind}, at : {"current", "github"}, n : {n},
                        copy : {None}, issue : {None}, again : {kind = "move"}]
        /\ req'[p].at = "current" <=> kind = "read"
        /\ lone' = IF Busy THEN {} ELSE {p}
    BY <1>5, ArriveEffect
  <2>2. CASE Busy
    BY <2>1, <2>2 DEF LoneInv
  <2>3. CASE ~Busy
    <3>1. \A q \in Procs \ {p} : req'[q] = Idle
      BY <2>1, <2>3 DEF Busy, Only
    <3>2. kind # "webhook"
      BY CacheAssumption DEF CacheAssumption
    <3>3. LoneTells(p)'
      BY <2>1, <3>1, <3>2 DEF LoneTells
    <3> QED BY <2>1, <2>3, <3>3 DEF LoneInv
  <2> QED BY <2>2, <2>3
<1>6. CASE Receive(p)
  <2>1. /\ UNCHANGED <<ghVars, cacheVars>>
        /\ UNCHANGED <<req, lone>> \/ lone' = {}
    BY <1>6, ReceiveEffect
  <2>2. CASE lone' = {}
    BY <2>2 DEF LoneInv
  <2>3. CASE UNCHANGED <<req, lone>>
    BY <2>1, <2>3 DEF LoneInv, LoneTells, NotBefore, ghVars, cacheVars
  <2> QED BY <2>1, <2>2, <2>3
<1>7. CASE AskGithub(p)
  <2>1. /\ r.at = "github" /\ r.kind \in {"change", "move"}
        /\ UNCHANGED <<posted, cacheVars>>
    BY <1>0, <1>7, AskEffect
  <2>2. PICK issue :
            \/ r.copy = None /\ Turns(p, "current", None, issue)
            \/ r.copy # None /\ Turns(p, "put", r.copy, issue)
    BY <1>0, <1>7, AskEffect
  <2>3. cache' = c
    BY <1>1, <2>1 DEF cacheVars
  <2> QED BY <1>0, <1>2, <2>1, <2>2, <2>3, LoneTurns
<1>8. CASE Comment(p)
  <2>1. /\ r.at = "github" /\ r.kind \in {"comment", "uncomment"}
        /\ Turns(p, "current", r.copy, r.issue)
        /\ UNCHANGED <<payloads, cacheVars>>
    BY <1>0, <1>8, CommentEffect
  <2>2. cache' = c
    BY <1>1, <2>1 DEF cacheVars
  <2> QED BY <1>0, <1>2, <2>1, <2>2, LoneTurns
<1>9. CASE CountComments(p)
  <2>1. PICK issue : issue = github[r.n]
    OBVIOUS
  <2>2. /\ r.at = "github" /\ r.kind = "sync"
        /\ Turns(p, "current", r.copy, issue)
        /\ UNCHANGED <<ghVars, payloads, cacheVars>>
    BY <1>0, <1>9, <2>1, CountEffect
  <2>3. cache' = c /\ issue.comments = github'[r.n].comments
    BY <1>1, <2>1, <2>2 DEF cacheVars, ghVars
  <2> QED BY <1>0, <1>2, <2>2, <2>3, LoneTurns
<1>10. CASE Current(p)
  <2>1. /\ r.at = "current"
        /\ \/ Turns(p, "fetch_open", r.copy, r.issue)
           \/ Ends(p)
           \/ Turns(p, "put", c, r.issue)
        /\ UNCHANGED <<ghVars, payloads, cacheVars>>
    BY <1>0, <1>1, <1>10, CurrentEffect
  <2>2. cache' = c /\ github' = github
    BY <1>1, <2>1 DEF cacheVars, ghVars
  <2>3. CASE Ends(p)
    BY <1>0, <2>1, <2>3, LoneEnds
  <2>4. CASE Turns(p, "fetch_open", r.copy, r.issue)
    BY <1>0, <1>2, <1>3, <2>1, <2>2, <2>4, LoneTurns
  <2>5. CASE Turns(p, "put", c, r.issue)
    BY <1>0, <1>3, <2>1, <2>2, <2>5, LoneTurns
  <2> QED BY <2>1, <2>3, <2>4, <2>5
<1>11. CASE FetchOpen(p)
  <2>1. PICK copy : copy = [n \in Numbers |-> IF Exists(n) /\ github[n].open
                                               THEN github[n] ELSE None]
    OBVIOUS
  <2>2. /\ r.at = "fetch_open"
        /\ Turns(p, "fetch_closed", copy, r.issue)
        /\ UNCHANGED <<ghVars, payloads, cacheVars>>
    BY <1>0, <1>11, <2>1, FetchOpenEffect
  <2>3. cache' = c /\ github' = github
    BY <1>1, <2>2 DEF cacheVars, ghVars
  <2>4. c # None =>
            \A n \in Numbers : copy[n] # None /\ c[n] # None
                                   => copy[n].version >= c[n].version
    <3> SUFFICES ASSUME c # None, NEW n \in Numbers, copy[n] # None, c[n] # None
                 PROVE  copy[n].version >= c[n].version
      OBVIOUS
    <3>1. copy[n] = github[n] /\ github[n] \in Issue
      BY <2>1, GithubGrows
    <3>2. c[n] \in Copy /\ c[n].version <= github[n].version
      BY <1>4 DEF HashBehind, IssueBehind, Copies
    <3> QED BY <3>1, <3>2 DEF Issue, Copy
  <2> QED BY <1>0, <1>3, <2>2, <2>3, <2>4, LoneTurns
<1>12. CASE FetchClosed(p)
  <2>1. PICK copy : copy = WithClosed(r.copy)
    OBVIOUS
  <2>2. /\ r.at = "fetch_closed"
        /\ Turns(p, "store", copy, r.issue)
        /\ UNCHANGED <<ghVars, payloads, cacheVars>>
    BY <1>0, <1>12, <2>1, FetchClosedEffect
  <2>3. cache' = c /\ github' = github /\ r.copy # None
    BY <1>0, <1>1, <2>2 DEF cacheVars, ghVars, LabelTells
  <2>4. p \in lone /\ c # None =>
            \A n \in Numbers : copy[n] # None /\ c[n] # None
                                   => copy[n].version >= c[n].version
    <3> SUFFICES ASSUME p \in lone, c # None, NEW n \in Numbers,
                        copy[n] # None, c[n] # None
                 PROVE  copy[n].version >= c[n].version
      OBVIOUS
    <3>1. CASE Exists(n) /\ ~github[n].open
      <4>1. copy[n] = github[n] /\ github[n] \in Issue
        BY <2>1, <3>1, GithubGrows DEF WithClosed
      <4>2. c[n] \in Copy /\ c[n].version <= github[n].version
        BY <1>4 DEF HashBehind, IssueBehind, Copies
      <4> QED BY <4>1, <4>2 DEF Issue, Copy
    <3>2. CASE ~(Exists(n) /\ ~github[n].open)
      <4>1. copy[n] = r.copy[n]
        BY <2>1, <3>2 DEF WithClosed
      <4> QED BY <1>2, <2>2, <2>3, <4>1
    <3> QED BY <3>1, <3>2
  <2> QED BY <1>0, <1>3, <2>2, <2>3, <2>4, LoneTurns
<1>13. CASE Store(p)
  <2>1. /\ r.at = "store" /\ cache' = r.copy
        /\ Ends(p) \/ Turns(p, "put", r.copy, r.issue)
        /\ UNCHANGED <<ghVars, payloads>>
    BY <1>0, <1>13, StoreEffect
  <2>2. github' = github
    BY <2>1 DEF ghVars
  <2>3. CASE Ends(p)
    BY <1>0, <2>1, <2>3, LoneEnds
  <2>4. CASE Turns(p, "put", r.copy, r.issue)
    BY <1>0, <1>3, <2>1, <2>2, <2>4, LoneTurns
  <2> QED BY <2>1, <2>3, <2>4
<1>14. CASE Put(p)
  <2>1. PICK copy : copy = Replaced(r)
    OBVIOUS
  <2>2. /\ r.at = "put" /\ cache' = copy
        /\ Ends(p) \/ Turns(p, "github", copy, r.issue)
    BY <1>0, <1>14, <2>1, PutEffect
  <2>3. CASE Ends(p)
    BY <1>0, <2>2, <2>3, LoneEnds
  <2>4. CASE Turns(p, "github", copy, r.issue)
    BY <1>0, <2>2, <2>4, LoneTurns
  <2> QED BY <2>2, <2>3, <2>4
<1> QED BY <1>5, <1>6, <1>7, <1>8, <1>9, <1>10, <1>11, <1>12, <1>13, <1>14 DEF Step

\* What happens elsewhere does not touch it: only a request of the board
\* makes comments, and an entry is dropped as a whole.
LEMMA NextLoneInv ==
    ASSUME TypeInv, VersionInv, LoneInv, [Next]_vars
    PROVE  LoneInv'
<1>1. ASSUME NEW n \in Numbers, GithubChange(n) PROVE LoneInv'
  <2>1. PICK issue \in Issue :
            /\ ChangeIssue(n, issue)
            /\ Exists(n) => issue.comments = github[n].comments
            /\ UNCHANGED <<posted, cacheVars, req, history>>
    BY <1>1, GithubEffect
  <2>2. /\ github'[n] = issue
        /\ \A m \in Numbers : m # n => github'[m] = github[m]
    BY <2>1, ChangeEffect
  <2>3. cache' = cache /\ req' = req /\ lone' = lone
    BY <2>1 DEF cacheVars, history
  <2>4. \A m \in Numbers : Exists(m) => github'[m].comments = github[m].comments
    BY <2>1, <2>2
  <2>5. ASSUME NEW p \in lone PROVE LoneTells(p)'
    <3>1. p \in Procs /\ LoneTells(p)
      BY <2>3 DEF TypeInv, LoneInv
    <3>2. PICK m \in Numbers : m = req[p].n
      BY <3>1 DEF TypeInv, Requests
    <3>3. req[p].kind = "sync" => Exists(m)
      BY <3>1, <3>2 DEF TypeInv
    <3>4. req[p].kind = "sync" => github'[m].comments = github[m].comments
      BY <2>4, <3>3
    <3> QED BY <2>3, <3>1, <3>2, <3>4 DEF LoneTells, NotBefore
  <2> QED BY <2>3, <2>5 DEF LoneInv
<1>2. CASE LosePayload \/ Expire \/ UNCHANGED vars
  <2>1. UNCHANGED <<github, cache, req, lone>>
    BY <1>2 DEF LosePayload, Expire, vars, ghVars, cacheVars, history
  <2> QED BY <2>1 DEF LoneInv, LoneTells, NotBefore
<1>3. CASE Evict
  <2>1. UNCHANGED <<github, req, lone>> /\ cache' = None
    BY <1>3 DEF Evict, ghVars, history
  <2> QED BY <2>1 DEF LoneInv, LoneTells
<1> QED BY <1>1, <1>2, <1>3, LoneStep DEF Next

\* What a request that is alone writes.
LEMMA LoneWrites ==
    ASSUME TypeInv, VersionInv, LoneInv, [Next]_vars,
           NEW p \in lone, req'[p] # req[p], req[p].at \in {"put", "store"}
    PROVE  /\ req[p].at = "put" => cache' = Replaced(req[p])
           /\ req[p].at = "put" /\ cache # None => req[p].copy = cache
           /\ req[p].at = "store" /\ cache # None =>
                  /\ cache' = req[p].copy
                  /\ NotBefore(req[p].copy)
<1>0. p \in Procs /\ LoneTells(p) /\ LabelTells(req[p]) /\ req[p].at # Idle.at
  BY DEF TypeInv, LoneInv, Idle
<1>1. req[p].copy # None
  BY <1>0 DEF LabelTells
<1>2. Step(p)
  <2>1. ASSUME NEW q \in Procs, q # p PROVE ~Step(q)
    <3>1. ASSUME NEW n \in Numbers, NEW kind \in Kinds, Arrive(q, kind, n)
          PROVE  FALSE
      <4>1. Only(q)
        BY <3>1, ArriveEffect
      <4> QED BY <1>0, <2>1, <4>1 DEF Only
    <3>2. ~Receive(q)
      <4>1. Receive(q) => Only(q)
        BY ReceiveEffect
      <4> QED BY <1>0, <2>1, <4>1 DEF Only
    <3>3. req[q].at = "idle"
      <4>1. req[q] = Idle
        BY <1>0, <2>1 DEF LoneTells
      <4> QED BY <4>1 DEF Idle
    <3>4. /\ ~AskGithub(q) /\ ~Comment(q) /\ ~CountComments(q) /\ ~Current(q)
          /\ ~FetchOpen(q) /\ ~FetchClosed(q) /\ ~Store(q) /\ ~Put(q)
      BY <3>3, AskEffect, CommentEffect, CountEffect, CurrentEffect,
         FetchOpenEffect, FetchClosedEffect, StoreEffect, PutEffect
    <3> QED BY <3>1, <3>2, <3>4 DEF Step
  <2>2. ASSUME NEW n \in Numbers PROVE ~GithubChange(n)
    BY DEF GithubChange
  <2>3. ~LosePayload /\ ~Expire /\ ~Evict /\ ~UNCHANGED vars
    BY DEF LosePayload, Expire, Evict, vars
  <2> QED BY <2>1, <2>2, <2>3 DEF Next
<1>3. ASSUME NEW n \in Numbers, NEW kind \in Kinds PROVE ~Arrive(p, kind, n)
  BY <1>0 DEF Arrive
<1>4. ~Receive(p)
  BY <1>0, ReceiveEffect
<1>5. /\ ~AskGithub(p) /\ ~Comment(p) /\ ~CountComments(p) /\ ~Current(p)
      /\ ~FetchOpen(p) /\ ~FetchClosed(p)
  BY <1>0, AskEffect, CommentEffect, CountEffect, CurrentEffect, FetchOpenEffect,
     FetchClosedEffect
<1>6. Store(p) \/ Put(p)
  BY <1>2, <1>3, <1>4, <1>5 DEF Step
<1>7. /\ req[p].at = "put" => cache' = Replaced(req[p])
      /\ req[p].at = "store" => cache' = req[p].copy
  BY <1>0, <1>6, StoreEffect, PutEffect
<1> QED BY <1>0, <1>1, <1>7 DEF LoneTells

\* Every step of a request that is alone takes the cache forward.
LEMMA LoneAdvances ==
    ASSUME TypeInv, VersionInv, LoneInv, [Next]_vars, NEW p \in lone,
           req'[p] # req[p], req[p].at \in {"put", "store"}
    PROVE  LET changes == req[p].at = "put" /\ req[p].kind \in {"change", "move"} IN
           /\ changes => cache'[req[p].n] = req[p].issue
           /\ cache # None =>
                  \A n \in {m \in Numbers : cache[m] # None} :
                      /\ req[p].at = "put" => cache'[n] # None
                      /\ cache'[n] # None /\ ~(changes /\ n = req[p].n) =>
                             cache'[n].version >= cache[n].version
<1>1. PICK r \in Requests : r = req[p]
  BY DEF TypeInv
<1>2. PICK c \in Copies \cup {None} : c = cache
  BY DEF TypeInv
<1>3. p \in Procs
  BY DEF TypeInv
<1>4. \A n \in Numbers : c # None /\ c[n] # None => c[n].version \in Nat
  BY DEF Copies, Copy
<1>5. CASE r.at = "put"
  <2>1. cache' = Replaced(r) /\ (c # None => r.copy = c)
    BY <1>1, <1>2, <1>5, LoneWrites
  <2>2. /\ Updated(r) # None
        /\ Replaced(r)[r.n] = Updated(r)
        /\ \A n \in Numbers : n # r.n => Replaced(r)[n] = r.copy[n]
        /\ r.kind \in {"change", "move"} => Updated(r) = r.issue
        /\ r.kind \in {"comment", "uncomment", "sync"} =>
               Updated(r).version = r.copy[r.n].version
        /\ r.kind \in {"change", "move", "webhook", "comment", "uncomment", "sync"}
    BY <1>1, <1>3, <1>5, UpdatedIssue
  <2>3. r.kind # "webhook"
    BY <1>1 DEF LoneInv, LoneTells
  <2> QED BY <1>1, <1>2, <1>4, <1>5, <2>1, <2>2, <2>3
<1>6. CASE r.at = "store"
  <2>1. c # None =>
            /\ cache' = r.copy
            /\ \A n \in Numbers : r.copy[n] # None /\ c[n] # None
                                      => r.copy[n].version >= c[n].version
    BY <1>1, <1>2, <1>6, LoneWrites DEF NotBefore
  <2> QED BY <1>1, <1>2, <1>6, <2>1
<1> QED BY <1>1, <1>5, <1>6

\* A request that overlaps no other request and no webhook loses nothing out
\* of the cache and takes no other issue back, whatever happens on GitHub
\* between its calls: its copy is the entry, or no issue in it is older.
THEOREM LoneRequestsAdvance == Spec => LoneRequestAdvances
<1> DEFINE Advances ==
        \A p \in lone :
           LET r       == req[p]
               changes == At(p, "put") /\ r.kind \in {"change", "move"}
           IN
           cache' # cache /\ (At(p, "put") \/ At(p, "store")) /\ req'[p] # r
           => /\ changes => cache'[r.n] = r.issue
              /\ cache # None =>
                     \A n \in {m \in Numbers : cache[m] # None} :
                         /\ At(p, "put") => cache'[n] # None
                         /\ cache'[n] # None /\ ~(changes /\ n = r.n) =>
                                cache'[n].version >= cache[n].version
<1>1. TypeInv /\ VersionInv /\ LoneInv /\ [Next]_vars => [Advances]_vars
  <2> SUFFICES ASSUME TypeInv, VersionInv, LoneInv, [Next]_vars PROVE Advances
    OBVIOUS
  <2> QED BY LoneAdvances DEF At
<1>2. Init => VersionInv /\ LoneInv
  BY DEF Init, Idle, VersionInv, CacheBehind, PayloadsBehind, RequestBehind, LoneInv
<1>3. LoneRequestAdvances <=> [][Advances]_vars
  BY DEF LoneRequestAdvances, Advances
<1> HIDE DEF Advances
<1> QED BY <1>1, <1>2, <1>3, InitTypeInv, NextTypeInv, NextVersionInv, NextLoneInv,
           PTL DEF Spec

\* Opening an issue while nothing else runs counts its comments right: they
\* are made by requests alone, and so none came since they were counted.
THEOREM LoneSyncsCount == Spec => LoneSyncCounts
<1> DEFINE Counts ==
        \A p \in lone :
           LET r == req[p] IN
           At(p, "put") /\ r.kind = "sync" /\ req'[p] # r
               => cache'[r.n].comments = github[r.n].comments
<1>1. TypeInv /\ VersionInv /\ LoneInv /\ [Next]_vars => [Counts]_vars
  <2> SUFFICES ASSUME TypeInv, VersionInv, LoneInv, [Next]_vars,
                      NEW p \in lone, req[p].at = "put", req[p].kind = "sync",
                      req'[p] # req[p]
               PROVE  cache'[req[p].n].comments = github[req[p].n].comments
    BY DEF At
  <2>1. cache' = Replaced(req[p])
    BY LoneWrites
  <2>2. /\ Replaced(req[p])[req[p].n] = Updated(req[p])
        /\ Updated(req[p]).comments = req[p].issue.comments
    BY UpdatedIssue DEF TypeInv
  <2>3. req[p].issue.comments = github[req[p].n].comments
    BY DEF LoneInv, LoneTells
  <2> QED BY <2>1, <2>2, <2>3
<1>2. Init => VersionInv /\ LoneInv
  BY DEF Init, Idle, VersionInv, CacheBehind, PayloadsBehind, RequestBehind, LoneInv
<1>3. LoneSyncCounts <=> [][Counts]_vars
  BY DEF LoneSyncCounts, Counts
<1> HIDE DEF Counts
<1> QED BY <1>1, <1>2, <1>3, InitTypeInv, NextTypeInv, NextVersionInv, NextLoneInv,
           PTL DEF Spec

-----------------------------------------------------------------------------
(***************************************************************************)
(* Requests one after the other, and webhooks in the order of the changes. *)
(***************************************************************************)

\* The webhook of a change is the last that tells of the issue.
LEMMA ChangeAnnounces ==
    ASSUME TypeInv, LastTells, NEW n \in Numbers, NEW issue \in Issue,
           ChangeIssue(n, issue)
    PROVE  /\ Announced(n)' /\ LastTells'
           /\ \A m \in Numbers : Announced(m) => Announced(m)'
           /\ \A m \in Numbers : m # n => github'[m] = github[m]
<1>1. PICK w \in Seq(Payload) : w = payloads
  BY DEF TypeInv
<1>2. Len(w) \in Nat /\ \A i \in 1..Len(w) : w[i].n \in Numbers
  <2>1. \A i \in 1..Len(w) : w[i] \in Payload
    OBVIOUS
  <2> QED BY <2>1 DEF Payload
<1>3. /\ github'[n] = issue /\ issue # None
      /\ \A m \in Numbers : m # n => github'[m] = github[m]
      /\ Len(payloads') = Len(w) + 1
      /\ \A i \in 1..Len(w) : payloads'[i] = w[i]
      /\ payloads'[Len(w) + 1].n = n
      /\ payloads'[Len(w) + 1].issue = issue
  BY <1>1, ChangeEffect
<1>4. Announced(n)' /\ \A m \in Numbers : Announced(m) => Announced(m)'
  BY <1>1, <1>2, <1>3 DEF Announced
<1>5. ASSUME NEW i \in 1..Len(payloads'),
             \A j \in (i + 1)..Len(payloads') : payloads'[j].n # payloads'[i].n
      PROVE  Agrees(payloads[i].n, payloads[i].issue)'
  <2>1. CASE i = Len(w) + 1
    BY <1>3, <2>1 DEF Agrees
  <2>2. CASE i # Len(w) + 1
    <3>1. i \in 1..Len(w) /\ Len(w) + 1 \in (i + 1)..Len(payloads')
      BY <1>2, <1>3, <2>2
    <3>2. w[i].n # n
      BY <1>3, <1>5, <3>1
    <3>3. \A j \in (i + 1)..Len(w) : w[j].n # w[i].n
      <4>1. \A j \in (i + 1)..Len(w) : j \in 1..Len(w) /\ j \in (i + 1)..Len(payloads')
        BY <1>2, <1>3, <3>1
      <4> QED BY <1>3, <1>5, <3>1, <4>1
    <3>4. Agrees(w[i].n, w[i].issue)
      BY <1>1, <3>1, <3>3 DEF LastTells
    <3> QED BY <1>2, <1>3, <3>1, <3>2, <3>4 DEF Agrees
  <2> QED BY <2>1, <2>2
<1> QED BY <1>3, <1>4, <1>5 DEF LastTells

\* Without the first webhook, the others tell as much.
LEMMA FirstReceived ==
    ASSUME TypeInv, LastTells, NEW w, w = payloads, Len(w) > 0, UNCHANGED github,
           Len(payloads') = Len(w) - 1,
           \A j \in 1..(Len(w) - 1) : payloads'[j] = w[j + 1]
    PROVE  /\ LastTells'
           /\ \A m : Announced(m) => Announced(m)' \/ m = w[1].n
           /\ Announced(w[1].n)' \/ Agrees(w[1].n, w[1].issue)'
<1>1. Len(w) \in Nat
  BY DEF TypeInv
<1>2. ASSUME NEW m, Announced(m), m # w[1].n PROVE Announced(m)'
  <2>1. PICK i \in 1..Len(w) : w[i].n = m
    BY <1>2 DEF Announced
  <2>2. i - 1 \in 1..(Len(w) - 1) /\ (i - 1) + 1 = i
    BY <1>1, <1>2, <2>1
  <2> QED BY <2>1, <2>2 DEF Announced
<1>3. ASSUME ~Announced(w[1].n)' PROVE Agrees(w[1].n, w[1].issue)'
  <2>1. ASSUME NEW j \in 2..Len(w) PROVE w[j].n # w[1].n
    <3>1. j - 1 \in 1..(Len(w) - 1) /\ (j - 1) + 1 = j
      BY <1>1, <2>1
    <3>2. payloads'[j - 1] = w[j] /\ j - 1 \in 1..Len(payloads')
      BY <3>1
    <3> QED BY <1>3, <3>2 DEF Announced
  <2>2. 1 \in 1..Len(w)
    BY <1>1
  <2>3. Agrees(w[1].n, w[1].issue)
    BY <2>1, <2>2 DEF LastTells
  <2> QED BY <2>3 DEF Agrees
<1>4. ASSUME NEW i \in 1..Len(payloads'),
             \A j \in (i + 1)..Len(payloads') : payloads'[j].n # payloads'[i].n
      PROVE  Agrees(payloads[i].n, payloads[i].issue)'
  <2>1. i \in 1..(Len(w) - 1) /\ i + 1 \in 1..Len(w) /\ payloads'[i] = w[i + 1]
    BY <1>1
  <2>2. ASSUME NEW j \in (i + 2)..Len(w) PROVE w[j].n # w[i + 1].n
    <3>1. /\ j - 1 \in (i + 1)..Len(payloads') /\ j - 1 \in 1..(Len(w) - 1)
          /\ (j - 1) + 1 = j
      BY <1>1, <2>1, <2>2
    <3>2. payloads'[j - 1] = w[j]
      BY <3>1
    <3> QED BY <1>4, <2>1, <3>1, <3>2
  <2>3. (i + 1) + 1 = i + 2
    BY <2>1
  <2>4. Agrees(w[i + 1].n, w[i + 1].issue)
    BY <2>1, <2>2, <2>3 DEF LastTells
  <2> QED BY <2>1, <2>4 DEF Agrees
<1> QED BY <1>2, <1>3, <1>4 DEF LastTells

\* A change on GitHub is announced, and so what the cache lacks will come.
LEMMA ChangeIsTold ==
    ASSUME TypeInv, NEW n \in Numbers, NEW issue \in Issue, ChangeIssue(n, issue),
           LastTells
    PROVE  /\ \A r \in Requests : BringsTells(r) => BringsTells(r)'
           /\ CacheTells /\ UNCHANGED <<cache, req>> => CacheTells'
           /\ \A c : (\A m \in Numbers : Exists(m) => Announced(m) \/ Agrees(m, c[m]))
                     => (\A m \in Numbers : Exists(m) => Announced(m) \/ Agrees(m, c[m]))'
<1>1. /\ Announced(n)'
      /\ \A m \in Numbers : Announced(m) => Announced(m)'
      /\ \A m \in Numbers : m # n => github'[m] = github[m]
  BY ChangeAnnounces
<1>2. \A m \in Numbers : m # n => /\ Exists(m)' => Exists(m)
                                  /\ github'[m].open = github[m].open
                                  /\ \A i : Agrees(m, i) => Agrees(m, i)'
  BY <1>1 DEF Exists, Agrees
<1>3. ASSUME NEW r \in Requests, BringsTells(r) PROVE BringsTells(r)'
  <2>1. r.n \in Numbers
    BY DEF Requests
  <2>2. r.kind = "webhook" => (Announced(r.n) \/ Agrees(r.n, r.issue))'
    BY <1>1, <1>2, <1>3, <2>1 DEF BringsTells
  <2>3. r.kind \in {"change", "move"} /\ r.issue # None => Announced(r.n)'
    BY <1>1, <1>3, <2>1 DEF BringsTells
  <2>4. ASSUME r.copy # None, NEW m \in Numbers, Exists(m)',
               r.at = "fetch_closed" => github'[m].open
        PROVE  \/ Announced(m)'
               \/ Agrees(m, r.copy[m])'
               \/ r.kind = "webhook" /\ r.n = m
    BY <1>1, <1>2, <1>3, <2>4 DEF BringsTells
  <2> QED BY <2>2, <2>3, <2>4 DEF BringsTells, Exists
<1>4. ASSUME CacheTells, UNCHANGED <<cache, req>> PROVE CacheTells'
  <2> SUFFICES ASSUME cache # None, NEW m \in Numbers, Exists(m)'
               PROVE  \/ Announced(m)'
                      \/ Agrees(m, cache[m])'
                      \/ \E p \in Procs : req[p].kind = "webhook" /\ req[p].n = m
    BY <1>4 DEF CacheTells
  <2> QED BY <1>1, <1>2, <1>4 DEF CacheTells, Agrees
<1> QED BY <1>1, <1>2, <1>3, <1>4 DEF Exists

\* The one request under way goes on.
LEMMA OneSerial ==
    ASSUME NEW p \in Procs, Only(p), \A q \in Procs \ {p} : req[q] = Idle,
           NEW s, s = req'[p], BringsTells(s)', LastTells', CacheTells'
    PROVE  SerialInv'
<1>1. \A q \in Procs \ {p} : req'[q] = Idle
  BY DEF Only
<1>2. OneBusy'
  BY <1>1 DEF OneBusy
<1>3. ASSUME NEW q \in Procs PROVE BringsTells(req[q])'
  <2>1. CASE q = p
    BY <2>1 DEF BringsTells, Announced, Agrees, Exists
  <2>2. CASE q # p
    <3>1. req'[q] = Idle
      BY <1>1, <2>2
    <3>2. Idle.kind = "none" /\ Idle.copy = None
      BY DEF Idle
    <3> QED BY <3>1, <3>2 DEF BringsTells
  <2> QED BY <2>1, <2>2
<1> QED BY <1>2, <1>3 DEF SerialInv

\* Requests that come one after the other bring the cache what it lacks.
LEMMA SerialStep ==
    ASSUME TypeInv, VersionInv, SerialInv, NEW p \in Procs, Step(p), ~twisted'
    PROVE  SerialInv'
<1>0. PICK r \in Requests : /\ r = req[p] /\ LabelTells(r) /\ r.n \in Numbers
                            /\ r.kind \notin {"none", "read", "webhook"} => Exists(r.n)
  BY DEF TypeInv, Requests
<1>1. PICK c \in Copies \cup {None} : c = cache
  BY DEF TypeInv
<1>2. ~twisted
  <2>1. ASSUME NEW n \in Numbers, NEW kind \in Kinds, Arrive(p, kind, n) PROVE ~twisted
    BY <2>1 DEF Arrive
  <2>2. CASE Receive(p)
    BY <2>2, ReceiveEffect
  <2>3. CASE AskGithub(p)
    BY <2>3, AskEffect DEF Turns
  <2>4. CASE Comment(p) \/ CountComments(p) \/ FetchOpen(p) \/ FetchClosed(p)
    BY <2>4, CommentEffect, CountEffect, FetchOpenEffect, FetchClosedEffect DEF Turns
  <2>5. CASE Current(p) \/ Store(p) \/ Put(p)
    BY <2>5, CurrentEffect, StoreEffect, PutEffect DEF Turns, Ends
  <2> QED BY <2>1, <2>2, <2>3, <2>4, <2>5 DEF Step
<1>3. /\ OneBusy /\ LastTells /\ CacheTells
      /\ BringsTells(r)
  BY <1>0, <1>2 DEF SerialInv
<1>4. req[p] # Idle => \A q \in Procs \ {p} : req[q] = Idle
  BY <1>3 DEF OneBusy
<1>5. Idle.kind = "none" /\ Idle.at = "idle" /\ Idle.copy = None
  BY DEF Idle
<1>6. \A q \in Procs : req[q] # Idle <=> req[q].at # "idle"
  BY DEF TypeInv, LabelTells
<1> DEFINE Told(hash) ==
        \A n \in Numbers : Exists(n) => Announced(n) \/ Agrees(n, hash[n])
<1>7. ASSUME UNCHANGED <<github, payloads>>
      PROVE  /\ LastTells' /\ (BringsTells(r))'
             /\ \A hash : Told(hash) => Told(hash)'
  BY <1>3, <1>7 DEF LastTells, BringsTells, Announced, Agrees, Exists
<1>8. ASSUME r.at # "idle", r.kind # "webhook", c # None PROVE Told(c)
  <2>1. \A q \in Procs : req[q].kind # "webhook"
    BY <1>0, <1>4, <1>5, <1>6, <1>8
  <2> QED BY <1>1, <1>3, <1>8, <2>1 DEF CacheTells
<1>9. ASSUME cache' # None => \E hash : hash = cache' /\ Told(hash)'
      PROVE  CacheTells'
  <2>1. CASE cache' # None
    <3>1. PICK hash : hash = cache' /\ Told(hash)'
      BY <1>9, <2>1
    <3> QED BY <3>1 DEF CacheTells, Exists, Announced, Agrees
  <2>2. CASE cache' = None
    BY <2>2 DEF CacheTells
  <2> QED BY <2>1, <2>2
<1> HIDE DEF Told
<1>10. ASSUME NEW n \in Numbers, NEW kind \in Kinds, Arrive(p, kind, n)
       PROVE  SerialInv'
  <2>1. /\ Only(p) /\ req[p] = Idle /\ twisted' = (twisted \/ Busy)
        /\ req'[p] \in [kind : {kind}, at : {"current", "github"}, n : {n},
                        copy : {None}, issue : {None}, again : {kind = "move"}]
        /\ UNCHANGED <<ghVars, payloads, cacheVars>>
    BY <1>10, ArriveEffect
  <2>2. \A q \in Procs : req[q] = Idle
    BY <2>1 DEF Busy
  <2>3. kind # "webhook"
    BY CacheAssumption DEF CacheAssumption
  <2>4. PICK s : s = req'[p] /\ s.kind = kind /\ s.copy = None /\ s.issue = None
    BY <2>1
  <2>5. BringsTells(s)'
    BY <2>3, <2>4 DEF BringsTells
  <2>6. github' = github /\ cache' = c
    BY <1>1, <2>1 DEF ghVars, cacheVars
  <2>7. c # None => Told(c)
    BY <1>1, <1>3, <1>5, <2>2 DEF CacheTells, Told
  <2>8. LastTells' /\ CacheTells'
    BY <1>7, <1>9, <2>1, <2>6, <2>7
  <2> QED BY <2>1, <2>2, <2>4, <2>5, <2>8, OneSerial
<1>11. CASE Receive(p)
  <2>1. Only(p) /\ req[p] = Idle /\ UNCHANGED <<ghVars, cacheVars>>
    BY <1>11, ReceiveEffect
  <2>2. PICK w \in Seq(Payload) : w = payloads
    BY DEF TypeInv
  <2>3. PICK i \in 1..Len(w) :
            /\ Len(payloads') = Len(w) - 1
            /\ \A j \in 1..(Len(w) - 1) :
                   payloads'[j] = IF j < i THEN w[j] ELSE w[j + 1]
            /\ \/ c = None /\ UNCHANGED <<req, lone>>
               \/ /\ c # None
                  /\ req'[p] \in [kind : {"webhook"}, at : {"put"}, n : {w[i].n},
                                  copy : {c}, issue : {w[i].issue}, again : {FALSE}]
            /\ twisted' = (twisted \/ Busy \/ i > 1)
    BY <1>1, <1>11, <2>2, ReceiveEffect
  <2>4. Len(w) \in Nat /\ i = 1 /\ \A q \in Procs : req[q] = Idle
    <3>1. ~Busy /\ ~(i > 1)
      BY <2>3
    <3>2. \A q \in Procs : req[q] = Idle
      BY <3>1 DEF Busy
    <3>3. Len(w) \in Nat
      OBVIOUS
    <3> QED BY <3>1, <3>2, <3>3
  <2>5. \A j \in 1..(Len(w) - 1) : payloads'[j] = w[j + 1]
    BY <2>3, <2>4
  <2>6. github' = github /\ cache' = c
    BY <1>1, <2>1 DEF ghVars, cacheVars
  <2>7. /\ LastTells'
        /\ \A m : Announced(m) => Announced(m)' \/ m = w[1].n
        /\ Announced(w[1].n)' \/ Agrees(w[1].n, w[1].issue)'
    BY <1>3, <2>2, <2>3, <2>4, <2>5, <2>6, FirstReceived
  <2>8. c # None => Told(c)
    BY <1>1, <1>3, <1>5, <2>4 DEF CacheTells, Told
  <2>9. CASE c = None /\ UNCHANGED <<req, lone>>
    <3>1. CacheTells'
      BY <2>6, <2>9 DEF CacheTells
    <3>2. PICK s : s = req'[p] /\ s = Idle
      BY <2>1, <2>9
    <3>3. BringsTells(s)'
      BY <1>5, <3>2 DEF BringsTells
    <3> QED BY <2>1, <2>4, <2>7, <3>1, <3>2, <3>3, OneSerial
  <2>10. CASE /\ c # None
              /\ req'[p] \in [kind : {"webhook"}, at : {"put"}, n : {w[i].n},
                              copy : {c}, issue : {w[i].issue}, again : {FALSE}]
    <3>1. PICK s : /\ s = req'[p] /\ s.kind = "webhook" /\ s.at = "put"
                   /\ s.n = w[1].n /\ s.copy = c /\ s.issue = w[1].issue
      BY <2>4, <2>10
    <3>2. ASSUME NEW n \in Numbers, Exists(n)'
          PROVE  Announced(n)' \/ Agrees(n, c[n])' \/ n = w[1].n
      <4>1. Announced(n) \/ Agrees(n, c[n])
        BY <2>6, <2>8, <2>10, <3>2 DEF Exists, Told
      <4> QED BY <2>6, <2>7, <4>1 DEF Agrees
    <3>3. BringsTells(s)'
      BY <2>7, <3>1, <3>2 DEF BringsTells, Exists
    <3>4. CacheTells'
      BY <2>6, <3>1, <3>2 DEF CacheTells, Agrees, Exists
    <3> QED BY <2>1, <2>4, <2>7, <3>1, <3>3, <3>4, OneSerial
  <2> QED BY <2>3, <2>9, <2>10
<1>12. ASSUME r.at # "idle", NEW l, NEW copy, NEW issue, Turns(p, l, copy, issue),
              LastTells', CacheTells',
              r.kind = "webhook" => (Announced(r.n) \/ Agrees(r.n, issue))',
              r.kind \in {"change", "move"} /\ issue # None => Announced(r.n)',
              copy # None => (\A n \in Numbers :
                  Exists(n) /\ (l = "fetch_closed" => github[n].open)
                  => \/ Announced(n)
                     \/ Agrees(n, copy[n])
                     \/ r.kind = "webhook" /\ r.n = n)'
       PROVE  SerialInv'
  <2>1. PICK s : /\ s = req'[p] /\ s.kind = r.kind /\ s.at = l /\ s.n = r.n
                 /\ s.copy = copy /\ s.issue = issue /\ Only(p)
    BY <1>0, <1>12 DEF Turns
  <2>2. BringsTells(s)'
    BY <1>12, <2>1 DEF BringsTells
  <2>3. \A q \in Procs \ {p} : req[q] = Idle
    BY <1>0, <1>4, <1>6, <1>12
  <2> QED BY <1>12, <2>1, <2>2, <2>3, OneSerial
<1>13. ASSUME r.at # "idle", Ends(p), LastTells', CacheTells'
       PROVE  SerialInv'
  <2>1. PICK s : s = req'[p] /\ s = Idle /\ Only(p)
    BY <1>13 DEF Ends
  <2>2. BringsTells(s)'
    BY <1>5, <2>1 DEF BringsTells
  <2>3. \A q \in Procs \ {p} : req[q] = Idle
    BY <1>0, <1>4, <1>6, <1>13
  <2> QED BY <1>13, <2>1, <2>2, <2>3, OneSerial
<1>14. CASE AskGithub(p)
  <2>1. r.at = "github" /\ r.kind \in {"change", "move"} /\ UNCHANGED <<posted, cacheVars>>
    BY <1>0, <1>14, AskEffect
  <2>2. PICK issue \in Changes(github[r.n]) :
            /\ ChangeIssue(r.n, issue)
            /\ \/ r.copy = None /\ Turns(p, "current", None, issue)
               \/ r.copy # None /\ Turns(p, "put", r.copy, issue)
    BY <1>0, <1>14, AskEffect
  <2>3. issue \in Issue
    <3>1. github[r.n] \in Issue
      BY <1>0, <2>1 DEF TypeInv, Hash, Exists
    <3> QED BY <2>2, <3>1, ChangedIssue
  <2>4. Announced(r.n)' /\ LastTells'
    BY <1>0, <1>3, <2>2, <2>3, ChangeAnnounces
  <2>5. BringsTells(r)' /\ \A hash : Told(hash) => Told(hash)'
    BY <1>0, <1>3, <2>2, <2>3, ChangeIsTold DEF Told
  <2>6. CacheTells'
    <3>1. cache' = c /\ (c # None => Told(c))
      BY <1>1, <1>8, <2>1 DEF cacheVars
    <3> QED BY <1>9, <2>5, <3>1
  <2>7. r.copy # None => (\A n \in Numbers :
            Exists(n) => \/ Announced(n)
                         \/ Agrees(n, r.copy[n])
                         \/ r.kind = "webhook" /\ r.n = n)'
    BY <2>1, <2>5 DEF BringsTells
  <2> QED BY <1>12, <2>1, <2>2, <2>4, <2>6, <2>7
<1>15. ASSUME r.at # "idle", r.kind # "webhook", cache' = c,
              UNCHANGED <<github, payloads>>
       PROVE  LastTells' /\ CacheTells' /\ BringsTells(r)'
  BY <1>7, <1>8, <1>9, <1>15
<1>16. CASE Comment(p)
  <2>1. /\ r.at = "github" /\ r.kind \in {"comment", "uncomment"}
        /\ Turns(p, "current", r.copy, r.issue)
        /\ \A n \in Numbers : Exists(n) =>
               /\ github'[n].version = github[n].version
               /\ github'[n].open = github[n].open
        /\ \A n \in Numbers : github'[n] # None => Exists(n)
        /\ UNCHANGED <<payloads, cacheVars>>
    BY <1>0, <1>16, CommentEffect
  <2>2. \A n : Announced(n)' <=> Announced(n)
    BY <2>1 DEF Announced
  <2>3. \A n \in Numbers : Exists(n)' => /\ Exists(n)
                                         /\ \A x : Agrees(n, x) => Agrees(n, x)'
    BY <2>1 DEF Exists, Agrees
  <2>4. LastTells'
    <3>1. PICK w \in Seq(Payload) : w = payloads /\ w = payloads'
      BY <2>1 DEF TypeInv
    <3>2. \A i \in 1..Len(w) : w[i].n \in Numbers
      <4>1. \A i \in 1..Len(w) : w[i] \in Payload
        OBVIOUS
      <4> QED BY <4>1 DEF Payload
    <3>3. \A n \in Numbers : \A x : Agrees(n, x) /\ Exists(n) => Agrees(n, x)'
      BY <2>1 DEF Agrees
    <3>4. \A i \in 1..Len(w) : Exists(w[i].n)
      BY <3>1 DEF VersionInv, PayloadsBehind, IssueBehind
    <3> QED BY <1>3, <3>1, <3>2, <3>3, <3>4 DEF LastTells
  <2>5. CacheTells'
    <3>1. cache' = c /\ (c # None => Told(c))
      BY <1>1, <1>8, <2>1 DEF cacheVars
    <3>2. c # None => Told(c)'
      BY <2>2, <2>3, <3>1 DEF Told
    <3> QED BY <1>9, <3>1, <3>2
  <2>6. r.copy # None => (\A n \in Numbers :
            Exists(n) => \/ Announced(n)
                         \/ Agrees(n, r.copy[n])
                         \/ r.kind = "webhook" /\ r.n = n)'
    BY <1>3, <2>1, <2>2, <2>3 DEF BringsTells
  <2> QED BY <1>12, <2>1, <2>4, <2>5, <2>6
<1>17. CASE CountComments(p)
  <2>1. PICK issue : issue = github[r.n]
    OBVIOUS
  <2>2. /\ r.at = "github" /\ r.kind = "sync"
        /\ Turns(p, "current", r.copy, issue)
        /\ UNCHANGED <<ghVars, payloads, cacheVars>>
    BY <1>0, <1>17, <2>1, CountEffect
  <2>3. cache' = c /\ UNCHANGED <<github, payloads>>
    BY <1>1, <2>2 DEF cacheVars, ghVars
  <2>4. LastTells' /\ CacheTells' /\ BringsTells(r)'
    BY <1>15, <2>2, <2>3
  <2> QED BY <1>12, <2>2, <2>4 DEF BringsTells
<1>18. CASE Current(p)
  <2>1. /\ r.at = "current"
        /\ \/ Turns(p, "fetch_open", r.copy, r.issue)
           \/ Ends(p)
           \/ c # None /\ Turns(p, "put", c, r.issue)
        /\ UNCHANGED <<ghVars, payloads, cacheVars>>
    BY <1>0, <1>1, <1>18, CurrentEffect
  <2>2. cache' = c /\ UNCHANGED <<github, payloads>> /\ r.kind # "webhook"
    BY <1>0, <1>1, <2>1 DEF cacheVars, ghVars, LabelTells
  <2>3. LastTells' /\ CacheTells' /\ BringsTells(r)'
    BY <1>15, <2>1, <2>2
  <2>4. CASE Ends(p)
    BY <1>13, <2>1, <2>3, <2>4
  <2>5. CASE Turns(p, "fetch_open", r.copy, r.issue)
    BY <1>12, <2>1, <2>2, <2>3, <2>5 DEF BringsTells
  <2>6. CASE c # None /\ Turns(p, "put", c, r.issue)
    <3>1. Told(c)'
      BY <1>7, <1>8, <2>1, <2>2, <2>6
    <3> QED BY <1>12, <2>1, <2>2, <2>3, <2>6, <3>1 DEF BringsTells, Told
  <2> QED BY <2>1, <2>4, <2>5, <2>6
<1>19. CASE FetchOpen(p)
  <2>1. PICK copy : copy = [n \in Numbers |-> IF Exists(n) /\ github[n].open
                                               THEN github[n] ELSE None]
    OBVIOUS
  <2>2. /\ r.at = "fetch_open"
        /\ Turns(p, "fetch_closed", copy, r.issue)
        /\ UNCHANGED <<ghVars, payloads, cacheVars>>
    BY <1>0, <1>19, <2>1, FetchOpenEffect
  <2>3. cache' = c /\ UNCHANGED <<github, payloads>> /\ r.kind # "webhook"
    BY <1>0, <1>1, <2>2 DEF cacheVars, ghVars, LabelTells
  <2>4. LastTells' /\ CacheTells' /\ BringsTells(r)'
    BY <1>15, <2>2, <2>3
  <2>5. (\A n \in Numbers : Exists(n) /\ github[n].open => Agrees(n, copy[n]))'
    BY <2>1, <2>3 DEF Agrees, Exists
  <2> QED BY <1>12, <2>2, <2>3, <2>4, <2>5 DEF BringsTells
<1>20. CASE FetchClosed(p)
  <2>1. PICK copy : copy = WithClosed(r.copy)
    OBVIOUS
  <2>2. /\ r.at = "fetch_closed"
        /\ Turns(p, "store", copy, r.issue)
        /\ UNCHANGED <<ghVars, payloads, cacheVars>>
    BY <1>0, <1>20, <2>1, FetchClosedEffect
  <2>3. /\ cache' = c /\ UNCHANGED <<github, payloads>> /\ r.kind # "webhook"
        /\ r.copy # None
    BY <1>0, <1>1, <2>2 DEF cacheVars, ghVars, LabelTells
  <2>4. LastTells' /\ CacheTells' /\ BringsTells(r)'
    BY <1>15, <2>2, <2>3
  <2>5. ASSUME NEW n \in Numbers, Exists(n)' PROVE Announced(n)' \/ Agrees(n, copy[n])'
    <3>1. CASE github[n].open
      <4>1. copy[n] = r.copy[n]
        BY <2>1, <3>1 DEF WithClosed
      <4> QED BY <2>2, <2>3, <2>4, <2>5, <3>1, <4>1 DEF BringsTells
    <3>2. CASE ~github[n].open
      <4>1. copy[n] = github[n] /\ github'[n] = github[n] /\ github[n] # None
        BY <2>1, <2>3, <2>5, <3>2 DEF WithClosed, Exists
      <4> QED BY <4>1 DEF Agrees
    <3> QED BY <3>1, <3>2
  <2> QED BY <1>12, <2>2, <2>3, <2>4, <2>5 DEF BringsTells, Exists
<1>21. CASE Store(p)
  <2>1. /\ r.at = "store" /\ cache' = r.copy
        /\ Ends(p) \/ Turns(p, "put", r.copy, r.issue)
        /\ UNCHANGED <<ghVars, payloads>>
    BY <1>0, <1>21, StoreEffect
  <2>2. UNCHANGED <<github, payloads>> /\ r.kind # "webhook" /\ r.copy # None
    BY <1>0, <2>1 DEF ghVars, LabelTells
  <2>3. LastTells' /\ BringsTells(r)'
    BY <1>7, <2>2
  <2>4. Told(r.copy)'
    BY <2>1, <2>2, <2>3 DEF BringsTells, Told
  <2>5. CacheTells'
    BY <1>9, <2>1, <2>4
  <2>6. CASE Ends(p)
    BY <1>13, <2>1, <2>3, <2>5, <2>6
  <2>7. CASE Turns(p, "put", r.copy, r.issue)
    BY <1>12, <2>1, <2>2, <2>3, <2>5, <2>7 DEF BringsTells
  <2> QED BY <2>1, <2>6, <2>7
<1>22. CASE Put(p)
  <2>1. PICK copy : copy = Replaced(r)
    OBVIOUS
  <2>2. /\ r.at = "put" /\ cache' = copy
        /\ Ends(p) \/ (Turns(p, "github", copy, r.issue) /\ r.again)
        /\ UNCHANGED <<ghVars, payloads>>
    BY <1>0, <1>22, <2>1, PutEffect
  <2>3. UNCHANGED <<github, payloads>> /\ r.copy # None /\ copy # None
    BY <1>0, <2>1, <2>2, UpdatedIssue, NoneAssumption DEF ghVars, LabelTells, NoneAssumption
  <2>4. LastTells' /\ BringsTells(r)'
    BY <1>7, <2>3
  <2>5. /\ copy[r.n] = Updated(r)
        /\ \A n \in Numbers : n # r.n => copy[n] = r.copy[n]
        /\ r.kind \in {"change", "move", "webhook"} =>
               Updated(r) = r.issue /\ r.issue \in Issue
        /\ r.kind \in {"comment", "uncomment", "sync"} =>
               /\ Updated(r).version = r.copy[r.n].version
               /\ Updated(r).open = r.copy[r.n].open
        /\ Updated(r) # None
        /\ r.kind \in {"change", "move", "webhook", "comment", "uncomment", "sync"}
    BY <1>0, <2>1, <2>2, UpdatedIssue
  <2>6. ASSUME NEW n \in Numbers, Exists(n)' PROVE Announced(n)' \/ Agrees(n, copy[n])'
    <3>1. CASE n # r.n
      BY <2>2, <2>3, <2>4, <2>5, <2>6, <3>1 DEF BringsTells
    <3>2. CASE n = r.n /\ r.kind = "webhook"
      BY <2>4, <2>5, <3>2 DEF BringsTells
    <3>3. CASE n = r.n /\ r.kind \in {"change", "move"}
      <4>1. r.issue # None
        BY <1>0, <2>2, <3>3 DEF LabelTells
      <4> QED BY <2>4, <3>3, <4>1 DEF BringsTells
    <3>4. CASE n = r.n /\ r.kind \in {"comment", "uncomment", "sync"}
      <4>1. Announced(n)' \/ Agrees(n, r.copy[n])'
        BY <2>2, <2>3, <2>4, <2>6, <3>4 DEF BringsTells
      <4> QED BY <2>5, <3>4, <4>1 DEF Agrees
    <3> QED BY <2>5, <3>1, <3>2, <3>3, <3>4
  <2>7. Told(copy)'
    BY <2>6 DEF Told, Exists
  <2>8. CacheTells'
    BY <1>9, <2>2, <2>7
  <2>9. CASE Ends(p)
    BY <1>13, <2>2, <2>4, <2>8, <2>9
  <2>10. CASE Turns(p, "github", copy, r.issue) /\ r.again
    BY <1>0, <1>12, <2>2, <2>4, <2>7, <2>8, <2>10 DEF BringsTells, Told
  <2> QED BY <2>2, <2>9, <2>10
<1> QED BY <1>10, <1>11, <1>14, <1>16, <1>17, <1>18, <1>19, <1>20, <1>21, <1>22 DEF Step

\* So does everything else.
LEMMA NextSerialInv ==
    ASSUME TypeInv, VersionInv, SerialInv, [Next]_vars
    PROVE  SerialInv'
<1>1. ASSUME NEW p \in Procs, Step(p) PROVE SerialInv'
  <2>1. CASE twisted'
    BY <2>1 DEF SerialInv
  <2>2. CASE ~twisted'
    BY <1>1, <2>2, SerialStep
  <2> QED BY <2>1, <2>2
<1>2. ASSUME NEW n \in Numbers, GithubChange(n) PROVE SerialInv'
  <2>1. PICK issue \in Issue : /\ ChangeIssue(n, issue)
                               /\ UNCHANGED <<posted, cacheVars, req, history>>
    BY <1>2, GithubEffect
  <2>2. UNCHANGED <<cache, req>> /\ twisted' = twisted
    BY <2>1 DEF cacheVars, history
  <2> SUFFICES ASSUME ~twisted
               PROVE  OneBusy' /\ LastTells' /\ CacheTells'
                      /\ \A p \in Procs : BringsTells(req[p])'
    BY <2>2 DEF SerialInv
  <2>3. OneBusy /\ LastTells /\ CacheTells /\ \A p \in Procs : BringsTells(req[p])
    BY DEF SerialInv
  <2>4. /\ \A r \in Requests : BringsTells(r) => BringsTells(r)'
        /\ CacheTells'
    BY <2>1, <2>2, <2>3, ChangeIsTold
  <2>5. LastTells'
    BY <2>1, <2>3, ChangeAnnounces
  <2>6. OneBusy'
    BY <2>2, <2>3 DEF OneBusy
  <2>7. ASSUME NEW p \in Procs PROVE BringsTells(req[p])'
    <3>1. PICK r \in Requests : r = req[p] /\ r = req'[p] /\ BringsTells(r)
      BY <2>2, <2>3 DEF TypeInv
    <3>2. BringsTells(r)'
      BY <2>4, <3>1
    <3> QED BY <3>1, <3>2 DEF BringsTells, Announced, Agrees, Exists
  <2> QED BY <2>4, <2>5, <2>6, <2>7
<1>3. CASE LosePayload
  BY <1>3 DEF LosePayload, SerialInv
<1>4. CASE Expire \/ UNCHANGED vars
  <2>1. UNCHANGED <<github, payloads, cache, req, twisted>>
    BY <1>4 DEF Expire, vars, ghVars, cacheVars, history
  <2> QED BY <2>1 DEF SerialInv, OneBusy, LastTells, CacheTells, BringsTells,
                      Announced, Agrees, Exists
<1>5. CASE Evict
  <2>1. UNCHANGED <<github, payloads, req, twisted>> /\ cache' = None
    BY <1>5 DEF Evict, ghVars, history
  <2> QED BY <2>1 DEF SerialInv, OneBusy, LastTells, CacheTells, BringsTells,
                      Announced, Agrees, Exists
<1> QED BY <1>1, <1>2, <1>3, <1>4, <1>5 DEF Next

\* The cache catches up with GitHub when requests come one after the other
\* and webhooks in order: a copy that misses a change is only written while
\* the webhook of that change is under way or being received.
THEOREM SerialCacheCatchesUp == Spec => []SerialCacheAgrees
<1>1. TypeInv /\ SerialInv => SerialCacheAgrees
  <2> SUFFICES ASSUME TypeInv, SerialInv, Quiet, ~twisted, cache # None,
                      NEW n \in Numbers, Exists(n)
               PROVE  Agrees(n, cache[n])
    BY DEF SerialCacheAgrees, Agrees
  <2>1. ~Announced(n)
    BY DEF Quiet, Announced
  <2>2. Idle.kind = "none"
    BY DEF Idle
  <2>3. \A p \in Procs : req[p].kind # "webhook"
    BY <2>2 DEF Quiet, Busy
  <2> QED BY <2>1, <2>3 DEF SerialInv, CacheTells
<1>2. Init => VersionInv /\ SerialInv
  <2> SUFFICES ASSUME Init PROVE VersionInv /\ SerialInv
    OBVIOUS
  <2>1. VersionInv
    BY DEF Init, Idle, VersionInv, CacheBehind, PayloadsBehind, RequestBehind
  <2>2. OneBusy /\ LastTells /\ CacheTells
    BY DEF Init, OneBusy, LastTells, CacheTells
  <2>3. \A p \in Procs : BringsTells(req[p])
    BY DEF Init, Idle, BringsTells
  <2> QED BY <2>1, <2>2, <2>3 DEF SerialInv
<1> QED BY <1>1, <1>2, InitTypeInv, NextTypeInv, NextVersionInv, NextSerialInv,
           PTL DEF Spec
=============================================================================
