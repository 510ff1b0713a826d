-------------------------- MODULE TriggerEngine --------------------------
(***************************************************************************)
(* The trigger engine (internal/triggers/engine.go and router.go) and the  *)
(* handlers of the HTTP server before it (http.go).  Sync replaces the set *)
(* of triggers as a whole; a request is matched against a copy of the set  *)
(* that its handler took under the lock, after the lock was released.      *)
(***************************************************************************)
EXTENDS Config

CONSTANTS
    Request,   \* requests one process may get: bound
    Path,      \* paths of requests
    Method,    \* methods of requests, in upper case as those of the rules
    FoldPath,  \* [AbsolutePath -> text], equal for what strings.EqualFold equates
    Hash,      \* hashes of configuration files
    None

ASSUME PathAssumption ==
    /\ Path \subseteq AbsolutePath /\ AbsolutePath = DOMAIN FoldPath
    /\ None \notin Hash

VARIABLES
    engine,    \* Engine.configHash and the values of Engine.triggers
    requests   \* the handler of each request, with its copy of the set

\* at: "accepted" before the copy is taken, "matching" with it, "running" the
\* job; answer: the status code, 0 as long as there is none.
NewRequest(p, m) ==
    [at |-> "accepted", path |-> p, method |-> m, copy |-> None, trigger |-> None, answer |-> 0]

Unsent == [at |-> "unsent", path |-> None, method |-> None, copy |-> None, trigger |-> None,
           answer |-> 0]

Elements(list) == {list[i] : i \in DOMAIN list}

\* NewEngine: no triggers yet.
EmptyEngine == [hash |-> None, triggers |-> {}]

EngineInit ==
    /\ engine = EmptyEngine
    /\ requests = [q \in Request |-> Unsent]

EngineTypeOK ==
    /\ engine.hash \in Hash \cup {None}
    /\ \A t \in engine.triggers : TriggerValid(t)
    /\ DOMAIN requests = Request
    /\ \A q \in Request :
         /\ requests[q].at \in {"unsent", "accepted", "matching", "running", "answered"}
         /\ requests[q].path \in Path \cup {None} /\ requests[q].method \in Method \cup {None}
         /\ requests[q].answer \in {0, 200, 202, 404, 500}
         /\ requests[q].at = "answered" <=> requests[q].answer # 0

\* Engine.Sync: the set is refused, or replaced as a whole.
Sync(hash, list) ==
    engine' = IF TriggerSetValid(list) THEN [hash |-> hash, triggers |-> Elements(list)]
                                       ELSE engine

HTTPMatches(t, path, method) ==
    /\ t.type = "http"
    /\ \E m \in t.match : /\ m.kind = "http"
                          /\ FoldPath[m.path] = FoldPath[path]
                          /\ method = IF m.sel = "" THEN "POST" ELSE m.sel

Matching(q) ==
    {t \in requests[q].copy.triggers : HTTPMatches(t, requests[q].path, requests[q].method)}

\* Fault: no return after http.Error.
AnswerAndGoOn(q, code) == [requests EXCEPT ![q].answer = code]

Answer(q, code) == [requests EXCEPT ![q].at = "answered", ![q].answer = code]

Active(q) == requests[q].at \notin {"unsent", "answered"}

\* The server has a connection; the handler runs when the headers are read.
Accept(q, p, m) ==
    /\ requests[q].at = "unsent"
    /\ requests' = [requests EXCEPT ![q] = NewRequest(p, m)]
    /\ UNCHANGED engine

\* healthHandler is registered for this path, whatever the triggers say.
Health(q) ==
    /\ requests[q].at = "accepted" /\ requests[q].path = "/health"
    /\ requests' = Answer(q, 200)
    /\ UNCHANGED engine

\* HandleHTTP, under the read lock.
CopyTriggers(q) ==
    /\ requests[q].at = "accepted" /\ requests[q].path # "/health"
    /\ requests' = [requests EXCEPT ![q].at = "matching", ![q].copy = engine]
    /\ UNCHANGED engine

NoMatch(q) ==
    /\ requests[q].at = "matching" /\ Matching(q) = {}
    /\ requests' = Answer(q, 404)
    /\ UNCHANGED engine

\* Of several triggers that match, the first in the order of a Go map, which
\* is any, is dispatched and no other.  Only a job of the file can be run.
Dispatch(q, jobs) ==
    /\ requests[q].at = "matching"
    /\ \E t \in Matching(q) :
         requests' = IF t.target.kind = "job" /\ t.target.name \in jobs
                     THEN [requests EXCEPT ![q].at = "running", ![q].trigger = t]
                     ELSE Answer(q, 500)
    /\ UNCHANGED engine

\* RunOnce returns to the handler.
JobEnds(q) ==
    /\ requests[q].at = "running"
    /\ \E code \in {202, 500} : requests' = Answer(q, code)
    /\ UNCHANGED engine
=============================================================================
