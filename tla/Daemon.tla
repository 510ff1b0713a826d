------------------------------ MODULE Daemon ------------------------------
(***************************************************************************)
(* One daemon process after another (internal/daemon): Bootstrap reads and *)
(* checks the file, opens and migrates the database and reaches Docker;    *)
(* Run applies the stack, hands the jobs to the scheduler and the triggers *)
(* to the engine, starts the loops, and takes all of it down again when    *)
(* its context is cancelled.  Composes Config and TriggerEngine; Apply and *)
(* the loops are known here by their beginning and end (their insides are  *)
(* modules Reconciler, JobScheduler and HealthMonitor).                    *)
(***************************************************************************)
EXTENDS TriggerEngine

CONSTANTS
    Content,     \* [Hash -> configuration]: what a file of that hash says
    Successors,  \* [Hash -> SUBSET Hash], files the operator may put in its place
    MaxVersion,  \* programs of versions 1..MaxVersion; version v embeds 1..v
    MaxFaults,   \* bound on failed calls and crashes
    MaxEdits     \* bound on new files and new programs

Version == 1..MaxVersion

ASSUME DaemonAssumption ==
    /\ MaxVersion \in Nat \ {0} /\ MaxFaults \in Nat /\ MaxEdits \in Nat
    /\ DOMAIN Content = Hash /\ Successors \in [Hash -> SUBSET Hash]
    /\ \A h \in Hash : None \notin Elements(Content[h].triggers)

VARIABLES
    disk,        \* hash of the configuration file
    version,     \* of the program
    db,          \* the database: how often each migration ran, which are recorded
    stage,       \* the next call of Bootstrap or Run
    loaded,      \* hash of the file this process read
    tx,          \* the migration transaction: what db becomes, and its position
    meta,        \* metadata daemon.config_hash
    deployed,    \* the file that the engine's containers are of; None: a mixture
    registered,  \* jobs in Scheduler.jobs
    open,        \* resources not closed
    http,        \* http.Server
    loops,       \* goroutines Run waits for
    cancelled,   \* the context of Bootstrap and Run has ended
    overran,     \* history: the HTTP server was left with requests in its hands
    faults, edits

environment == <<disk, version, edits>>
durable == <<db, meta, deployed>>
serving == <<registered, open, http, loops>>
triggerVars == <<engine, requests>>
vars == <<environment, durable, stage, loaded, tx, serving, triggerVars, cancelled, overran, faults>>

Schema == [ran : [Version -> Nat], applied : SUBSET Version]
Resources == {"store", "runtime", "bus"}
Stages == {"down", "open", "migrate", "docker", "meta", "apply", "schedule", "triggers",
           "spawn", "serve", "drain", "forget", "close", "wait",
           "returned", "bootFailed", "runFailed"}

Stack == Content[loaded]
ServiceNames == {Stack.services[i].name : i \in DOMAIN Stack.services}
JobNames == {Stack.jobs[i].name : i \in DOMAIN Stack.jobs}
Loops == {"http", "scheduler"} \cup ServiceNames

TypeOK ==
    /\ disk \in Hash /\ loaded \in Hash /\ version \in Version
    /\ db \in Schema
    /\ stage \in Stages
    /\ tx # None => /\ [ran |-> tx.ran, applied |-> tx.applied] \in Schema
                    /\ tx.at \in 1..MaxVersion + 1 /\ tx.executed \in BOOLEAN
    /\ meta \in Hash \cup {None} /\ deployed \in Hash \cup {None}
    /\ registered \subseteq JobNames
    /\ open \subseteq Resources
    /\ http \in {"new", "listening", "failed", "closed"}
    /\ loops \subseteq Loops
    /\ cancelled \in BOOLEAN /\ overran \in BOOLEAN
    /\ faults \in 0..MaxFaults /\ edits \in 0..MaxEdits
    /\ EngineTypeOK

Init ==
    /\ disk \in Hash /\ loaded = disk /\ version = 1
    /\ db = [ran |-> [v \in Version |-> 0], applied |-> {}]
    /\ stage = "down" /\ tx = None
    /\ meta = None /\ deployed = None
    /\ registered = {} /\ open = {} /\ http = "new" /\ loops = {}
    /\ cancelled = FALSE /\ overran = FALSE
    /\ faults = 0 /\ edits = 0
    /\ EngineInit

----------------------------------------------------------------------------
(* Bootstrap *)

\* A call under the context succeeds only before its end, and may fail.
Succeeds == ~cancelled /\ UNCHANGED faults
Fails == \/ cancelled /\ UNCHANGED faults
         \/ faults < MaxFaults /\ faults' = faults + 1

\* A new process reads the file and parses it.
Start ==
    /\ stage = "down"
    /\ loaded' = disk
    /\ stage' = IF Parses(Content[disk]) THEN "open" ELSE "bootFailed"
    /\ UNCHANGED <<environment, durable, tx, serving, triggerVars, cancelled, overran, faults>>

\* state.Open connects; Migrate begins a transaction and reads what was applied.
OpenStore ==
    /\ stage = "open" /\ Succeeds
    /\ open' = {"store"}
    /\ tx' = [ran |-> db.ran, applied |-> db.applied, at |-> 1, executed |-> FALSE]
    /\ stage' = "migrate"
    /\ UNCHANGED <<environment, durable, loaded, registered, http, loops, triggerVars,
                   cancelled, overran>>

\* Migrate goes through the embedded files in the order of their names.
Migrate(step) ==
    /\ stage = "migrate" /\ Succeeds
    /\ tx' = step
    /\ UNCHANGED <<environment, durable, stage, loaded, serving, triggerVars, cancelled, overran>>

SkipMigration ==
    /\ tx # None /\ tx.at <= version /\ tx.at \in db.applied
    /\ Migrate([tx EXCEPT !.at = @ + 1])

\* Fault: each statement is on its own, so what has run stays when a later one
\* fails or the process dies.
ExecOutsideTransaction ==
    /\ tx # None /\ tx.at <= version /\ tx.at \notin db.applied /\ ~tx.executed
    /\ stage = "migrate" /\ Succeeds
    /\ tx' = [tx EXCEPT !.ran[tx.at] = @ + 1, !.executed = TRUE]
    /\ db' = [db EXCEPT !.ran = tx'.ran]
    /\ UNCHANGED <<environment, meta, deployed, stage, loaded, serving, triggerVars,
                   cancelled, overran>>

ExecMigration ==
    /\ tx # None /\ tx.at <= version /\ tx.at \notin db.applied /\ ~tx.executed
    /\ Migrate([tx EXCEPT !.ran[tx.at] = @ + 1, !.executed = TRUE])

RecordMigration ==
    /\ tx # None /\ tx.executed
    /\ Migrate([tx EXCEPT !.applied = @ \cup {tx.at}, !.at = @ + 1, !.executed = FALSE])

CommitMigrations ==
    /\ stage = "migrate" /\ tx.at > version /\ Succeeds
    /\ db' = [ran |-> tx.ran, applied |-> tx.applied]
    /\ tx' = None /\ stage' = "docker"
    /\ UNCHANGED <<environment, meta, deployed, loaded, serving, triggerVars, cancelled, overran>>

\* The transaction is rolled back and the database closed.
OpenFails ==
    /\ stage \in {"open", "migrate"} /\ Fails
    /\ tx' = None /\ open' = {} /\ stage' = "bootFailed"
    /\ UNCHANGED <<environment, durable, loaded, registered, http, loops, triggerVars,
                   cancelled, overran>>

\* docker.New reaches the engine, and the rest of Bootstrap cannot fail.
ConnectDocker ==
    /\ stage = "docker" /\ Succeeds
    /\ open' = Resources /\ stage' = "meta"
    /\ UNCHANGED <<environment, durable, loaded, tx, registered, http, loops, triggerVars,
                   cancelled, overran>>

\* Fault: the database is left open.
ConnectFailsOpen ==
    /\ stage = "docker" /\ Fails
    /\ stage' = "bootFailed"
    /\ UNCHANGED <<environment, durable, loaded, tx, serving, triggerVars, cancelled, overran>>

ConnectFails ==
    /\ stage = "docker" /\ Fails
    /\ open' = {} /\ stage' = "bootFailed"
    /\ UNCHANGED <<environment, durable, loaded, tx, registered, http, loops, triggerVars,
                   cancelled, overran>>

----------------------------------------------------------------------------
(* Run, until it waits *)

\* The last of four metadata rows; the other three never change.
SetMetadata ==
    /\ stage = "meta" /\ StackValid(Stack) /\ Succeeds
    /\ meta' = loaded /\ stage' = "apply"
    /\ UNCHANGED <<environment, db, deployed, loaded, tx, serving, triggerVars, cancelled, overran>>

Apply ==
    /\ stage = "apply" /\ Succeeds
    /\ deployed' = loaded /\ stage' = "schedule"
    /\ UNCHANGED <<environment, db, meta, loaded, tx, serving, triggerVars, cancelled, overran>>

\* Run returns the error; nothing is closed.  Apply may have done a part.
RunFails ==
    /\ \/ stage \in {"meta", "apply"} /\ Fails
       \/ stage = "meta" /\ ~StackValid(Stack) /\ UNCHANGED faults
    /\ stage' = "runFailed"
    /\ IF stage = "apply" THEN deployed' \in {deployed, None} ELSE UNCHANGED deployed
    /\ UNCHANGED <<environment, db, meta, loaded, tx, serving, triggerVars, cancelled, overran>>

Scheduled == {i \in DOMAIN Stack.jobs : Stack.jobs[i].schedule # {}}
Bad == {i \in Scheduled : \E c \in Stack.jobs[i].schedule : ~CronBuilds(c)}

\* Fault: a job whose schedule does not parse is left out.
SyncSchedulerSkips ==
    /\ stage = "schedule"
    /\ registered' = {Stack.jobs[i].name : i \in Scheduled \ Bad}
    /\ stage' = "triggers"
    /\ UNCHANGED <<environment, durable, loaded, tx, open, http, loops, triggerVars, cancelled,
                   overran, faults>>

\* Scheduler.Sync registers job after job up to the first whose schedule does
\* not parse: only here, after Apply, is an expression looked into.
SyncScheduler ==
    /\ stage = "schedule"
    /\ registered' = {Stack.jobs[i].name : i \in {k \in Scheduled : \A b \in Bad : k < b}}
    /\ stage' = IF Bad = {} THEN "triggers" ELSE "runFailed"
    /\ UNCHANGED <<environment, durable, loaded, tx, open, http, loops, triggerVars, cancelled,
                   overran, faults>>

SyncTriggers ==
    /\ stage = "triggers"
    /\ Sync(loaded, Stack.triggers)
    /\ stage' = IF TriggerSetValid(Stack.triggers) THEN "spawn" ELSE "runFailed"
    /\ UNCHANGED <<environment, durable, loaded, tx, serving, requests, cancelled, overran, faults>>

\* One goroutine for the server, one for the scheduler, one per service.
StartLoops ==
    /\ stage = "spawn"
    /\ loops' = Loops /\ stage' = "serve"
    /\ UNCHANGED <<environment, durable, loaded, tx, registered, open, http, triggerVars,
                   cancelled, overran, faults>>

----------------------------------------------------------------------------
(* The loops *)

\* HTTPServer.Start, unless Shutdown came first.
Listen ==
    /\ "http" \in loops /\ http = "new"
    /\ http' = "listening"
    /\ UNCHANGED <<environment, durable, stage, loaded, tx, registered, open, loops, triggerVars,
                   cancelled, overran, faults>>

\* The address is taken: an event is published and the daemon goes on without.
ListenFails ==
    /\ "http" \in loops /\ http = "new"
    /\ faults < MaxFaults /\ faults' = faults + 1
    /\ http' = "failed" /\ loops' = loops \ {"http"}
    /\ UNCHANGED <<environment, durable, stage, loaded, tx, registered, open, triggerVars,
                   cancelled, overran>>

\* The server's loop ends with Shutdown, the others with the context.
LoopReturns(l) ==
    /\ l \in loops
    /\ IF l = "http" THEN http = "closed" ELSE cancelled
    /\ loops' = loops \ {l}
    /\ UNCHANGED <<environment, durable, stage, loaded, tx, registered, open, http, triggerVars,
                   cancelled, overran, faults>>

DaemonUnchanged ==
    UNCHANGED <<environment, durable, stage, loaded, tx, serving, cancelled, overran, faults>>

ClientSends(q, p, m) == http = "listening" /\ Accept(q, p, m) /\ DaemonUnchanged

\* The goroutine of a request, as far as it goes by itself.
HandlerStep(q) ==
    /\ Health(q) \/ CopyTriggers(q) \/ NoMatch(q) \/ Dispatch(q, JobNames)
    /\ DaemonUnchanged

TriggeredJobEnds(q) == JobEnds(q) /\ DaemonUnchanged

----------------------------------------------------------------------------
(* Shutdown: the end of Run *)

Cancel ==
    /\ stage \notin {"down", "returned", "bootFailed", "runFailed"} /\ ~cancelled
    /\ cancelled' = TRUE
    /\ UNCHANGED <<environment, durable, stage, loaded, tx, serving, triggerVars, overran, faults>>

\* Fault: the triggers are withdrawn before the server is shut down.
ShutdownForgetsFirst ==
    /\ stage = "serve" /\ cancelled
    /\ Sync(loaded, <<>>)
    /\ http' = "closed" /\ stage' = "drain"
    /\ UNCHANGED <<environment, durable, loaded, tx, registered, open, loops, requests,
                   cancelled, overran, faults>>

\* http.Server.Shutdown closes the listener and waits for the handlers.
ShutdownHTTP ==
    /\ stage = "serve" /\ cancelled
    /\ http' = "closed" /\ stage' = "drain"
    /\ UNCHANGED <<environment, durable, loaded, tx, registered, open, loops, triggerVars,
                   cancelled, overran, faults>>

\* Fault: Shutdown waits for the handlers for as long as it takes.
DrainWithoutLimit ==
    /\ stage = "drain"
    /\ \A q \in Request : ~Active(q)
    /\ stage' = "forget"
    /\ UNCHANGED <<environment, durable, loaded, tx, serving, triggerVars, cancelled, overran, faults>>

\* It returns when no handler is left, or after five seconds.
Drain ==
    /\ stage = "drain"
    /\ overran' = (\E q \in Request : Active(q))
    /\ stage' = "forget"
    /\ UNCHANGED <<environment, durable, loaded, tx, serving, triggerVars, cancelled, faults>>

ForgetTriggers ==
    /\ stage = "forget"
    /\ Sync(loaded, <<>>)
    /\ stage' = "close"
    /\ UNCHANGED <<environment, durable, loaded, tx, serving, requests, cancelled, overran, faults>>

\* Runtime, store and bus, one after the other; errors are dropped.
CloseResources ==
    /\ stage = "close"
    /\ open' = {} /\ stage' = "wait"
    /\ UNCHANGED <<environment, durable, loaded, tx, registered, http, loops, triggerVars,
                   cancelled, overran, faults>>

WaitForLoops ==
    /\ stage = "wait" /\ loops = {}
    /\ stage' = "returned"
    /\ UNCHANGED <<environment, durable, loaded, tx, serving, triggerVars, cancelled, overran, faults>>

\* Daemon.Shutdown, for a caller whose Run returned an error.
ShutdownAfterError ==
    /\ stage = "runFailed"
    /\ http' = "closed" /\ open' = {} /\ engine' = EmptyEngine
    /\ stage' = "returned"
    /\ UNCHANGED <<environment, durable, loaded, tx, registered, loops, requests, cancelled,
                   overran, faults>>

----------------------------------------------------------------------------
\* The process is gone, with all that it held in memory.
Gone ==
    /\ stage' = "down" /\ tx' = None
    /\ registered' = {} /\ open' = {} /\ http' = "new" /\ loops' = {}
    /\ engine' = EmptyEngine /\ requests' = [q \in Request |-> Unsent]
    /\ cancelled' = FALSE /\ overran' = FALSE
    /\ IF stage = "apply" THEN deployed' \in {deployed, None} ELSE UNCHANGED deployed
    /\ UNCHANGED <<environment, db, meta, loaded>>

Exit == stage \in {"returned", "bootFailed", "runFailed"} /\ Gone /\ UNCHANGED faults

Crash == stage # "down" /\ faults < MaxFaults /\ faults' = faults + 1 /\ Gone

\* The operator writes another file, or installs another program, older or newer.
Edit ==
    /\ edits < MaxEdits /\ edits' = edits + 1
    /\ \/ disk' \in Successors[disk] /\ UNCHANGED version
       \/ stage = "down" /\ version' \in Version \ {version} /\ UNCHANGED disk
    /\ UNCHANGED <<durable, stage, loaded, tx, serving, triggerVars, cancelled, overran, faults>>

Bootstrap ==
    \/ OpenStore \/ SkipMigration \/ ExecMigration \/ RecordMigration \/ CommitMigrations
    \/ OpenFails \/ ConnectDocker \/ ConnectFails

Run ==
    \/ SetMetadata \/ Apply \/ RunFails \/ SyncScheduler \/ SyncTriggers \/ StartLoops
    \/ ShutdownHTTP \/ Drain \/ ForgetTriggers \/ CloseResources \/ WaitForLoops

Next ==
    \/ Start \/ Bootstrap \/ Run \/ ShutdownAfterError \/ Exit \/ Crash
    \/ Cancel \/ Edit \/ Listen \/ ListenFails
    \/ \E l \in loops : LoopReturns(l)
    \/ \E q \in Request : HandlerStep(q) \/ TriggeredJobEnds(q)
    \/ \E q \in Request, p \in Path, m \in Method : ClientSends(q, p, m)

Spec == Init /\ [][Next]_vars

\* The process makes its calls and ends when they are made; its loops see the
\* end of the context.  A job a request waits for may run for ever.
FairSpec ==
    /\ Spec
    /\ WF_vars(Bootstrap) /\ WF_vars(Run) /\ WF_vars(Exit)
    /\ WF_vars(\E l \in loops : LoopReturns(l))

----------------------------------------------------------------------------
(* Properties *)

\* Migrate is all or nothing (sqlite.go, one transaction): whenever a process
\* ends or dies in it, and whatever programs of other versions ran before, a
\* recorded migration has run once and an unrecorded one not at all; beyond
\* Open every migration of the program is there.
SchemaIsWhole ==
    /\ \A v \in Version : db.ran[v] = IF v \in db.applied THEN 1 ELSE 0
    /\ stage \in Stages \ {"down", "open", "migrate", "bootFailed"} => 1..version \subseteq db.applied

\* What Parse has accepted none of the program's own later checks refuses
\* (Stack.Validate in Run, the engine's check of the set, buildMounts,
\* buildPortBindings and buildHealthCheck at creation), but for the meaning of a
\* cron expression.  What Docker itself refuses is another matter: a relative
\* path of the host, or an image name with blanks around it, gets that far.
AcceptedMeansUsable ==
    stage \notin {"down", "bootFailed"} =>
        /\ StackValid(Stack) /\ TriggerSetValid(Stack.triggers)
        /\ \A i \in DOMAIN Stack.services : ServiceBuilds(Stack.services[i])
        /\ \A i \in DOMAIN Stack.jobs : JobBuilds(Stack.jobs[i])

\* Loops run only for a file that was applied, registered and installed as a
\* whole: no part of a start that failed serves anything, and a process serves
\* the file it read although another is on disk by now.
ServesOneFile ==
    loops # {} => /\ meta = loaded /\ deployed = loaded /\ engine.hash = loaded
                  /\ registered = {Stack.jobs[i].name : i \in Scheduled}
                  /\ stage = "serve" => engine.triggers = Elements(Stack.triggers)

\* The answers of the trigger handler are true of the file that is served, also
\* for requests that meet the withdrawal of the triggers at shutdown: 404 only
\* if nothing matches or the server was left before the handler had its copy;
\* a job runs only for a trigger that matches.
AnswersAreTrue ==
    \A q \in Request :
        LET matches == {t \in Elements(Stack.triggers) :
                           HTTPMatches(t, requests[q].path, requests[q].method)}
        IN /\ requests[q].answer = 404 => matches = {} \/ overran
           /\ requests[q].trigger # None => requests[q].trigger \in matches
           /\ requests[q].answer = 202 => requests[q].trigger # None

\* A Bootstrap that fails, and a Run that is cancelled and ends, leave nothing
\* open and no loop.  A Run that gives up its start returns with the database and
\* the client still open, but without a loop or a transaction.
NothingLeftOpen ==
    /\ stage \in {"bootFailed", "returned"} => open = {} /\ loops = {} /\ tx = None
    /\ stage = "runFailed" => loops = {} /\ tx = None

\* A daemon told to stop stops, whatever its requests are waiting for.
StopsWhenCancelled == cancelled ~> stage = "down"
=============================================================================
