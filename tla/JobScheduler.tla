--------------------------- MODULE JobScheduler ---------------------------
(***************************************************************************)
(* Scheduled and triggered jobs (internal/scheduler, and the part of       *)
(* internal/daemon that starts, feeds and stops it).                       *)
(*                                                                         *)
(* The scheduler keeps one entry per job and starts a goroutine per due    *)
(* run; an HTTP trigger runs the same JobRunner in the goroutine of the    *)
(* request.  A run is a chain of Docker and store calls, each of them a    *)
(* step, under a context that a timeout, a client or shutdown may end.     *)
(***************************************************************************)
EXTENDS Naturals, FiniteSets

CONSTANTS
    Job,
    Run,           \* run ids: bound on the runs of a behaviour
    MaxTime,       \* bound on the clock; no schedule has an instant after it
    DueAt,         \* [Job -> SUBSET (1..MaxTime)], the instants of its schedule
    WithTimeout,   \* jobs that have a timeout
    MaxRegisters,  \* bound on calls of Register, one of a job at a time, and
                   \* Unregister after startup
    MaxFaults,     \* bound on failed calls and crashes
    None

ASSUME ConstantsAssumption ==
    /\ IsFiniteSet(Run) /\ IsFiniteSet(Job) /\ None \notin Run \cup (0..MaxTime)
    /\ MaxTime \in Nat /\ MaxRegisters \in Nat /\ MaxFaults \in Nat
    /\ DueAt \in [Job -> SUBSET (1..MaxTime)]
    /\ WithTimeout \subseteq Job

Generation == 0..MaxRegisters
Time == 0..MaxTime

\* ScheduledJob.  Register makes a new one; a run keeps a pointer to its own.
Entry == [next : Time, running : BOOLEAN, active : BOOLEAN]

\* A call of RunOnce: its goroutine (at, ctx, known, status) and its container
\* in Docker (cont, code), which outlives the process.
RunRecord ==
    [at : {"unused", "create", "start", "wait", "save", "upsert", "remove",
           "finish", "done", "dead"},
     job : Job, by : {"schedule", "trigger"}, gen : Generation, due : Time,
     ctx : BOOLEAN, known : BOOLEAN, status : {"running", "succeeded", "failed"},
     cont : {"none", "created", "running", "exited"}, code : {0, 1}]

Status == {"none", "pending", "succeeded", "failed"}

VARIABLES
    now,
    proc,        \* "down", "up", "stopping": context cancelled, "closed": store too
    registered,  \* jobs that are keys of Scheduler.jobs
    gen,         \* generation of the entry Scheduler.jobs has for a job
    entries,     \* entries by job and generation
    asking,      \* by job: the clock a call of Register read before the lock
    asked,       \* history: that reading, by job and generation
    runs,
    executions,  \* executions table: status by run id
    jobRow,      \* jobs table: last_status, and the run that wrote it
    registers, faults

scheduler == <<registered, gen, entries, asking, asked>>
store == <<executions, jobRow>>
vars == <<now, proc, scheduler, runs, store, registers, faults>>

TypeOK ==
    /\ now \in Time
    /\ proc \in {"down", "up", "stopping", "closed"}
    /\ registered \subseteq Job
    /\ gen \in [Job -> Generation]
    /\ entries \in [Job -> [Generation -> Entry]]
    /\ \A j \in Job, g \in Generation : entries[j][g].next \in DueAt[j] \cup {0}
    /\ asking \in [Job -> Time \cup {None}]
    /\ asked \in [Job -> [Generation -> Time]]
    /\ runs \in [Run -> RunRecord]
    /\ executions \in [Run -> Status]
    /\ jobRow \in [Job -> [status : Status, run : Run \cup {None}]]
    /\ registers \in 0..MaxRegisters /\ faults \in 0..MaxFaults

\* Fault: an instant may be found twice.
NextRunAgain(j, t) ==
    LET later == {d \in DueAt[j] : d >= t}
    IN IF later = {} THEN 0 ELSE CHOOSE d \in later : \A e \in later : d <= e

\* Fault: a schedule without a next instant is asked again a unit later.
NextRunLater(j, t) ==
    LET later == {d \in DueAt[j] : d > t}
    IN IF later = {} THEN t + 1 ELSE CHOOSE d \in later : \A e \in later : d <= e

\* CronSchedule.Next: the first instant after t, or zero when there is none
\* within the search horizon.
NextRun(j, t) ==
    LET later == {d \in DueAt[j] : d > t}
    IN IF later = {} THEN 0 ELSE CHOOSE d \in later : \A e \in later : d <= e

Idle == [next |-> 0, running |-> FALSE, active |-> FALSE]
NewEntry(j, t) == [next |-> NextRun(j, t), running |-> FALSE, active |-> TRUE]
NoCalls == [j \in Job |-> None]

Active(r) == runs[r].at \notin {"unused", "done", "dead"}
Unused == {r \in Run : runs[r].at = "unused"}

\* A run before its first call; its context is the scheduler's or the request's.
NewRun(j, by, g, d, live) ==
    [at |-> "create", job |-> j, by |-> by, gen |-> g, due |-> d, ctx |-> live,
     known |-> FALSE, status |-> "running", cont |-> "none", code |-> 0]

Init ==
    /\ now = 0 /\ proc = "down"
    /\ registered = {} /\ gen = [j \in Job |-> 0]
    /\ entries = [j \in Job |-> [g \in Generation |-> Idle]]
    /\ asking = NoCalls /\ asked = [j \in Job |-> [g \in Generation |-> 0]]
    /\ runs \in [Run -> {[NewRun(j, "schedule", 0, 0, FALSE) EXCEPT !.at = "unused"] : j \in Job}]
    /\ \A r, s \in Run : runs[r] = runs[s]
    /\ executions = [r \in Run |-> "none"]
    /\ jobRow = [j \in Job |-> [status |-> "none", run |-> None]]
    /\ registers = 0 /\ faults = 0

----------------------------------------------------------------------------
(* The daemon *)

\* Containers an earlier process left; the map of the controller's snapshot
\* holds one of them per job, which the prune loop removes.
Leftover(j) == {r \in Run : runs[r].job = j /\ runs[r].cont # "none"}

\* Apply marks every job pending and prunes; then Sync registers every job, no
\* loop running yet, and the first one without a next run ends the start.
StartDaemon ==
    /\ proc = "down"
    /\ jobRow' = [j \in Job |-> [status |-> "pending", run |-> None]]
    /\ \E pruned \in [Job -> Run \cup {None}] :
         /\ \A j \in Job : IF Leftover(j) = {} THEN pruned[j] = None
                                               ELSE pruned[j] \in Leftover(j)
         /\ runs' = [r \in Run |-> IF r = pruned[runs[r].job]
                                   THEN [runs[r] EXCEPT !.cont = "none"] ELSE runs[r]]
    /\ IF \A j \in Job : NextRun(j, now) # 0
       THEN /\ proc' = "up" /\ registered' = Job
            /\ entries' = [j \in Job |-> [g \in Generation |->
                                IF g = gen[j] THEN NewEntry(j, now) ELSE Idle]]
       ELSE UNCHANGED <<proc, registered, entries>>
    /\ UNCHANGED <<now, gen, asking, asked, executions, registers, faults>>

\* The daemon's context is cancelled, and with it that of every scheduled run.
Cancel ==
    /\ proc = "up" /\ proc' = "stopping"
    /\ runs' = [r \in Run |-> IF Active(r) /\ runs[r].by = "schedule"
                              THEN [runs[r] EXCEPT !.ctx = FALSE] ELSE runs[r]]
    /\ UNCHANGED <<now, scheduler, store, registers, faults>>

CloseStore ==
    /\ proc = "stopping" /\ proc' = "closed"
    /\ UNCHANGED <<now, scheduler, runs, store, registers, faults>>

\* The process is gone, and every goroutine with it.
Ended ==
    /\ proc' = "down" /\ registered' = {} /\ asking' = NoCalls
    /\ entries' = [j \in Job |-> [g \in Generation |-> Idle]]
    /\ runs' = [r \in Run |-> IF Active(r) THEN [runs[r] EXCEPT !.at = "dead", !.ctx = FALSE]
                              ELSE runs[r]]
    /\ UNCHANGED <<now, gen, asked, store, registers>>

\* Run waits for the scheduler loop, but not for the goroutines of runs.
Exit == proc = "closed" /\ Ended /\ UNCHANGED faults

Crash == proc # "down" /\ faults < MaxFaults /\ faults' = faults + 1 /\ Ended

----------------------------------------------------------------------------
(* The scheduler *)

\* Register reads the clock and finds the next run before it takes the lock ...
RegisterAsks(j) ==
    /\ proc = "up" /\ registers < MaxRegisters /\ gen[j] < MaxRegisters
    /\ asking[j] = None /\ NextRun(j, now) # 0
    /\ registers' = registers + 1
    /\ asking' = [asking EXCEPT ![j] = now]
    /\ UNCHANGED <<now, proc, registered, gen, entries, asked, runs, store, faults>>

\* ... and under it replaces the entry, whether or not a run holds the old one.
Register(j) ==
    /\ proc # "down" /\ asking[j] # None
    /\ registered' = registered \cup {j}
    /\ gen' = [gen EXCEPT ![j] = @ + 1]
    /\ entries' = [entries EXCEPT ![j][gen[j] + 1] = NewEntry(j, asking[j])]
    /\ asked' = [asked EXCEPT ![j][gen[j] + 1] = asking[j]]
    /\ asking' = [asking EXCEPT ![j] = None]
    /\ UNCHANGED <<now, proc, runs, store, registers, faults>>

Unregister(j) ==
    /\ proc = "up" /\ registers < MaxRegisters /\ j \in registered
    /\ registers' = registers + 1
    /\ registered' = registered \ {j}
    /\ UNCHANGED <<now, proc, gen, entries, asking, asked, runs, store, faults>>

Due(j, t) ==
    LET e == entries[j][gen[j]]
    IN j \in registered /\ e.active /\ e.next <= t /\ ~e.running

\* Fault: a tick that comes late finds nothing due.
DueNow(t) == {j \in Job : Due(j, t) /\ entries[j][gen[j]].next = now}

DueJobs(t) == {j \in Job : Due(j, t)}

\* Under the lock every due entry is marked and gets a goroutine.
Dispatch(due) ==
    /\ \E run \in [due -> Unused] :
         /\ \A j, k \in due : run[j] = run[k] => j = k
         /\ runs' = [r \in Run |->
              IF \E j \in due : run[j] = r
              THEN LET j == CHOOSE j \in due : run[j] = r
                   IN NewRun(j, "schedule", gen[j], entries[j][gen[j]].next, proc = "up")
              ELSE runs[r]]
    /\ entries' = [j \in Job |-> IF j \in due
                                 THEN [entries[j] EXCEPT ![gen[j]].running = TRUE]
                                 ELSE entries[j]]

\* One round of the loop.  The clock was read at t, before the lock.  The select
\* of Start may still take a tick after the context is cancelled.
DispatchDue ==
    /\ proc # "down"
    /\ \E t \in 0..now : DueJobs(t) # {} /\ Dispatch(DueJobs(t))
    /\ UNCHANGED <<now, proc, registered, gen, asking, asked, store, registers, faults>>

\* dispatchTrigger: an HTTP request runs the job at once, in its own goroutine.
Trigger(j) ==
    /\ proc = "up"
    /\ \E r \in Unused : runs' = [runs EXCEPT ![r] = NewRun(j, "trigger", 0, 0, TRUE)]
    /\ UNCHANGED <<now, proc, scheduler, store, registers, faults>>

----------------------------------------------------------------------------
(* JobRunner.RunOnce *)

\* A call fails because its context has ended, or for a reason of its own.
Failing(r) ==
    \/ ~runs[r].ctx /\ UNCHANGED faults
    \/ faults < MaxFaults /\ faults' = faults + 1

RunnerOnly == UNCHANGED <<now, proc, scheduler, store, registers>>

CreateContainer(r) ==
    /\ runs[r].at = "create" /\ runs[r].ctx
    /\ runs' = [runs EXCEPT ![r].at = "start", ![r].cont = "created", ![r].known = TRUE]
    /\ RunnerOnly /\ UNCHANGED faults

\* The context may end after Docker made the container: nobody learns its id.
CreateFails(r) ==
    /\ runs[r].at = "create" /\ Failing(r)
    /\ \E c \in {"none", "created"} :
         runs' = [runs EXCEPT ![r].at = "save", ![r].status = "failed", ![r].cont = c]
    /\ RunnerOnly

StartContainer(r) ==
    /\ runs[r].at = "start" /\ runs[r].ctx
    /\ runs' = [runs EXCEPT ![r].at = "wait", ![r].cont = "running"]
    /\ RunnerOnly /\ UNCHANGED faults

\* The context may end after Docker started the container.
StartFails(r) ==
    /\ runs[r].at = "start" /\ Failing(r)
    /\ \E c \in {"created", "running"} :
         runs' = [runs EXCEPT ![r].at = "save", ![r].status = "failed", ![r].cont = c]
    /\ RunnerOnly

WaitContainer(r) ==
    /\ runs[r].at = "wait" /\ runs[r].cont = "exited"
    /\ runs' = [runs EXCEPT ![r].at = "save",
                  ![r].status = IF runs[r].code = 0 THEN "succeeded" ELSE "failed"]
    /\ RunnerOnly /\ UNCHANGED faults

\* Fault: the error of the wait is dropped, and the exit code it did not get is 0.
WaitErrorDropped(r) ==
    /\ runs[r].at = "wait" /\ Failing(r)
    /\ runs' = [runs EXCEPT ![r].at = "save", ![r].status = "succeeded"]
    /\ RunnerOnly

\* Fault: the wait is not under the context with the timeout.
WaitUncancelled(r) ==
    /\ runs[r].at = "wait" /\ faults < MaxFaults /\ faults' = faults + 1
    /\ runs' = [runs EXCEPT ![r].at = "save", ![r].status = "failed"]
    /\ RunnerOnly

WaitFails(r) ==
    /\ runs[r].at = "wait" /\ Failing(r)
    /\ runs' = [runs EXCEPT ![r].at = "save", ![r].status = "failed"]
    /\ RunnerOnly

StoreUsable(r) == runs[r].ctx /\ proc \in {"up", "stopping"}

\* The errors of both store calls are dropped: the run goes on either way.
SaveExecution(r) ==
    /\ runs[r].at = "save" /\ StoreUsable(r)
    /\ executions' = [executions EXCEPT ![r] = runs[r].status]
    /\ runs' = [runs EXCEPT ![r].at = "upsert"]
    /\ UNCHANGED <<now, proc, scheduler, jobRow, registers, faults>>

\* Fault: the container is removed at the end of a run that succeeded.
RemoveOnSuccess(r) ==
    IF runs[r].known /\ runs[r].status = "succeeded" THEN "remove" ELSE "finish"

AfterUpsert(r) == IF runs[r].known THEN "remove" ELSE "finish"

\* Fault: the row of the job says that the run is over, not how it ended.
UpsertJobSucceeded(r) ==
    /\ runs[r].at = "upsert" /\ StoreUsable(r)
    /\ jobRow' = [jobRow EXCEPT ![runs[r].job] = [status |-> "succeeded", run |-> r]]
    /\ runs' = [runs EXCEPT ![r].at = AfterUpsert(r)]
    /\ UNCHANGED <<now, proc, scheduler, executions, registers, faults>>

UpsertJob(r) ==
    /\ runs[r].at = "upsert" /\ StoreUsable(r)
    /\ jobRow' = [jobRow EXCEPT ![runs[r].job] = [status |-> runs[r].status, run |-> r]]
    /\ runs' = [runs EXCEPT ![r].at = AfterUpsert(r)]
    /\ UNCHANGED <<now, proc, scheduler, executions, registers, faults>>

\* Fault: when the job's row cannot be written the run is stored once more, as
\* a failure.
StoreFailsSavesAgain(r) ==
    /\ runs[r].at \in {"save", "upsert"}
    /\ \/ ~StoreUsable(r) /\ UNCHANGED faults
       \/ faults < MaxFaults /\ faults' = faults + 1
    /\ runs' = [runs EXCEPT ![r].at = IF @ = "save" THEN AfterUpsert(r) ELSE "save",
                           ![r].status = "failed"]
    /\ RunnerOnly

StoreFails(r) ==
    /\ runs[r].at \in {"save", "upsert"}
    /\ \/ ~StoreUsable(r) /\ UNCHANGED faults
       \/ faults < MaxFaults /\ faults' = faults + 1
    /\ runs' = [runs EXCEPT ![r].at = IF @ = "save" THEN "upsert" ELSE AfterUpsert(r)]
    /\ RunnerOnly

\* The deferred removal has a context of its own; its error is dropped.
RemoveContainer(r) ==
    /\ runs[r].at = "remove"
    /\ \/ runs' = [runs EXCEPT ![r].at = "finish", ![r].cont = "none"] /\ UNCHANGED faults
       \/ /\ faults < MaxFaults /\ faults' = faults + 1
          /\ runs' = [runs EXCEPT ![r].at = "finish"]
    /\ RunnerOnly

\* Fault: the entry is looked up again by the job's name.
FinishByName(r) ==
    /\ runs[r].at = "finish" /\ runs[r].by = "schedule"
    /\ LET n == NextRun(runs[r].job, now)
       IN entries' = [entries EXCEPT ![runs[r].job][gen[runs[r].job]] =
                        [next |-> n, running |-> FALSE, active |-> @.active /\ n # 0]]
    /\ runs' = [runs EXCEPT ![r].at = "done", ![r].ctx = FALSE]
    /\ UNCHANGED <<now, proc, registered, gen, asking, asked, store, registers, faults>>

\* runJob's deferred function re-arms the entry the run holds.
FinishScheduled(r) ==
    /\ runs[r].at = "finish" /\ runs[r].by = "schedule"
    /\ LET n == NextRun(runs[r].job, now)
       IN entries' = [entries EXCEPT ![runs[r].job][runs[r].gen] =
                        [next |-> n, running |-> FALSE, active |-> @.active /\ n # 0]]
    /\ runs' = [runs EXCEPT ![r].at = "done", ![r].ctx = FALSE]
    /\ UNCHANGED <<now, proc, registered, gen, asking, asked, store, registers, faults>>

FinishTriggered(r) ==
    /\ runs[r].at = "finish" /\ runs[r].by = "trigger"
    /\ runs' = [runs EXCEPT ![r].at = "done", ![r].ctx = FALSE]
    /\ RunnerOnly /\ UNCHANGED faults

----------------------------------------------------------------------------
(* Around it: the clock, the container's program, the ends of contexts *)

Tick ==
    /\ now < MaxTime /\ now' = now + 1
    /\ UNCHANGED <<proc, scheduler, runs, store, registers, faults>>

ContainerExits(r) ==
    /\ runs[r].cont = "running"
    /\ \E c \in {0, 1} : runs' = [runs EXCEPT ![r].cont = "exited", ![r].code = c]
    /\ RunnerOnly /\ UNCHANGED faults

EndContext(r) ==
    /\ Active(r) /\ runs[r].ctx
    /\ runs' = [runs EXCEPT ![r].ctx = FALSE]
    /\ RunnerOnly /\ UNCHANGED faults

TimeoutExpires(r) == runs[r].job \in WithTimeout /\ EndContext(r)
ClientLeaves(r) == runs[r].by = "trigger" /\ EndContext(r)

----------------------------------------------------------------------------
RunStep(r) ==
    \/ CreateContainer(r) \/ CreateFails(r) \/ StartContainer(r) \/ StartFails(r)
    \/ WaitContainer(r) \/ WaitFails(r) \/ SaveExecution(r) \/ UpsertJob(r)
    \/ StoreFails(r) \/ RemoveContainer(r) \/ FinishScheduled(r) \/ FinishTriggered(r)

Next ==
    \/ StartDaemon \/ Cancel \/ CloseStore \/ Exit \/ Crash
    \/ DispatchDue \/ Tick
    \/ \E j \in Job : RegisterAsks(j) \/ Register(j) \/ Unregister(j) \/ Trigger(j)
    \/ \E r \in Run :
          RunStep(r) \/ ContainerExits(r) \/ TimeoutExpires(r) \/ ClientLeaves(r)

Spec == Init /\ [][Next]_vars

\* Goroutines that can run do, the ticker fires, and a timeout expires.
FairSpec ==
    /\ Spec
    /\ WF_vars(DispatchDue)
    /\ \A r \in Run : WF_vars(RunStep(r)) /\ WF_vars(TimeoutExpires(r))

----------------------------------------------------------------------------
(* Properties *)

Scheduled(r) == runs[r].at # "unused" /\ runs[r].by = "schedule"

\* An entry is marked running exactly while one goroutine holds it: no entry
\* has two runs at a time, and none is left marked when its run is over.  (The
\* run of an entry that Register has replaced may go on beside one of the new.)
RunningMeansOneRun ==
    \A j \in Job, g \in Generation :
        LET holders == {r \in Run : Scheduled(r) /\ Active(r)
                                    /\ runs[r].job = j /\ runs[r].gen = g}
        IN /\ entries[j][g].running <=> holders # {}
           /\ \A r, s \in holders : r = s

\* No instant of a schedule is run before its time, and none is run twice, also
\* when a run is slow, the daemon restarts or the job is registered anew.  One
\* case is left open by Register, which reads the clock before it takes the lock:
\* an instant after that reading that the old entry served before the new one
\* was there.
EachInstantOnce ==
    \A r, s \in Run :
        Scheduled(r) =>
          /\ runs[r].due \in DueAt[runs[r].job] /\ runs[r].due <= now
          /\ Scheduled(s) /\ runs[s].job = runs[r].job /\ runs[s].due = runs[r].due
               /\ runs[r].gen <= runs[s].gen /\ r # s
             => /\ runs[r].gen < runs[s].gen
                /\ asked[runs[s].job][runs[s].gen] < runs[s].due

\* Whatever happens to the process, its runs and its entries, a schedule served
\* by the daemon is a ledger: its instants in order, each at most once except
\* across a registration, which goes on from the time it has read, and a result
\* in the executions table is never written over.
Served(j) == {asked[j][gen[j]]}
             \cup {runs[r].due : r \in {r \in Run : Scheduled(r) /\ runs[r].job = j
                                                     /\ runs[r].gen = gen[j]}}
Ledger == INSTANCE RunLedger WITH
    Instants <- DueAt, clock <- now, result <- executions,
    served <- [j \in Job |-> CHOOSE d \in Served(j) : \A e \in Served(j) : e <= d]
ImplementsLedger == Ledger!Spec

\* A recorded result is what the container did: success is recorded only of a
\* container that ended with code 0, however its run was cut short.
SuccessIsReal ==
    \A r \in Run : executions[r] = "succeeded" =>
        runs[r].known /\ runs[r].code = 0 /\ runs[r].cont \in {"exited", "none"}

\* The last status of a job is never newer than its history says: the run it
\* is from either has that status in the executions table or has no row at all.
JobRowMatchesHistory ==
    \A j \in Job : jobRow[j].run # None =>
        executions[jobRow[j].run] \in {jobRow[j].status, "none"}

\* RunOnce removes the container on every path once it has its id; only a
\* failed call or the end of the process leaves one behind.
ContainerRemoved ==
    \A r \in Run : runs[r].at = "done" /\ runs[r].known /\ faults = 0
                   => runs[r].cont = "none"

\* A job with a timeout cannot hold its schedule for ever: its entry is armed
\* again, or inactive, or the process has ended.
TimeoutFreesSchedule ==
    \A j \in WithTimeout, g \in Generation :
        entries[j][g].running ~> ~entries[j][g].running

\* A due entry is dispatched as long as its daemon lives and it is registered.
DueIsDispatched ==
    \A j \in Job : (Due(j, now) /\ proc = "up")
                   ~> (~Due(j, now) \/ Cardinality(Unused) < Cardinality(DueJobs(now)))

\* "Stores the execution result" (README.md, Job Execution): a run that ends
\* while the daemon is up, and no call failed of itself, is in the history.
EveryRunRecorded ==
    \A r \in Run : Scheduled(r) /\ runs[r].at = "done" /\ proc = "up" /\ faults = 0
                   => executions[r] # "none"
=============================================================================
