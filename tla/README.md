# Orbit, specified in TLA+

Orbit is a single-process container orchestrator: a daemon reads one YAML file,
drives a Docker engine to the services of that file, runs scheduled and
triggered jobs in one-off containers, restarts unhealthy services and keeps rows
about all of it in SQLite. This directory holds TLA+ modules translated from its
Go source (`internal/...`), configurations that check them with TLC, and proofs
checked by TLAPS. `PROJECT.json` maps every definition to the lines it models.

## 1. Inventory

| Component | State it keeps | Operations | Hard parts | Correct when |
|---|---|---|---|---|
| Controller (`controller/`) | none of its own between calls: a snapshot of the engine, a position in two loops | `Apply`, once per start | dies or fails between any two Docker calls; snapshot goes stale; name clashes | every desired service ends up in a started container of its image; foreign containers are left alone; rows agree |
| Docker adapter (`docker/`) | the engine's containers | create, start, stop, restart, remove, inspect, list, wait | answers are lost, contexts end | labels say whose container it is |
| Store (`state/`) | SQLite rows: stack, metadata, services, jobs, triggers, executions | upserts, each its own statement | no transaction over several | rows are what the last writer saw |
| Scheduler (`scheduler/scheduler.go`) | an entry per job: next run, running, active | `Register`, `Unregister`, `Sync`, `dispatchDue`, `runJob` | runs that outlast their schedule or entry; a clock read before the lock | no overlap within an entry, no instant twice but for one case of `Register`, nothing held for ever |
| Job runner (`scheduler/runner.go`) | a goroutine per run | `RunOnce` | timeout, cancellation, lost answers | results are real and recorded, containers removed |
| Cron (`scheduler/cron.go`) | none | `ParseSchedule`, `Next` | Sunday 0 and 7, day fields, horizon of a year, clocks set back | first match after an instant |
| Health monitor (`health/`) | attempts, the last inspection | `Run`, `observe` | the container changes between look and act | down services come up, rows converge, backoff |
| Event bus (`events/bus.go`) | subscribers with bounded channels | `Subscribe`, `Unsubscribe`, `Publish`, `Close` | sends after the lock is released | order, no blocking, loss only for the slow |
| Event router (`events/handlers.go`) | handlers by type | `Dispatch` | none: sequential, unused | - |
| Daemon (`daemon/`) | the wired parts, the stage of start or end it is in | `Bootstrap`, `Run`, `Shutdown` | failure or death between any two calls; a file edited meanwhile; requests under way at shutdown; a cron expression looked into only after `Apply` | loops run for one file that was taken in as a whole; it stops when told; what failed is closed |
| Migrations (`state/sqlite.go`, `state/migrations/`) | recorded versions | `Open`, `Migrate` | a crash between a migration and its record; an older program on a newer database | each recorded migration has run once, each other not at all |
| Trigger engine, HTTP server (`triggers/`) | triggers by name; the listener | `Sync`, `HandleHTTP`, `HandleFileEvent`, `Start`, `Shutdown` | a request runs a whole job on a copy of the triggers; `Sync` meanwhile | answers are true of the file that is served |
| File watcher, MQTT (`triggers/`) | watched paths | `handleEvent`, `Sync` | lock held during a job; nothing constructs them | - |
| Configuration, models (`config/`, `models/`) | none | `Parse`, `Validate` | checks repeated, and not equal, in later layers | what was accepted no later check of the program refuses |

How they interact: `Daemon.Run` calls `Apply`, then `Sync` of the scheduler and
of the trigger engine, then starts the HTTP server, the scheduler loop and one
monitor per service as goroutines. All of them share the engine and the store;
the scheduler and an HTTP request call the same `JobRunner.RunOnce`, which the
controller meets again at the next start as leftover containers. On shutdown the
context ends, the HTTP server stops, runtime, store and bus are closed, and `Run`
waits for its goroutines, but not for the goroutines of runs. Nothing reads the
bus in this version; it is modelled as the library it is.

Facts about the code that the models show, or that decided how they are cut:

- `PRAGMA foreign_keys = ON` stands in a migration and so runs in its transaction,
  where SQLite ignores it.
- A trigger for the path `/health` is accepted and never reached: `healthHandler` is
  registered for that path.
- Triggers of type `event` and `mqtt` never fire, and file triggers have no caller;
  targets other than jobs are answered with 500.
- Of two HTTP triggers whose paths differ in case only, a Go map's order decides which
  one a request runs.
- `Run` that returns an error closes nothing: that is left to a call of `Shutdown`,
  or to the end of the process.
- `Register` reads the clock and finds the next run before it takes the lock
  (`scheduler.go:59-67`): what the old entry serves in between, the new one serves again.
- Docker may still refuse what every check of the program lets through, such as a relative
  path of the host, or an image name with blanks around it.
- `RetryCount` and `DependsOn` are validated and not used.

The hazards of this code, each with its line and the properties about it, are
listed in `PROJECT.json`.

## 2. Modules

- `Reconciler` models one daemon process after another running `Apply`.
  `pc` names the next call; each call to Docker or the store is one action, so
  another actor can act, a call can fail or the process die between any two.
  `StartDaemon` is `Bootstrap` (it loads the file, known by its hash); `SaveStack`,
  `SetMetadata`, `UpsertJob`, `LoadActualState`, the `Service*`, `Stop*`, `Remove*`,
  `Create*`, `Start*`, `UpsertService` and `Prune*` actions follow `Reconcile` and
  `createAndStartService` in their order; `Abort` is the failure of the next call
  or the death of the process. The environment edits the file, removes containers,
  lets them exit and be restarted, and runs jobs. `StartContainer` after `ServiceFound`
  and after `CreateContainer` is one action, as the calls and what follows are alike.
  `MCReconciler` has the instances.
- `JobScheduler` models the scheduler, its runs and the part of the daemon that
  starts, cancels and ends them. An entry is known by job and generation, because a
  run keeps a pointer to the entry it was started for while `Register` puts a new one
  in the map. A run is a record with its goroutine (`at`, `ctx`, `status`, `known`: it
  learned the container's id) and its container (`cont`, `code`), which outlives the
  process. A triggered run has no entry. `Register` is two actions: `RegisterAsks` reads
  the clock (`asking`), `Register` takes the lock and replaces the entry; the history
  `asked` keeps what was read for each generation. `DispatchDue`, too, acts on a clock read
  at any time before it has the lock. `Sync` at the start of the daemon is one action
  with the rest of the start, as no loop runs yet. `MCJobScheduler` has the instances.
- `EventBus` models `Publish` as a copy of the subscribers and a loop of sends
  with the lock released, against `Subscribe`, `Unsubscribe`, `Close`, consumers and
  contexts. A channel is the part of `sent` its consumer has not taken.
- `HealthMonitor` models the monitor of one service and the container it watches.
  `checks.go` is translated as operators of the same names; `observe` is a chain of
  actions; the engine restarts what ends under the policy `restartPolicy` gave it. Of what is
  being removed the monitor learns that state, for which `LifecycleStatusFromInfo` has no name.
- `Cron` models parsing and the walk of `Next`. What a clock shows in a time zone is
  package `time`'s affair: `Clock` and `NextYear` are parameters. `MCCron` gives them a
  calendar of days of two hours, with a leap day and a clock that is set back.
- `Config` has no state. It is `Parse`, as predicates on a configuration in which a text
  is known by the patterns and libraries that accept it (`NameText`, `CronText`, ...), and,
  apart from it, what the later layers demand once more: `BuildCreateConfig` with its
  mounts, ports and health check, the runner's second look at a job, the scheduler's at a
  cron expression.
- `TriggerEngine` extends it with the engine's set of triggers and the goroutine of each
  HTTP request: `Accept`, then `Health` or `CopyTriggers` (the copy is taken under the
  read lock), then, without the lock, `NoMatch` or `Dispatch` and `JobEnds`. A dispatched
  trigger is any of those that match, the order of a Go map being any.
- `Daemon` extends that with one process after another. `stage` names the next call of
  `Bootstrap` or `Run`; each is an action with a way to fail: `Start` reads the file,
  `OpenStore` to `CommitMigrations` are `Open` and `Migrate` (a step per migration run
  and per migration recorded, all in `tx` until the commit), `ConnectDocker`, `SetMetadata`,
  `Apply`, `SyncScheduler`, `SyncTriggers`, `StartLoops`; after `Cancel` `ShutdownHTTP`,
  `Drain`, `ForgetTriggers`, `CloseResources`, `WaitForLoops`. `Listen`, `ListenFails`,
  `LoopReturns` and the steps of requests go on beside them. `Crash` ends a process at any
  stage; `Edit` puts another file or a program of another version in place. `Apply` and
  the loops are only their beginning and end here: `deployed` is the file whose containers
  stand, or `None` for a mixture; their insides are `Reconciler`, `JobScheduler` and
  `HealthMonitor`. `MCDaemon` has the files.
- `LossyQueues` and `RunLedger` are abstract specifications, with no source of their own:
  what a subscriber may expect of the bus, and what the owner of a job may expect of
  scheduling. `EventBus!ImplementsQueues` maps the queue of a reader to the part of
  `sent` its consumer has not taken, whether it is open to the channel's state, and the
  last message of each writer to the last occurrences in `sent`; a snapshot of the
  subscribers, the lock and calls under way are hidden. `JobScheduler!ImplementsLedger`
  maps the time up to which a schedule has been served to the largest instant that a run of
  the present generation was started for, or to what that generation's `Register` read from
  the clock, and the results to the executions table; entries, processes and containers
  are hidden, so a restart must be a stutter. A registration is one in the ledger as well
  (`Ask`, `Renew`): only what was served between the two may be served again.
- `ReconcilerProofs`, `JobSchedulerProofs`, `EventBusProofs`, `HealthMonitorProofs`,
  `DaemonProofs` and `CronProofs` hold the theorems about the module each is named after;
  `OrderFacts` has two lemmas on least and greatest numbers that several of them use.

Operators introduced by a comment that begins `Fault:` are variations of the
definition next to them, with a bug one could plausibly write. No specification uses
them: they show that the property named beside them in `PROJECT.json` notices.

### What is abstracted

A file is its hash and the names and images of its services and jobs; container
settings, labels of the user, logs and wording are left out (a user who writes Orbit's
own hash label into the file is not considered). Pulling an image is part of creating
the container: it either fails with it or not. Triggers' rows are written by loops of
the same form as those of the jobs, right after them, and stand with them. A Docker
id is never used twice; in `Reconciler` a free one is chosen deterministically, which
loses nothing as ids are only compared.
In `Daemon` a call that fails and a context that ended look alike, and published events
are left out, as nothing reads them; request bodies and headers are passed on as they
are. The health status in a service row is
modelled in `HealthMonitor`, not in `Reconciler`. Time in `JobScheduler` is a small
counter, schedules are sets of its values, `NextRun` is what `Cron` shows of `Next`.

## 3. Runs

Passing runs. `MCDaemon` checks for deadlock, as a daemon can always be started again;
the others do not: an idle daemon, a finished scan and a stopped monitor do stop.

| Run | Bounds | States | Shows |
|---|---|---|---|
| `MCReconciler` | 2 files, 3 workloads, 6 ids, 3 faults, 2 edits, 1 job container | 227 k | `ProcessedDeployed`, `OneServiceDownAtATime`, `RowsAgreeWhenUp`, `ForeignUntouched`, `EventuallyUp` |
| `MCJobScheduler` | 1 job, 2 runs, time 0..2, 1 registration, 1 fault or crash | 3.2 M | safety of entries, runs and history; `ImplementsLedger` |
| `MCJobSchedulerLive` | 2 jobs, 2 runs, no faults | 507 k | `TimeoutFreesSchedule`, `DueIsDispatched` |
| `MCEventBus` | 2 publishers, 2 subscribers, capacity 1, 2 events | 216 k | order, loss, `PublishReturns`, `ImplementsQueues` |
| `MCHealthMonitor` | 4 policies, 3 changes, 2 faults, 6 attempts counted | 937 k | backoff, recorded reasons, convergence |
| `MCDaemon` | 1 request, 2 versions, 2 faults or crashes, 2 edits; 3 files that follow one another, some 170 that differ from a good one in a field or two | 251 k | `SchemaIsWhole`, `AcceptedMeansUsable`, `ServesOneFile`, `AnswersAreTrue`, `NothingLeftOpen`, `StopsWhenCancelled` |
| `MCCron` | every form of expression, whole toy year | 16 k | `FirstMatch`, `NextAsWritten` |

Why the bounds are enough. Reconciler: three faults allow a start that dies in a
replacement, a second that dies in the repair and a third failure after it; two files
allow changed, removed and unchanged services; six ids are more than can be alive or
remembered at once. JobScheduler: two runs are what it takes to overlap, one further
registration what it takes to hold an old entry, or to serve an instant between the
reading of the clock and the lock; of one job one call of `Register` is made at a time.
EventBus: one slot and two publishers fill a channel; two events of one publisher can be
reordered. HealthMonitor: the delays
5, 10, 20, 40, 60 are reached with five attempts, six count past the cap (the monitor's
counter itself is not bounded, but has no further effect). Daemon: requests share nothing
but the engine, of which each takes its own copy, and meet only in `Drain`, which asks
whether one is left, so one is enough; two faults allow a crash in a start and another
in the repair; two edits allow a downgrade and the way back, or a file that fails and the
one that mends it. The files that follow one another are a full one (two triggers for one
path, one of them with an unwired target, one for `/health`, one of a type that never
fires), one with a bad schedule behind a good one, and one that drops all but a job; the
others give each field its right, wrong and limiting values (`Cron` covers what a cron
text itself means). `MaxFaults`, `MaxEdits`,
`MaxJobs`, `MaxRegisters`, `MaxChanges`, `MaxPublished`, `MaxTime` are all bounds of
the environment, not of the code; calls that a bound rules out are calls nobody makes.

Fairness. `Reconciler`: the process makes its next call, and a supervisor or the
operator starts the daemon again when it has ended; without the latter nothing comes
up by itself. `JobScheduler`: goroutines that can run do, the ticker fires, a timeout
expires; a container's program need not end. `EventBus`: publishers run; consumers
need never receive. `HealthMonitor`: the monitor's goroutine runs and its timers fire,
and the engine carries out the restarts it has decided on. `Daemon`: the process makes
the calls of `Bootstrap` and `Run`, ends when they have, and its loops notice the end of
the context; a triggered job may run for ever, and nobody need start the daemon again. Liveness holds after
failures stop, which the bounds on them express.

Runs that end in a violation each check one statement of the documentation or code
against what the code does:

| Run | Statement | What happens |
|---|---|---|
| `MCReconcilerIdempotent` | README "Updates the container if configuration changes" | the hash label of a service container is empty (`reconciler.go:220`, `client.go:93`), so every start recreates every service |
| `MCReconcilerAdopt` | README "Orbit creates the container and monitors health" | a job's leftover container is taken for a service of the same name (`actual_state.go:36`) |
| `MCJobSchedulerUnrecorded` | README "Stores the execution result" | the result of a run that timed out is stored with the expired context (`runner.go:118`) |
| `MCEventBusPanic` | `Publish` returns `ErrBusClosed` for a closed bus | it sends on a channel closed after its copy was taken (`bus.go:158`) |
| `MCHealthMonitorStale` | README "Restarts on failure based on configured policy" | it acts on the inspection made before the backoff (`monitor.go:142-151`) |

## 4. Proofs

Theorems hold for every value of the constants allowed by the named assumptions of the
modules: any files, jobs, schedules, subscribers, policies, versions and requests, and
any bound on failures. Every safety property a passing run checks is the subject of one,
and so are both refinements. TLC checked each inductive invariant on an instance first.

Few of the properties are inductive. What each invariant adds, and why:

`ReconcilerProofs`
- `TypeCorrect`: `[]TypeOK`, with `PositionOK`: within the loop, `i` is at a service.
- `ProcessedServicesDeployed`: under `DisjointNames` (no file gives a service and a job
  one name), `[]ProcessedDeployed`. `MCReconcilerAdopt` shows that the assumption is
  needed. That the service passed last is deployed depends on what the container in
  hand is, and that pruning does not take it down depends on what the snapshot says.
  `DeploymentInv` adds: `LabelsOK` (only job containers carry a hash label, of a file with
  that job), `SnapshotOK` (an id of the snapshot still names the workload it was listed
  for, as ids are not reused), `TargetOK` (what is being replaced or pruned is the
  current service's, or no desired service's), `CreatedOK` (between creation and row
  the new container is the service's own). The crucial step is `ServiceFound`: a
  container that needs no replacement has the hash of the desired file, so it would be
  a job's, so the service would share the job's name.
- `ForeignContainersUntouched`: `ForeignUntouched`, from the same parts.
- `RowsAreOfOneFile`: `[]RowsAgreeWhenUp`. `RowsWritten` says at each call of `Apply`
  which rows are already of the desired file: those of the stages before, and within a loop
  those of the positions before `i`. The second loop over the jobs begins anew, and may, as
  it writes what the first has written.
- `OneAtATime`: `[]OneServiceDownAtATime`, from `OnlyCurrentDown`: what is down is the
  service the loop is at, and nothing is down outside of `create`. It needs `SnapshotOK`
  and `TargetOK` (a removal takes from the service it means, and from no other) and the
  hypothesis `NamesKeepTheirKind`: no name is that of a service in one file and of a job
  in another. It is stronger than `DisjointNames`, and needed for the same reason: a leftover
  container of a job that an earlier file had counts, in the snapshot, for a service of its
  name, so after an edit a service may seem to have had a container that it never had.

`JobSchedulerProofs`
- `TypeCorrect`: `[]TypeOK`. An entry's `next` is zero or an instant of its job because the
  least element `NextRun` chooses exists (`OrderFacts`); a result about to be saved is not
  "running".
- `OneRunPerEntry` and `NoInstantTwice`: `[]RunningMeansOneRun` and `[]EachInstantOnce`,
  which need each other's reasons. Both are about what the code holds to: an entry has one
  run, though a run of a replaced entry may go on beside one
  of its successor, and two runs for one instant are of two entries, the later one with a
  clock read before that instant. `ScheduleInv` has: `Held` (marked means exactly one run
  that is under way), `HoldersLive` (such a run does not outlive its process),
  `GenerationsPast` (and is of a generation its job has reached: a new registration cannot
  be the entry an old run holds), `ArmedAhead` (an armed entry waits for an instant of its
  schedule later than its registration asked and than all that its own generation served),
  `ServedWhenDue`, `ServedAfter` (nothing is served of a generation from before it asked),
  `ServedOnce` (no instant twice in a generation). `dispatchDue` keeps the last two from
  `ArmedAhead`; `Sync` and the deferred function of `runJob` restore `ArmedAhead` because
  `Next` is asked from a present not before any served instant, `Register` because a new
  generation has served nothing yet.
- `RecordedSuccessIsReal`, `RowMatchesHistory`, `ContainersAreRemoved`: `[]SuccessIsReal`,
  `[]JobRowMatchesHistory`, `[]ContainerRemoved`. `ResultInv` says of each stage of a run
  what it knows and what the history says of it (`Outcome`), that without failed calls the
  container is gone when the run is over (`Cleaned`), and that the row of a job was
  written by a run that has nothing more to write (`RowWritten`).
- `SchedulerIsALedger`: `Spec => ImplementsLedger`. Each step is one of `RunLedger` (a
  dispatch serves an instant of each job that is due, a saved execution is one result,
  time goes on, a registration asks, takes effect or is lost with its process) or leaves the
  ledger as it is; restarts, triggered runs and the upsert of the row are the stutters. It
  uses both invariants.

`EventBusProofs`
- `TypeCorrect`: `[]TypeOK`, with the capacity of every channel; whom a call under way still
  has to reach is in its copy.
- `EventsInOrder`: `[]PublisherOrder`. `OrderInv` adds `Numbered` (no event in a channel is
  newer than the last call of `Publish`) and `Sending` (a call under way sends its
  publisher's newest event, to each subscriber it still has to reach for the first time).
- `LossIsLocal`: `[]NothingLostUnlessFull`. `LossInv` adds `Noticed` (a channel that is full
  is known to have been) and `Accounted` (whom a call under way has passed has the event or
  had a full channel).
- `SubscriptionsAreQueues`: `Spec => ImplementsQueues`, from `OrderInv` and `OpenListed` (the
  ids listed are those with an open channel). A `Publish` that goes on after its lock is
  released and sends to a channel with room is `Put`, one that finds it full a stutter.

`HealthMonitorProofs`
- `BackoffDelayIsDoubledBase`: `BackoffDelay` returns `Base` doubled once for every attempt
  after the first, or `Ceiling` if that is less, for every base and ceiling. The loop of the code is a recursive function;
  induction is replaced by its contrapositive, that a least round at which a claim fails
  would have one before it (`LeastExists`). The reference definition is `Doubled`, a
  recursive function too, as the provers know no law of exponentiation.
- `TypeCorrect`: `[]TypeOK`. `WaitsDouble`: `[]BackoffDoubles`; no attempt is counted while
  one is waited for. `RestartsAreExplained`: `[]ReasonIsRecorded`, though the container
  itself changes meanwhile.

`DaemonProofs`
- `TypeCorrect`: `[]TypeOK`, in four parts (process, schema, loops, handlers), with `Held`:
  what a process holds at which stage. `EndLeavesNothing`: `[]NothingLeftOpen` from `Held`.
  It covers a failed `Bootstrap` and a `Run` that was cancelled; of a `Run` that returned an
  error it says only that no loop and no transaction is left, as the code closes nothing there.
- `ParseIsTheOnlyGate`: `[]AcceptedMeansUsable`, of the program's own checks, by lemmas over all configurations: what
  `ServiceValid`, `JobValid`, `TriggerValid` let through is what `ServiceBuilds`,
  `JobBuilds` and `TriggerSetValid` ask for. They rest on `TextAssumption`: no
  pattern or library accepts the empty text.
- `MigrationsAreAtomic`: `[]SchemaIsWhole`. `Half` says what a transaction under way holds:
  each migration before its position recorded, each after it as in the database, and at most
  the one at its position run and not yet recorded.
- `OneFileIsServed`: `[]ServesOneFile`. `StartUp` says what is in place after each stage.
- `HandlersTellTheTruth`: `[]AnswersAreTrue`. `Closing` says that a request still
  under way when the triggers are withdrawn can only be one that the shutdown of the HTTP
  server has given up on; `AllHandled` what a request knows at each of its stages.

`CronProofs`
- `TypeCorrect`, and `NextReturnsFirstMatch`: `[]FirstMatch`, by the invariant that all units
  passed so far do not match. It assumes nothing of what `Clock` and `NextYear` return.
- `MatchesIsFires`: on every clock, an expression that parsed matches exactly when its text,
  read as a crontab reader would, fires: Sundays stored as 0, steps counted from the least
  number of a field, one of two restricted day fields.
- `NextIsAsWritten`: `[]NextAsWritten`, from these two and `WalkIsWhole`: the walk comes to
  every whole unit after the given instant, in order, and to nothing else. Its hypothesis
  `CalendarOK` is that a clock's fields are numbers, a weekday 0 to 6, and a year later is
  an instant.

Only model-checked: liveness under fairness, which is outside the prover (`EventuallyUp`,
`TimeoutFreesSchedule`, `DueIsDispatched`, `PublishReturns`, `RowConverges`,
`RestartedWhenDown`, `StopsWhenCancelled`), and the five statements that the code violates.

## 5. Not modelled

- The event router: its handlers run one after another in one goroutine, and nothing in
  the daemon registers a handler or runs a router.
- The file watcher and the MQTT driver: nothing constructs them, and the daemon keeps its
  trigger engine to itself, so nothing outside can either; `HandleFileEvent` has no other
  caller.
- Which of two overlapping runs of a job, scheduled and triggered, leaves its result in the
  job's row: both happen in `JobScheduler`, and no promise of the repository is about it.
- Queries of the store that list or get rows (nothing in the daemon calls them) and the
  encoding of columns; the tables themselves, which are SQL text.
- The settings of a container that are passed on as data (environment, mount modes,
  intervals of the engine's own health check); what their construction refuses is in
  `Config`.
- Parsing of YAML: `decodes` stands for a text the library accepts with known fields only.
- Empty packages and the version constant.

## 6. Plan

The models are complete as far as section 5 says, and every safety property and refinement
that a run checks is proved. What may follow:

1. `OneServiceDownAtATime` without `NamesKeepTheirKind`, for a notion of "had a container"
   that asks for a service's container and not for a snapshot entry.
2. The exact conditions under which the violated statements hold, as theorems: `Publish`
   does not panic while nothing closes a channel, runs that meet no timeout are recorded.
3. The migrations as an abstract specification (a set of versions that only grows) that
   `Daemon` implements.
