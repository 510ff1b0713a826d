---------------------------- MODULE Reconciler ----------------------------
(***************************************************************************)
(* The controller of the Orbit daemon (internal/controller): one start of  *)
(* the daemon reads the configuration file and runs Apply, which drives    *)
(* the Docker engine, one call at a time, to the services of that file,    *)
(* and writes the stack, job and service rows of the SQLite store.         *)
(*                                                                         *)
(* Every call to Docker or to the store is a step of its own, so another   *)
(* actor may act, a call may fail, or the process may die between any two  *)
(* of them.  A configuration file is known by its hash.                    *)
(***************************************************************************)
EXTENDS Naturals, Sequences, FiniteSets

CONSTANTS
    Hash,          \* hashes of the configuration files an operator may write
    Workload,      \* names of services and jobs
    Image,
    Container,     \* Docker container ids
    Name,          \* Docker container names
    Services,      \* [Hash -> Seq([name : Workload, image : Image])], in file order
    Jobs,          \* [Hash -> Seq([name : Workload, image : Image])]
    NameOf,        \* [Workload -> Name], BuildContainerName of this stack
    Preexisting,   \* the engine before Orbit: containers that are not of this stack
    NoHash, NoContainer, Absent,
    MaxFaults,     \* bound on failed calls and crashes
    MaxEdits,      \* bound on edits of the file and removals by hand
    MaxJobs        \* bound on job containers alive at once

Entry == [name : Workload, image : Image]

ASSUME ConstantsAssumption ==
    /\ IsFiniteSet(Container)
    /\ Services \in [Hash -> Seq(Entry)]
    /\ Jobs \in [Hash -> Seq(Entry)]
    /\ NameOf \in [Workload -> Name]
    /\ Container \cap Name = {}
    /\ MaxFaults \in Nat /\ MaxEdits \in Nat /\ MaxJobs \in Nat

\* models.ValidateStack and config validation: names are unique within a kind.
ASSUME UniqueNamesAssumption ==
    \A h \in Hash : \A j, k \in DOMAIN Services[h] :
        Services[h][j].name = Services[h][k].name => j = k

ASSUME MarkersAssumption ==
    /\ NoHash \notin Hash
    /\ NoContainer \notin Container

\* A container as Docker keeps it.  Only the labels of kinds "service" and
\* "job" say orbit.managed=true and name this stack; "foreign" is any other.
\* The name of a job container ends in a random id: the id stands for it.
ContainerRecord ==
    [name : Name \cup Container, workload : Workload, image : Image,
     kind : {"service", "job", "foreign"}, hash : Hash \cup {NoHash},
     state : {"created", "running", "exited"}]

ASSUME EngineAssumption ==
    /\ Absent \notin ContainerRecord
    /\ Preexisting \in [Container -> {r \in ContainerRecord : r.kind = "foreign"} \cup {Absent}]

VARIABLES
    file,         \* the configuration file on disk
    desired,      \* the one this process loaded: DesiredState.ConfigHash
    pc,           \* the next call of Apply; "down": no process; "up": serving
    i,            \* position in the loop over services or jobs
    actual,       \* ActualState.Services: workload -> container id, or none
    cid,          \* the container the current step is about
    doomed,       \* workloads the prune loop has still to visit
    containers,   \* the Docker engine
    stackHash,    \* stacks.config_hash
    appliedHash,  \* metadata last_applied_config_hash
    jobRow,       \* jobs.config_hash by job (trigger rows are written alike)
    serviceRow,   \* services.config_hash by service; a row says "running"
    retired,      \* history: services removed by hand or pruned, not recreated
    faults, edits \* spent so far

process == <<desired, pc, i, actual, cid, doomed>>
rows == <<stackHash, appliedHash, jobRow, serviceRow>>
bounds == <<faults, edits>>
vars == <<file, process, containers, rows, retired, bounds>>

Nowhere == [w \in Workload |-> NoContainer]

ServiceCalls == {"service", "stop", "remove", "create", "start", "upsert"}
PruneCalls == {"prune", "pruneStop", "pruneRemove"}
Phases == ServiceCalls \cup PruneCalls
            \cup {"down", "stack", "meta", "jobs", "list", "jobs2", "up"}

TypeOK ==
    /\ file \in Hash /\ desired \in Hash
    /\ pc \in Phases
    /\ i \in Nat \ {0}
    /\ actual \in [Workload -> Container \cup {NoContainer}]
    /\ cid \in Container \cup {NoContainer}
    /\ doomed \subseteq Workload
    /\ containers \in [Container -> ContainerRecord \cup {Absent}]
    /\ stackHash \in Hash \cup {NoHash} /\ appliedHash \in Hash \cup {NoHash}
    /\ jobRow \in [Workload -> Hash \cup {NoHash}]
    /\ serviceRow \in [Workload -> Hash \cup {NoHash}]
    /\ retired \subseteq Workload
    /\ faults \in 0..MaxFaults /\ edits \in 0..MaxEdits

Alive == {c \in Container : containers[c] # Absent}
Managed == {c \in Alive : containers[c].kind # "foreign"}
ServiceContainers(w) ==
    {c \in Alive : containers[c].kind = "service" /\ containers[c].workload = w}

ServiceOf(c) == IF containers[c].kind = "service" THEN {containers[c].workload} ELSE {}

Desired == Services[desired]
DesiredNames == {Desired[k].name : k \in DOMAIN Desired}
Current == Desired[i]

\* Docker does not use an id twice: an id is free when no container has it
\* and the running Apply does not remember it.
FreeIds == Container \ (Alive \cup {cid} \cup {actual[w] : w \in Workload})
FreshId == CHOOSE c \in FreeIds : TRUE

\* ContainerSpec of a service as Docker stores it.  CreateContainer takes the
\* hash label from the labels of the spec; createAndStartService passes only
\* the user's, so the label of a service container is empty.
NewService(s) ==
    [name |-> NameOf[s.name], workload |-> s.name, image |-> s.image,
     kind |-> "service", hash |-> NoHash, state |-> "created"]

\* A container the job runner made and started; its spec has the hash label.
NewJob(c, job) ==
    [name |-> c, workload |-> job.name, image |-> job.image,
     kind |-> "job", hash |-> desired, state |-> "running"]

Init ==
    /\ file \in Hash /\ desired = file
    /\ pc = "down" /\ i = 1 /\ actual = Nowhere /\ cid = NoContainer
    /\ doomed = {}
    /\ containers = Preexisting
    /\ stackHash = NoHash /\ appliedHash = NoHash
    /\ jobRow = [w \in Workload |-> NoHash]
    /\ serviceRow = [w \in Workload |-> NoHash]
    /\ retired = {}
    /\ faults = 0 /\ edits = 0

----------------------------------------------------------------------------
(* The process *)

\* Bootstrap reads and hashes the file; Run then calls Apply.
StartDaemon ==
    /\ pc = "down"
    /\ desired' = file /\ pc' = "stack"
    /\ UNCHANGED <<file, i, actual, cid, doomed, containers, rows, retired, bounds>>

\* Reconcile returns an error, which ends Run; or the process dies.
Down ==
    /\ pc' = "down" /\ i' = 1 /\ actual' = Nowhere /\ cid' = NoContainer
    /\ doomed' = {}
    /\ UNCHANGED <<file, desired, containers, rows, retired, edits>>

\* Fault: a service that cannot be created is passed over.
AbortPassesOver ==
    /\ pc # "down"
    /\ faults < MaxFaults /\ faults' = faults + 1
    /\ IF pc = "create"
       THEN /\ pc' = "service" /\ i' = i + 1
            /\ UNCHANGED <<file, desired, actual, cid, doomed, containers, rows, retired, edits>>
       ELSE Down

\* The next call fails before it had an effect, or the process is killed.
Abort ==
    /\ pc # "down"
    /\ faults < MaxFaults /\ faults' = faults + 1
    /\ Down

\* Fault: a stack that is known keeps the hash it has.
SaveStackOnce ==
    /\ pc = "stack"
    /\ stackHash' = IF stackHash = NoHash THEN desired ELSE stackHash
    /\ pc' = "meta"
    /\ UNCHANGED <<file, desired, i, actual, cid, doomed, containers,
                   appliedHash, jobRow, serviceRow, retired, bounds>>

SaveStack ==
    /\ pc = "stack"
    /\ stackHash' = desired /\ pc' = "meta"
    /\ UNCHANGED <<file, desired, i, actual, cid, doomed, containers,
                   appliedHash, jobRow, serviceRow, retired, bounds>>

SetMetadata ==
    /\ pc = "meta"
    /\ appliedHash' = desired /\ pc' = "jobs" /\ i' = 1
    /\ UNCHANGED <<file, desired, actual, cid, doomed, containers,
                   stackHash, jobRow, serviceRow, retired, bounds>>

\* One round of the loops that persist jobs, before and after the services.
UpsertJob ==
    /\ pc \in {"jobs", "jobs2"}
    /\ i \in DOMAIN Jobs[desired]
    /\ jobRow' = [jobRow EXCEPT ![Jobs[desired][i].name] = desired]
    /\ i' = i + 1
    /\ UNCHANGED <<file, desired, pc, actual, cid, doomed, containers,
                   stackHash, appliedHash, serviceRow, retired, bounds>>

JobsPersisted ==
    /\ pc \in {"jobs", "jobs2"}
    /\ i \notin DOMAIN Jobs[desired]
    /\ pc' = IF pc = "jobs" THEN "list" ELSE "up"
    /\ i' = 1 /\ cid' = NoContainer /\ actual' = Nowhere
    /\ UNCHANGED <<file, desired, doomed, containers, rows, retired, bounds>>

\* Fault: the list is not restricted to the stack's labels.
LoadUnfiltered ==
    /\ pc = "list"
    /\ actual' \in [Workload -> Alive \cup {NoContainer}]
    /\ \A w \in Workload :
         LET own == {c \in Alive : containers[c].workload = w}
         IN IF own = {} THEN actual'[w] = NoContainer ELSE actual'[w] \in own
    /\ pc' = "service" /\ i' = 1
    /\ UNCHANGED <<file, desired, cid, doomed, containers, rows, retired, bounds>>

\* LoadActualState: of several containers of one workload the map keeps the
\* last one listed, whatever its kind.
LoadActualState ==
    /\ pc = "list"
    /\ actual' \in [Workload -> Managed \cup {NoContainer}]
    /\ \A w \in Workload :
         LET own == {c \in Managed : containers[c].workload = w}
         IN IF own = {} THEN actual'[w] = NoContainer ELSE actual'[w] \in own
    /\ pc' = "service" /\ i' = 1
    /\ UNCHANGED <<file, desired, cid, doomed, containers, rows, retired, bounds>>

----------------------------------------------------------------------------
(* The loop over the desired services *)

\* The service is not in the snapshot, or its container is gone when inspected.
ServiceMissing ==
    /\ pc = "service" /\ i \in DOMAIN Desired
    /\ actual[Current.name] \notin Alive
    /\ pc' = "create"
    /\ UNCHANGED <<file, desired, i, actual, cid, doomed, containers, rows, retired, bounds>>

\* Fault: a container that cannot be inspected is taken to be fine.
InspectFailsSkips ==
    /\ pc = "service" /\ i \in DOMAIN Desired
    /\ actual[Current.name] # NoContainer
    /\ faults < MaxFaults /\ faults' = faults + 1
    /\ i' = i + 1
    /\ UNCHANGED <<file, desired, pc, actual, cid, doomed, containers, rows, retired, edits>>

\* InspectContainer fails although the container is there.
InspectFails ==
    /\ pc = "service" /\ i \in DOMAIN Desired
    /\ actual[Current.name] # NoContainer
    /\ faults < MaxFaults /\ faults' = faults + 1
    /\ pc' = "create"
    /\ UNCHANGED <<file, desired, i, actual, cid, doomed, containers, rows, retired, edits>>

NeedsReplace(c) ==
    containers[c].hash # desired \/ containers[c].image # Current.image

\* Replace it, start it ("Updated"), or leave it alone ("Skipped").
ServiceFound ==
    /\ pc = "service" /\ i \in DOMAIN Desired
    /\ LET c == actual[Current.name] IN
         /\ c \in Alive
         /\ cid' = c
         /\ \/ NeedsReplace(c) /\ pc' = "stop"
            \/ ~NeedsReplace(c) /\ containers[c].state # "running" /\ pc' = "start"
            \/ ~NeedsReplace(c) /\ containers[c].state = "running" /\ pc' = "upsert"
    /\ UNCHANGED <<file, desired, i, actual, doomed, containers, rows, retired, bounds>>

\* Fault: the old container is stopped and not removed.
AfterStopCreate == IF pc = "stop" THEN "create" ELSE "pruneRemove"

AfterStop == IF pc = "stop" THEN "remove" ELSE "pruneRemove"
AfterRemove == IF pc = "remove" THEN "create" ELSE "prune"

\* StopContainer; its error is a warning, so an absent container stays absent.
StopContainer ==
    /\ pc \in {"stop", "pruneStop"}
    /\ containers' = IF cid \in Alive /\ containers[cid].state = "running"
                     THEN [containers EXCEPT ![cid].state = "exited"]
                     ELSE containers
    /\ pc' = AfterStop
    /\ UNCHANGED <<file, desired, i, actual, cid, doomed, rows, retired, bounds>>

StopFails ==
    /\ pc \in {"stop", "pruneStop"}
    /\ faults < MaxFaults /\ faults' = faults + 1
    /\ pc' = AfterStop
    /\ UNCHANGED <<file, desired, i, actual, cid, doomed, containers, rows, retired, edits>>

RemoveContainer ==
    /\ pc \in {"remove", "pruneRemove"}
    /\ cid \in Alive
    /\ containers' = [containers EXCEPT ![cid] = Absent]
    /\ retired' = IF pc = "pruneRemove" THEN retired \cup ServiceOf(cid) ELSE retired
    /\ pc' = AfterRemove
    /\ UNCHANGED <<file, desired, i, actual, cid, doomed, rows, bounds>>

\* Docker has no such container: the error ends Apply.
RemoveRefused ==
    /\ pc \in {"remove", "pruneRemove"}
    /\ cid \notin Alive
    /\ Down /\ UNCHANGED faults

NameTaken == \E c \in Alive : containers[c].name = NameOf[Current.name]

CreateContainer ==
    /\ pc = "create"
    /\ ~NameTaken /\ FreeIds # {}
    /\ cid' = FreshId
    /\ containers' = [containers EXCEPT ![FreshId] = NewService(Current)]
    /\ retired' = retired \ {Current.name}
    /\ pc' = "start"
    /\ UNCHANGED <<file, desired, i, actual, doomed, rows, bounds>>

\* Docker refuses a second container of that name: the error ends Apply.
CreateRefused ==
    /\ pc = "create"
    /\ NameTaken
    /\ Down /\ UNCHANGED faults

StartContainer ==
    /\ pc = "start"
    /\ cid \in Alive
    /\ containers' = [containers EXCEPT ![cid].state = "running"]
    /\ pc' = "upsert"
    /\ UNCHANGED <<file, desired, i, actual, cid, doomed, rows, retired, bounds>>

StartRefused ==
    /\ pc = "start"
    /\ cid \notin Alive
    /\ Down /\ UNCHANGED faults

UpsertService ==
    /\ pc = "upsert"
    /\ serviceRow' = [serviceRow EXCEPT ![Current.name] = desired]
    /\ pc' = "service" /\ i' = i + 1
    /\ UNCHANGED <<file, desired, actual, cid, doomed, containers,
                   stackHash, appliedHash, jobRow, retired, bounds>>

ServicesDone ==
    /\ pc = "service" /\ i \notin DOMAIN Desired
    /\ pc' = "prune"
    /\ doomed' = {w \in Workload : actual[w] # NoContainer} \ DesiredNames
    /\ UNCHANGED <<file, desired, i, actual, cid, containers, rows, retired, bounds>>

----------------------------------------------------------------------------
(* The prune loop, over a Go map: in any order *)

Prune ==
    /\ pc = "prune"
    /\ \E w \in doomed :
         /\ cid' = actual[w] /\ doomed' = doomed \ {w} /\ pc' = "pruneStop"
    /\ UNCHANGED <<file, desired, i, actual, containers, rows, retired, bounds>>

\* Fault: the second loop over the jobs starts one too early.
PruneDoneFromZero ==
    /\ pc = "prune" /\ doomed = {}
    /\ pc' = "jobs2" /\ i' = 0
    /\ UNCHANGED <<file, desired, actual, cid, doomed, containers, rows, retired, bounds>>

PruneDone ==
    /\ pc = "prune" /\ doomed = {}
    /\ pc' = "jobs2" /\ i' = 1
    /\ UNCHANGED <<file, desired, actual, cid, doomed, containers, rows, retired, bounds>>

----------------------------------------------------------------------------
(* The other actors: the operator, the workloads, Docker, the job runner *)

EditFile ==
    /\ edits < MaxEdits /\ edits' = edits + 1
    /\ file' \in Hash \ {file}
    /\ UNCHANGED <<process, containers, rows, retired, faults>>

RemovedByHand(c) ==
    /\ c \in Managed
    /\ edits < MaxEdits /\ edits' = edits + 1
    /\ containers' = [containers EXCEPT ![c] = Absent]
    /\ retired' = retired \cup ServiceOf(c)
    /\ UNCHANGED <<file, process, rows, faults>>

ContainerExits(c) ==
    /\ c \in Managed /\ containers[c].state = "running"
    /\ containers' = [containers EXCEPT ![c].state = "exited"]
    /\ UNCHANGED <<file, process, rows, retired, bounds>>

\* Docker's restart policy, or the health monitor of the service.
ContainerRestarts(c) ==
    /\ c \in Managed /\ containers[c].kind = "service"
    /\ containers[c].state = "exited"
    /\ containers' = [containers EXCEPT ![c].state = "running"]
    /\ UNCHANGED <<file, process, rows, retired, bounds>>

JobContainers == {c \in Alive : containers[c].kind = "job"}

JobStarts ==
    /\ pc = "up" /\ FreeIds # {} /\ Cardinality(JobContainers) < MaxJobs
    /\ \E k \in DOMAIN Jobs[desired] :
         containers' = [containers EXCEPT ![FreshId] = NewJob(FreshId, Jobs[desired][k])]
    /\ UNCHANGED <<file, process, rows, retired, bounds>>

JobRemoved(c) ==
    /\ pc = "up" /\ c \in JobContainers
    /\ containers' = [containers EXCEPT ![c] = Absent]
    /\ UNCHANGED <<file, process, rows, retired, bounds>>

----------------------------------------------------------------------------
ServiceStep ==
    \/ ServiceMissing \/ InspectFails \/ ServiceFound
    \/ StopContainer \/ StopFails \/ RemoveContainer \/ RemoveRefused
    \/ CreateContainer \/ CreateRefused \/ StartContainer \/ StartRefused
    \/ UpsertService \/ ServicesDone

ApplyStep ==
    \/ SaveStack \/ SetMetadata \/ UpsertJob \/ JobsPersisted \/ LoadActualState
    \/ ServiceStep
    \/ Prune \/ PruneDone

Environment ==
    \/ EditFile \/ JobStarts
    \/ \E c \in Container :
          RemovedByHand(c) \/ ContainerExits(c) \/ ContainerRestarts(c) \/ JobRemoved(c)

Next == StartDaemon \/ Abort \/ ApplyStep \/ Environment

Spec == Init /\ [][Next]_vars

\* Go runs a goroutine that can run, and a supervisor (or the operator)
\* starts the daemon again when it has ended.
FairSpec == Spec /\ WF_vars(ApplyStep) /\ WF_vars(StartDaemon)

----------------------------------------------------------------------------
(* Properties *)

\* The services the running Apply has finished with, or all once it is over.
Processed ==
    IF pc \in ServiceCalls THEN {Desired[k].name : k \in {k \in DOMAIN Desired : k < i}}
    ELSE IF pc \in PruneCalls \cup {"jobs2", "up"} THEN DesiredNames
    ELSE {}

Deployed(w) ==
    \E c \in ServiceContainers(w), k \in DOMAIN Desired :
        /\ Desired[k].name = w /\ containers[c].image = Desired[k].image
        /\ containers[c].state # "created"

\* Reconcile goes on to the next service only when the one before has a
\* container of its own, made from the desired image and started, whatever
\* an earlier interrupted Apply left behind; unless somebody removed it by hand.
ProcessedDeployed == \A w \in Processed : Deployed(w) \/ w \in retired

\* Services this Apply found with a container and that have none now.
TakenDown == {w \in DesiredNames : actual[w] # NoContainer /\ ServiceContainers(w) = {}} \ retired

\* Reconcile replaces services one at a time: wherever it fails or is killed,
\* at most one service that had a container when it began is left without.
OneServiceDownAtATime == Cardinality(TakenDown) <= 1

\* When Apply succeeds the store agrees with the process on the applied hash,
\* for the stack, the metadata and the row of every job and service.
RowsAgreeWhenUp ==
    pc = "up" =>
        /\ stackHash = desired /\ appliedHash = desired
        /\ \A k \in DOMAIN Jobs[desired] : jobRow[Jobs[desired][k].name] = desired
        /\ \A w \in DesiredNames : serviceRow[w] = desired

\* Containers that are not of this stack are never stopped, started or
\* removed, neither by the replacement of a service nor by pruning.
ForeignUntouched ==
    [][\A c \in Alive : containers[c].kind = "foreign" => containers'[c] = containers[c]]_vars

\* Once calls stop failing and nobody interferes, the daemon comes up and
\* stays up, whatever partial state the failed attempts left in Docker.
EventuallyUp == <>[](pc = "up")

\* README "Service Lifecycle", step 4: Orbit "updates the container if
\* configuration changes".  While the file is never edited and nobody touches
\* the containers, a running service keeps its container.
NoNeedlessReplacement ==
    [][\A c \in Alive :
         /\ edits' = 0 /\ serviceRow[containers[c].workload] = desired
         /\ containers[c].kind = "service"
         => c \in Alive']_vars

----------------------------------------------------------------------------
(* The inductive strengthening of ProcessedDeployed, proved in              *)
(* ReconcilerProofs for files that share no name between a service and a job *)

\* No file has a service and a job of one name.
DisjointNames ==
    \A h \in Hash : \A j \in DOMAIN Services[h], k \in DOMAIN Jobs[h] :
        Services[h][j].name # Jobs[h][k].name

\* Within the loop over services, after its head, i is the position of one.
PositionOK == pc \in ServiceCalls \ {"service"} => i \in DOMAIN Desired

\* Only job containers have a hash label, that of a file with this job.
LabelsOK ==
    \A c \in Alive :
        /\ containers[c].kind = "service" => containers[c].hash = NoHash
        /\ containers[c].kind = "job" =>
             /\ containers[c].hash \in Hash
             /\ \E k \in DOMAIN Jobs[containers[c].hash] :
                  Jobs[containers[c].hash][k].name = containers[c].workload

\* An id of the snapshot still names the container it was listed for, or none.
SnapshotOK ==
    \A w \in Workload : actual[w] \in Alive =>
        containers[actual[w]].kind # "foreign" /\ containers[actual[w]].workload = w

\* The container being replaced is the current service's, the one being
\* pruned is of no desired service.
TargetOK ==
    /\ pc \in {"stop", "remove"} => cid = actual[Current.name]
    /\ pc \in PruneCalls => doomed \cap DesiredNames = {}
    /\ pc \in {"pruneStop", "pruneRemove"} =>
         \E w \in Workload \ DesiredNames : cid = actual[w]

\* Between its creation and its row, the new container is the service's own.
CreatedOK ==
    pc \in {"start", "upsert"} =>
        \/ /\ cid \in ServiceContainers(Current.name)
           /\ containers[cid].image = Current.image
           /\ pc = "upsert" => containers[cid].state # "created"
        \/ cid \notin Alive /\ Current.name \in retired

DeploymentInv ==
    /\ TypeOK /\ PositionOK /\ LabelsOK /\ SnapshotOK /\ TargetOK /\ CreatedOK
    /\ ProcessedDeployed

=============================================================================
