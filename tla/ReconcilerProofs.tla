-------------------------- MODULE ReconcilerProofs --------------------------
(***************************************************************************)
(* Proofs about Reconciler, for every set of configuration files, names    *)
(* and containers and every bound on failures.                             *)
(***************************************************************************)
EXTENDS Reconciler, FiniteSetTheorems, TLAPS

LEMMA FreshIdFree ==
    ASSUME FreeIds # {} PROVE FreshId \in FreeIds
BY DEF FreshId

LEMMA EntryType ==
    ASSUME TypeOK, i \in DOMAIN Desired PROVE Current \in Entry
BY ConstantsAssumption DEF TypeOK, Current, Desired

LEMMA DesiredDomain ==
    ASSUME TypeOK PROVE DOMAIN Desired = 1..Len(Desired) /\ Len(Desired) \in Nat
BY ConstantsAssumption DEF TypeOK, Desired

LEMMA JobEntryType ==
    ASSUME NEW h \in Hash, NEW k \in DOMAIN Jobs[h] PROVE Jobs[h][k] \in Entry
BY ConstantsAssumption

LEMMA NewServiceType ==
    ASSUME NEW s \in Entry PROVE NewService(s) \in ContainerRecord
BY ConstantsAssumption DEF NewService, ContainerRecord, Entry

LEMMA NewJobType ==
    ASSUME TypeOK, NEW c \in Container, NEW job \in Entry
    PROVE  NewJob(c, job) \in ContainerRecord
BY ConstantsAssumption DEF NewJob, ContainerRecord, Entry, TypeOK

LEMMA StateChangeType ==
    ASSUME TypeOK, NEW c \in Alive, NEW s \in {"created", "running", "exited"}
    PROVE  [containers EXCEPT ![c].state = s] \in [Container -> ContainerRecord \cup {Absent}]
BY DEF TypeOK, Alive, ContainerRecord

LEMMA TypeInit == Init => TypeOK /\ PositionOK
BY ConstantsAssumption, EngineAssumption
DEF Init, TypeOK, PositionOK, ServiceCalls, PruneCalls, Phases, Nowhere

\* Every step keeps the types, and the loop over services within the list.
LEMMA TypeStep ==
    ASSUME TypeOK, PositionOK, [Next]_vars PROVE (TypeOK /\ PositionOK)'
<1> USE DEF TypeOK, PositionOK, Phases, ServiceCalls, PruneCalls, bounds, rows, Desired
<1>1. CASE StartDaemon
  BY <1>1 DEF StartDaemon
<1>2. CASE Abort
  BY <1>2, ConstantsAssumption DEF Abort, Down, Nowhere
<1>3. CASE SaveStack
  BY <1>3 DEF SaveStack
<1>4. CASE SetMetadata
  BY <1>4 DEF SetMetadata
<1>5. CASE UpsertJob
  <2>1. Jobs[desired][i].name \in Workload
    BY <1>5, JobEntryType DEF UpsertJob, Entry
  <2>2. jobRow' \in [Workload -> Hash \cup {NoHash}]
    BY <1>5, <2>1 DEF UpsertJob
  <2> QED
    BY <1>5, <2>2 DEF UpsertJob
<1>6. CASE JobsPersisted
  BY <1>6 DEF JobsPersisted, Nowhere
<1>7. CASE LoadActualState
  BY <1>7 DEF LoadActualState, Managed, Alive
<1>8. CASE ServiceStep
  <2>1. CASE ServiceMissing
    BY <2>1 DEF ServiceMissing
  <2>2. CASE InspectFails
    BY <2>2, ConstantsAssumption DEF InspectFails
  <2>3. CASE ServiceFound
    BY <2>3 DEF ServiceFound, Alive
  <2>4. CASE StopContainer
    BY <2>4, StateChangeType DEF StopContainer, AfterStop
  <2>5. CASE StopFails
    BY <2>5, ConstantsAssumption DEF StopFails, AfterStop
  <2>6. CASE RemoveContainer
    <3>1. ServiceOf(cid) \subseteq Workload
      BY <2>6 DEF RemoveContainer, ServiceOf, Alive, ContainerRecord
    <3> QED
      BY <2>6, <3>1 DEF RemoveContainer, AfterRemove
  <2>7. CASE RemoveRefused \/ CreateRefused \/ StartRefused
    BY <2>7 DEF RemoveRefused, CreateRefused, StartRefused, Down, Nowhere
  <2>8. CASE CreateContainer
    <3>1. /\ FreshId \in Container
          /\ NewService(Current) \in ContainerRecord
      BY <2>8, FreshIdFree, EntryType, NewServiceType DEF CreateContainer, FreeIds
    <3> QED
      BY <2>8, <3>1 DEF CreateContainer
  <2>9. CASE StartContainer
    BY <2>9, StateChangeType DEF StartContainer
  <2>10. CASE UpsertService
    <3>1. serviceRow' \in [Workload -> Hash \cup {NoHash}]
      BY <2>10, EntryType DEF UpsertService, Entry
    <3> QED
      BY <2>10, <3>1 DEF UpsertService
  <2>11. CASE ServicesDone
    BY <2>11 DEF ServicesDone
  <2> QED
    BY <1>8, <2>1, <2>2, <2>3, <2>4, <2>5, <2>6, <2>7, <2>8, <2>9, <2>10, <2>11
    DEF ServiceStep
<1>9. CASE Prune
  BY <1>9 DEF Prune
<1>10. CASE PruneDone
  BY <1>10 DEF PruneDone
<1>11. CASE Environment
  <2>1. CASE EditFile
    BY <2>1, ConstantsAssumption DEF EditFile, process
  <2>2. CASE JobStarts
    <3> PICK k \in DOMAIN Jobs[desired] :
          containers' = [containers EXCEPT ![FreshId] = NewJob(FreshId, Jobs[desired][k])]
      BY <2>2 DEF JobStarts
    <3>1. FreshId \in Container
      BY <2>2, FreshIdFree DEF JobStarts, FreeIds
    <3>2. NewJob(FreshId, Jobs[desired][k]) \in ContainerRecord
      BY <3>1, NewJobType, JobEntryType
    <3> QED
      BY <2>2, <3>1, <3>2 DEF JobStarts, process
  <2>3. ASSUME NEW c \in Container, RemovedByHand(c) PROVE (TypeOK /\ PositionOK)'
    <3>1. ServiceOf(c) \subseteq Workload
      BY <2>3 DEF RemovedByHand, ServiceOf, Managed, Alive, ContainerRecord
    <3> QED
      BY <2>3, <3>1, ConstantsAssumption DEF RemovedByHand, process
  <2>4. ASSUME NEW c \in Container, ContainerExits(c) PROVE (TypeOK /\ PositionOK)'
    BY <2>4, StateChangeType DEF ContainerExits, Managed, process
  <2>5. ASSUME NEW c \in Container, ContainerRestarts(c) PROVE (TypeOK /\ PositionOK)'
    BY <2>5, StateChangeType DEF ContainerRestarts, Managed, process
  <2>6. ASSUME NEW c \in Container, JobRemoved(c) PROVE (TypeOK /\ PositionOK)'
    BY <2>6 DEF JobRemoved, process
  <2> QED
    BY <1>11, <2>1, <2>2, <2>3, <2>4, <2>5, <2>6 DEF Environment
<1>12. CASE UNCHANGED vars
  BY <1>12 DEF vars, process
<1> QED
  BY <1>1, <1>2, <1>3, <1>4, <1>5, <1>6, <1>7, <1>8, <1>9, <1>10, <1>11, <1>12
  DEF Next, ApplyStep

\* Type correctness: the type invariant of Reconciler together with the fact
\* that the loop over services never runs past the end of the file's list.
THEOREM TypeCorrect == Spec => [](TypeOK /\ PositionOK)
<1>1. Init => TypeOK /\ PositionOK
  BY TypeInit
<1>2. TypeOK /\ PositionOK /\ [Next]_vars => (TypeOK /\ PositionOK)'
  BY TypeStep
<1> QED
  BY <1>1, <1>2, PTL DEF Spec

----------------------------------------------------------------------------
(* ProcessedDeployed *)

\* Every step that changes the engine creates or removes one container or
\* changes the state of one; only creation takes a service off the retired.
LEMMA EngineSteps ==
    ASSUME TypeOK, Next
    PROVE  \/ UNCHANGED <<containers, retired>>
           \/ \E c \in Alive, s \in {"running", "exited"} :
                 /\ containers' = [containers EXCEPT ![c].state = s]
                 /\ UNCHANGED retired
           \/ CreateContainer
           \/ JobStarts
           \/ RemoveContainer \/ \E c \in Container : RemovedByHand(c) \/ JobRemoved(c)
<1>1. CASE StartDaemon \/ Abort \/ EditFile
  BY <1>1 DEF StartDaemon, Abort, Down, EditFile
<1>2. CASE SaveStack \/ SetMetadata \/ UpsertJob \/ JobsPersisted \/ LoadActualState
            \/ Prune \/ PruneDone
  BY <1>2 DEF SaveStack, SetMetadata, UpsertJob, JobsPersisted, LoadActualState,
              Prune, PruneDone
<1>3. CASE ServiceMissing \/ InspectFails \/ ServiceFound \/ StopFails \/ UpsertService
            \/ ServicesDone \/ RemoveRefused \/ CreateRefused \/ StartRefused
  BY <1>3 DEF ServiceMissing, InspectFails, ServiceFound, StopFails, UpsertService,
              ServicesDone, RemoveRefused, CreateRefused, StartRefused, Down
<1>4. CASE StopContainer
  BY <1>4 DEF StopContainer
<1>5. CASE StartContainer
  BY <1>5 DEF StartContainer
<1>6. CASE \E c \in Container : ContainerExits(c) \/ ContainerRestarts(c)
  BY <1>6 DEF ContainerExits, ContainerRestarts, Managed
<1> QED
  BY <1>1, <1>2, <1>3, <1>4, <1>5, <1>6 DEF Next, ApplyStep, ServiceStep, Environment

LEMMA RemovalFacts ==
    ASSUME RemoveContainer \/ \E c \in Container : RemovedByHand(c) \/ JobRemoved(c)
    PROVE  \E c \in Alive : containers' = [containers EXCEPT ![c] = Absent]
BY DEF RemoveContainer, RemovedByHand, JobRemoved, Managed, JobContainers

LEMMA CreateFacts ==
    ASSUME TypeOK, PositionOK, CreateContainer
    PROVE  /\ FreshId \in Container \ Alive
           /\ FreshId # cid /\ \A w \in Workload : FreshId # actual[w]
           /\ Current \in Entry
           /\ NewService(Current) \in ContainerRecord
           /\ containers' = [containers EXCEPT ![FreshId] = NewService(Current)]
           /\ cid' = FreshId
<1>1. Current \in Entry
  BY EntryType DEF PositionOK, CreateContainer, ServiceCalls
<1> QED
  BY <1>1, FreshIdFree, NewServiceType DEF CreateContainer, FreeIds

LEMMA JobFacts ==
    ASSUME TypeOK, JobStarts
    PROVE  /\ FreshId \in Container \ Alive
           /\ FreshId # cid /\ \A w \in Workload : FreshId # actual[w]
           /\ \E k \in DOMAIN Jobs[desired] :
                /\ NewJob(FreshId, Jobs[desired][k]) \in ContainerRecord
                /\ containers' = [containers EXCEPT ![FreshId] = NewJob(FreshId, Jobs[desired][k])]
<1>1. FreshId \in Container \ Alive /\ FreshId # cid /\ \A w \in Workload : FreshId # actual[w]
  BY FreshIdFree DEF JobStarts, FreeIds
<1> QED
  BY <1>1, NewJobType, JobEntryType DEF JobStarts, TypeOK

LEMMA LabelsStep ==
    ASSUME TypeOK, PositionOK, LabelsOK, Next PROVE LabelsOK'
<1> USE DEF LabelsOK, Alive
<1>1. CASE UNCHANGED containers
  BY <1>1
<1>2. ASSUME NEW c \in Alive, NEW s \in {"running", "exited"},
             containers' = [containers EXCEPT ![c].state = s]
      PROVE  LabelsOK'
  BY <1>2 DEF TypeOK, ContainerRecord
<1>3. ASSUME NEW c \in Alive, containers' = [containers EXCEPT ![c] = Absent]
      PROVE  LabelsOK'
  BY <1>3 DEF TypeOK
<1>4. CASE CreateContainer
  <2>1. /\ NewService(Current).kind = "service" /\ NewService(Current).hash = NoHash
        /\ FreshId \in Container
        /\ containers' = [containers EXCEPT ![FreshId] = NewService(Current)]
    BY <1>4, CreateFacts DEF NewService
  <2> QED
    BY <2>1 DEF TypeOK
<1>5. CASE JobStarts
  <2> PICK k \in DOMAIN Jobs[desired] :
        containers' = [containers EXCEPT ![FreshId] = NewJob(FreshId, Jobs[desired][k])]
    BY <1>5, JobFacts
  <2> DEFINE new == NewJob(FreshId, Jobs[desired][k])
  <2>1. /\ new.kind = "job" /\ new.hash = desired
        /\ new.workload = Jobs[desired][k].name
        /\ FreshId \in Container /\ desired \in Hash
    BY <1>5, JobFacts DEF NewJob, TypeOK
  <2>2. containers' = [containers EXCEPT ![FreshId] = new]
    OBVIOUS
  <2> HIDE DEF new
  <2> QED
    BY <2>1, <2>2 DEF TypeOK
<1> QED
  BY <1>1, <1>2, <1>3, <1>4, <1>5, EngineSteps, RemovalFacts

\* The snapshot is set when listed, emptied when Apply ends, else untouched.
LEMMA SnapshotChange ==
    ASSUME Next
    PROVE  \/ actual' = actual
           \/ actual' = Nowhere
           \/ LoadActualState
BY DEF Next, StartDaemon, Abort, ApplyStep, SaveStack, SetMetadata, UpsertJob,
       JobsPersisted, ServiceStep, ServiceMissing, InspectFails, ServiceFound,
       StopContainer, StopFails, RemoveContainer, RemoveRefused, CreateContainer,
       CreateRefused, StartContainer, StartRefused, UpsertService, ServicesDone,
       Prune, PruneDone, Down, Environment, EditFile, JobStarts, RemovedByHand,
       ContainerExits, ContainerRestarts, JobRemoved, process

LEMMA SnapshotStep ==
    ASSUME TypeOK, PositionOK, SnapshotOK, Next PROVE SnapshotOK'
<1> USE DEF SnapshotOK, Alive
<1>1. CASE actual' = Nowhere
  BY <1>1, MarkersAssumption DEF Nowhere
<1>2. CASE LoadActualState
  BY <1>2, MarkersAssumption DEF LoadActualState, Managed
<1>3. CASE actual' = actual
  <2>1. CASE UNCHANGED containers
    BY <1>3, <2>1
  <2>2. ASSUME NEW c \in Alive, NEW s \in {"running", "exited"},
               containers' = [containers EXCEPT ![c].state = s]
        PROVE  SnapshotOK'
    BY <1>3, <2>2 DEF TypeOK, ContainerRecord
  <2>3. ASSUME NEW c \in Alive, containers' = [containers EXCEPT ![c] = Absent]
        PROVE  SnapshotOK'
    BY <1>3, <2>3 DEF TypeOK
  <2>4. CASE CreateContainer
    BY <1>3, <2>4, CreateFacts DEF TypeOK
  <2>5. CASE JobStarts
    BY <1>3, <2>5, JobFacts DEF TypeOK
  <2> QED
    BY <2>1, <2>2, <2>3, <2>4, <2>5, EngineSteps, RemovalFacts
<1> QED
  BY <1>1, <1>2, <1>3, SnapshotChange

LEMMA TargetStep ==
    ASSUME TypeOK, PositionOK, TargetOK, Next PROVE TargetOK'
<1> USE DEF TargetOK, PruneCalls, DesiredNames, Current, Desired
<1>1. CASE StartDaemon \/ Abort \/ RemoveRefused \/ CreateRefused \/ StartRefused
  BY <1>1 DEF StartDaemon, Abort, RemoveRefused, CreateRefused, StartRefused, Down
<1>2. CASE SaveStack \/ SetMetadata \/ UpsertJob \/ JobsPersisted \/ LoadActualState
  BY <1>2 DEF SaveStack, SetMetadata, UpsertJob, JobsPersisted, LoadActualState
<1>3. CASE ServiceMissing \/ InspectFails \/ ServiceFound \/ UpsertService
            \/ CreateContainer \/ StartContainer
  BY <1>3 DEF ServiceMissing, InspectFails, ServiceFound, UpsertService,
              CreateContainer, StartContainer
<1>4. CASE StopContainer \/ StopFails
  BY <1>4 DEF StopContainer, StopFails, AfterStop
<1>5. CASE RemoveContainer
  BY <1>5 DEF RemoveContainer, AfterRemove
<1>6. CASE ServicesDone
  BY <1>6 DEF ServicesDone
<1>7. CASE Prune
  BY <1>7 DEF Prune, TypeOK
<1>8. CASE PruneDone
  BY <1>8 DEF PruneDone
<1>9. CASE Environment
  BY <1>9 DEF Environment, EditFile, JobStarts, RemovedByHand, ContainerExits,
              ContainerRestarts, JobRemoved, process
<1> QED
  BY <1>1, <1>2, <1>3, <1>4, <1>5, <1>6, <1>7, <1>8, <1>9 DEF Next, ApplyStep, ServiceStep

\* The hash label a service container lacks, and that of a job container is
\* never of a file in which the workload is a service: whatever the snapshot
\* has for a service is replaced.
LEMMA AlwaysReplaced ==
    ASSUME DisjointNames, TypeOK, LabelsOK, SnapshotOK, i \in DOMAIN Desired,
           actual[Current.name] \in Alive
    PROVE  NeedsReplace(actual[Current.name])
<1> DEFINE c == actual[Current.name]
<1>1. Current.name \in Workload
  BY EntryType DEF Entry
<1>2. containers[c] \in ContainerRecord /\ desired \in Hash
  BY DEF Alive, TypeOK
<1>3. containers[c].kind \in {"service", "job"} /\ containers[c].workload = Current.name
  BY <1>1, <1>2 DEF SnapshotOK, ContainerRecord
<1>4. CASE containers[c].kind = "service"
  BY <1>2, <1>4, MarkersAssumption DEF LabelsOK, NeedsReplace
<1>5. CASE containers[c].kind = "job"
  BY <1>2, <1>3, <1>5 DEF LabelsOK, NeedsReplace, DisjointNames, Current, Desired
<1> QED
  BY <1>3, <1>4, <1>5

LEMMA CreatedStep ==
    ASSUME DisjointNames, TypeOK, PositionOK, LabelsOK, SnapshotOK, CreatedOK, Next
    PROVE  CreatedOK'
<1> USE DEF CreatedOK, Current, Desired
<1>1. CASE StartDaemon \/ Abort \/ RemoveRefused \/ CreateRefused \/ StartRefused
  BY <1>1 DEF StartDaemon, Abort, RemoveRefused, CreateRefused, StartRefused, Down
<1>2. CASE SaveStack \/ SetMetadata \/ UpsertJob \/ JobsPersisted \/ LoadActualState
  BY <1>2 DEF SaveStack, SetMetadata, UpsertJob, JobsPersisted, LoadActualState
<1>3. CASE ServiceMissing \/ InspectFails \/ UpsertService \/ ServicesDone
            \/ Prune \/ PruneDone
  BY <1>3 DEF ServiceMissing, InspectFails, UpsertService, ServicesDone, Prune, PruneDone
<1>4. CASE StopContainer \/ StopFails \/ RemoveContainer
  BY <1>4 DEF StopContainer, StopFails, RemoveContainer, AfterStop, AfterRemove
<1>5. CASE ServiceFound
  BY <1>5, AlwaysReplaced DEF ServiceFound
<1>6. CASE CreateContainer
  <2>1. /\ FreshId \in Container /\ cid' = FreshId
        /\ containers' = [containers EXCEPT ![FreshId] = NewService(Current)]
        /\ NewService(Current) # Absent
    BY <1>6, CreateFacts, EngineAssumption
  <2>2. /\ NewService(Current).kind = "service"
        /\ NewService(Current).workload = Current.name
        /\ NewService(Current).image = Current.image
    BY DEF NewService
  <2>3. containers'[FreshId] = NewService(Current)
    BY <2>1 DEF TypeOK
  <2>4. pc' = "start" /\ Current' = Current
    BY <1>6 DEF CreateContainer
  <2> QED
    BY <2>1, <2>2, <2>3, <2>4 DEF ServiceContainers, Alive
<1>7. CASE StartContainer
  <2>1. /\ cid \in ServiceContainers(Current.name) /\ containers[cid].image = Current.image
        /\ containers[cid] \in ContainerRecord
    BY <1>7 DEF StartContainer, Alive, TypeOK
  <2> QED
    BY <1>7, <2>1, EngineAssumption
    DEF StartContainer, TypeOK, ServiceContainers, Alive, ContainerRecord
<1>8. CASE EditFile
  BY <1>8 DEF EditFile, process, ServiceContainers, Alive
<1>9. ASSUME NEW c \in Container, RemovedByHand(c) PROVE CreatedOK'
  BY <1>9 DEF RemovedByHand, process, ServiceContainers, Alive, ServiceOf, Managed, TypeOK
<1>10. ASSUME NEW c \in Container, ContainerExits(c) \/ ContainerRestarts(c)
       PROVE  CreatedOK'
  BY <1>10, EngineAssumption
  DEF ContainerExits, ContainerRestarts, process, ServiceContainers, Alive, Managed,
      TypeOK, ContainerRecord
<1>11. CASE JobStarts \/ \E c \in Container : JobRemoved(c)
  BY <1>11 DEF JobStarts, JobRemoved, process
<1> QED
  BY <1>1, <1>2, <1>3, <1>4, <1>5, <1>6, <1>7, <1>8, <1>9, <1>10, <1>11
  DEF Next, ApplyStep, ServiceStep, Environment

\* What one step does to the container of a deployed service.
LEMMA DeployedKept ==
    ASSUME TypeOK, NEW w \in Workload, Deployed(w), desired' = desired,
           \/ UNCHANGED containers
           \/ \E c \in Alive, s \in {"running", "exited"} :
                 containers' = [containers EXCEPT ![c].state = s]
           \/ \E c \in Alive \ ServiceContainers(w) :
                 containers' = [containers EXCEPT ![c] = Absent]
           \/ \E c \in Container \ Alive, r \in ContainerRecord :
                 containers' = [containers EXCEPT ![c] = r]
    PROVE  Deployed(w)'
<1> USE DEF Deployed, ServiceContainers, Alive, Desired
<1>1. CASE UNCHANGED containers
  BY <1>1
<1>2. ASSUME NEW c \in Alive, NEW s \in {"running", "exited"},
             containers' = [containers EXCEPT ![c].state = s]
      PROVE  Deployed(w)'
  BY <1>2, EngineAssumption DEF TypeOK, ContainerRecord
<1>3. ASSUME NEW c \in Alive \ ServiceContainers(w),
             containers' = [containers EXCEPT ![c] = Absent]
      PROVE  Deployed(w)'
  BY <1>3 DEF TypeOK
<1>4. ASSUME NEW c \in Container \ Alive, NEW r \in ContainerRecord,
             containers' = [containers EXCEPT ![c] = r]
      PROVE  Deployed(w)'
  BY <1>4 DEF TypeOK
<1> QED
  BY <1>1, <1>2, <1>3, <1>4

LEMMA ProcessedNames ==
    ASSUME TypeOK, NEW w \in Processed PROVE w \in DesiredNames /\ w \in Workload
<1>1. w \in DesiredNames
  BY DEF Processed, DesiredNames
<1> PICK k \in DOMAIN Desired : w = Desired[k].name
  BY <1>1 DEF DesiredNames
<1>2. Desired[k] \in Entry
  BY ConstantsAssumption DEF Desired, TypeOK
<1> QED
  BY <1>1, <1>2 DEF Entry

\* The current service is not among those before it.
LEMMA CurrentNotProcessed ==
    ASSUME TypeOK, PositionOK, pc \in ServiceCalls \ {"service"}
    PROVE  Current.name \notin Processed
<1> SUFFICES ASSUME Current.name \in Processed PROVE FALSE
  OBVIOUS
<1> PICK k \in DOMAIN Desired : k < i /\ Current.name = Desired[k].name
  BY DEF Processed
<1>1. i \in DOMAIN Desired /\ k # i
  BY DesiredDomain DEF PositionOK
<1> QED
  BY <1>1, UniqueNamesAssumption DEF Current, Desired, TypeOK

\* A step finishes no service, or the current one, or ends the Apply.
LEMMA ProcessedChange ==
    ASSUME TypeOK, PositionOK, Next
    PROVE  \/ Processed' = {}
           \/ desired' = desired /\ Processed' \subseteq Processed
           \/ UpsertService
<1> USE DEF Processed, DesiredNames, ServiceCalls, PruneCalls
<1> DEFINE Before(n) == {Desired[k].name : k \in {k \in DOMAIN Desired : k < n}}
<1>a. Before(1) = {}
  BY DesiredDomain
<1>b. i \notin DOMAIN Desired => DesiredNames = Before(i)
  BY DesiredDomain DEF TypeOK
<1> USE DEF Desired
<1>1. CASE StartDaemon \/ Abort \/ RemoveRefused \/ CreateRefused \/ StartRefused
  BY <1>1 DEF StartDaemon, Abort, RemoveRefused, CreateRefused, StartRefused, Down
<1>2. CASE SaveStack \/ SetMetadata \/ UpsertJob \/ JobsPersisted
  BY <1>2 DEF SaveStack, SetMetadata, UpsertJob, JobsPersisted
<1>3. CASE LoadActualState
  <2>1. Processed' = Before(1)
    BY <1>3 DEF LoadActualState
  <2> QED
    BY <2>1, <1>a
<1>4. CASE ServiceMissing \/ InspectFails \/ ServiceFound \/ CreateContainer \/ StartContainer
  BY <1>4 DEF ServiceMissing, InspectFails, ServiceFound, CreateContainer, StartContainer
<1>5. CASE StopContainer \/ StopFails \/ RemoveContainer
  BY <1>5 DEF StopContainer, StopFails, RemoveContainer, AfterStop, AfterRemove
<1>6. CASE ServicesDone
  BY <1>6, <1>b DEF ServicesDone
<1>7. CASE Prune \/ PruneDone
  BY <1>7 DEF Prune, PruneDone
<1>8. CASE Environment
  BY <1>8 DEF Environment, EditFile, JobStarts, RemovedByHand, ContainerExits,
              ContainerRestarts, JobRemoved, process
<1> QED
  BY <1>1, <1>2, <1>3, <1>4, <1>5, <1>6, <1>7, <1>8 DEF Next, ApplyStep, ServiceStep

LEMMA ProcessedStep ==
    ASSUME DeploymentInv, Next PROVE ProcessedDeployed'
<1> USE DEF DeploymentInv
<1> DEFINE Done(w) == Deployed(w) \/ w \in retired
<1>1. CASE UpsertService
  <2> SUFFICES ASSUME NEW w \in Processed' PROVE Deployed(w)' \/ w \in retired'
    BY DEF ProcessedDeployed
  <2>1. w \in Processed \/ w = Current.name
    <3>1. PICK k \in DOMAIN Desired : k < i + 1 /\ w = Desired[k].name
      BY <1>1 DEF UpsertService, Processed, ServiceCalls, Desired
    <3>2. k < i \/ k = i
      BY <3>1, DesiredDomain DEF TypeOK
    <3> QED
      BY <1>1, <3>1, <3>2 DEF UpsertService, Processed, ServiceCalls, PruneCalls, Current
  <2>2. i \in DOMAIN Desired
    BY <1>1 DEF UpsertService, PositionOK, ServiceCalls
  <2>3. Done(Current.name)
    BY <1>1, <2>2 DEF UpsertService, CreatedOK, Deployed, ServiceContainers, Current
  <2>4. Done(w)
    BY <2>1, <2>3 DEF ProcessedDeployed
  <2> QED
    BY <1>1, <2>4 DEF UpsertService, Deployed, ServiceContainers, Alive, Desired
<1>2. ASSUME desired' = desired, Processed' \subseteq Processed PROVE ProcessedDeployed'
  <2> SUFFICES ASSUME NEW w \in Processed, ~UpsertService PROVE Done(w)'
    BY <1>1, <1>2 DEF ProcessedDeployed
  <2>1. Done(w) /\ w \in Workload /\ w \in DesiredNames
    BY ProcessedNames DEF ProcessedDeployed
  <2>2. CASE UNCHANGED <<containers, retired>>
    BY <1>2, <2>1, <2>2, DeployedKept
  <2>3. ASSUME NEW c \in Alive, NEW s \in {"running", "exited"},
               containers' = [containers EXCEPT ![c].state = s], UNCHANGED retired
        PROVE  Done(w)'
    BY <1>2, <2>1, <2>3, DeployedKept
  <2>4. CASE CreateContainer
    <3>1. Current.name # w
      BY <2>4, CurrentNotProcessed DEF CreateContainer, ServiceCalls
    <3>2. \E c \in Container \ Alive, r \in ContainerRecord :
             containers' = [containers EXCEPT ![c] = r]
      BY <2>4, CreateFacts
    <3> QED
      BY <1>2, <2>1, <2>4, <3>1, <3>2, DeployedKept DEF CreateContainer
  <2>5. CASE RemoveContainer
    <3>1. cid \notin ServiceContainers(w)
      <4>1. CASE pc = "remove"
        <5>1. Current.name # w /\ Current.name \in Workload /\ cid = actual[Current.name]
          BY <4>1, CurrentNotProcessed, EntryType
          DEF ServiceCalls, Entry, PositionOK, TargetOK
        <5> QED
          BY <5>1 DEF SnapshotOK, ServiceContainers
      <4>2. CASE pc = "pruneRemove"
        BY <2>1, <4>2 DEF TargetOK, SnapshotOK, ServiceContainers
      <4> QED
        BY <2>5, <4>1, <4>2 DEF RemoveContainer
    <3> QED
      BY <1>2, <2>1, <2>5, <3>1, DeployedKept DEF RemoveContainer
  <2>6. ASSUME NEW c \in Container, RemovedByHand(c) PROVE Done(w)'
    <3>1. CASE c \in ServiceContainers(w)
      BY <2>6, <3>1 DEF RemovedByHand, ServiceOf, ServiceContainers
    <3>2. CASE c \notin ServiceContainers(w)
      BY <1>2, <2>1, <2>6, <3>2, DeployedKept DEF RemovedByHand, Managed
    <3> QED
      BY <3>1, <3>2
  <2>7. ASSUME NEW c \in Container, JobRemoved(c) PROVE Done(w)'
    BY <1>2, <2>1, <2>7, DeployedKept DEF JobRemoved, JobContainers, ServiceContainers
  <2>8. CASE JobStarts
    BY <1>2, <2>1, <2>8, DeployedKept, JobFacts DEF JobStarts
  <2> QED
    BY <2>2, <2>3, <2>4, <2>5, <2>6, <2>7, <2>8, EngineSteps
<1> QED
  BY <1>1, <1>2, ProcessedChange DEF ProcessedDeployed

\* Without name clashes between services and jobs, a service Apply has passed
\* has its own, started container, in every reachable state.
THEOREM ProcessedServicesDeployed ==
    ASSUME DisjointNames PROVE Spec => []ProcessedDeployed
<1>1. Init => DeploymentInv
  <2>1. ASSUME Init PROVE LabelsOK /\ SnapshotOK /\ TargetOK /\ CreatedOK /\ ProcessedDeployed
    BY <2>1, EngineAssumption, MarkersAssumption
    DEF Init, LabelsOK, SnapshotOK, TargetOK, CreatedOK, ProcessedDeployed, Processed,
        Alive, Nowhere, ServiceCalls, PruneCalls
  <2> QED
    BY <2>1, TypeInit DEF DeploymentInv
<1>2. DeploymentInv /\ [Next]_vars => DeploymentInv'
  <2>1. CASE Next
    BY <2>1, TypeStep, LabelsStep, SnapshotStep, TargetStep, CreatedStep, ProcessedStep
    DEF DeploymentInv
  <2>2. CASE UNCHANGED vars
    BY <2>2 DEF vars, process, rows, bounds, DeploymentInv, TypeOK, PositionOK, LabelsOK,
       SnapshotOK, TargetOK, CreatedOK, ProcessedDeployed, Processed, Deployed,
       ServiceContainers, Alive, DesiredNames, Desired, Current
  <2> QED
    BY <2>1, <2>2
<1>3. DeploymentInv => ProcessedDeployed
  BY DEF DeploymentInv
<1> QED
  BY <1>1, <1>2, <1>3, PTL DEF Spec

----------------------------------------------------------------------------
(* ForeignUntouched *)

\* The container Apply works on, like all of its snapshot, is of this stack.
TargetManaged == cid \in Alive => containers[cid].kind # "foreign"

LEMMA TargetManagedStep ==
    ASSUME TypeOK, PositionOK, SnapshotOK, TargetManaged, Next PROVE TargetManaged'
<1> USE DEF TargetManaged, Alive
<1>1. cid' = cid \/ cid' = NoContainer \/ ServiceFound \/ Prune \/ CreateContainer
  BY DEF Next, StartDaemon, Abort, ApplyStep, SaveStack, SetMetadata, UpsertJob,
     JobsPersisted, LoadActualState, ServiceStep, ServiceMissing, InspectFails,
     StopContainer, StopFails, RemoveContainer, RemoveRefused, CreateRefused,
     StartContainer, StartRefused, UpsertService, ServicesDone, PruneDone, Down,
     Environment, EditFile, JobStarts, RemovedByHand, ContainerExits,
     ContainerRestarts, JobRemoved, process
<1>2. CASE cid' = NoContainer
  BY <1>2, MarkersAssumption
<1>3. CASE ServiceFound
  <2>1. Current.name \in Workload
    BY <1>3, EntryType DEF ServiceFound, Entry
  <2> QED
    BY <1>3, <2>1 DEF ServiceFound, SnapshotOK
<1>4. CASE Prune
  BY <1>4 DEF Prune, SnapshotOK, TypeOK
<1>5. CASE CreateContainer
  <2>1. containers'[cid'] = NewService(Current)
    BY <1>5, CreateFacts DEF TypeOK
  <2> QED
    BY <2>1 DEF NewService
<1>6. CASE cid' = cid /\ ~CreateContainer
  <2>1. CASE UNCHANGED containers
    BY <1>6, <2>1
  <2>2. ASSUME NEW c \in Alive, NEW s \in {"running", "exited"},
               containers' = [containers EXCEPT ![c].state = s]
        PROVE  TargetManaged'
    BY <1>6, <2>2 DEF TypeOK, ContainerRecord
  <2>3. ASSUME NEW c \in Alive, containers' = [containers EXCEPT ![c] = Absent]
        PROVE  TargetManaged'
    BY <1>6, <2>3 DEF TypeOK
  <2>4. CASE JobStarts
    BY <1>6, <2>4, JobFacts DEF TypeOK
  <2> QED
    BY <1>6, <2>1, <2>2, <2>3, <2>4, EngineSteps, RemovalFacts
<1> QED
  BY <1>1, <1>2, <1>3, <1>4, <1>5, <1>6

\* Orbit never changes a container that does not carry the labels of its stack,
\* whatever names, labels and files there are.
THEOREM ForeignContainersUntouched == Spec => ForeignUntouched
<1> DEFINE Inv == TypeOK /\ PositionOK /\ SnapshotOK /\ TargetManaged
<1>1. Init => Inv
  BY TypeInit, MarkersAssumption DEF Init, SnapshotOK, TargetManaged, Alive, Nowhere
<1>2. Inv /\ [Next]_vars => Inv'
  <2>1. CASE UNCHANGED vars
    BY <2>1 DEF vars, process, rows, bounds, TypeOK, PositionOK, SnapshotOK, TargetManaged,
       Alive, Desired
  <2> QED
    BY <2>1, TypeStep, SnapshotStep, TargetManagedStep
<1>3. ASSUME Inv, Next, NEW c \in Alive, containers[c].kind = "foreign"
      PROVE  containers'[c] = containers[c]
  <2> USE DEF TargetManaged
  <2>1. CASE UNCHANGED containers
    BY <2>1
  <2>2. CASE StopContainer \/ StartContainer \/ RemoveContainer
    BY <1>3, <2>2 DEF StopContainer, StartContainer, RemoveContainer, TypeOK, Alive
  <2>3. CASE CreateContainer
    BY <1>3, <2>3, CreateFacts DEF TypeOK, Alive
  <2>4. CASE JobStarts
    BY <1>3, <2>4, JobFacts DEF TypeOK, Alive
  <2>5. ASSUME NEW d \in Container,
               RemovedByHand(d) \/ ContainerExits(d) \/ ContainerRestarts(d) \/ JobRemoved(d)
        PROVE  containers'[c] = containers[c]
    BY <1>3, <2>5 DEF RemovedByHand, ContainerExits, ContainerRestarts, JobRemoved,
       Managed, JobContainers, TypeOK, Alive
  <2> QED
    BY <1>3, <2>1, <2>2, <2>3, <2>4, <2>5
    DEF Next, StartDaemon, Abort, ApplyStep, SaveStack, SetMetadata, UpsertJob,
     JobsPersisted, LoadActualState, ServiceStep, ServiceMissing, InspectFails,
     ServiceFound, StopFails, RemoveRefused, CreateRefused, StartRefused, UpsertService,
     ServicesDone, Prune, PruneDone, Down, Environment, EditFile
<1>4. Inv /\ [Next]_vars
        => [\A c \in Alive : containers[c].kind = "foreign" => containers'[c] = containers[c]]_vars
  BY <1>3
<1> QED
  BY <1>1, <1>2, <1>4, PTL DEF Spec, ForeignUntouched

----------------------------------------------------------------------------
(* RowsAgreeWhenUp *)

\* How far the rows are written at each call of Apply.
RowsWritten ==
    /\ pc \notin {"down", "stack"} => stackHash = desired
    /\ pc \notin {"down", "stack", "meta"} => appliedHash = desired
    /\ pc \notin {"down", "stack", "meta"} =>
         \A k \in DOMAIN Jobs[desired] :
             (pc = "jobs" => k < i) => jobRow[Jobs[desired][k].name] = desired
    /\ \A w \in Processed : serviceRow[w] = desired

LEMMA ServiceRowsStep ==
    ASSUME TypeOK, PositionOK, \A w \in Processed : serviceRow[w] = desired, Next
    PROVE  \A w \in Processed' : serviceRow'[w] = desired'
<1>1. CASE Processed' = {}
  BY <1>1
<1>2. CASE UpsertService
  <2> SUFFICES ASSUME NEW w \in Processed' PROVE serviceRow'[w] = desired
    BY <1>2 DEF UpsertService
  <2>1. w \in Processed \/ w = Current.name
    <3>1. PICK k \in DOMAIN Desired : k < i + 1 /\ w = Desired[k].name
      BY <1>2 DEF UpsertService, Processed, ServiceCalls, Desired
    <3>2. k < i \/ k = i
      BY <3>1, DesiredDomain DEF TypeOK
    <3> QED
      BY <1>2, <3>1, <3>2 DEF UpsertService, Processed, ServiceCalls, PruneCalls, Current
  <2>2. Current.name \in Workload
    BY <1>2, EntryType DEF UpsertService, PositionOK, ServiceCalls, Entry
  <2> QED
    BY <1>2, <2>1, <2>2, ProcessedNames DEF UpsertService, TypeOK
<1>3. CASE desired' = desired /\ Processed' \subseteq Processed /\ serviceRow' = serviceRow
  BY <1>3
<1>4. UpsertService \/ serviceRow' = serviceRow
  BY DEF Next, StartDaemon, Abort, ApplyStep, SaveStack, SetMetadata, UpsertJob,
     JobsPersisted, LoadActualState, ServiceStep, ServiceMissing, InspectFails, ServiceFound,
     StopContainer, StopFails, RemoveContainer, RemoveRefused, CreateContainer,
     CreateRefused, StartContainer, StartRefused, ServicesDone, Prune, PruneDone, Down,
     Environment, EditFile, JobStarts, RemovedByHand, ContainerExits, ContainerRestarts,
     JobRemoved, rows
<1> QED
  BY <1>1, <1>2, <1>3, <1>4, ProcessedChange

LEMMA RowsStep ==
    ASSUME TypeOK, PositionOK, RowsWritten, Next PROVE RowsWritten'
<1>1. \A w \in Processed' : serviceRow'[w] = desired'
  BY ServiceRowsStep DEF RowsWritten
<1> DEFINE First == /\ pc \notin {"down", "stack"} => stackHash = desired
                    /\ pc \notin {"down", "stack", "meta"} => appliedHash = desired
                    /\ pc \notin {"down", "stack", "meta"} =>
                         \A k \in DOMAIN Jobs[desired] :
                             (pc = "jobs" => k < i) => jobRow[Jobs[desired][k].name] = desired
<1>2. SUFFICES First'
  BY <1>1 DEF RowsWritten
<1>3. CASE pc' \in {"down", "stack"}
  BY <1>3
<1>4. CASE SaveStack
  BY <1>4 DEF SaveStack
<1>5. CASE SetMetadata
  <2>1. \A k \in DOMAIN Jobs[desired] : ~(k < 1)
    BY ConstantsAssumption DEF TypeOK
  <2> QED
    BY <1>5, <2>1 DEF SetMetadata, RowsWritten
<1>6. CASE UpsertJob
  <2>1. \A k \in DOMAIN Jobs[desired] : k \in Nat /\ Jobs[desired][k].name \in Workload
    BY ConstantsAssumption, JobEntryType DEF TypeOK, Entry
  <2>2. ASSUME NEW k \in DOMAIN Jobs[desired], pc = "jobs" => k < i + 1
        PROVE  jobRow'[Jobs[desired][k].name] = desired
    <3>1. k = i \/ (pc = "jobs" => k < i)
      BY <2>1, <2>2 DEF TypeOK
    <3> QED
      BY <1>6, <2>1, <3>1 DEF UpsertJob, RowsWritten, TypeOK
  <2> QED
    BY <1>6, <2>2 DEF UpsertJob, RowsWritten
<1>7. CASE JobsPersisted
  <2>1. ASSUME NEW k \in DOMAIN Jobs[desired], pc = "jobs" PROVE k < i
    <3>1. DOMAIN Jobs[desired] = 1..Len(Jobs[desired]) /\ Len(Jobs[desired]) \in Nat
      BY ConstantsAssumption DEF TypeOK
    <3> QED
      BY <1>7, <2>1, <3>1 DEF JobsPersisted, TypeOK
  <2> QED
    BY <1>7, <2>1 DEF JobsPersisted, RowsWritten, rows
<1>8. CASE /\ desired' = desired /\ UNCHANGED <<stackHash, appliedHash, jobRow>>
           /\ pc \notin {"down", "stack", "meta", "jobs"}
           /\ pc' \notin {"stack", "meta", "jobs"}
  BY <1>8 DEF RowsWritten
<1>9. CASE UNCHANGED <<desired, pc, i, stackHash, appliedHash, jobRow>>
  BY <1>9 DEF RowsWritten
<1>10. StartDaemon \/ Abort \/ RemoveRefused \/ CreateRefused \/ StartRefused
         => pc' \in {"down", "stack"}
  BY DEF StartDaemon, Abort, RemoveRefused, CreateRefused, StartRefused, Down
<1>11. LoadActualState \/ Prune \/ PruneDone
         => /\ desired' = desired /\ UNCHANGED <<stackHash, appliedHash, jobRow>>
            /\ pc \notin {"down", "stack", "meta", "jobs"}
            /\ pc' \notin {"stack", "meta", "jobs"}
  BY DEF LoadActualState, Prune, PruneDone, rows
<1>12. \/ ServiceMissing \/ InspectFails \/ ServiceFound \/ StopContainer \/ StopFails
       \/ RemoveContainer \/ CreateContainer \/ StartContainer \/ UpsertService \/ ServicesDone
       => /\ desired' = desired /\ UNCHANGED <<stackHash, appliedHash, jobRow>>
          /\ pc \notin {"down", "stack", "meta", "jobs"}
          /\ pc' \notin {"stack", "meta", "jobs"}
  BY DEF ServiceMissing, InspectFails, ServiceFound, StopContainer, StopFails, RemoveContainer,
     CreateContainer, StartContainer, UpsertService, ServicesDone, AfterStop, AfterRemove, rows
<1>13. Environment => UNCHANGED <<desired, pc, i, stackHash, appliedHash, jobRow>>
  BY DEF Environment, EditFile, JobStarts, RemovedByHand, ContainerExits, ContainerRestarts,
     JobRemoved, rows, process
<1>14. \/ SaveStack \/ SetMetadata \/ UpsertJob \/ JobsPersisted
       \/ pc' \in {"down", "stack"}
       \/ /\ desired' = desired /\ UNCHANGED <<stackHash, appliedHash, jobRow>>
          /\ pc \notin {"down", "stack", "meta", "jobs"}
          /\ pc' \notin {"stack", "meta", "jobs"}
       \/ UNCHANGED <<desired, pc, i, stackHash, appliedHash, jobRow>>
  BY <1>10, <1>11, <1>12, <1>13 DEF Next, ApplyStep, ServiceStep
<1> HIDE DEF First
<1> QED
  BY <1>3, <1>4, <1>5, <1>6, <1>7, <1>8, <1>9, <1>14

\* RowsAgreeWhenUp: every row was written for the file of this Apply, and none
\* since, when it says that it succeeded.
THEOREM RowsAreOfOneFile == Spec => []RowsAgreeWhenUp
<1> DEFINE Inv == TypeOK /\ PositionOK /\ RowsWritten
<1>1. Init => Inv
  BY TypeInit DEF Init, RowsWritten, Processed, ServiceCalls, PruneCalls
<1>2. Inv /\ [Next]_vars => Inv'
  <2>1. CASE UNCHANGED vars
    BY <2>1 DEF vars, process, rows, bounds, TypeOK, PositionOK, RowsWritten, Processed,
       DesiredNames, Desired
  <2> QED
    BY <2>1, TypeStep, RowsStep
<1>3. Inv => RowsAgreeWhenUp
  BY DEF RowsWritten, RowsAgreeWhenUp, Processed, ServiceCalls
<1> QED
  BY <1>1, <1>2, <1>3, PTL DEF Spec

----------------------------------------------------------------------------
(* OneServiceDownAtATime *)

\* A name is that of a service or of a job, in whatever file.
NamesKeepTheirKind ==
    \A h, h2 \in Hash : \A j \in DOMAIN Services[h], k \in DOMAIN Jobs[h2] :
        Services[h][j].name # Jobs[h2][k].name

\* Only the service that is being replaced is down.
OnlyCurrentDown ==
    /\ pc = "down" => actual = Nowhere
    /\ TakenDown \subseteq (IF pc = "create" THEN {Current.name} ELSE {})

LEMMA DesiredAreWorkloads ==
    ASSUME TypeOK PROVE DesiredNames \subseteq Workload
<1> SUFFICES ASSUME NEW k \in DOMAIN Desired PROVE Desired[k].name \in Workload
  BY DEF DesiredNames
<1>1. Desired[k] \in Entry
  BY ConstantsAssumption DEF TypeOK, Desired
<1> QED
  BY <1>1 DEF Entry

\* A step leaves a service its containers, unless it removes one of them.
LEMMA ContainersStay ==
    ASSUME TypeOK, NEW w \in Workload, ServiceContainers(w) # {},
           \/ UNCHANGED containers
           \/ \E c \in Alive, s \in {"running", "exited"} :
                 containers' = [containers EXCEPT ![c].state = s]
           \/ \E c \in Alive \ ServiceContainers(w) :
                 containers' = [containers EXCEPT ![c] = Absent]
           \/ \E c \in Container \ Alive, r \in ContainerRecord :
                 containers' = [containers EXCEPT ![c] = r]
    PROVE  ServiceContainers(w)' # {}
<1> USE DEF ServiceContainers, Alive
<1>0. PICK d \in ServiceContainers(w) : TRUE
  OBVIOUS
<1>1. CASE UNCHANGED containers
  BY <1>0, <1>1
<1>2. ASSUME NEW c \in Alive, NEW s \in {"running", "exited"},
             containers' = [containers EXCEPT ![c].state = s]
      PROVE  d \in ServiceContainers(w)'
  BY <1>0, <1>2, EngineAssumption DEF TypeOK, ContainerRecord
<1>3. ASSUME NEW c \in Alive \ ServiceContainers(w),
             containers' = [containers EXCEPT ![c] = Absent]
      PROVE  d \in ServiceContainers(w)'
  BY <1>0, <1>3 DEF TypeOK
<1>4. ASSUME NEW c \in Container \ Alive, NEW r \in ContainerRecord,
             containers' = [containers EXCEPT ![c] = r]
      PROVE  d \in ServiceContainers(w)'
  BY <1>0, <1>4 DEF TypeOK
<1> QED
  BY <1>1, <1>2, <1>3, <1>4

\* The moves of Apply that the proof tells apart.
LEMMA ReplacementSteps ==
    ASSUME Next
    PROVE  \/ actual' = Nowhere
           \/ LoadActualState
           \/ StartDaemon
           \/ /\ UNCHANGED <<actual, desired>> /\ pc' # "down"
              /\ \/ pc = "create" /\ (CreateContainer \/ (pc' = "create" /\ i' = i))
                 \/ pc # "create" /\ pc' # "create"
                 \/ /\ pc # "create" /\ pc' = "create" /\ i' = i
                    /\ RemoveContainer => pc = "remove"
           \/ UNCHANGED <<actual, desired, pc, i>>
<1>1. CASE StartDaemon \/ Abort \/ RemoveRefused \/ CreateRefused \/ StartRefused
  BY <1>1 DEF Abort, RemoveRefused, CreateRefused, StartRefused, Down
<1>2. CASE JobsPersisted \/ LoadActualState
  BY <1>2 DEF JobsPersisted
<1>3. CASE SaveStack \/ SetMetadata \/ UpsertJob \/ Prune \/ PruneDone
  BY <1>3 DEF SaveStack, SetMetadata, UpsertJob, Prune, PruneDone
<1>4. CASE ServiceMissing \/ InspectFails \/ ServiceFound \/ StartContainer \/ UpsertService
            \/ ServicesDone \/ CreateContainer
  BY <1>4 DEF ServiceMissing, InspectFails, ServiceFound, StartContainer, UpsertService,
     ServicesDone, CreateContainer, RemoveContainer
<1>5. CASE StopContainer \/ StopFails \/ RemoveContainer
  BY <1>5 DEF StopContainer, StopFails, RemoveContainer, AfterStop, AfterRemove
<1>6. CASE Environment
  BY <1>6 DEF Environment, EditFile, JobStarts, RemovedByHand, ContainerExits,
              ContainerRestarts, JobRemoved, process
<1> QED
  BY <1>1, <1>2, <1>3, <1>4, <1>5, <1>6 DEF Next, ApplyStep, ServiceStep

\* What a step takes down: at most the service it is replacing.
LEMMA TakenDownStep ==
    ASSUME TypeOK, PositionOK, SnapshotOK, TargetOK, Next, UNCHANGED <<actual, desired>>,
           NEW w \in TakenDown'
    PROVE  \/ w \in TakenDown /\ (CreateContainer => w # Current.name)
           \/ RemoveContainer /\ pc = "remove" /\ w = Current.name
<1> USE DEF TakenDown
<1>1. /\ w \in DesiredNames /\ actual[w] # NoContainer /\ ServiceContainers(w)' = {}
      /\ w \notin retired' /\ w \in Workload
  BY DesiredAreWorkloads DEF DesiredNames, Desired
<1>2. CASE UNCHANGED <<containers, retired>>
  <2>1. ServiceContainers(w) = {}
    BY <1>1, <1>2, ContainersStay
  <2>2. ~CreateContainer
    BY <1>2, CreateFacts, EngineAssumption DEF TypeOK, Alive
  <2> QED
    BY <1>1, <1>2, <2>1, <2>2
<1>3. ASSUME NEW c \in Alive, NEW s \in {"running", "exited"},
             containers' = [containers EXCEPT ![c].state = s], UNCHANGED retired,
             ~CreateContainer
      PROVE  w \in TakenDown
  BY <1>1, <1>3, ContainersStay
<1>4. CASE CreateContainer
  <2>1. ServiceContainers(w) = {}
    BY <1>1, <1>4, CreateFacts, ContainersStay
  <2>2. w # Current.name
    <3> SUFFICES ASSUME w = Current.name PROVE FreshId \in ServiceContainers(w)'
      BY <1>1
    <3>1. PICK c \in Container : c = FreshId
      BY <1>4, CreateFacts
    <3>2. PICK r \in ContainerRecord : r = NewService(Current)
      BY <1>4, CreateFacts
    <3>3. containers'[c] = r
      BY <1>4, <3>1, <3>2, CreateFacts DEF TypeOK
    <3>4. r # Absent /\ r.kind = "service" /\ r.workload = w
      BY <3>2, EngineAssumption DEF NewService
    <3> QED
      BY <3>1, <3>3, <3>4 DEF ServiceContainers, Alive
  <2> QED
    BY <1>1, <1>4, <2>1, <2>2 DEF CreateContainer
<1>5. CASE JobStarts
  <2>1. ServiceContainers(w) = {}
    BY <1>1, <1>5, JobFacts, ContainersStay
  <2>2. pc = "up"
    BY <1>5 DEF JobStarts
  <2> QED
    BY <1>1, <1>5, <2>1, <2>2 DEF JobStarts, CreateContainer
<1>6. CASE RemoveContainer
  <2>1. /\ cid \in Alive /\ containers' = [containers EXCEPT ![cid] = Absent]
        /\ retired \subseteq retired' /\ ~CreateContainer
    BY <1>6 DEF RemoveContainer, CreateContainer
  <2>2. CASE cid \notin ServiceContainers(w)
    BY <1>1, <2>1, <2>2, ContainersStay
  <2>3. CASE cid \in ServiceContainers(w) /\ pc = "remove"
    <3>1. Current.name \in Workload /\ cid = actual[Current.name]
      BY <2>3, EntryType DEF TargetOK, PositionOK, ServiceCalls, Entry
    <3> QED
      BY <1>6, <2>1, <2>3, <3>1 DEF SnapshotOK, ServiceContainers
  <2>4. CASE cid \in ServiceContainers(w) /\ pc = "pruneRemove"
    BY <1>1, <2>1, <2>4 DEF TargetOK, SnapshotOK, ServiceContainers
  <2> QED
    BY <1>6, <2>2, <2>3, <2>4 DEF RemoveContainer
<1>7. ASSUME NEW c \in Container, RemovedByHand(c) PROVE w \in TakenDown /\ ~CreateContainer
  <2>1. c \notin ServiceContainers(w)
    BY <1>1, <1>7 DEF RemovedByHand, ServiceOf, ServiceContainers
  <2>2. retired \subseteq retired' /\ c \in Alive /\ containers' = [containers EXCEPT ![c] = Absent]
    BY <1>7 DEF RemovedByHand, Managed
  <2>3. ~CreateContainer
    BY <1>7, CreateFacts DEF RemovedByHand, Managed, Alive, TypeOK
  <2> QED
    BY <1>1, <2>1, <2>2, <2>3, ContainersStay
<1>8. ASSUME NEW c \in Container, JobRemoved(c) PROVE w \in TakenDown /\ ~CreateContainer
  <2>1. c \in Alive \ ServiceContainers(w) /\ pc = "up"
    BY <1>8 DEF JobRemoved, JobContainers, ServiceContainers
  <2> QED
    BY <1>1, <1>8, <2>1, ContainersStay DEF JobRemoved, CreateContainer
<1> QED
  BY <1>2, <1>3, <1>4, <1>5, <1>6, <1>7, <1>8, EngineSteps

LEMMA OnlyCurrentDownStep ==
    ASSUME NamesKeepTheirKind, TypeOK, PositionOK, LabelsOK, SnapshotOK, TargetOK,
           OnlyCurrentDown, Next
    PROVE  OnlyCurrentDown'
<1>1. CASE actual' = Nowhere
  <2>1. ASSUME NEW k \in (DOMAIN Desired)' PROVE Desired'[k].name \in Workload
    <3>1. Desired'[k] \in Entry
      BY <2>1, TypeStep, ConstantsAssumption DEF TypeOK, Desired
    <3> QED
      BY <3>1 DEF Entry
  <2>2. DesiredNames' \subseteq Workload
    BY <2>1 DEF DesiredNames
  <2> QED
    BY <1>1, <2>2 DEF OnlyCurrentDown, TakenDown, Nowhere
<1>2. CASE StartDaemon
  BY <1>1, <1>2 DEF StartDaemon, OnlyCurrentDown
<1>3. CASE LoadActualState
  <2> SUFFICES ASSUME NEW w \in TakenDown' PROVE FALSE
    BY <1>3 DEF LoadActualState, OnlyCurrentDown
  <2>1. /\ desired' = desired /\ containers' = containers
        /\ actual' \in [Workload -> Managed \cup {NoContainer}]
    BY <1>3 DEF LoadActualState
  <2>2. /\ w \in DesiredNames /\ w \in Workload /\ actual'[w] # NoContainer
        /\ ServiceContainers(w) = {}
    BY <2>1, DesiredAreWorkloads
    DEF TakenDown, DesiredNames, Desired, ServiceContainers, Alive
  <2>3. actual'[w] \in Managed /\ containers[actual'[w]].workload = w
    BY <1>3, <2>1, <2>2 DEF LoadActualState
  <2>4. actual'[w] \in Alive /\ containers[actual'[w]].kind = "job"
    <3> DEFINE c == actual'[w]
    <3> HIDE DEF c
    <3>1. /\ c \in Container /\ c \in Alive
          /\ containers[c].workload = w /\ containers[c].kind # "foreign"
      BY <2>3 DEF Managed, Alive, c
    <3>2. containers[c] \in ContainerRecord
      BY <3>1 DEF TypeOK, Alive
    <3>3. containers[c].kind \in {"service", "job", "foreign"}
      BY <3>2 DEF ContainerRecord
    <3>4. containers[c].kind # "service"
      BY <2>2, <3>1 DEF ServiceContainers
    <3> QED
      BY <3>1, <3>3, <3>4 DEF c
  <2>5. PICK h2 \in Hash : \E k \in DOMAIN Jobs[h2] : Jobs[h2][k].name = w
    BY <2>3, <2>4 DEF LabelsOK
  <2>6. PICK k \in DOMAIN Jobs[h2] : Jobs[h2][k].name = w
    BY <2>5
  <2>7. PICK j \in DOMAIN Services[desired] : Services[desired][j].name = w
    BY <2>2 DEF DesiredNames, Desired
  <2> QED
    BY <2>6, <2>7 DEF NamesKeepTheirKind, TypeOK
<1>4. CASE UNCHANGED <<actual, desired>> /\ ~StartDaemon /\ actual' # Nowhere
  <2>1. pc # "down"
    BY <1>4 DEF OnlyCurrentDown
  <2>2. \/ pc' # "down" /\ pc = "create" /\ (CreateContainer \/ (pc' = "create" /\ i' = i))
        \/ pc' # "down" /\ pc # "create" /\ pc' # "create"
        \/ /\ pc' # "down" /\ pc # "create" /\ pc' = "create" /\ i' = i
           /\ RemoveContainer => pc = "remove"
        \/ UNCHANGED <<pc, i>>
    BY <1>4, ReplacementSteps DEF LoadActualState, StartDaemon
  <2>3. ASSUME NEW w \in TakenDown' PROVE pc' = "create" /\ w = Current'.name
    <3>1. CASE w \in TakenDown /\ (CreateContainer => w # Current.name)
      <4>1. pc = "create" /\ w = Current.name
        BY <3>1 DEF OnlyCurrentDown
      <4>2. pc' = "create" /\ i' = i
        BY <2>2, <3>1, <4>1
      <4> QED
        BY <1>4, <4>1, <4>2 DEF Current, Desired
    <3>2. CASE RemoveContainer /\ pc = "remove" /\ w = Current.name
      BY <1>4, <3>2 DEF RemoveContainer, AfterRemove, Current, Desired
    <3> QED
      BY <1>4, <2>3, <3>1, <3>2, TakenDownStep
  <2>4. pc' # "down"
    BY <2>1, <2>2
  <2> QED
    BY <2>3, <2>4 DEF OnlyCurrentDown
<1> QED
  BY <1>1, <1>2, <1>3, <1>4, ReplacementSteps DEF LoadActualState

\* When no name is that of a service in one file and of a job in another,
\* Apply never has more than one service down: an error or a kill, at any
\* call, costs at most the service that was being replaced.
THEOREM OneAtATime ==
    ASSUME NamesKeepTheirKind PROVE Spec => []OneServiceDownAtATime
<1> DEFINE Inv == /\ TypeOK /\ PositionOK /\ LabelsOK /\ SnapshotOK /\ TargetOK
                  /\ OnlyCurrentDown
<1>1. Init => Inv
  <2> SUFFICES ASSUME Init PROVE Inv
    OBVIOUS
  <2>1. TypeOK /\ PositionOK /\ DesiredNames \subseteq Workload
    BY TypeInit, DesiredAreWorkloads
  <2>2. OnlyCurrentDown
    BY <2>1 DEF Init, OnlyCurrentDown, TakenDown, Nowhere
  <2>3. LabelsOK /\ SnapshotOK /\ TargetOK
    BY <2>1, MarkersAssumption, EngineAssumption
    DEF Init, LabelsOK, SnapshotOK, TargetOK, Alive, Nowhere, PruneCalls
  <2> QED
    BY <2>1, <2>2, <2>3
<1>2. Inv /\ [Next]_vars => Inv'
  <2>1. CASE UNCHANGED vars
    BY <2>1 DEF vars, process, rows, bounds, TypeOK, PositionOK, LabelsOK, SnapshotOK,
       TargetOK, OnlyCurrentDown, TakenDown, ServiceContainers, Alive, DesiredNames,
       Desired, Current
  <2>2. ASSUME Inv, Next PROVE Inv'
    BY <2>2, TypeStep, LabelsStep, SnapshotStep, TargetStep, OnlyCurrentDownStep
  <2> QED
    BY <2>1, <2>2
<1>3. Inv => OneServiceDownAtATime
  <2> SUFFICES ASSUME OnlyCurrentDown PROVE Cardinality(TakenDown) <= 1
    BY DEF OneServiceDownAtATime
  <2>1. TakenDown = {} \/ TakenDown = {Current.name}
    BY DEF OnlyCurrentDown
  <2> QED
    BY <2>1, FS_EmptySet, FS_Singleton
<1> QED
  BY <1>1, <1>2, <1>3, PTL DEF Spec

=============================================================================
