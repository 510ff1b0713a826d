---------------------------- MODULE DaemonProofs ----------------------------
(***************************************************************************)
(* Proofs about Daemon: for any files, any number of program versions,     *)
(* requests, failing calls, crashes and edits.                             *)
(***************************************************************************)
EXTENDS Daemon, TLAPS

(* What Parse accepts *)

LEMMA VolumesBuild ==
  ASSUME NEW volumes, \A v \in volumes : VolumeValid(v) PROVE MountsBuild(volumes)
  BY TextAssumption DEF VolumeValid, MountsBuild

LEMMA PortsBuild ==
  ASSUME NEW ports, \A p \in ports : PortValid(p) PROVE PortBindingsBuild(ports)
  <1> SUFFICES ASSUME NEW p \in ports
               PROVE  /\ p.host \in PortNumber /\ p.container \in PortNumber
                      /\ p.ip = "" \/ p.ip \in AddressText
                      /\ Lower(p.protocol) \in {"", "tcp", "udp"}
    BY DEF PortBindingsBuild
  <1>1. PortValid(p)
    OBVIOUS
  <1>2. Lower(p.protocol) = p.protocol
    BY <1>1 DEF PortValid, Lower
  <1> QED
    BY <1>1, <1>2 DEF PortValid

LEMMA ValidServiceBuilds ==
  ASSUME NEW s, ServiceValid(s) PROVE ServiceBuilds(s)
  <1>1. MountsBuild(s.volumes)
    BY VolumesBuild DEF ServiceValid
  <1>2. PortBindingsBuild(s.ports)
    BY PortsBuild DEF ServiceValid
  <1>3. \A h \in s.healthCheck : HealthCheckBuilds(h)
    BY DEF ServiceValid, HealthCheckValid, HealthCheckBuilds
  <1> QED
    BY <1>1, <1>2, <1>3 DEF ServiceValid, ServiceBuilds, CreateConfigBuilds

LEMMA ValidJobBuilds ==
  ASSUME NEW j, JobValid(j) PROVE JobBuilds(j)
  <1>1. MountsBuild(j.volumes)
    BY VolumesBuild DEF JobValid
  <1>2. PortBindingsBuild({})
    BY DEF PortBindingsBuild
  <1> QED
    BY <1>1, <1>2 DEF JobValid, JobBuilds, CreateConfigBuilds

\* The checks of Parse imply those of Stack.Validate, of the trigger engine and
\* of docker.BuildCreateConfig, for every configuration there can be.
LEMMA ParsedIsUsable ==
  ASSUME NEW c, Parses(c)
  PROVE  /\ StackValid(c) /\ TriggerSetValid(c.triggers)
         /\ \A i \in DOMAIN c.services : ServiceBuilds(c.services[i])
         /\ \A i \in DOMAIN c.jobs : JobBuilds(c.jobs[i])
  <1>1. StackValid(c) /\ UniqueNames(c.triggers)
    BY DEF Parses, ConfigValid
  <1>2. TriggerSetValid(c.triggers)
    BY <1>1 DEF StackValid, TriggerSetValid
  <1>3. /\ \A i \in DOMAIN c.services : ServiceBuilds(c.services[i])
        /\ \A i \in DOMAIN c.jobs : JobBuilds(c.jobs[i])
    BY <1>1, ValidServiceBuilds, ValidJobBuilds DEF StackValid
  <1> QED
    BY <1>1, <1>2, <1>3

LEMMA NoTriggersValid == TriggerSetValid(<<>>) /\ Elements(<<>>) = {}
  BY DEF TriggerSetValid, UniqueNames, Elements

-----------------------------------------------------------------------------
(* Types *)

Trigger == UNION {Elements(Content[h].triggers) : h \in Hash}
Optional(S) == S \cup {None}
Snapshot == [hash : Optional(Hash), triggers : SUBSET Trigger]
Position == {"unsent", "accepted", "matching", "running", "answered"}
StatusCode == {0, 200, 202, 404, 500}
RequestRecord ==
  [at : Position, path : Optional(Path), method : Optional(Method),
   copy : Optional(Snapshot), trigger : Optional(Trigger), answer : StatusCode]
TxRecord ==
  [ran : [Version -> Nat], applied : SUBSET Version, at : 1..MaxVersion + 1, executed : BOOLEAN]

RequestShape(x) == /\ x.at = "answered" <=> x.answer # 0
                   /\ x.at = "matching" => x.copy \in Snapshot

\* TypeOK in four parts, and the shape of what it knows by its parts.
ProcessTypes ==
  /\ disk \in Hash /\ loaded \in Hash /\ version \in Version /\ stage \in Stages
  /\ meta \in Optional(Hash) /\ deployed \in Optional(Hash)
  /\ open \subseteq Resources /\ http \in {"new", "listening", "failed", "closed"}
  /\ cancelled \in BOOLEAN /\ overran \in BOOLEAN
  /\ faults \in 0..MaxFaults /\ edits \in 0..MaxEdits

SchemaTypes ==
  /\ db \in Schema
  /\ stage = "migrate" => tx \in TxRecord /\ (tx.executed => tx.at <= version /\ tx.at \notin db.applied)

LoopTypes == registered \subseteq JobNames /\ loops \subseteq Loops

HandlerTypes ==
  /\ engine \in Snapshot /\ \A t \in engine.triggers : TriggerValid(t)
  /\ requests \in [Request -> RequestRecord]
  /\ \A q \in Request : RequestShape(requests[q])

Types == ProcessTypes /\ SchemaTypes /\ LoopTypes /\ HandlerTypes

\* What a process holds at which stage.
Serving == {"serve", "drain", "forget", "close", "wait"}
Held ==
  /\ stage \in {"down", "open", "bootFailed", "wait", "returned"} => open = {}
  /\ stage # "migrate" => tx = None
  /\ loops # {} => stage \in Serving
  /\ stage = "down" => registered = {} /\ engine = EmptyEngine

LEMMA TypesMean == Types /\ Held => TypeOK
  <1> SUFFICES ASSUME Types, Held PROVE TypeOK
    OBVIOUS
  <1>1. tx # None => /\ [ran |-> tx.ran, applied |-> tx.applied] \in Schema
                     /\ tx.at \in 1..MaxVersion + 1 /\ tx.executed \in BOOLEAN
    BY DEF Types, SchemaTypes, Held, TxRecord, Schema
  <1>2. EngineTypeOK
    BY DEF Types, HandlerTypes, EngineTypeOK, Snapshot, RequestRecord, RequestShape, Optional,
           Position, StatusCode
  <1> QED
    BY <1>1, <1>2 DEF Types, ProcessTypes, SchemaTypes, LoopTypes, TypeOK, Optional

\* What the steps of a migration make of the transaction.
LEMMA TxUpdates ==
  ASSUME NEW x \in TxRecord, x.at \in Version, x.at + 1 \in 1..MaxVersion + 1
  PROVE  LET skipped == [x EXCEPT !.at = @ + 1]
             executed == [x EXCEPT !.ran[x.at] = @ + 1, !.executed = TRUE]
             recorded == [x EXCEPT !.applied = @ \cup {x.at}, !.at = @ + 1, !.executed = FALSE]
         IN  /\ skipped \in TxRecord /\ skipped.at = x.at + 1
             /\ skipped.ran = x.ran /\ skipped.applied = x.applied
             /\ skipped.executed = x.executed
             /\ executed \in TxRecord /\ executed.at = x.at
             /\ executed.ran = [x.ran EXCEPT ![x.at] = @ + 1]
             /\ executed.applied = x.applied /\ executed.executed
             /\ recorded \in TxRecord /\ recorded.at = x.at + 1
             /\ recorded.ran = x.ran /\ recorded.applied = x.applied \cup {x.at}
             /\ ~recorded.executed
  <1> DEFINE skipped == [x EXCEPT !.at = @ + 1]
             executed == [x EXCEPT !.ran[x.at] = @ + 1, !.executed = TRUE]
             recorded == [x EXCEPT !.applied = @ \cup {x.at}, !.at = @ + 1, !.executed = FALSE]
  <1>1. /\ skipped \in TxRecord /\ skipped.at = x.at + 1
        /\ skipped.ran = x.ran /\ skipped.applied = x.applied /\ skipped.executed = x.executed
    BY DEF TxRecord
  <1>2. executed \in TxRecord
    <2>1. [x.ran EXCEPT ![x.at] = @ + 1] \in [Version -> Nat]
      BY DEF TxRecord
    <2> QED
      BY <2>1 DEF TxRecord
  <1>3. /\ executed.at = x.at /\ executed.ran = [x.ran EXCEPT ![x.at] = @ + 1]
        /\ executed.applied = x.applied /\ executed.executed
    BY DEF TxRecord
  <1>4. recorded \in TxRecord
    BY DEF TxRecord
  <1>5. /\ recorded.at = x.at + 1 /\ recorded.ran = x.ran
        /\ recorded.applied = x.applied \cup {x.at} /\ ~recorded.executed
    BY DEF TxRecord
  <1> QED
    BY <1>1, <1>2, <1>3, <1>4, <1>5

LEMMA WithCopy ==
  ASSUME NEW x \in RequestRecord, NEW a \in Position, NEW c \in Optional(Snapshot)
  PROVE  [x EXCEPT !.at = a, !.copy = c] \in RequestRecord
  BY DEF RequestRecord

LEMMA WithTrigger ==
  ASSUME NEW x \in RequestRecord, NEW a \in Position, NEW t \in Optional(Trigger)
  PROVE  [x EXCEPT !.at = a, !.trigger = t] \in RequestRecord
  BY DEF RequestRecord

LEMMA WithAnswer ==
  ASSUME NEW x \in RequestRecord, NEW a \in Position, NEW n \in StatusCode
  PROVE  [x EXCEPT !.at = a, !.answer = n] \in RequestRecord
  BY DEF RequestRecord

\* The records a handler makes of a request's record.
LEMMA RequestUpdates ==
  ASSUME NEW x \in RequestRecord
  PROVE  /\ \A p \in Path, m \in Method : NewRequest(p, m) \in RequestRecord
         /\ \A c \in Snapshot :
              /\ [x EXCEPT !.at = "matching", !.copy = c] \in RequestRecord
              /\ x.answer = 0 => RequestShape([x EXCEPT !.at = "matching", !.copy = c])
         /\ \A t \in Trigger :
              /\ [x EXCEPT !.at = "running", !.trigger = t] \in RequestRecord
              /\ x.answer = 0 => RequestShape([x EXCEPT !.at = "running", !.trigger = t])
         /\ \A n \in StatusCode \ {0} :
              /\ [x EXCEPT !.at = "answered", !.answer = n] \in RequestRecord
              /\ RequestShape([x EXCEPT !.at = "answered", !.answer = n])
  <1>2. \A p \in Path, m \in Method : NewRequest(p, m) \in RequestRecord
    BY DEF RequestRecord, NewRequest, Optional, Position, StatusCode
  <1>3. ASSUME NEW c \in Snapshot
        PROVE  [x EXCEPT !.at = "matching", !.copy = c] \in RequestRecord
               /\ (x.answer = 0 => RequestShape([x EXCEPT !.at = "matching", !.copy = c]))
    <2> DEFINE y == [x EXCEPT !.at = "matching", !.copy = c]
    <2>1. "matching" \in Position /\ c \in Optional(Snapshot)
      BY DEF Position, Optional
    <2>2. y.at = "matching" /\ y.copy = c /\ y.answer = x.answer
      BY DEF RequestRecord
    <2>3. y \in RequestRecord
      BY <2>1, WithCopy
    <2>4. x.answer = 0 => RequestShape(y)
      <3> HIDE DEF y
      <3> QED
        BY <2>2 DEF RequestShape
    <2> QED
      BY <2>3, <2>4
  <1>4. ASSUME NEW t \in Trigger
        PROVE  [x EXCEPT !.at = "running", !.trigger = t] \in RequestRecord
               /\ (x.answer = 0 => RequestShape([x EXCEPT !.at = "running", !.trigger = t]))
    <2> DEFINE y == [x EXCEPT !.at = "running", !.trigger = t]
    <2>1. "running" \in Position /\ t \in Optional(Trigger)
      BY DEF Position, Optional
    <2>2. y.at = "running" /\ y.trigger = t /\ y.answer = x.answer
      BY DEF RequestRecord
    <2>3. y \in RequestRecord
      BY <2>1, WithTrigger
    <2>4. x.answer = 0 => RequestShape(y)
      <3> HIDE DEF y
      <3> QED
        BY <2>2 DEF RequestShape
    <2> QED
      BY <2>3, <2>4
  <1>5. ASSUME NEW n \in StatusCode \ {0}
        PROVE  [x EXCEPT !.at = "answered", !.answer = n] \in RequestRecord
               /\ (RequestShape([x EXCEPT !.at = "answered", !.answer = n]))
    <2> DEFINE y == [x EXCEPT !.at = "answered", !.answer = n]
    <2>1. "answered" \in Position /\ n \in StatusCode
      BY DEF Position, Optional
    <2>2. y.at = "answered" /\ y.answer = n
      BY DEF RequestRecord
    <2>3. y \in RequestRecord
      BY <2>1, WithAnswer
    <2>4. RequestShape(y)
      <3> HIDE DEF y
      <3> QED
        BY <2>2 DEF RequestShape
    <2> QED
      BY <2>3, <2>4
  <1> QED
    BY <1>2, <1>3, <1>4, <1>5

LEMMA UnsentType == Unsent \in RequestRecord /\ RequestShape(Unsent)
  BY DEF RequestRecord, RequestShape, Unsent, Optional, Position, StatusCode

LEMMA EmptyEngineType == EmptyEngine \in Snapshot
  BY DEF EmptyEngine, Snapshot, Optional

\* Sync installs the triggers of the file, or none.
LEMMA SyncType ==
  ASSUME HandlerTypes, NEW h \in Hash, NEW list, Elements(list) \subseteq Trigger, Sync(h, list)
  PROVE  engine' \in Snapshot /\ \A t \in engine'.triggers : TriggerValid(t)
  <1>1. CASE TriggerSetValid(list)
    <2>1. engine' = [hash |-> h, triggers |-> Elements(list)]
      BY <1>1 DEF Sync
    <2>2. \A t \in Elements(list) : TriggerValid(t)
      BY <1>1 DEF Elements, TriggerSetValid
    <2> QED
      BY <2>1, <2>2 DEF Snapshot, Optional
  <1>2. CASE ~TriggerSetValid(list)
    BY <1>2 DEF Sync, HandlerTypes
  <1> QED
    BY <1>1, <1>2

\* A step of a request's handler, for the types.
LEMMA HandlerType ==
  ASSUME HandlerTypes, NEW q \in Request,
         HandlerStep(q) \/ TriggeredJobEnds(q)
           \/ \E p \in Path, m \in Method : ClientSends(q, p, m)
  PROVE  /\ requests' \in [Request -> RequestRecord] /\ engine' = engine
         /\ \A r \in Request \ {q} : requests'[r] = requests[r]
         /\ \A r \in Request : RequestShape(requests'[r])
  <1> DEFINE R == requests[q]
  <1>0. requests \in [Request -> RequestRecord] /\ R \in RequestRecord /\ engine \in Snapshot
    BY DEF HandlerTypes
  <1>1. ASSUME NEW x \in RequestRecord, requests' = [requests EXCEPT ![q] = x],
               RequestShape(x)
        PROVE  /\ requests' \in [Request -> RequestRecord]
               /\ \A r \in Request \ {q} : requests'[r] = requests[r]
               /\ \A r \in Request : RequestShape(requests'[r])
    BY <1>0, <1>1 DEF HandlerTypes
  <1>2. ASSUME NEW n \in StatusCode \ {0}, requests' = Answer(q, n)
        PROVE  /\ requests' \in [Request -> RequestRecord]
               /\ \A r \in Request \ {q} : requests'[r] = requests[r]
               /\ \A r \in Request : RequestShape(requests'[r])
    <2> DEFINE x == [R EXCEPT !.at = "answered", !.answer = n]
    <2>1. x \in RequestRecord /\ RequestShape(x)
      BY <1>0, RequestUpdates
    <2>3. requests' = [requests EXCEPT ![q] = x]
      BY <1>0, <1>2 DEF Answer
    <2> HIDE DEF x
    <2> QED
      BY <1>1, <2>1, <2>3
  <1>3. ASSUME NEW p \in Path, NEW m \in Method, Accept(q, p, m)
        PROVE  /\ requests' \in [Request -> RequestRecord]
               /\ \A r \in Request \ {q} : requests'[r] = requests[r]
               /\ \A r \in Request : RequestShape(requests'[r])
    <2> DEFINE x == NewRequest(p, m)
    <2>1. x \in RequestRecord
      BY <1>3, RequestUpdates, <1>0
    <2>4. RequestShape(x)
      BY DEF NewRequest, RequestShape
    <2>2. requests' = [requests EXCEPT ![q] = x]
      BY <1>3 DEF Accept
    <2> HIDE DEF x
    <2> QED
      BY <1>1, <2>1, <2>2, <2>4
  <1>4. CASE CopyTriggers(q)
    <2> DEFINE x == [R EXCEPT !.at = "matching", !.copy = engine]
    <2>1. R.answer = 0
      BY <1>0, <1>4 DEF CopyTriggers, HandlerTypes, RequestShape
    <2>2. x \in RequestRecord /\ RequestShape(x)
      BY <1>0, <2>1, RequestUpdates
    <2>3. requests' = [requests EXCEPT ![q] = x]
      BY <1>0, <1>4 DEF CopyTriggers
    <2> HIDE DEF x
    <2> QED
      BY <1>1, <1>4, <2>2, <2>3 DEF CopyTriggers
  <1>5. CASE Dispatch(q, JobNames)
    <2>1. PICK t \in Matching(q) :
            requests' = IF t.target.kind = "job" /\ t.target.name \in JobNames
                        THEN [requests EXCEPT ![q].at = "running", ![q].trigger = t]
                        ELSE Answer(q, 500)
      BY <1>5 DEF Dispatch
    <2>2. CASE requests' = Answer(q, 500)
      BY <1>2, <1>5, <2>2 DEF Dispatch, StatusCode
    <2>3. CASE requests' = [requests EXCEPT ![q].at = "running", ![q].trigger = t]
      <3> DEFINE x == [R EXCEPT !.at = "running", !.trigger = t]
      <3>0. t \in Trigger
        BY <1>5 DEF Dispatch, Matching, HandlerTypes, RequestShape, Snapshot
      <3>1. R.answer = 0
        BY <1>0, <1>5 DEF Dispatch, HandlerTypes, RequestShape
      <3>2. x \in RequestRecord /\ RequestShape(x)
        BY <1>0, <3>0, <3>1, RequestUpdates
      <3>3. requests' = [requests EXCEPT ![q] = x]
        BY <1>0, <2>3
      <3> HIDE DEF x
      <3> QED
        BY <1>1, <1>5, <3>2, <3>3 DEF Dispatch
    <2> QED
      BY <2>1, <2>2, <2>3
  <1> QED
    BY <1>2, <1>3, <1>4, <1>5
    DEF HandlerStep, TriggeredJobEnds, ClientSends, Health, NoMatch, JobEnds, CopyTriggers,
        Dispatch, Accept, StatusCode

-----------------------------------------------------------------------------
(* The steps, for the types *)

\* The steps of requests.
Handling ==
  \E q \in Request : \/ HandlerStep(q) \/ TriggeredJobEnds(q)
                     \/ \E p \in Path, m \in Method : ClientSends(q, p, m)

\* As long as the process is the same, so is what it knows of its file.
LEMMA SameFile ==
  ASSUME loaded' = loaded
  PROVE  /\ Stack' = Stack /\ JobNames' = JobNames /\ Loops' = Loops /\ Scheduled' = Scheduled
         /\ Bad' = Bad
  BY DEF Stack, JobNames, ServiceNames, Loops, Scheduled, Bad

LEMMA StackTriggers ==
  ASSUME ProcessTypes
  PROVE  Elements(Stack.triggers) \subseteq Trigger /\ None \notin Elements(Stack.triggers)
  BY DaemonAssumption DEF ProcessTypes, Trigger, Stack

LEMMA ProcessTypesStep == ProcessTypes /\ [Next]_vars => ProcessTypes'
  <1> SUFFICES ASSUME ProcessTypes, [Next]_vars PROVE ProcessTypes'
    OBVIOUS
  <1> USE DEF environment, durable, serving, triggerVars
  <1>0. /\ Succeeds \/ Fails \/ faults' = faults => faults' \in 0..MaxFaults
        /\ faults < MaxFaults => faults + 1 \in 0..MaxFaults
        /\ edits < MaxEdits => edits + 1 \in 0..MaxEdits
    BY DaemonAssumption DEF Succeeds, Fails, ProcessTypes
  <1>1. CASE Start \/ OpenStore \/ CommitMigrations \/ OpenFails \/ ConnectDocker \/ ConnectFails
    BY <1>0, <1>1
    DEF Start, OpenStore, CommitMigrations, OpenFails, ConnectDocker, ConnectFails,
        ProcessTypes, Stages, Resources
  <1>2. CASE SkipMigration \/ ExecMigration \/ RecordMigration
    BY <1>0, <1>2
    DEF SkipMigration, ExecMigration, RecordMigration, Migrate, ProcessTypes
  <1>3. CASE SetMetadata \/ Apply \/ RunFails
    BY <1>0, <1>3 DEF SetMetadata, Apply, RunFails, ProcessTypes, Stages, Optional
  <1>4. CASE SyncScheduler \/ SyncTriggers \/ StartLoops
    BY <1>4 DEF SyncScheduler, SyncTriggers, StartLoops, ProcessTypes, Stages
  <1>5. CASE ShutdownHTTP \/ Drain \/ ForgetTriggers \/ CloseResources \/ WaitForLoops
               \/ ShutdownAfterError
    BY <1>5
    DEF ShutdownHTTP, Drain, ForgetTriggers, CloseResources, WaitForLoops, ShutdownAfterError,
        ProcessTypes, Stages
  <1>6. CASE Exit \/ Crash
    BY <1>0, <1>6 DEF Exit, Crash, Gone, ProcessTypes, Stages, Optional
  <1>7. CASE Cancel \/ Listen \/ ListenFails
    BY <1>0, <1>7 DEF Cancel, Listen, ListenFails, ProcessTypes
  <1>8. CASE Edit
    BY <1>0, <1>8, DaemonAssumption DEF Edit, ProcessTypes
  <1>9. CASE (\E l \in loops : LoopReturns(l)) \/ Handling \/ UNCHANGED vars
    BY <1>9
    DEF LoopReturns, Handling, HandlerStep, TriggeredJobEnds, ClientSends, DaemonUnchanged,
        ProcessTypes, vars
  <1> QED
    BY <1>1, <1>2, <1>3, <1>4, <1>5, <1>6, <1>7, <1>8, <1>9 DEF Next, Bootstrap, Run, Handling

LEMMA SchemaTypesStep == ProcessTypes /\ SchemaTypes /\ [Next]_vars => SchemaTypes'
  <1> SUFFICES ASSUME ProcessTypes, SchemaTypes, [Next]_vars PROVE SchemaTypes'
    OBVIOUS
  <1> USE DEF environment, durable, serving, triggerVars, Succeeds, Fails
  <1>0. MaxVersion \in Nat \ {0} /\ version \in Version /\ Version \subseteq Nat
    BY DaemonAssumption DEF ProcessTypes, Version
  <1>1. CASE OpenStore
    BY <1>0, <1>1 DEF OpenStore, SchemaTypes, Schema, TxRecord
  <1>2. ASSUME stage = "migrate", tx.at <= version
        PROVE  tx.at \in Version /\ tx.at + 1 \in 1..MaxVersion + 1
    BY <1>0, <1>2 DEF SchemaTypes, TxRecord, Version
  <1>3. CASE SkipMigration
    <2>1. tx \in TxRecord /\ tx.at \in Version /\ tx.at + 1 \in 1..MaxVersion + 1
      BY <1>2, <1>3 DEF SkipMigration, Migrate, SchemaTypes
    <2>2. ~tx.executed
      BY <1>3 DEF SkipMigration, Migrate, SchemaTypes
    <2> QED
      BY <1>3, <2>1, <2>2, TxUpdates DEF SkipMigration, Migrate, SchemaTypes
  <1>4. CASE ExecMigration
    <2>1. tx \in TxRecord /\ tx.at \in Version /\ tx.at + 1 \in 1..MaxVersion + 1
      BY <1>2, <1>4 DEF ExecMigration, Migrate, SchemaTypes
    <2> QED
      BY <1>4, <2>1, TxUpdates DEF ExecMigration, Migrate, SchemaTypes
  <1>5. CASE RecordMigration
    <2>1. tx \in TxRecord /\ tx.at \in Version /\ tx.at + 1 \in 1..MaxVersion + 1
      BY <1>2, <1>5 DEF RecordMigration, Migrate, SchemaTypes
    <2> QED
      BY <1>5, <2>1, TxUpdates DEF RecordMigration, Migrate, SchemaTypes
  <1>6. CASE CommitMigrations
    BY <1>6 DEF CommitMigrations, SchemaTypes, Schema, TxRecord
  <1>7. CASE Start \/ OpenFails \/ ConnectDocker \/ ConnectFails \/ SetMetadata \/ Apply
               \/ RunFails
    BY <1>7
    DEF Start, OpenFails, ConnectDocker, ConnectFails, SetMetadata, Apply, RunFails, SchemaTypes
  <1>8. CASE SyncScheduler \/ SyncTriggers \/ StartLoops \/ ShutdownHTTP \/ Drain
               \/ ForgetTriggers \/ CloseResources \/ WaitForLoops \/ ShutdownAfterError
    BY <1>8
    DEF SyncScheduler, SyncTriggers, StartLoops, ShutdownHTTP, Drain, ForgetTriggers,
        CloseResources, WaitForLoops, ShutdownAfterError, SchemaTypes
  <1>9. CASE Exit \/ Crash \/ Cancel \/ Edit \/ Listen \/ ListenFails
    BY <1>9 DEF Exit, Crash, Gone, Cancel, Edit, Listen, ListenFails, SchemaTypes
  <1>10. CASE (\E l \in loops : LoopReturns(l)) \/ Handling \/ UNCHANGED vars
    BY <1>10
    DEF LoopReturns, Handling, HandlerStep, TriggeredJobEnds, ClientSends, DaemonUnchanged,
        SchemaTypes, vars
  <1> QED
    BY <1>1, <1>3, <1>4, <1>5, <1>6, <1>7, <1>8, <1>9, <1>10 DEF Next, Bootstrap, Run, Handling

LEMMA LoopTypesStep == LoopTypes /\ Held /\ [Next]_vars => LoopTypes'
  <1> SUFFICES ASSUME LoopTypes, Held, [Next]_vars PROVE LoopTypes'
    OBVIOUS
  <1> USE DEF environment, durable, serving, triggerVars
  <1>1. CASE Start
    BY <1>1 DEF Start, LoopTypes, Held, Serving
  <1>2. CASE OpenStore \/ SkipMigration \/ ExecMigration \/ RecordMigration \/ CommitMigrations
               \/ OpenFails \/ ConnectDocker \/ ConnectFails \/ SetMetadata \/ Apply \/ RunFails
    BY <1>2, SameFile
    DEF OpenStore, SkipMigration, ExecMigration, RecordMigration, Migrate, CommitMigrations,
        OpenFails, ConnectDocker, ConnectFails, SetMetadata, Apply, RunFails, LoopTypes
  <1>3. CASE SyncScheduler
    BY <1>3, SameFile DEF SyncScheduler, LoopTypes, JobNames, Scheduled
  <1>4. CASE StartLoops
    BY <1>4, SameFile DEF StartLoops, LoopTypes
  <1>5. CASE SyncTriggers \/ ShutdownHTTP \/ Drain \/ ForgetTriggers \/ CloseResources
               \/ WaitForLoops \/ ShutdownAfterError
    BY <1>5, SameFile
    DEF SyncTriggers, ShutdownHTTP, Drain, ForgetTriggers, CloseResources, WaitForLoops,
        ShutdownAfterError, LoopTypes
  <1>6. CASE Exit \/ Crash
    BY <1>6 DEF Exit, Crash, Gone, LoopTypes
  <1>7. CASE Cancel \/ Edit \/ Listen \/ ListenFails
    BY <1>7, SameFile DEF Cancel, Edit, Listen, ListenFails, LoopTypes
  <1>8. CASE (\E l \in loops : LoopReturns(l)) \/ Handling \/ UNCHANGED vars
    BY <1>8, SameFile
    DEF LoopReturns, Handling, HandlerStep, TriggeredJobEnds, ClientSends, DaemonUnchanged,
        LoopTypes, vars
  <1> QED
    BY <1>1, <1>2, <1>3, <1>4, <1>5, <1>6, <1>7, <1>8 DEF Next, Bootstrap, Run, Handling

LEMMA HandlerTypesStep == ProcessTypes /\ HandlerTypes /\ [Next]_vars => HandlerTypes'
  <1> SUFFICES ASSUME ProcessTypes, HandlerTypes, [Next]_vars PROVE HandlerTypes'
    OBVIOUS
  <1> USE DEF environment, durable, serving, triggerVars
  <1>1. CASE SyncTriggers \/ ForgetTriggers
    BY <1>1, SyncType, StackTriggers, NoTriggersValid
    DEF SyncTriggers, ForgetTriggers, HandlerTypes, ProcessTypes
  <1>2. CASE ShutdownAfterError
    BY <1>2, EmptyEngineType DEF ShutdownAfterError, HandlerTypes, EmptyEngine
  <1>3. CASE Exit \/ Crash
    <2>1. requests' = [q \in Request |-> Unsent]
      BY <1>3 DEF Exit, Crash, Gone
    <2> QED
      BY <1>3, <2>1, UnsentType, EmptyEngineType DEF Exit, Crash, Gone, HandlerTypes, EmptyEngine
  <1>4. CASE Handling
    BY <1>4, HandlerType DEF Handling, HandlerTypes
  <1>5. CASE UNCHANGED triggerVars
    BY <1>5 DEF HandlerTypes
  <1>6. \/ Start \/ OpenStore \/ SkipMigration \/ ExecMigration \/ RecordMigration
        \/ CommitMigrations \/ OpenFails \/ ConnectDocker \/ ConnectFails \/ SetMetadata \/ Apply
        \/ RunFails \/ SyncScheduler \/ StartLoops \/ ShutdownHTTP \/ Drain \/ CloseResources
        \/ WaitForLoops \/ Cancel \/ Edit \/ Listen \/ ListenFails
        \/ (\E l \in loops : LoopReturns(l)) \/ UNCHANGED vars
        => UNCHANGED triggerVars
    BY DEF Start, OpenStore, SkipMigration, ExecMigration, RecordMigration, Migrate,
           CommitMigrations, OpenFails, ConnectDocker, ConnectFails, SetMetadata, Apply,
           RunFails, SyncScheduler, StartLoops, ShutdownHTTP, Drain, CloseResources,
           WaitForLoops, Cancel, Edit, Listen, ListenFails, LoopReturns, vars
  <1> QED
    BY <1>1, <1>2, <1>3, <1>4, <1>5, <1>6 DEF Next, Bootstrap, Run, Handling

LEMMA HeldStep == Held /\ [Next]_vars => Held'
  <1> SUFFICES ASSUME Held, [Next]_vars PROVE Held'
    OBVIOUS
  <1> USE DEF environment, durable, serving, triggerVars, Serving
  <1>1. CASE Start \/ OpenStore \/ CommitMigrations \/ OpenFails \/ ConnectDocker \/ ConnectFails
    BY <1>1
    DEF Start, OpenStore, CommitMigrations, OpenFails, ConnectDocker, ConnectFails, Held
  <1>2. CASE SkipMigration \/ ExecMigration \/ RecordMigration
    BY <1>2 DEF SkipMigration, ExecMigration, RecordMigration, Migrate, Held
  <1>3. CASE SetMetadata \/ Apply \/ RunFails
    BY <1>3 DEF SetMetadata, Apply, RunFails, Held
  <1>4. CASE SyncScheduler \/ SyncTriggers \/ StartLoops
    BY <1>4 DEF SyncScheduler, SyncTriggers, StartLoops, Held
  <1>5. CASE ShutdownHTTP \/ Drain \/ ForgetTriggers \/ CloseResources \/ WaitForLoops
               \/ ShutdownAfterError
    BY <1>5
    DEF ShutdownHTTP, Drain, ForgetTriggers, CloseResources, WaitForLoops, ShutdownAfterError,
        Held
  <1>6. CASE Exit \/ Crash
    BY <1>6 DEF Exit, Crash, Gone, Held
  <1>7. CASE Cancel \/ Edit \/ Listen \/ ListenFails \/ \E l \in loops : LoopReturns(l)
    BY <1>7 DEF Cancel, Edit, Listen, ListenFails, LoopReturns, Held
  <1>8. CASE Handling \/ UNCHANGED vars
    <2>1. UNCHANGED <<stage, open, tx, loops, registered, engine>>
      BY <1>8
      DEF Handling, HandlerStep, TriggeredJobEnds, ClientSends, DaemonUnchanged, Health,
          CopyTriggers, NoMatch, Dispatch, JobEnds, Accept, vars
    <2> QED
      BY <2>1 DEF Held
  <1> QED
    BY <1>1, <1>2, <1>3, <1>4, <1>5, <1>6, <1>7, <1>8 DEF Next, Bootstrap, Run, Handling

LEMMA TypesInit == Init => Types /\ Held
  <1> SUFFICES ASSUME Init PROVE Types /\ Held
    OBVIOUS
  <1>1. ProcessTypes
    <2>1. 1 \in Version /\ 0 \in 0..MaxFaults /\ 0 \in 0..MaxEdits
      BY DaemonAssumption DEF Version
    <2> QED
      BY <2>1 DEF Init, ProcessTypes, Stages, Optional
  <1>2. SchemaTypes
    BY DEF Init, SchemaTypes, Schema
  <1>3. LoopTypes /\ Held
    BY DEF Init, LoopTypes, Held, Serving, EngineInit
  <1>4. HandlerTypes
    BY UnsentType, EmptyEngineType DEF Init, EngineInit, HandlerTypes, EmptyEngine
  <1> QED
    BY <1>1, <1>2, <1>3, <1>4 DEF Types

LEMMA TypesStep == Types /\ Held /\ [Next]_vars => Types' /\ Held'
  BY ProcessTypesStep, SchemaTypesStep, LoopTypesStep, HandlerTypesStep, HeldStep DEF Types

\* The types of Daemon, in every behaviour.
THEOREM TypeCorrect == Spec => []TypeOK
  <1>1. Init => Types /\ Held
    BY TypesInit
  <1>2. Types /\ Held /\ [Next]_vars => (Types /\ Held)'
    BY TypesStep
  <1>3. Types /\ Held => TypeOK
    BY TypesMean
  <1> QED
    BY <1>1, <1>2, <1>3, PTL DEF Spec

-----------------------------------------------------------------------------
(* What Parse accepts is what the process uses *)

Accepted == stage \notin {"down", "bootFailed"} => Parses(Stack)

LEMMA AcceptedStep == Accepted /\ [Next]_vars => Accepted'
  <1> SUFFICES ASSUME Accepted, [Next]_vars PROVE Accepted'
    OBVIOUS
  <1> USE DEF environment, durable, serving, triggerVars
  <1>1. CASE Start
    <2>1. Stack' = Content[disk]
      BY <1>1 DEF Start, Stack
    <2> QED
      BY <1>1, <2>1 DEF Start, Accepted
  <1>2. CASE Exit \/ Crash
    BY <1>2 DEF Exit, Crash, Gone, Accepted
  <1>3. CASE loaded' = loaded /\ (stage' \in {"down", "bootFailed"} \/ stage \notin {"down", "bootFailed"}
                                 \/ stage' = stage)
    BY <1>3, SameFile DEF Accepted
  <1>4. CASE OpenStore \/ SkipMigration \/ ExecMigration \/ RecordMigration \/ CommitMigrations
             \/ OpenFails \/ ConnectDocker \/ ConnectFails \/ SetMetadata \/ Apply \/ RunFails
    BY <1>3, <1>4
    DEF OpenStore, SkipMigration, ExecMigration, RecordMigration, Migrate, CommitMigrations,
        OpenFails, ConnectDocker, ConnectFails, SetMetadata, Apply, RunFails
  <1>5. CASE SyncScheduler \/ SyncTriggers \/ StartLoops \/ ShutdownHTTP \/ Drain
             \/ ForgetTriggers \/ CloseResources \/ WaitForLoops \/ ShutdownAfterError
    BY <1>3, <1>5
    DEF SyncScheduler, SyncTriggers, StartLoops, ShutdownHTTP, Drain, ForgetTriggers,
        CloseResources, WaitForLoops, ShutdownAfterError
  <1>6. CASE Cancel \/ Edit \/ Listen \/ ListenFails \/ (\E l \in loops : LoopReturns(l))
             \/ Handling \/ UNCHANGED vars
    BY <1>3, <1>6
    DEF Cancel, Edit, Listen, ListenFails, LoopReturns, Handling, HandlerStep, TriggeredJobEnds,
        ClientSends, DaemonUnchanged, vars
  <1> QED
    BY <1>1, <1>2, <1>4, <1>5, <1>6 DEF Next, Bootstrap, Run, Handling

\* AcceptedMeansUsable: no check of the program's own after Parse, in Run, in the
\* trigger engine or where the settings of a container are built, refuses what
\* Parse let through.  (Docker has checks of its own.)
THEOREM ParseIsTheOnlyGate == Spec => []AcceptedMeansUsable
  <1>1. Init => Accepted
    BY DEF Init, Accepted
  <1>2. Accepted /\ [Next]_vars => Accepted'
    BY AcceptedStep
  <1>3. Accepted => AcceptedMeansUsable
    <2> SUFFICES ASSUME Accepted, stage \notin {"down", "bootFailed"}
                 PROVE  /\ StackValid(Stack) /\ TriggerSetValid(Stack.triggers)
                        /\ \A i \in DOMAIN Stack.services : ServiceBuilds(Stack.services[i])
                        /\ \A i \in DOMAIN Stack.jobs : JobBuilds(Stack.jobs[i])
      BY DEF AcceptedMeansUsable
    <2> QED
      BY ParsedIsUsable DEF Accepted
  <1> QED
    BY <1>1, <1>2, <1>3, PTL DEF Spec

-----------------------------------------------------------------------------
(* The migrations *)

\* The open transaction holds what was committed, and the migrations that it
\* has run and recorded since, in their order.
Half ==
  stage = "migrate" =>
    /\ tx.executed => tx.at \notin tx.applied
    /\ \A v \in Version :
         /\ tx.ran[v] = (IF v \in tx.applied THEN 1 ELSE 0)
                        + (IF tx.executed /\ v = tx.at THEN 1 ELSE 0)
         /\ v < tx.at => v \in tx.applied
         /\ v >= tx.at => (v \in tx.applied <=> v \in db.applied)

SchemaInv == SchemaIsWhole /\ Half

LEMMA SchemaStep == ProcessTypes /\ SchemaTypes /\ SchemaInv /\ [Next]_vars => SchemaInv'
  <1> SUFFICES ASSUME ProcessTypes, SchemaTypes, SchemaInv, [Next]_vars PROVE SchemaInv'
    OBVIOUS
  <1> USE DEF environment, durable, serving, triggerVars
  <1>0. /\ MaxVersion \in Nat /\ version \in Version /\ Version \subseteq Nat /\ stage \in Stages
        /\ Version = 1..MaxVersion
    BY DaemonAssumption DEF ProcessTypes, Version
  <1>1. ASSUME stage = "migrate", tx.at <= version
        PROVE  tx \in TxRecord /\ tx.at \in Version /\ tx.at + 1 \in 1..MaxVersion + 1
    BY <1>0, <1>1 DEF SchemaTypes, TxRecord
  <1>2. CASE OpenStore
    BY <1>0, <1>2 DEF OpenStore, SchemaInv, SchemaIsWhole, Half
  <1>3. CASE SkipMigration
    <2>1. /\ tx' \in TxRecord /\ tx'.at = tx.at + 1 /\ tx'.ran = tx.ran
          /\ tx'.applied = tx.applied /\ tx'.executed = tx.executed
      BY <1>1, <1>3, TxUpdates DEF SkipMigration, Migrate
    <2>2. /\ db' = db /\ version' = version /\ stage = "migrate" /\ stage' = "migrate"
          /\ tx.at \in db.applied /\ ~tx.executed
      BY <1>3 DEF SkipMigration, Migrate, SchemaTypes
    <2> QED
      BY <1>0, <1>1, <1>3, <2>1, <2>2 DEF SkipMigration, SchemaInv, SchemaIsWhole, Half
  <1>4. CASE ExecMigration
    <2>1. /\ tx' \in TxRecord /\ tx'.at = tx.at /\ tx'.ran = [tx.ran EXCEPT ![tx.at] = @ + 1]
          /\ tx'.applied = tx.applied /\ tx'.executed
      BY <1>1, <1>4, TxUpdates DEF ExecMigration, Migrate
    <2>2. /\ db' = db /\ version' = version /\ stage = "migrate" /\ stage' = "migrate"
          /\ tx.at \notin db.applied /\ ~tx.executed
      BY <1>4 DEF ExecMigration, Migrate
    <2>3. tx.ran \in [Version -> Nat] /\ tx.at \in Version
      BY <1>1, <1>4, <2>2 DEF ExecMigration, TxRecord
    <2> QED
      BY <1>0, <2>1, <2>2, <2>3 DEF SchemaInv, SchemaIsWhole, Half
  <1>5. CASE RecordMigration
    <2>1. /\ tx' \in TxRecord /\ tx'.at = tx.at + 1 /\ tx'.ran = tx.ran
          /\ tx'.applied = tx.applied \cup {tx.at} /\ ~tx'.executed
      BY <1>1, <1>5, TxUpdates DEF RecordMigration, Migrate, SchemaTypes
    <2>2. /\ db' = db /\ version' = version /\ stage = "migrate" /\ stage' = "migrate"
          /\ tx.executed
      BY <1>5 DEF RecordMigration, Migrate
    <2>3. tx.at \in Version
      BY <1>1, <2>2 DEF SchemaTypes
    <2> QED
      BY <1>0, <2>1, <2>2, <2>3 DEF SchemaInv, SchemaIsWhole, Half
  <1>6. CASE CommitMigrations
    <2>1. /\ db' = [ran |-> tx.ran, applied |-> tx.applied] /\ stage = "migrate"
          /\ stage' = "docker" /\ tx.at > version /\ version' = version
      BY <1>6 DEF CommitMigrations
    <2>2. ~tx.executed /\ tx.at \in Nat
      BY <1>0, <2>1 DEF SchemaTypes, TxRecord
    <2> QED
      BY <1>0, <2>1, <2>2 DEF SchemaInv, SchemaIsWhole, Half
  <1>7. CASE Start \/ OpenFails \/ ConnectDocker \/ ConnectFails \/ SetMetadata \/ Apply
             \/ RunFails \/ Exit \/ Crash
    BY <1>0, <1>7
    DEF Start, OpenFails, ConnectDocker, ConnectFails, SetMetadata, Apply, RunFails, Exit, Crash,
        Gone, SchemaInv, SchemaIsWhole, Half, Stages
  <1>8. CASE SyncScheduler \/ SyncTriggers \/ StartLoops \/ ShutdownHTTP \/ Drain
             \/ ForgetTriggers \/ CloseResources \/ WaitForLoops \/ ShutdownAfterError
    BY <1>0, <1>8
    DEF SyncScheduler, SyncTriggers, StartLoops, ShutdownHTTP, Drain, ForgetTriggers,
        CloseResources, WaitForLoops, ShutdownAfterError, SchemaInv, SchemaIsWhole, Half, Stages
  <1>9. CASE Edit
    BY <1>0, <1>9 DEF Edit, SchemaInv, SchemaIsWhole, Half
  <1>10. CASE Cancel \/ Listen \/ ListenFails \/ (\E l \in loops : LoopReturns(l))
             \/ Handling \/ UNCHANGED vars
    <2>1. UNCHANGED <<db, tx, stage, version>>
      BY <1>10
      DEF Cancel, Listen, ListenFails, LoopReturns, Handling, HandlerStep, TriggeredJobEnds,
          ClientSends, DaemonUnchanged, vars
    <2> QED
      BY <2>1 DEF SchemaInv, SchemaIsWhole, Half
  <1> QED
    BY <1>2, <1>3, <1>4, <1>5, <1>6, <1>7, <1>8, <1>9, <1>10 DEF Next, Bootstrap, Run, Handling

\* SchemaIsWhole: whatever fails or dies, and whatever versions of the program
\* have run, a recorded migration ran once and any other not at all.
THEOREM MigrationsAreAtomic == Spec => []SchemaIsWhole
  <1> DEFINE Inv == Types /\ Held /\ SchemaInv
  <1>1. Init => Inv
    <2>1. Init => SchemaInv
      BY DEF Init, SchemaInv, SchemaIsWhole, Half
    <2> QED
      BY <2>1, TypesInit
  <1>2. Inv /\ [Next]_vars => Inv'
    BY TypesStep, SchemaStep DEF Types
  <1>3. Inv => SchemaIsWhole
    BY DEF SchemaInv
  <1> QED
    BY <1>1, <1>2, <1>3, PTL DEF Spec

-----------------------------------------------------------------------------
(* From start to shutdown *)

AfterTriggers == {"spawn"} \cup Serving
AfterSchedule == {"triggers"} \cup AfterTriggers
AfterApply == {"schedule"} \cup AfterSchedule
AfterMeta == {"apply"} \cup AfterApply

Installed(list) == engine = [hash |-> loaded, triggers |-> Elements(list)]

\* What is in place at each stage of Run is of the file that was read.
StartUp ==
  /\ stage \in AfterMeta => meta = loaded
  /\ stage \in AfterApply => deployed = loaded
  /\ stage \in AfterSchedule => registered = {Stack.jobs[i].name : i \in Scheduled}
  /\ stage \in {"spawn", "serve", "drain", "forget"} => Installed(Stack.triggers)
  /\ stage \in {"close", "wait"} => Installed(<<>>)

LEMMA StartUpStep == StartUp /\ Accepted /\ [Next]_vars => StartUp'
  <1> SUFFICES ASSUME StartUp, Accepted, [Next]_vars PROVE StartUp'
    OBVIOUS
  <1> USE DEF environment, durable, serving, triggerVars, Serving, AfterTriggers, AfterSchedule,
              AfterApply, AfterMeta, Installed
  <1>1. CASE stage' \notin AfterMeta
    BY <1>1 DEF StartUp
  <1>2. CASE /\ UNCHANGED <<loaded, stage, meta, registered, engine>>
             /\ stage = "apply" \/ deployed' = deployed
    BY <1>2, SameFile DEF StartUp
  <1>3. CASE SetMetadata \/ Apply
    BY <1>3, SameFile DEF SetMetadata, Apply, StartUp
  <1>4. CASE SyncScheduler
    <2>1. Bad = {} => {k \in Scheduled : \A b \in Bad : k < b} = Scheduled
      OBVIOUS
    <2> QED
      BY <1>4, <2>1, SameFile DEF SyncScheduler, StartUp
  <1>5. CASE SyncTriggers
    <2>1. TriggerSetValid(Stack.triggers)
      BY <1>5, ParsedIsUsable DEF SyncTriggers, Accepted
    <2> QED
      BY <1>5, <2>1, SameFile DEF SyncTriggers, Sync, StartUp
  <1>6. CASE ForgetTriggers
    BY <1>6, SameFile, NoTriggersValid DEF ForgetTriggers, Sync, StartUp
  <1>7. CASE StartLoops \/ ShutdownHTTP \/ Drain \/ CloseResources
    BY <1>7, SameFile DEF StartLoops, ShutdownHTTP, Drain, CloseResources, StartUp
  <1>8. CASE Start \/ OpenStore \/ SkipMigration \/ ExecMigration \/ RecordMigration
             \/ CommitMigrations \/ OpenFails \/ ConnectDocker \/ ConnectFails \/ RunFails
             \/ WaitForLoops \/ ShutdownAfterError \/ Exit \/ Crash
    BY <1>1, <1>8
    DEF Start, OpenStore, SkipMigration, ExecMigration, RecordMigration, Migrate,
        CommitMigrations, OpenFails, ConnectDocker, ConnectFails, RunFails, WaitForLoops,
        ShutdownAfterError, Exit, Crash, Gone
  <1>9. CASE Cancel \/ Edit \/ Listen \/ ListenFails \/ (\E l \in loops : LoopReturns(l))
             \/ Handling \/ UNCHANGED vars
    BY <1>2, <1>9
    DEF Cancel, Edit, Listen, ListenFails, LoopReturns, Handling, HandlerStep, TriggeredJobEnds,
        ClientSends, DaemonUnchanged, Health, CopyTriggers, NoMatch, Dispatch, JobEnds, Accept,
        vars
  <1> QED
    BY <1>3, <1>4, <1>5, <1>6, <1>7, <1>8, <1>9 DEF Next, Bootstrap, Run, Handling

LEMMA StartUpInit == Init => StartUp /\ Accepted
  BY DEF Init, StartUp, Accepted, AfterMeta, AfterApply, AfterSchedule, AfterTriggers, Serving

\* ServesOneFile: what a process serves is the file it read, as a whole.
THEOREM OneFileIsServed == Spec => []ServesOneFile
  <1> DEFINE Inv == Types /\ Held /\ StartUp /\ Accepted
  <1>1. Init => Inv
    BY TypesInit, StartUpInit
  <1>2. Inv /\ [Next]_vars => Inv'
    BY TypesStep, StartUpStep, AcceptedStep
  <1>3. Inv => ServesOneFile
    BY DEF Held, StartUp, Installed, ServesOneFile, AfterMeta, AfterApply, AfterSchedule,
           AfterTriggers, Serving
  <1> QED
    BY <1>1, <1>2, <1>3, PTL DEF Spec

\* A process whose Bootstrap failed or whose Run ended after a cancellation has
\* nothing open, no loop and no transaction; one whose Run returned an error has
\* no loop and no transaction (what it opened, daemon.go does not close).
THEOREM EndLeavesNothing == Spec => []NothingLeftOpen
  <1>1. Init => Held
    BY TypesInit
  <1>2. Held /\ [Next]_vars => Held'
    BY HeldStep
  <1>3. Held => NothingLeftOpen
    BY DEF Held, Serving, NothingLeftOpen
  <1> QED
    BY <1>1, <1>2, <1>3, PTL DEF Spec

Ends == {"drain", "forget", "close", "wait", "returned"}

\* Requests are there only while the server is or was; from Drain on a handler
\* that is still at work is one the server was left with.
Closing ==
  /\ http = "listening" => stage = "serve"
  /\ stage \in Ends => http = "closed"
  /\ (\E q \in Request : requests[q].at # "unsent") =>
       stage \in Serving \/ (stage = "returned" /\ engine.triggers = {})
  /\ stage \in {"forget", "close", "wait", "returned"} /\ (\E q \in Request : Active(q)) => overran
  /\ overran => stage \in {"forget", "close", "wait", "returned"}

LEMMA ClosingStep ==
  HandlerTypes /\ Held /\ StartUp /\ Closing /\ [Next]_vars => Closing'
  <1> SUFFICES ASSUME HandlerTypes, Held, StartUp, Closing, [Next]_vars PROVE Closing'
    OBVIOUS
  <1> USE DEF environment, durable, serving, triggerVars, Serving, Ends
  <1>1. CASE Start \/ OpenStore \/ SkipMigration \/ ExecMigration \/ RecordMigration
             \/ CommitMigrations \/ OpenFails \/ ConnectDocker \/ ConnectFails
    BY <1>1
    DEF Start, OpenStore, SkipMigration, ExecMigration, RecordMigration, Migrate,
        CommitMigrations, OpenFails, ConnectDocker, ConnectFails, Closing, Active
  <1>2. CASE SetMetadata \/ Apply \/ RunFails \/ SyncScheduler \/ SyncTriggers \/ StartLoops
    BY <1>2
    DEF SetMetadata, Apply, RunFails, SyncScheduler, SyncTriggers, StartLoops, Closing, Active
  <1>3. CASE ShutdownHTTP \/ ForgetTriggers \/ CloseResources
    BY <1>3 DEF ShutdownHTTP, ForgetTriggers, CloseResources, Closing, Active
  <1>4. CASE WaitForLoops
    BY <1>4, NoTriggersValid DEF WaitForLoops, StartUp, Installed, Closing, Active
  <1>5. CASE ShutdownAfterError
    BY <1>5 DEF ShutdownAfterError, EmptyEngine, Closing, Active
  <1>6. CASE Exit \/ Crash
    BY <1>6 DEF Exit, Crash, Gone, Unsent, Closing, Active
  <1>7. CASE Listen
    BY <1>7 DEF Listen, Held, Closing, Active
  <1>8. CASE ListenFails
    BY <1>8 DEF ListenFails, Held, Closing, Active
  <1>9. CASE Cancel \/ Edit \/ (\E l \in loops : LoopReturns(l)) \/ UNCHANGED vars
    BY <1>9 DEF Cancel, Edit, LoopReturns, Closing, Active, vars
  <1>10. CASE Handling
    <2>1. PICK q \in Request : \/ HandlerStep(q) \/ TriggeredJobEnds(q)
                               \/ \E p \in Path, m \in Method : ClientSends(q, p, m)
      BY <1>10 DEF Handling
    <2>2. /\ engine' = engine /\ \A r \in Request \ {q} : requests'[r] = requests[r]
      BY <2>1, HandlerType
    <2>3. UNCHANGED <<stage, http, overran>>
      BY <2>1 DEF HandlerStep, TriggeredJobEnds, ClientSends, DaemonUnchanged
    <2>4. requests[q].at = "unsent" => http = "listening"
      BY <2>1
      DEF HandlerStep, TriggeredJobEnds, ClientSends, Health, CopyTriggers, NoMatch, Dispatch,
          JobEnds
    <2>5. Active(q) \/ requests[q].at = "unsent"
      BY <2>1
      DEF HandlerStep, TriggeredJobEnds, ClientSends, Health, CopyTriggers, NoMatch, Dispatch,
          JobEnds, Accept, Active
    <2> QED
      BY <2>2, <2>3, <2>4, <2>5 DEF Closing, Active
  <1>11. CASE Drain
    <2>1. /\ stage = "drain" /\ stage' = "forget" /\ UNCHANGED <<http, requests, engine>>
          /\ overran' = \E q \in Request : Active(q)
      BY <1>11 DEF Drain
    <2>2. http = "closed"
      BY <2>1 DEF Closing
    <2>3. (\E q \in Request : Active(q))' => overran'
      BY <2>1 DEF Active
    <2> QED
      BY <2>1, <2>2, <2>3 DEF Closing
  <1> QED
    BY <1>1, <1>2, <1>3, <1>4, <1>5, <1>6, <1>7, <1>8, <1>9, <1>10, <1>11
    DEF Next, Bootstrap, Run, Handling

-----------------------------------------------------------------------------
(* The answers *)

Matches(q) ==
  {t \in Elements(Stack.triggers) : HTTPMatches(t, requests[q].path, requests[q].method)}

\* What the handler of request q knows at each of its steps.
Handled(q) ==
  /\ requests[q].at = "unsent" => requests[q].answer = 0 /\ requests[q].trigger = None
  /\ requests[q].at \in {"accepted", "matching"} =>
       requests[q].answer = 0 /\ requests[q].trigger = None
  /\ requests[q].at = "matching" =>
       /\ requests[q].copy.triggers \subseteq Elements(Stack.triggers)
       /\ requests[q].copy.triggers = Elements(Stack.triggers) \/ overran
  /\ requests[q].at = "running" => requests[q].answer = 0 /\ requests[q].trigger # None
  /\ requests[q].answer = 404 => Matches(q) = {} \/ overran
  /\ requests[q].trigger # None => requests[q].trigger \in Matches(q)
  /\ requests[q].answer = 202 => requests[q].trigger # None

AllHandled == \A q \in Request : Handled(q)

\* Handled(q) is about the request, the file and overran, which only grows.
LEMMA HandledStays ==
  ASSUME NEW q \in Request, Handled(q), requests'[q] = requests[q], loaded' = loaded,
         overran => overran'
  PROVE  Handled(q)'
  BY SameFile DEF Handled, Matches

LEMMA HandlingStep ==
  ASSUME ProcessTypes, HandlerTypes, StartUp, Closing, AllHandled, Handling
  PROVE  AllHandled'
  <1>1. PICK q \in Request : \/ HandlerStep(q) \/ TriggeredJobEnds(q)
                             \/ \E p \in Path, m \in Method : ClientSends(q, p, m)
    BY DEF Handling
  <1>2. \A r \in Request \ {q} : requests'[r] = requests[r]
    BY <1>1, HandlerType
  <1>3. loaded' = loaded /\ overran' = overran /\ Stack' = Stack
    BY <1>1, SameFile DEF HandlerStep, TriggeredJobEnds, ClientSends, DaemonUnchanged
  <1>4. \A r \in Request \ {q} : Handled(r)'
    BY <1>2, <1>3, HandledStays DEF AllHandled
  <1> DEFINE R == requests[q]
             S == requests'[q]
  <1>5. R \in RequestRecord /\ requests \in [Request -> RequestRecord] /\ RequestShape(R)
        /\ Handled(q)
    BY DEF HandlerTypes, AllHandled
  <1>6. ASSUME NEW n \in {200, 202, 404, 500}, requests' = Answer(q, n)
        PROVE  /\ S.at = "answered" /\ S.path = R.path /\ S.method = R.method
               /\ S.trigger = R.trigger /\ S.answer = n
    BY <1>5, <1>6 DEF Answer, RequestRecord
  <1>7. ASSUME S.at = "answered", S.path = R.path, S.method = R.method, S.trigger = R.trigger,
               S.answer = 404 => Matches(q) = {} \/ overran, S.answer = 202 => R.trigger # None
        PROVE  Handled(q)'
    BY <1>3, <1>5, <1>7 DEF Handled, Matches
  <1>8. ASSUME Health(q) PROVE Handled(q)'
    BY <1>6, <1>7, <1>8 DEF Health
  <1>9. ASSUME JobEnds(q) PROVE Handled(q)'
    <2>1. R.trigger # None
      BY <1>5, <1>9 DEF JobEnds, Handled
    <2> QED
      BY <1>6, <1>7, <1>9, <2>1 DEF JobEnds
  <1>10. ASSUME NoMatch(q) PROVE Handled(q)'
    <2>1. Matches(q) = {} \/ overran
      BY <1>5, <1>10 DEF NoMatch, Matching, Matches, Handled
    <2> QED
      BY <1>6, <1>7, <1>10, <2>1 DEF NoMatch
  <1>11. ASSUME NEW p \in Path, NEW m \in Method, Accept(q, p, m) PROVE Handled(q)'
    <2>1. S.at = "accepted" /\ S.answer = 0 /\ S.trigger = None
      BY <1>5, <1>11 DEF Accept, NewRequest
    <2> QED
      BY <2>1 DEF Handled
  <1>12. ASSUME CopyTriggers(q) PROVE Handled(q)'
    <2>1. /\ S.at = "matching" /\ S.copy = engine /\ S.answer = R.answer /\ S.trigger = R.trigger
          /\ R.at = "accepted"
      BY <1>5, <1>12 DEF CopyTriggers, RequestRecord
    <2>2. S.answer = 0 /\ S.trigger = None
      BY <1>5, <2>1 DEF Handled
    <2>3. /\ engine.triggers \subseteq Elements(Stack.triggers)
          /\ engine.triggers = Elements(Stack.triggers) \/ overran
      <3>1. stage \in Serving \/ (stage = "returned" /\ engine.triggers = {})
        BY <2>1 DEF Closing
      <3>2. stage \in {"close", "wait", "returned"} => overran
        BY <2>1 DEF Closing, Active
      <3>3. stage \in {"serve", "drain", "forget"} => engine.triggers = Elements(Stack.triggers)
        BY DEF StartUp, Installed
      <3>4. stage \in {"close", "wait"} => engine.triggers = {}
        BY NoTriggersValid DEF StartUp, Installed
      <3> QED
        BY <3>1, <3>2, <3>3, <3>4 DEF Serving
    <2> QED
      BY <1>3, <2>1, <2>2, <2>3 DEF Handled
  <1>13. ASSUME Dispatch(q, JobNames) PROVE Handled(q)'
    <2>1. PICK t \in Matching(q) :
            requests' = IF t.target.kind = "job" /\ t.target.name \in JobNames
                        THEN [requests EXCEPT ![q].at = "running", ![q].trigger = t]
                        ELSE Answer(q, 500)
      BY <1>13 DEF Dispatch
    <2>2. CASE requests' = Answer(q, 500)
      BY <1>6, <1>7, <2>2
    <2>3. CASE requests' = [requests EXCEPT ![q].at = "running", ![q].trigger = t]
      <3>1. /\ S.at = "running" /\ S.trigger = t /\ S.answer = R.answer
            /\ S.path = R.path /\ S.method = R.method
        BY <1>5, <2>3 DEF RequestRecord
      <3>2. R.at = "matching" /\ R.answer = 0
        BY <1>5, <1>13 DEF Dispatch, Handled
      <3>3. t \in Matches(q) /\ t # None
        BY <1>5, <3>2, StackTriggers DEF Matching, Matches, Handled
      <3> QED
        BY <1>3, <3>1, <3>2, <3>3 DEF Handled, Matches
    <2> QED
      BY <2>1, <2>2, <2>3
  <1>14. Handled(q)'
    BY <1>1, <1>8, <1>9, <1>10, <1>11, <1>12, <1>13
    DEF HandlerStep, TriggeredJobEnds, ClientSends
  <1> QED
    BY <1>4, <1>14 DEF AllHandled

LEMMA HandledStep ==
  ProcessTypes /\ HandlerTypes /\ StartUp /\ Closing /\ AllHandled /\ [Next]_vars => AllHandled'
  <1> SUFFICES ASSUME ProcessTypes, HandlerTypes, StartUp, Closing, AllHandled, [Next]_vars
               PROVE  AllHandled'
    OBVIOUS
  <1> USE DEF environment, durable, serving, triggerVars
  <1>1. CASE Handling
    BY <1>1, HandlingStep
  <1>2. CASE Exit \/ Crash
    <2>1. \A q \in Request : requests'[q] = Unsent
      BY <1>2 DEF Exit, Crash, Gone
    <2> QED
      BY <2>1 DEF AllHandled, Handled, Unsent
  <1>3. CASE Start
    <2>1. \A q \in Request : requests'[q] = requests[q] /\ requests[q].at = "unsent"
      BY <1>3 DEF Start, Closing, Serving
    <2> QED
      BY <2>1 DEF AllHandled, Handled
  <1>4. CASE Drain
    <2>1. overran => overran'
      BY <1>4 DEF Drain, Closing, Active, Ends
    <2> QED
      BY <1>4, <2>1, HandledStays DEF Drain, AllHandled
  <1>5. CASE UNCHANGED <<requests, loaded, overran>>
    BY <1>5, HandledStays DEF AllHandled
  <1>6. \/ OpenStore \/ SkipMigration \/ ExecMigration \/ RecordMigration \/ CommitMigrations
        \/ OpenFails \/ ConnectDocker \/ ConnectFails \/ SetMetadata \/ Apply \/ RunFails
        \/ SyncScheduler \/ SyncTriggers \/ StartLoops \/ ShutdownHTTP \/ ForgetTriggers
        \/ CloseResources \/ WaitForLoops \/ ShutdownAfterError \/ Cancel \/ Edit \/ Listen
        \/ ListenFails \/ (\E l \in loops : LoopReturns(l)) \/ UNCHANGED vars
        => UNCHANGED <<requests, loaded, overran>>
    BY DEF OpenStore, SkipMigration, ExecMigration, RecordMigration, Migrate, CommitMigrations,
           OpenFails, ConnectDocker, ConnectFails, SetMetadata, Apply, RunFails, SyncScheduler,
           SyncTriggers, StartLoops, ShutdownHTTP, ForgetTriggers, CloseResources, WaitForLoops,
           ShutdownAfterError, Cancel, Edit, Listen, ListenFails, LoopReturns, vars
  <1> QED
    BY <1>1, <1>2, <1>3, <1>4, <1>5, <1>6 DEF Next, Bootstrap, Run, Handling

\* AnswersAreTrue: also for the requests that meet the shutdown, 404 means that
\* nothing matches, or the server was left before the handler had its copy; a
\* job runs only for a trigger of the file that matches.
THEOREM HandlersTellTheTruth == Spec => []AnswersAreTrue
  <1> DEFINE Inv == Types /\ Held /\ StartUp /\ Accepted /\ Closing /\ AllHandled
  <1>1. Init => Inv
    <2> SUFFICES ASSUME Init PROVE Closing /\ AllHandled
      BY TypesInit, StartUpInit
    <2>1. \A q \in Request : requests[q] = Unsent
      BY DEF Init, EngineInit
    <2> QED
      BY <2>1 DEF Init, Closing, Ends, Active, AllHandled, Handled, Unsent
  <1>2. Inv /\ [Next]_vars => Inv'
    BY TypesStep, StartUpStep, AcceptedStep, ClosingStep, HandledStep DEF Types
  <1>3. Inv => AnswersAreTrue
    BY DEF AllHandled, Handled, Matches, AnswersAreTrue
  <1> QED
    BY <1>1, <1>2, <1>3, PTL DEF Spec
=============================================================================
