------------------------- MODULE HealthMonitorProofs -------------------------
(***************************************************************************)
(* Proofs about HealthMonitor, for any policies, delays and bounds.        *)
(***************************************************************************)
EXTENDS HealthMonitor, OrderFacts

-----------------------------------------------------------------------------
(* The delay *)

\* Round i of BackoffDelay's loop, after round i - 1 left d[i - 1].
Round(d, i) ==
  IF i = 0 THEN Base ELSE IF d[i - 1] * 2 >= Ceiling THEN Ceiling ELSE d[i - 1] * 2

Delay == CHOOSE d : d = [i \in 0..MaxAttempts |-> Round(d, i)]

LEMMA DelayMeans ==
  ASSUME NEW attempt
  PROVE  BackoffDelay(attempt) = IF attempt = 0 THEN Base ELSE Delay[attempt - 1]
  BY DEF BackoffDelay, Delay, Round

LEMMA RoundType ==
  ASSUME NEW d, NEW i \in Nat, i > 0 => d[i - 1] \in 0..Ceiling
  PROVE  Round(d, i) \in 0..Ceiling
  BY ConstantsAssumption DEF Round

\* There is a table of n rounds, for every n.
LEMMA TableExists ==
  \A n \in Nat : \E d \in [0..n -> 0..Ceiling] : \A i \in 0..n : d[i] = Round(d, i)
  <1> DEFINE Table(n) == \E d \in [0..n -> 0..Ceiling] : \A i \in 0..n : d[i] = Round(d, i)
             Bad == {n \in Nat : ~Table(n)}
  <1>1. SUFFICES ASSUME Bad # {} PROVE FALSE
    OBVIOUS
  <1>2. PICK m \in Bad : \A n \in Bad : m <= n
    BY <1>1, LeastExists
  <1>3. CASE m = 0
    <2> DEFINE d == [i \in 0..0 |-> Base]
    <2>1. d \in [0..0 -> 0..Ceiling] /\ \A i \in 0..0 : d[i] = Round(d, i)
      BY ConstantsAssumption DEF Round
    <2> QED
      BY <1>3, <2>1
  <1>4. CASE m # 0
    <2>1. m \in Nat /\ m - 1 \in Nat /\ m - 1 \notin Bad
      <3> HIDE DEF Table
      <3>1. m \in Nat /\ m - 1 \in Nat /\ ~(m <= m - 1)
        BY <1>4
      <3> QED
        BY <1>2, <3>1
    <2>2. PICK d \in [0..(m - 1) -> 0..Ceiling] : \A i \in 0..(m - 1) : d[i] = Round(d, i)
      BY <2>1
    <2> DEFINE e == [i \in 0..m |-> IF i = m THEN Round(d, m) ELSE d[i]]
    <2>3. Round(d, m) \in 0..Ceiling
      BY <1>4, <2>1, <2>2, RoundType
    <2>4. e \in [0..m -> 0..Ceiling]
      BY <2>1, <2>2, <2>3
    <2>5. ASSUME NEW i \in 0..m PROVE e[i] = Round(e, i)
      <3>1. i > 0 => e[i - 1] = d[i - 1]
        BY <2>1
      <3>2. Round(e, i) = Round(d, i)
        BY <3>1 DEF Round
      <3> QED
        BY <2>1, <2>2, <3>2
    <2> QED
      BY <2>1, <2>4, <2>5
  <1> QED
    BY <1>3, <1>4

\* Delay is such a table, of MaxAttempts rounds.
LEMMA DelayTable ==
  /\ DOMAIN Delay = 0..MaxAttempts
  /\ \A i \in 0..MaxAttempts : Delay[i] = Round(Delay, i) /\ Delay[i] \in 0..Ceiling
  <1> DEFINE N == MaxAttempts
  <1>0. N \in Nat
    BY ConstantsAssumption
  <1>1. \E d : d = [i \in 0..N |-> Round(d, i)]
    <2>1. PICK d \in [0..N -> 0..Ceiling] : \A i \in 0..N : d[i] = Round(d, i)
      BY <1>0, TableExists
    <2>2. d = [i \in 0..N |-> Round(d, i)]
      BY <2>1
    <2> QED
      BY <2>2
  <1>2. Delay = [i \in 0..N |-> Round(Delay, i)]
    BY <1>1, Zenon DEF Delay
  <1> DEFINE Bad == {i \in 0..N : Delay[i] \notin 0..Ceiling}
  <1>3. ASSUME Bad # {} PROVE FALSE
    <2>0. Bad \in SUBSET Nat
      BY <1>0
    <2>1. PICK m \in Bad : \A n \in Bad : m <= n
      <3> HIDE DEF Bad
      <3> QED
        BY <1>3, <2>0, LeastExists
    <2>2. m \in Nat /\ (m > 0 => m - 1 \in 0..N /\ m - 1 \notin Bad)
      BY <1>0, <2>1
    <2>3. Delay[m] = Round(Delay, m)
      BY <1>2, <2>1
    <2> QED
      BY <2>1, <2>2, <2>3, RoundType
  <1> QED
    BY <1>2, <1>3

\* The same of Doubled, Base doubled again and again without a limit.
LEMMA PowersExist ==
  \A n \in Nat : \E d \in [0..n -> Nat] :
    \A i \in 0..n : d[i] = IF i = 0 THEN Base ELSE 2 * d[i - 1]
  <1> DEFINE Rule(d, i) == IF i = 0 THEN Base ELSE 2 * d[i - 1]
             Table(n) == \E d \in [0..n -> Nat] : \A i \in 0..n : d[i] = Rule(d, i)
             Bad == {n \in Nat : ~Table(n)}
  <1>1. SUFFICES ASSUME Bad # {} PROVE FALSE
    OBVIOUS
  <1>2. PICK m \in Bad : \A n \in Bad : m <= n
    BY <1>1, LeastExists
  <1>3. CASE m = 0
    <2> DEFINE d == [i \in 0..0 |-> Base]
    <2>1. d \in [0..0 -> Nat] /\ \A i \in 0..0 : d[i] = Rule(d, i)
      BY ConstantsAssumption
    <2> QED
      BY <1>3, <2>1
  <1>4. CASE m # 0
    <2>1. m \in Nat /\ m - 1 \in Nat /\ m - 1 \notin Bad
      <3> HIDE DEF Table
      <3>1. m \in Nat /\ m - 1 \in Nat /\ ~(m <= m - 1)
        BY <1>4
      <3> QED
        BY <1>2, <3>1
    <2>2. PICK d \in [0..(m - 1) -> Nat] : \A i \in 0..(m - 1) : d[i] = Rule(d, i)
      BY <2>1
    <2> DEFINE e == [i \in 0..m |-> IF i = m THEN Rule(d, m) ELSE d[i]]
    <2>3. Rule(d, m) \in Nat
      BY <1>4, <2>1, <2>2
    <2>4. e \in [0..m -> Nat]
      BY <2>1, <2>2, <2>3
    <2>5. ASSUME NEW i \in 0..m PROVE e[i] = Rule(e, i)
      <3>1. i > 0 => e[i - 1] = d[i - 1]
        BY <2>1
      <3>2. Rule(e, i) = Rule(d, i)
        BY <3>1
      <3>3. e[i] = Rule(d, i)
        <4> HIDE DEF Rule
        <4> QED
          BY <2>1, <2>2
      <3> QED
        BY <3>2, <3>3
    <2> QED
      BY <2>1, <2>4, <2>5
  <1> QED
    BY <1>3, <1>4

LEMMA DoubledTable ==
  \A i \in 0..MaxAttempts :
    Doubled[i] \in Nat /\ Doubled[i] = IF i = 0 THEN Base ELSE 2 * Doubled[i - 1]
  <1> DEFINE N == MaxAttempts
             F(d) == d = [i \in 0..N |-> IF i = 0 THEN Base ELSE 2 * d[i - 1]]
  <1>0. N \in Nat
    BY ConstantsAssumption
  <1>1. \E d : F(d)
    <2>1. PICK d \in [0..N -> Nat] : \A i \in 0..N : d[i] = IF i = 0 THEN Base ELSE 2 * d[i - 1]
      BY <1>0, PowersExist
    <2>2. F(d)
      BY <2>1
    <2> QED
      BY <2>2
  <1>2. F(Doubled)
    <2>1. Doubled = CHOOSE d : F(d)
      BY DEF Doubled
    <2> HIDE DEF F
    <2> QED
      BY <1>1, <2>1
  <1>3. \A i \in 0..N : Doubled[i] = IF i = 0 THEN Base ELSE 2 * Doubled[i - 1]
    BY <1>2
  <1> DEFINE Bad == {i \in 0..N : Doubled[i] \notin Nat}
  <1>4. ASSUME Bad # {} PROVE FALSE
    <2>0. Bad \in SUBSET Nat
      BY <1>0
    <2>1. PICK m \in Bad : \A n \in Bad : m <= n
      <3> HIDE DEF Bad
      <3> QED
        BY <1>4, <2>0, LeastExists
    <2>2. m \in Nat /\ (m > 0 => m - 1 \in 0..N /\ m - 1 \notin Bad)
      BY <1>0, <2>1
    <2>3. Doubled[m] = IF m = 0 THEN Base ELSE 2 * Doubled[m - 1]
      BY <1>3
    <2> QED
      BY <2>1, <2>2, <2>3, ConstantsAssumption
  <1> QED
    BY <1>3, <1>4

\* Cutting at every round is cutting at the end.
LEMMA DelayDoubles ==
  \A i \in 0..MaxAttempts : Delay[i] = IF Doubled[i] < Ceiling THEN Doubled[i] ELSE Ceiling
  <1> DEFINE N == MaxAttempts
             Cut(n) == IF n < Ceiling THEN n ELSE Ceiling
             Bad == {i \in 0..N : Delay[i] # Cut(Doubled[i])}
  <1>0. N \in Nat /\ Base \in Nat /\ Ceiling \in Nat /\ Base <= Ceiling
    BY ConstantsAssumption
  <1>1. ASSUME Bad # {} PROVE FALSE
    <2>0. Bad \in SUBSET Nat
      BY <1>0
    <2>1. PICK m \in Bad : \A n \in Bad : m <= n
      <3> HIDE DEF Bad
      <3> QED
        BY <1>1, <2>0, LeastExists
    <2>2. m \in 0..N /\ (m # 0 => m - 1 \in 0..N /\ m - 1 \notin Bad)
      BY <1>0, <2>1
    <2>3. Delay[m] = Round(Delay, m)
      BY <2>2, DelayTable
    <2>4. CASE m = 0
      BY <1>0, <2>1, <2>2, <2>3, <2>4, DoubledTable DEF Round
    <2>5. CASE m # 0
      <3>1. Delay[m - 1] = Cut(Doubled[m - 1]) /\ Doubled[m - 1] \in Nat
        BY <2>2, <2>5, DoubledTable
      <3>2. Doubled[m] = 2 * Doubled[m - 1]
        BY <2>2, <2>5, DoubledTable
      <3>3. Delay[m] = Cut(Doubled[m])
        BY <1>0, <2>3, <2>5, <3>1, <3>2 DEF Round
      <3> QED
        BY <2>1, <3>3
    <2> QED
      BY <2>4, <2>5
  <1> QED
    BY <1>1

\* The delay of an attempt is Base, doubled for every attempt before it but the
\* first, or Ceiling if that is less (BackoffDelay in monitor.go).
THEOREM BackoffDelayIsDoubledBase ==
  /\ Doubled[0] = Base /\ \A n \in 1..MaxAttempts : Doubled[n] = 2 * Doubled[n - 1]
  /\ \A a \in 0..MaxAttempts :
       LET doubled == Doubled[IF a = 0 THEN 0 ELSE a - 1]
       IN BackoffDelay(a) = IF doubled < Ceiling THEN doubled ELSE Ceiling
  <1>1. MaxAttempts \in Nat
    BY ConstantsAssumption
  <1>2. Doubled[0] = Base /\ \A n \in 1..MaxAttempts : Doubled[n] = 2 * Doubled[n - 1]
    BY <1>1, DoubledTable
  <1>3. ASSUME NEW a \in 0..MaxAttempts
        PROVE  LET doubled == Doubled[IF a = 0 THEN 0 ELSE a - 1]
               IN BackoffDelay(a) = IF doubled < Ceiling THEN doubled ELSE Ceiling
    <2> DEFINE i == IF a = 0 THEN 0 ELSE a - 1
    <2>1. i \in 0..MaxAttempts
      BY <1>1
    <2>2. BackoffDelay(a) = Delay[i]
      BY <1>1, DelayMeans, DelayTable DEF Round
    <2> HIDE DEF i
    <2>3. BackoffDelay(a) = IF Doubled[i] < Ceiling THEN Doubled[i] ELSE Ceiling
      BY <2>1, <2>2, DelayDoubles
    <2> QED
      BY <2>3 DEF i
  <1> QED
    BY <1>2, <1>3

LEMMA DelayType ==
  ASSUME NEW a \in 0..MaxAttempts PROVE BackoffDelay(a) \in 0..Ceiling
  <1>1. Base \in 0..Ceiling /\ (a # 0 => a - 1 \in 0..MaxAttempts)
    BY ConstantsAssumption
  <1> QED
    BY <1>1, DelayMeans, DelayTable

-----------------------------------------------------------------------------
(* Types *)

LEMMA RowOfType ==
  ASSUME NEW c \in Container, c.state # "absent" PROVE RowOf(c) \in Row
  <1>1. LifecycleStatusFromInfo(c) \in Lifecycle
    BY DEF LifecycleStatusFromInfo, Lifecycle, Container
  <1>2. HealthStatusFromInfo(c) \in Health
    BY DEF HealthStatusFromInfo, Health, Container
  <1> QED
    BY <1>1, <1>2 DEF RowOf, Row

\* What the engine makes of a container is a container.
LEMMA ContainerUpdates ==
  ASSUME container \in Container
  PROVE  /\ Started \in Container
         /\ \A s \in {"absent", "created", "running", "restarting", "paused", "exited",
                     "removing", "dead"} :
              [container EXCEPT !.state = s] \in Container
         /\ \A code \in BOOLEAN, s \in {"restarting", "exited"} :
              [container EXCEPT !.failed = code, !.state = s] \in Container
         /\ \A code \in BOOLEAN : [container EXCEPT !.state = "exited", !.failed = code] \in Container
         /\ \A h \in {"healthy", "unhealthy"} : [container EXCEPT !.health = h] \in Container
  BY DEF Container, Started

\* Whatever happens to the container, it stays one.
LEMMA ContainerStep ==
  ASSUME container \in Container, Change \/ EngineRestart \/ EngineStarts
  PROVE  container' \in Container
  <1>1. CASE ProcessEnds
    BY <1>1, ContainerUpdates DEF ProcessEnds
  <1>2. CASE EngineGivesUp \/ UserStops \/ UserStarts \/ EngineRestart
    BY <1>2, ContainerUpdates DEF EngineGivesUp, Becomes, UserStops, UserStarts, EngineRestart
  <1>3. CASE ProbeAnswers
    BY <1>3, ContainerUpdates DEF ProbeAnswers
  <1>4. CASE \/ Becomes({"running"}, "paused") \/ Becomes({"paused"}, "running")
             \/ Becomes({"exited"}, "removing")
             \/ \E s \in {"absent", "dead"} : Becomes({"exited", "running", "removing"}, s)
    BY <1>4, ContainerUpdates DEF Becomes
  <1>5. CASE EngineStarts
    BY <1>5, ContainerUpdates DEF EngineStarts
  <1> QED
    BY <1>1, <1>2, <1>3, <1>4, <1>5 DEF Change

LEMMA TypeStep == TypeOK /\ [Next]_vars => TypeOK'
  <1> SUFFICES ASSUME TypeOK, [Next]_vars PROVE TypeOK'
    OBVIOUS
  <1> USE DEF monitor
  <1>0. /\ Fault \/ CallFails \/ CallWorks \/ faults' = faults => faults' \in 0..MaxFaults
        /\ CountAttempt => attempts' \in 0..MaxAttempts
        /\ 0 \in 0..MaxAttempts
        /\ changes < MaxChanges => changes + 1 \in 0..MaxChanges
    BY ConstantsAssumption DEF Fault, CallFails, CallWorks, CountAttempt, TypeOK
  <1>1. BackoffDelay(attempts) \in 0..Ceiling
    BY DelayType DEF TypeOK
  <1>2. RowOf(info) \in Row /\ FailedRow \in Row
    BY RowOfType DEF TypeOK, FailedRow, Row, Lifecycle, Health
  <1>3. ASSUME MonitorStep, UNCHANGED <<policy, cancelled, changes>> PROVE TypeOK'
    <2>1. CASE Observe
      BY <1>0, <1>3, <2>1 DEF MonitorStep, Observe, InspectWorks, InspectFails, TypeOK
    <2>2. CASE Report \/ PersistAgain
      BY <1>0, <1>2, <1>3, <2>2 DEF MonitorStep, Report, PersistAgain, TypeOK
    <2>3. CASE Persist
      BY <1>0, <1>1, <1>2, <1>3, <2>3 DEF MonitorStep, Persist, TypeOK
    <2>4. CASE PersistFails \/ Backoff \/ Stop
      BY <1>0, <1>3, <2>4 DEF MonitorStep, PersistFails, Backoff, Stop, TypeOK
    <2>5. CASE InspectAgain
      BY <1>0, <1>3, <2>5 DEF MonitorStep, InspectAgain, InspectWorks, InspectFails, TypeOK
    <2> QED
      BY <1>3, <2>1, <2>2, <2>3, <2>4, <2>5 DEF MonitorStep
  <1>4. ASSUME RestartStep, UNCHANGED <<policy, cancelled, changes>> PROVE TypeOK'
    <2>1. container' \in Container
      BY <1>4, ContainerStep DEF RestartStep, RestartWorks, RestartFails, TypeOK
    <2> QED
      BY <1>0, <1>4, <2>1 DEF RestartStep, RestartWorks, RestartFails, TypeOK
  <1>5. CASE Engine
    BY <1>5, ContainerStep DEF Engine, EngineRestart, TypeOK
  <1>6. CASE Environment
    <2>1. CASE Change /\ UNCHANGED <<policy, cancelled, monitor, row, faults>>
      <3>1. container' \in Container /\ changes' \in 0..MaxChanges
        BY <1>0, <2>1, ContainerStep DEF Change, TypeOK
      <3> QED
        BY <2>1, <3>1 DEF TypeOK
    <2>2. CASE Cancel /\ UNCHANGED <<policy, container, monitor, row, changes, faults>>
      BY <2>2 DEF Cancel, TypeOK
    <2> QED
      BY <1>6, <2>1, <2>2 DEF Environment
  <1>7. CASE UNCHANGED vars
    BY <1>7 DEF vars, TypeOK
  <1> QED
    BY <1>3, <1>4, <1>5, <1>6, <1>7 DEF Next, Monitor

LEMMA TypeInit == Init => TypeOK
  <1> SUFFICES ASSUME Init PROVE TypeOK
    OBVIOUS
  <1>1. container \in Container /\ container.state = "running"
    BY DEF Init, Container
  <1>2. row \in Row
    BY DEF Init, Row, Lifecycle, Health
  <1>3. 0 \in 0..MaxAttempts /\ 0 \in 0..Ceiling /\ 0 \in 0..MaxChanges /\ 0 \in 0..MaxFaults
    BY ConstantsAssumption
  <1> QED
    BY <1>1, <1>2, <1>3 DEF Init, TypeOK

\* The types of HealthMonitor, in every behaviour: no delay is longer than
\* Ceiling, and no observation is of a container that is not there.
THEOREM TypeCorrect == Spec => []TypeOK
  BY TypeInit, TypeStep, PTL DEF Spec

-----------------------------------------------------------------------------
(* Restarts *)

\* ReasonIsRecorded: between the observation that asks for a restart and the
\* restart, its row is written and stays, whatever the container does meanwhile.
THEOREM RestartsAreExplained == Spec => []ReasonIsRecorded
  <1>1. Init => ReasonIsRecorded
    BY DEF Init, ReasonIsRecorded
  <1>2. ReasonIsRecorded /\ [Next]_vars => ReasonIsRecorded'
    <2> SUFFICES ASSUME ReasonIsRecorded, [Next]_vars PROVE ReasonIsRecorded'
      OBVIOUS
    <2> USE DEF monitor
    <2>1. CASE Persist /\ UNCHANGED policy
      BY <2>1 DEF Persist, ReasonIsRecorded
    <2>2. CASE Backoff /\ UNCHANGED policy
      BY <2>2 DEF Backoff, ReasonIsRecorded
    <2>3. CASE pc' \notin {"backoff", "restart"}
      BY <2>3 DEF ReasonIsRecorded
    <2>4. Observe \/ Report \/ PersistFails \/ InspectAgain \/ PersistAgain \/ Stop \/ RestartStep
          => pc' \notin {"backoff", "restart"}
      BY DEF Observe, Report, PersistFails, InspectAgain, InspectWorks, InspectFails,
             PersistAgain, Stop, RestartStep, RestartWorks, RestartFails
    <2>5. CASE UNCHANGED <<policy, monitor, row>>
      BY <2>5 DEF ReasonIsRecorded
    <2> QED
      BY <2>1, <2>2, <2>3, <2>4, <2>5
      DEF Next, Monitor, MonitorStep, Engine, Environment, vars
  <1> QED
    BY <1>1, <1>2, PTL DEF Spec

\* BackoffDoubles: the wait before a restart is that of the failed attempts
\* counted so far, and no attempt is counted during it.
THEOREM WaitsDouble == Spec => []BackoffDoubles
  <1>1. Init => BackoffDoubles
    BY DEF Init, BackoffDoubles
  <1>2. TypeOK /\ BackoffDoubles /\ [Next]_vars => BackoffDoubles'
    <2> SUFFICES ASSUME TypeOK, BackoffDoubles, [Next]_vars PROVE BackoffDoubles'
      OBVIOUS
    <2> USE DEF monitor
    <2>1. CASE Persist
      <3>1. CASE pc' # "backoff"
        BY <3>1 DEF BackoffDoubles
      <3>2. CASE pc' = "backoff"
        <4>1. wait' = BackoffDelay(attempts) /\ attempts' = attempts
          BY <2>1, <3>2 DEF Persist
        <4>2. attempts \in 0..MaxAttempts
          BY DEF TypeOK
        <4> QED
          BY <4>1, <4>2, BackoffDelayIsDoubledBase DEF BackoffDoubles
      <3> QED
        BY <3>1, <3>2
    <2>2. CASE pc' # "backoff"
      BY <2>2 DEF BackoffDoubles
    <2>3. CASE UNCHANGED monitor
      BY <2>3 DEF BackoffDoubles
    <2>4. Observe \/ Report \/ PersistFails \/ Backoff \/ InspectAgain \/ PersistAgain \/ Stop
            \/ RestartStep
          => pc' # "backoff"
      BY DEF Observe, Report, PersistFails, Backoff, InspectAgain, InspectWorks, InspectFails,
             PersistAgain, Stop, RestartStep, RestartWorks, RestartFails
    <2> QED
      BY <2>1, <2>2, <2>3, <2>4 DEF Next, Monitor, MonitorStep, Engine, Environment, vars
  <1> QED
    BY <1>1, <1>2, TypeCorrect, PTL DEF Spec
=============================================================================
