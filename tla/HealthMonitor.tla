--------------------------- MODULE HealthMonitor ---------------------------
(***************************************************************************)
(* The monitor of one service (internal/health): inspect the container,    *)
(* record what was seen, and, when the restart policy asks for it, wait    *)
(* and restart it.  The container changes under the monitor at any time:   *)
(* its process ends, its probe changes its mind, a user or the engine's    *)
(* own restart policy acts on it.                                          *)
(***************************************************************************)
EXTENDS Naturals

CONSTANTS
    Policies,     \* restart policies to consider
    Base, Ceiling,\* Monitor.baseBackoff and maxBackoff, in seconds
    MaxAttempts,  \* bound on the attempts that are counted
    MaxChanges,   \* bound on what users and the program do to the container
    MaxFaults     \* bound on failing calls of the engine and the database

ASSUME ConstantsAssumption ==
    /\ Policies \subseteq {"no", "always", "on-failure", "unless-stopped"}
    /\ Base \in Nat \ {0} /\ Ceiling \in Nat /\ Base <= Ceiling
    /\ MaxAttempts \in Nat /\ MaxChanges \in Nat /\ MaxFaults \in Nat

Container ==
    [state : {"absent", "created", "running", "restarting", "paused", "exited",
              "removing", "dead"},
     health : {"none", "starting", "healthy", "unhealthy"},
     failed : BOOLEAN]   \* the exit code is not 0

Lifecycle == {"running", "restarting", "starting", "stopped", "failed", "unknown"}
Health == {"unknown", "healthy", "degraded", "unhealthy"}
Row == [status : Lifecycle, health : Health]

VARIABLES
    policy,      \* the service's restart policy
    container,   \* the container, as the engine has it
    cancelled,   \* the context given to Run has ended
    pc,          \* where the monitor is
    info,        \* the container as the last inspection saw it
    attempts,    \* attempts of Run
    wait,        \* the delay that observe waits for
    row,         \* the service's row
    changes, faults

monitor == <<pc, info, attempts, wait>>
vars == <<policy, container, cancelled, monitor, row, changes, faults>>

----------------------------------------------------------------------------
(* checks.go *)

LifecycleStatusFromInfo(c) ==
    CASE c.state = "running"    -> "running"
      [] c.state = "restarting" -> "restarting"
      [] c.state = "created"    -> "starting"
      [] c.state \in {"paused", "exited"} -> "stopped"
      [] c.state = "dead"       -> "failed"
      [] OTHER                  -> "unknown"

HealthStatusFromInfo(c) ==
    CASE c.health = "healthy"   -> "healthy"
      [] c.health = "starting"  -> "degraded"
      [] c.health = "unhealthy" -> "unhealthy"
      [] c.health = "none"      -> "unknown"

IsDown(c) == LifecycleStatusFromInfo(c) \in {"stopped", "failed"}
IsUnhealthy(c) == HealthStatusFromInfo(c) = "unhealthy"

ShouldRestart(p, c) ==
    \/ /\ p = "always"
       /\ LifecycleStatusFromInfo(c) # "running" \/ IsUnhealthy(c)
    \/ /\ p = "on-failure"
       /\ IF IsDown(c) THEN c.failed ELSE IsUnhealthy(c)
    \/ /\ p = "unless-stopped"
       /\ IsDown(c) \/ IsUnhealthy(c)

\* Fault: nothing bounds the delay.
BackoffUncapped(attempt) == Base * 2^attempt

\* Fault: the first failed attempt doubles the delay.
BackoffOneMore(attempt) == IF Base * 2^attempt < Ceiling THEN Base * 2^attempt ELSE Ceiling

\* delay[i]: the value of delay after i rounds of doubling, cut at Ceiling.
BackoffDelay(attempt) ==
    LET delay[i \in 0..MaxAttempts] ==
          IF i = 0 THEN Base
          ELSE IF delay[i-1] * 2 >= Ceiling THEN Ceiling ELSE delay[i-1] * 2
    IN IF attempt = 0 THEN Base ELSE delay[attempt - 1]

----------------------------------------------------------------------------
FailedRow == [status |-> "failed", health |-> "unknown"]
RowOf(c) == [status |-> LifecycleStatusFromInfo(c), health |-> HealthStatusFromInfo(c)]

\* The monitor is started after Apply has started the container.
Init ==
    /\ policy \in Policies
    /\ container \in [state : {"running"}, health : {"none", "starting"}, failed : {FALSE}]
    /\ cancelled = FALSE /\ pc = "idle"
    /\ info = container /\ attempts = 0 /\ wait = 0
    /\ row = [status |-> "running", health |-> "unknown"]
    /\ changes = 0 /\ faults = 0

TypeOK ==
    /\ policy \in Policies /\ container \in Container /\ cancelled \in BOOLEAN
    /\ pc \in {"idle", "persist", "backoff", "restart", "inspectAgain", "persistAgain",
               "report", "done"}
    /\ info \in Container /\ info.state # "absent"
    /\ attempts \in 0..MaxAttempts /\ wait \in 0..Ceiling
    /\ row \in Row /\ changes \in 0..MaxChanges /\ faults \in 0..MaxFaults

\* A call of the engine or the database that fails for no reason of its own
\* uses up a fault; with an ended context every call fails.
Fault == ~cancelled /\ faults < MaxFaults /\ faults' = faults + 1

CallFails == Fault \/ (cancelled /\ UNCHANGED faults)

CallWorks == ~cancelled /\ UNCHANGED faults

CountAttempt == attempts' = IF attempts < MaxAttempts THEN attempts + 1 ELSE attempts

InspectWorks(next) ==
    /\ CallWorks /\ container.state # "absent"
    /\ info' = container /\ pc' = next
    /\ UNCHANGED <<attempts, wait, row>>

InspectFails ==
    /\ \/ CallFails
       \/ CallWorks /\ container.state = "absent"
    /\ pc' = "report"
    /\ UNCHANGED <<info, wait, row>>

\* The first observation, and one at every tick of Run.
Observe ==
    /\ pc = "idle"
    /\ \/ InspectWorks("persist")
       \/ InspectFails /\ CountAttempt

\* An error was met: the row says so, if the database takes it.
Report ==
    /\ pc = "report" /\ pc' = "idle"
    /\ \/ CallWorks /\ row' = FailedRow
       \/ CallFails /\ UNCHANGED row
    /\ UNCHANGED <<info, attempts, wait>>

\* Fault: the row is written before a restart only.
PersistOnRestart ==
    /\ pc = "persist" /\ CallWorks
    /\ IF ShouldRestart(policy, info)
       THEN /\ row' = RowOf(info) /\ pc' = "backoff" /\ wait' = BackoffDelay(attempts)
       ELSE pc' = "idle" /\ UNCHANGED <<row, wait>>
    /\ UNCHANGED <<info, attempts>>

\* Fault: a restart is tried when the recorded state has changed.
PersistOnTransition ==
    /\ pc = "persist" /\ CallWorks
    /\ row' = RowOf(info)
    /\ IF ShouldRestart(policy, info) /\ row # RowOf(info)
       THEN pc' = "backoff" /\ wait' = BackoffDelay(attempts)
       ELSE pc' = "idle" /\ UNCHANGED wait
    /\ UNCHANGED <<info, attempts>>

Persist ==
    /\ pc = "persist" /\ CallWorks
    /\ row' = RowOf(info)
    /\ IF ShouldRestart(policy, info)
       THEN /\ pc' = "backoff" /\ wait' = BackoffDelay(attempts)
            /\ UNCHANGED attempts
       ELSE /\ pc' = "idle" /\ UNCHANGED wait
            /\ attempts' = IF info.state = "running" /\ ~IsUnhealthy(info)
                           THEN 0 ELSE attempts
    /\ UNCHANGED info

\* Fault: the error of the database does not end the observation.
PersistErrorDropped ==
    /\ pc = "persist" /\ CallFails
    /\ pc' = IF ShouldRestart(policy, info) THEN "backoff" ELSE "idle"
    /\ wait' = BackoffDelay(attempts)
    /\ UNCHANGED <<info, attempts, row>>

PersistFails ==
    /\ pc = "persist" /\ CallFails
    /\ pc' = "idle"
    /\ UNCHANGED <<info, attempts, wait, row>>

\* The delay is over, or the context ended first.
Backoff ==
    /\ pc = "backoff"
    /\ \/ pc' = "restart"
       \/ cancelled /\ pc' = "idle"
    /\ UNCHANGED <<info, attempts, wait, row, faults>>

Started == [container EXCEPT !.state = "running", !.failed = FALSE,
                             !.health = IF @ = "none" THEN "none" ELSE "starting"]

\* What the engine makes of RestartContainer, for a container seen running,
\* and StartContainer, for any other.  A start of one that runs, or that the
\* engine is about to restart, does nothing; a paused one cannot be started, nor
\* can one that is being removed.
EngineRefuses ==
    \/ container.state \in {"absent", "removing", "dead"}
    \/ container.state = "paused" /\ info.state # "running"

EngineStarts ==
    /\ ~EngineRefuses
    /\ container' = IF info.state # "running" /\ container.state \in {"running", "restarting"}
                    THEN container ELSE Started

RestartWorks ==
    /\ pc = "restart" /\ CallWorks
    /\ EngineStarts
    /\ attempts' = 0 /\ pc' = "inspectAgain"
    /\ UNCHANGED <<info, wait, row>>

\* The engine refuses, or does not get the call, or its answer is lost.
RestartFails ==
    /\ pc = "restart"
    /\ \/ CallWorks /\ EngineRefuses /\ UNCHANGED container
       \/ CallFails /\ UNCHANGED container
       \/ Fault /\ EngineStarts
    /\ CountAttempt /\ pc' = "report"
    /\ UNCHANGED <<info, wait, row>>

InspectAgain ==
    /\ pc = "inspectAgain"
    /\ \/ InspectWorks("persistAgain")
       \/ InspectFails /\ UNCHANGED attempts

PersistAgain ==
    /\ pc = "persistAgain" /\ pc' = "idle"
    /\ \/ CallWorks /\ row' = RowOf(info)
       \/ CallFails /\ UNCHANGED row
    /\ UNCHANGED <<info, attempts, wait>>

Stop ==
    /\ pc = "idle" /\ cancelled /\ pc' = "done"
    /\ UNCHANGED <<info, attempts, wait, row, faults>>

----------------------------------------------------------------------------
(* The container's own life *)

Becomes(from, to) == container.state \in from /\ container' = [container EXCEPT !.state = to]

\* The engine restarts what ended under the policy docker/spec.go gave it.
EngineRestartsIt(code) ==
    policy \in {"always", "unless-stopped"} \/ (policy = "on-failure" /\ code)

ProcessEnds ==
    /\ container.state = "running"
    /\ \E code \in BOOLEAN :
         container' = [container EXCEPT
             !.failed = code, !.state = IF EngineRestartsIt(code) THEN "restarting" ELSE "exited"]

\* The third retry of on-failure has failed too.
EngineGivesUp ==
    /\ policy = "on-failure" /\ container.failed /\ Becomes({"restarting"}, "exited")

ProbeAnswers ==
    /\ container.state = "running" /\ container.health # "none"
    /\ \E h \in {"healthy", "unhealthy"} \ {container.health} :
         container' = [container EXCEPT !.health = h]

UserStops ==
    /\ container.state \in {"running", "restarting"}
    /\ \E code \in BOOLEAN : container' = [container EXCEPT !.state = "exited", !.failed = code]

UserStarts == container.state = "exited" /\ container' = Started

Change ==
    /\ changes < MaxChanges /\ changes' = changes + 1
    /\ \/ ProcessEnds \/ EngineGivesUp \/ ProbeAnswers
       \/ UserStops \/ UserStarts
       \/ Becomes({"running"}, "paused") \/ Becomes({"paused"}, "running")
       \/ Becomes({"exited"}, "removing")
       \/ \E s \in {"absent", "dead"} : Becomes({"exited", "running", "removing"}, s)

EngineRestart == container.state = "restarting" /\ container' = Started /\ UNCHANGED changes

Cancel == ~cancelled /\ cancelled' = TRUE

----------------------------------------------------------------------------
RestartStep == RestartWorks \/ RestartFails

MonitorStep ==
    /\ \/ Observe \/ Report \/ Persist \/ PersistFails \/ Backoff
       \/ InspectAgain \/ PersistAgain \/ Stop
    /\ UNCHANGED container

Monitor == (MonitorStep \/ RestartStep) /\ UNCHANGED <<policy, cancelled, changes>>

Engine == EngineRestart /\ UNCHANGED <<policy, cancelled, monitor, row, faults>>

Environment ==
    \/ Change /\ UNCHANGED <<policy, cancelled, monitor, row, faults>>
    \/ Cancel /\ UNCHANGED <<policy, container, monitor, row, changes, faults>>

Next == Monitor \/ Engine \/ Environment

Spec == Init /\ [][Next]_vars

\* The monitor's goroutine runs, its timers fire, the engine restarts what it
\* decided to restart.
FairSpec == Spec /\ WF_vars(Monitor) /\ WF_vars(Engine)

----------------------------------------------------------------------------
(* Properties *)

\* Base doubled n times, Base * 2^n.
Doubled[n \in 0..MaxAttempts] == IF n = 0 THEN Base ELSE 2 * Doubled[n - 1]

\* The delay before a restart is Base doubled for every failed attempt after
\* the first, and Ceiling at most (BackoffDelay and the counting in observe).
BackoffDoubles ==
    LET doubled == Doubled[IF attempts = 0 THEN 0 ELSE attempts - 1]
    IN pc = "backoff" => wait = IF doubled < Ceiling THEN doubled ELSE Ceiling

\* No restart without a trace: when the monitor restarts a container, the row
\* already shows the observation that asks for it, and the policy agrees.
ReasonIsRecorded ==
    pc \in {"backoff", "restart"} => row = RowOf(info) /\ ShouldRestart(policy, info)

\* Once the container is left alone the row ends up showing it, whatever calls
\* failed before; of one that is paused, dead or being removed the row alternates
\* with the failed restart.
RowConverges ==
    <>[](cancelled \/ container.state \in {"paused", "removing", "dead"}
         \/ row = IF container.state = "absent" THEN FailedRow ELSE RowOf(container))

\* A container that its policy does not leave down is brought up again, by the
\* engine or, where that gives up or a user stopped it, by the monitor.
RestartedWhenDown ==
    container.state = "exited" /\ ShouldRestart(policy, container)
        ~> container.state # "exited" \/ cancelled

\* "Restarts on failure based on configured policy" (README.md): under
\* on-failure a restart hits a container that is failed or unhealthy.
RestartOnlyOnFailure ==
    [][RestartStep /\ policy = "on-failure" /\ container' # container
         => container.state # "absent" /\ ShouldRestart(policy, container)]_vars
=============================================================================
