------------------------------ MODULE Config ------------------------------
(***************************************************************************)
(* The configuration file: what config.Parse accepts (internal/config and  *)
(* the Validate methods of internal/models), and what the parts of the     *)
(* daemon that use a file later demand of it (internal/docker/spec.go,     *)
(* internal/scheduler, internal/triggers).                                 *)
(*                                                                         *)
(* A text is known by the forms it has: the constants below are the sets   *)
(* of texts that a pattern or a library accepts.  A text of blanks is "".  *)
(* A field that may be missing is a set of at most one value.              *)
(***************************************************************************)
EXTENDS Integers, Sequences, FiniteSets

CONSTANTS
    NameText,      \* serviceNamePattern and jobNamePattern, which are equal
    ImageText,     \* imageNamePattern
    AbsolutePath,  \* texts that begin with a slash
    AddressText,   \* net.ParseIP
    DurationText,  \* time.ParseDuration
    CronText       \* five or six fields that ParseSchedule accepts

ASSUME TextAssumption == "" \notin NameText \cup ImageText \cup AbsolutePath \cup AddressText

PortNumber == 1..65535

\* Fault: of the two ports only the one on the host is looked at.
PortValidOnHost(p) ==
    /\ p.host \in PortNumber
    /\ p.ip = "" \/ p.ip \in AddressText
    /\ p.protocol \in {"", "tcp", "udp"}

PortValid(p) ==
    /\ p.host \in PortNumber /\ p.container \in PortNumber
    /\ p.ip = "" \/ p.ip \in AddressText
    /\ p.protocol \in {"", "tcp", "udp"}

VolumeValid(v) == v.host # "" /\ v.container \in AbsolutePath

HealthCheckValid(h) ==
    /\ \/ h.kind = "http" /\ h.path # "" /\ h.port \in PortNumber
       \/ h.kind = "tcp" /\ h.port \in PortNumber
       \/ h.kind = "cmd" /\ h.command # ""
    /\ \A n \in {h.interval, h.timeout, h.retries, h.startPeriod} : n >= 0

RestartPolicyValid(p) == p \in {"no", "always", "on-failure", "unless-stopped"}

ServiceValid(s) ==
    /\ s.name \in NameText
    /\ s.image # ""
    /\ s.restart = "" \/ RestartPolicyValid(s.restart)
    /\ \A p \in s.ports : PortValid(p)
    /\ \A v \in s.volumes : VolumeValid(v)
    /\ \A h \in s.healthCheck : HealthCheckValid(h)
    /\ "" \notin s.dependsOn

\* Only the number of fields is looked at.
ScheduleValid(c) == c.fields \in {5, 6}

JobValid(j) ==
    /\ j.name \in NameText
    /\ j.image # ""
    /\ \A c \in j.schedule : ScheduleValid(c)
    /\ j.timeout = "" \/ j.timeout \in DurationText
    /\ j.retryCount >= 0
    /\ \A v \in j.volumes : VolumeValid(v)

\* A match rule of a trigger: its kind, its path or topic, its method or event.
RuleValid(m) ==
    \/ /\ m.kind = "http" /\ m.path \in AbsolutePath
       /\ m.sel \in {"", "GET", "POST", "PUT", "PATCH", "DELETE", "HEAD", "OPTIONS"}
    \/ m.kind = "mqtt" /\ m.path # ""
    \/ /\ m.kind = "file" /\ m.path \in AbsolutePath
       /\ m.sel \in {"", "create", "write", "remove", "rename"}

TargetValid(t) == t.kind \in {"service", "job", "trigger", "stack"} /\ t.name # ""

TriggerValid(t) ==
    /\ t.name # ""
    /\ t.type \in {"http", "mqtt", "file", "event"}
    /\ Cardinality(t.match) = 1
    /\ \A m \in t.match : RuleValid(m) /\ (t.type = "event" \/ m.kind = t.type)
    /\ TargetValid(t.target)

UniqueNames(list) ==
    \A i, k \in DOMAIN list : list[i].name = list[k].name => i = k

\* Stack.Validate, which Run calls once more.
StackValid(c) ==
    /\ c.name # ""
    /\ \A i \in DOMAIN c.services : ServiceValid(c.services[i])
    /\ \A i \in DOMAIN c.jobs : JobValid(c.jobs[i])
    /\ \A i \in DOMAIN c.triggers : TriggerValid(c.triggers[i])

\* The triggers package has a check of its own of the set it is given.
TriggerSetValid(list) ==
    (\A i \in DOMAIN list : TriggerValid(list[i])) /\ UniqueNames(list)

\* config.Validate
ConfigValid(c) ==
    /\ c.apiVersion = "orbit.dev/v1alpha1" /\ c.kind = "Stack"
    /\ StackValid(c)
    /\ \A i \in DOMAIN c.services : c.services[i].image \in ImageText
    /\ \A i \in DOMAIN c.jobs : c.jobs[i].image \in ImageText
    /\ UniqueNames(c.services) /\ UniqueNames(c.jobs) /\ UniqueNames(c.triggers)

\* config.Parse: the file is YAML with known fields only, and valid.
Parses(c) == c.decodes /\ ConfigValid(c)

----------------------------------------------------------------------------
(* What is demanded later: docker.BuildCreateConfig and its helpers *)

Lower(protocol) == CASE protocol = "TCP" -> "tcp" [] protocol = "UDP" -> "udp" [] OTHER -> protocol

MountsBuild(volumes) ==
    \A v \in volumes : v.host # "" /\ v.container # "" /\ v.container \in AbsolutePath

PortBindingsBuild(ports) ==
    \A p \in ports :
        /\ p.host \in PortNumber /\ p.container \in PortNumber
        /\ p.ip = "" \/ p.ip \in AddressText
        /\ Lower(p.protocol) \in {"", "tcp", "udp"}

HealthCheckBuilds(h) ==
    \/ h.kind = "http" /\ h.port \in PortNumber /\ h.path # ""
    \/ h.kind = "tcp" /\ h.port \in PortNumber
    \/ h.kind = "cmd" /\ h.command # ""

\* A job has no ports and no health check; the name is made from the stack's.
CreateConfigBuilds(image, volumes, ports, healthCheck) ==
    /\ image # ""
    /\ MountsBuild(volumes)
    /\ PortBindingsBuild(ports)
    /\ \A h \in healthCheck : HealthCheckBuilds(h)

ServiceBuilds(s) == CreateConfigBuilds(s.image, s.volumes, s.ports, s.healthCheck)

\* RunOnce validates the job again and reads its timeout before it does this.
JobBuilds(j) ==
    /\ JobValid(j)
    /\ j.timeout = "" \/ j.timeout \in DurationText
    /\ CreateConfigBuilds(j.image, j.volumes, {}, {})

\* Scheduler.Register: the expression has to parse and to have an instant.
CronBuilds(c) == c.cron \in CronText
=============================================================================
