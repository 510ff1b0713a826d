----------------------------- MODULE MCDaemon -----------------------------
(***************************************************************************)
(* Instances of Daemon for TLC: three files that follow one another while  *)
(* the daemon is in use, and one file for each way in which a single field *)
(* may be right or wrong.                                                  *)
(***************************************************************************)
EXTENDS Daemon

MCNameText == {"web", "backup", "report"}
MCImageText == {"nginx", "tool"}
MCAbsolutePath == {"/hook", "/Hook", "/health", "/data"}
MCAddressText == {"127.0.0.1"}
MCDurationText == {"30m"}
MCCronText == {"0 2 * * *"}
MCPath == {"/hook", "/health"}
MCMethod == {"POST", "GET"}
MCFoldPath == [p \in MCAbsolutePath |-> IF p = "/Hook" THEN "/hook" ELSE p]

Cron(text, n) == [cron |-> text, fields |-> n]
Nightly == Cron("0 2 * * *", 5)
Rule(kind, path, sel) == [kind |-> kind, path |-> path, sel |-> sel]
Target(kind, name) == [kind |-> kind, name |-> name]
Port(host, container, ip, protocol) ==
    [host |-> host, container |-> container, ip |-> ip, protocol |-> protocol]
Volume(host, container) == [host |-> host, container |-> container]
Check(kind, path, port, command) ==
    [kind |-> kind, path |-> path, port |-> port, command |-> command,
     interval |-> 0, timeout |-> 0, retries |-> 0, startPeriod |-> 0]

Web == [name |-> "web", image |-> "nginx", restart |-> "", ports |-> {}, volumes |-> {},
        healthCheck |-> {}, dependsOn |-> {}]
Backup == [name |-> "backup", image |-> "tool", schedule |-> {Nightly}, timeout |-> "",
           retryCount |-> 0, volumes |-> {}]
Report == [Backup EXCEPT !.name = "report", !.schedule = {Cron("0 99 * * *", 5)}]
Hook(name, path, sel, target) ==
    [name |-> name, type |-> "http", match |-> {Rule("http", path, sel)}, target |-> target]

File(services, jobs, triggers) ==
    [decodes |-> TRUE, apiVersion |-> "orbit.dev/v1alpha1", kind |-> "Stack", name |-> "stack",
     services |-> services, jobs |-> jobs, triggers |-> triggers]

\* Two triggers for one path, one with a target that is not wired; one of a
\* type that no event reaches; one for the path of the health handler.
Served == File(<<Web>>, <<Backup>>,
    <<Hook("a", "/hook", "", Target("job", "backup")),
      Hook("b", "/Hook", "POST", Target("service", "web")),
      [Hook("c", "/hook", "GET", Target("job", "backup")) EXCEPT !.type = "event"],
      Hook("d", "/health", "GET", Target("job", "backup"))>>)
\* A schedule that only the scheduler finds to be wrong, after a good one.
BadCron == File(<<Web>>, <<Backup, Report>>, <<>>)
Later == File(<<>>, <<[Backup EXCEPT !.schedule = {}]>>,
    <<Hook("a", "/hook", "GET", Target("job", "gone"))>>)

OneService(s) == File(<<s>>, <<>>, <<>>)
OneJob(j) == File(<<>>, <<j>>, <<>>)
OneTrigger(t) == File(<<>>, <<>>, <<t>>)
T == Hook("a", "/hook", "", Target("job", "backup"))

\* A field at a time; the numbers are those around a limit.
ServiceVariants ==
    {[Web EXCEPT !.ports = {Port(h, c, "", "tcp")}] : h, c \in {0, 1, 65535, 65536}}
    \cup {[Web EXCEPT !.ports = {Port(80, 80, ip, "")}] : ip \in {"127.0.0.1", "localhost"}}
    \cup {[Web EXCEPT !.ports = {Port(80, 80, "", p)}] : p \in {"udp", "TCP", "sctp"}}
    \cup {[Web EXCEPT !.volumes = {Volume(h, c)}] : h \in {"", "srv"}, c \in {"", "data", "/data"}}
    \cup {[Web EXCEPT !.healthCheck = {Check(k, p, n, c)}] :
             k \in {"http", "tcp", "cmd", "exec"}, p \in {"", "/"}, n \in {0, 80}, c \in {"", "true"}}
    \cup {[Web EXCEPT !.healthCheck = {[Check("tcp", "", 80, "") EXCEPT !.retries = -1]}]}
    \cup {[Web EXCEPT !.restart = r] : r \in {"always", "sometimes"}}
    \cup {[Web EXCEPT !.name = ""], [Web EXCEPT !.image = ""], [Web EXCEPT !.image = "A B"],
          [Web EXCEPT !.dependsOn = {""}]}

JobVariants ==
    {[Backup EXCEPT !.schedule = {Cron("0 2 * *", 4)}], [Backup EXCEPT !.timeout = "30m"],
     [Backup EXCEPT !.timeout = "soon"], [Backup EXCEPT !.retryCount = -1],
     [Backup EXCEPT !.name = ""], [Backup EXCEPT !.image = "A B"],
     [Backup EXCEPT !.volumes = {Volume("srv", "data")}]}

TriggerVariants ==
    {[T EXCEPT !.name = ""], [T EXCEPT !.match = {}], [T EXCEPT !.target.kind = "cron"],
     [T EXCEPT !.match = @ \cup {Rule("mqtt", "topic", "")}], [T EXCEPT !.target.name = ""]}
    \cup {[T EXCEPT !.type = k, !.match = {Rule(k, p, s)}] :
             k \in {"http", "mqtt", "file"}, p \in {"", "topic", "/data"}, s \in {"", "GET", "create"}}
    \cup {[T EXCEPT !.type = t, !.match = {Rule(k, "/data", "")}] :
             t \in {"http", "mqtt", "file", "event"}, k \in {"http", "mqtt", "file"}}

StackVariants ==
    {File(<<Web, Web>>, <<>>, <<>>), File(<<>>, <<Backup, Backup>>, <<>>),
     File(<<>>, <<>>, <<T, T>>), [Later EXCEPT !.decodes = FALSE],
     [Later EXCEPT !.apiVersion = "v1"], [Later EXCEPT !.kind = "Pod"], [Later EXCEPT !.name = ""]}

Variants ==
    {OneService(s) : s \in ServiceVariants} \cup {OneJob(j) : j \in JobVariants}
    \cup {OneTrigger(t) : t \in TriggerVariants} \cup StackVariants

\* The hash of a file is here the file itself: no two have the same.
MCHash == {Served, BadCron, Later} \cup Variants
MCContent == [h \in MCHash |-> h]
MCSuccessors == [h \in MCHash |-> IF h \in Variants THEN {} ELSE {Served, BadCron, Later} \ {h}]
=============================================================================
