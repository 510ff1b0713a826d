SPECIFICATION Spec
CONSTANTS
    h1 = h1
    h2 = h2
    web = web
    db = db
    backup = backup
    old = old
    new = new
    Hash = {h1, h2}
    Workload = {web, db, backup}
    Image = {old, new}
    Container = {c1, c2, c3, c4, c5, c6}
    Name = {web, db, backup}
    Services <- SharedServices
    Jobs <- SharedJobs
    NameOf <- MCNameOf
    Preexisting <- NameClash
    c6 = c6
    NoHash = NoHash
    NoContainer = NoContainer
    Absent = Absent
    MaxFaults = 2
    MaxEdits = 0
    MaxJobs = 2
INVARIANT
    ProcessedDeployed
CHECK_DEADLOCK FALSE
