SPECIFICATION FairSpec
CONSTANTS
    h1 = h1
    h2 = h2
    web = web
    db = db
    backup = backup
    old = old
    new = new
    Hash = {h1, h2}
    Workload = {web, db, backup}
    Image = {old, new}
    Container = {c1, c2, c3, c4, c5, c6}
    Name = {web, db, backup}
    Services <- MCServices
    Jobs <- MCJobs
    NameOf <- MCNameOf
    Preexisting <- MCPreexisting
    c6 = c6
    NoHash = NoHash
    NoContainer = NoContainer
    Absent = Absent
    MaxFaults = 3
    MaxEdits = 2
    MaxJobs = 1
PROPERTY
    NoNeedlessReplacement
CHECK_DEADLOCK FALSE
