\* Two runs that compete for the lock, with fairness.
CONSTANTS
    NoRun = NoRun
    Absent = Absent
    NoInput = NoInput
    NoUnit = NoUnit
    NoCommand = NoCommand
    NoSlot = NoSlot
    NoRequest = NoRequest
    NoView = NoView
    NoReport = NoReport
    s1 = s1
    s2 = s2
    s3 = s3
    d = d
    a = a
    b = b
    k1 = k1
    k2 = k2
    v1 = v1
    v2 = v2
    set1 = set1
    r1 = r1
    r2 = r2
    Run = {r1, r2}
    MaxWorkers = 1
    Slot = {s1}
    File = {d, a}
    FileContent = {v1}
    Setting = {set1}
    Command = {k1, k2}
    Context = {d}
    Database = d
    CommandOf <- TwoDatabases
    SourceOf <- OwnSource
    Reads <- OnlySource
    Requests <- KindRequests
    MayHold <- Static
    MaxGen = 2
SPECIFICATION FairSpec
INVARIANTS
    PlanIsCurrent
PROPERTIES
    RunEnds
    UsesContract
