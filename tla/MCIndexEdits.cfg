\* One run at a time with up to two workers over three slots, the database and
\* their sources edited at any moment.
CONSTANTS
    NoRun = NoRun
    Absent = Absent
    NoInput = NoInput
    NoUnit = NoUnit
    NoCommand = NoCommand
    NoSlot = NoSlot
    NoRequest = NoRequest
    NoView = NoView
    NoReport = NoReport
    s1 = s1
    s2 = s2
    s3 = s3
    d = d
    a = a
    b = b
    k1 = k1
    k2 = k2
    v1 = v1
    v2 = v2
    set1 = set1
    r1 = r1
    Run = {r1}
    MaxWorkers = 2
    Slot = {s1, s2, s3}
    File = {d, a, b}
    FileContent = {v1, v2}
    Setting = {set1}
    Command = {k1, k2}
    Context = {d}
    Database = d
    CommandOf <- TwoDatabases
    SourceOf <- OwnSource
    Reads <- OnlySource
    Requests <- PoolRequests
    MayHold <- SomeEdits
    MaxGen = 3
SPECIFICATION Spec
INVARIANTS
    ReportIsSequential
PROPERTIES
    SuccessMeansCurrent
