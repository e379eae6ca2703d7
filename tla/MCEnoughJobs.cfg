\* Workers: a documented promise the code does not keep.
CONSTANTS
    NoRun = NoRun
    Absent = Absent
    NoInput = NoInput
    NoUnit = NoUnit
    NoCommand = NoCommand
    NoSlot = NoSlot
    NoRequest = NoRequest
    NoView = NoView
    NoReport = NoReport
    s1 = s1
    s2 = s2
    s3 = s3
    d = d
    a = a
    b = b
    k1 = k1
    k2 = k2
    v1 = v1
    v2 = v2
    set1 = set1
    r1 = r1
    Run = {r1}
    MaxWorkers = 3
    Slot = {s1, s2, s3}
    File = {d, a}
    FileContent = {v1}
    Setting = {set1}
    Command = {k1, k2}
    Context = {d}
    Database = d
    CommandOf <- TwoDatabases
    SourceOf <- OneFile
    Reads <- OnlySource
    Requests <- WorkerRequests
    MayHold <- Static
    MaxGen = 2
SPECIFICATION Spec
INVARIANTS
    EnoughJobsAnalyseAll
