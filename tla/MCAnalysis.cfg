CONSTANTS
    t1 = t1
    t2 = t2
    cpp = cpp
    w1 = w1
    w2 = w2
    x1 = x1
    x2 = x2
    o1 = o1
    guard = guard
    Absent = Absent
    NoThread = NoThread
    NoCommand = NoCommand
    NoRequest = NoRequest
    Thread <- AThread
    Path <- APath
    Meaning <- AMeaning
    Guard = guard
    EmptyText = "empty"
    Workloads <- AWorkloads
    Versions <- AVersions
    Probed <- AProbed
    r1 = r1
    r2 = r2
    r3 = r3
    NoFile = NoFile
    Garbage = Garbage
    Expansions <- AExpansions
    Rewrites <- ARewrites
    fn = fn
    member = member
    ext = ext
    ua = ua
    ub = ub
    Symbol <- ASymbol
    External <- AExternal
    Unit <- AUnit
    Results <- AResults
    Contributions <- AContributions
    WordMax = 1000
    Reservable = 5000
    Strange = {0, 2, 300, 9000}
    Sources <- SomeSources
    MainSource = "main"
    MaxVisits = 8
    Documents <- SomeDocuments
    PathKey <- SomePathKey
    Canonical <- SomeCanonical
    Inode = {"one", "two"}
    Back = "slash"
    Quote = "q"
    Apostrophe = "'"
    Blank = " "
    MaxChanges = 2
SPECIFICATION StageSpec
INVARIANTS
    ReplayIsThePch
    ProvenPrefixCannotDrift
    ExpansionIsOfSnapshots
    RefusedForACauseOnly
    CommandsAreTheirEntries
    LookupIsTheFilesystems
    IncludesAreTrueOfTheirVisit
    GraphIsWhatUnitsSay
    WhatIsReadWasWritten
PROPERTY AnalysesEnd
CHECK_DEADLOCK FALSE
