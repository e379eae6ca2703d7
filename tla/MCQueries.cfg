SPECIFICATION QuerySpec
CONSTANTS
    StoreCalls = 2
    StoreEvents = 1
    MaxGeneration = 2
    Limits <- LimitsDef
    NodeBudgets = {1, 2}
    Exclusions = {{}, {2}, {3}}
    Database <- DatabaseDef
    FirstDatabases <- FirstDatabasesDef
    Publications <- PublicationsDef
    Components <- ComponentsDef
    PathComponents <- PathComponentsDef
    Requests <- RequestsDef
    MaxCalls <- MaxCallsDef
    MaxEvents <- MaxEventsDef
CHECK_DEADLOCK FALSE
INVARIANTS
    PagesAreTheResult
    ResultsArePublic
    TraceMeansReachable
    ContinuationAdvances

