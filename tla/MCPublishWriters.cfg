\* Two writers and a reader, WAL journal.
CONSTANTS
    p1 = p1
    p2 = p2
    r1 = r1
    q1 = q1
    s1 = s1
    s2 = s2
    l1 = l1
    l2 = l2
    f1 = f1
    Proc = {p1, p2}
    Reader = {r1}
    Profile = {q1}
    Slot = {s1, s2}
    Label = {l1, l2}
    Facts = {f1}
    Batches <- FewBatches
    Wal = TRUE
    MaxAttempts = 3
    NoProc = NoProc
    NoUnit = NoUnit
    NoTx = NoTx
    NoSnap = NoSnap
    NoOp = NoOp
    NoResult = NoResult
SPECIFICATION Spec
SYMMETRY ValueSymmetry
INVARIANTS
    RecoveryIsComplete
    OperationStaysAccepted
    ResultIsHonest
    GenerationNamesContent
PROPERTIES
    ImplementsContract
