\* One writer and a reader that may never close, every bounded batch over two
\* profiles, two slots and two labels, rollback journal, with fairness.
CONSTANTS
    p1 = p1
    r1 = r1
    q1 = q1
    q2 = q2
    s1 = s1
    s2 = s2
    l1 = l1
    l2 = l2
    f1 = f1
    Proc = {p1}
    Reader = {r1}
    Profile = {q1, q2}
    Slot = {s1, s2}
    Label = {l1, l2}
    Facts = {f1}
    Batches <- MostBatches
    Wal = FALSE
    MaxAttempts = 2
    NoProc = NoProc
    NoUnit = NoUnit
    NoTx = NoTx
    NoSnap = NoSnap
    NoOp = NoOp
    NoResult = NoResult
SPECIFICATION FairSpec
INVARIANTS
    UnitsAreReplay
PROPERTIES
    ReplacementIsAtomic
    PublicationConcludes
