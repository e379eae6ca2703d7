\* Two writing openers of different roots and two readers; two spool
\* processes; two slots of shared rows.
CONSTANTS
    w1 = w1
    w2 = w2
    rd1 = rd1
    rd2 = rd2
    ra = ra
    rb = rb
    i1 = i1
    i2 = i2
    Opener = {w1, w2}
    Reader = {rd1, rd2}
    Root = {ra, rb}
    RootOf <- RootsOfProcesses
    AnyRoot = AnyRoot
    Absent = Absent
    Empty = Empty
    Foreign = Foreign
    Newer = Newer
    NoProc = NoProc
    SpoolProcess = {o1, o2}
    SpoolName = {n1, n2, n3}
    Item = {i1, i2}
    ItemSize <- SizesOfItems
    MaxEntries = 2
    NoName = NoName
    NoOwner = NoOwner
    Orphan = Orphan
    a = a
    b = b
    b2 = b2
    f = f
    v1 = v1
    v2 = v2
    h = h
    Slot = {s1, s2}
    Path = {f}
    Digest = {v1, v2}
    Symbol = {a, b, b2}
    Dependency = {h}
    IdOf <- Ids
    Contributions <- Three
    MaxRow = 4
    NoPath = NoPath
    NoRow = NoRow
    NoEntry = NoEntry
    NoUnit = NoUnit
SPECIFICATION Spec
SYMMETRY SpoolSymmetry
INVARIANTS
    OpenMeansOwn
    SpoolHoldsEntries
    LeftoversGo
    ForeignKeysHold
    NothingOrphaned
    RowsDenoteContributions
PROPERTIES
    FoundIsKept
