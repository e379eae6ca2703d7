\* A Store inspection beside a read-only one, with fairness.
CONSTANTS
    i1 = i1
    o1 = o1
    q1 = q1
    s1 = s1
    fa = fa
    fb = fb
    c1 = c1
    Inspector = {i1}
    ReadOnly = {o1}
    Publisher = Publisher
    Profile = {q1}
    UhtProfile = {q1}
    Slot = {s1}
    File = {fa}
    Content = {c1}
    RoleOf <- RolesOfFiles
    Inputs <- TwoInputs
    MaxGen = 2
    NoProc = NoProc
    Absent = Absent
    NoInput = NoInput
    NoUnit = NoUnit
    NoVerdict = NoVerdict
    NoPlan = NoPlan
    NoReport = NoReport
SPECIFICATION FairSpec
PROPERTIES
    InspectionEnds
    CompleteMeansCurrent
