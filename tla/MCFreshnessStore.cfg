\* An inspection through a Store, two slots, one profile.
CONSTANTS
    i1 = i1
    q1 = q1
    s1 = s1
    s2 = s2
    fa = fa
    fb = fb
    c1 = c1
    Inspector = {i1}
    ReadOnly = {}
    Publisher = Publisher
    Profile = {q1}
    UhtProfile = {q1}
    Slot = {s1, s2}
    File = {fa, fb}
    Content = {c1}
    RoleOf <- RolesOfFiles
    Inputs <- TwoInputs
    MaxGen = 3
    NoProc = NoProc
    Absent = Absent
    NoInput = NoInput
    NoUnit = NoUnit
    NoVerdict = NoVerdict
    NoPlan = NoPlan
    NoReport = NoReport
SPECIFICATION Spec
SYMMETRY SlotSymmetry
INVARIANTS
    VerdictsAreOfLiveUnits
PROPERTIES
    FreshIsWitnessed
    StaleIsWitnessed
    IncompleteLeavesNothingFresh
