SPECIFICATION Spec
CONSTANTS
    None = None
    c1 = c1
    c2 = c2
    p = p
    Calls = {c1, c2}
    Stems = {p}
    Stem <- MCStem
    Files = {1, 2}
    Paths = {"dir"}
    Under <- MCUnder
    Contents = {"x", "y"}
    Digest <- MCDigest
    Size <- MCSize
    Faults <- MCFaults
    Workspaces <- MCWorkspaces
    Usages <- MCUsages
    FILE_CAP = 1
    MaxEdits = 1
    MaxTroubles = 1
    MaxCrashes = 1
INVARIANTS
    TypeOK
    TimeoutLeavesNobody
    SuccessReportsOwnWork
    UntruncatedDiffIsExact
PROPERTIES
    EveryDelegationEnds
CHECK_DEADLOCK FALSE
