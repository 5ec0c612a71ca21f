SPECIFICATION Spec
CONSTANTS
    None = None
    Torn = Torn
    slashes = slashes
    Files = {f1, f2}
    Names = {slashes}
    Escape <- MCEscape
    RunWrites = {w}
    UserWrites = {u}
    Committed = {h}
    Uncommitted = {d}
    MaxWrites = 2
    MaxMeddling = 2
SYMMETRY Symmetry
INVARIANTS
    TypeOK
PROPERTIES
    RevertRestores
    ForeignEditsSurvive
CHECK_DEADLOCK FALSE
