SPECIFICATION Spec
CONSTANTS
    None = None
    Torn = Torn
    slashes = slashes
    Files = {f1, f2}
    Names = {slashes}
    Escape <- MCEscape
    RunWrites = {w}
    UserWrites = {u}
    Committed = {h}
    Uncommitted = {d}
    MaxWrites = 2
    MaxMeddling = 0
SYMMETRY Symmetry
PROPERTY RevertRestoresPreRunState
CHECK_DEADLOCK FALSE
