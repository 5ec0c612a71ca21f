SPECIFICATION Spec
CONSTANTS
    Writers = {w1, w2, w3}
    MaxSize = 2
    MaxLines = 6
    MaxCrashes = 1
SYMMETRY Symmetry
INVARIANTS
    LogIsATail
    RotationExclusive
CHECK_DEADLOCK FALSE
