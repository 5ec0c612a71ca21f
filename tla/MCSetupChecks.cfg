SPECIFICATION Spec
CONSTANTS
    None = None
    Torn = Torn
    Shells <- MCShells
    Machines <- MCMachines
    Documents <- MCDocuments
    MaxEdits = 1
INVARIANTS
    SwitchedInStep
    UserKeysKept
    GreenMeansStartable
    DoorIsAsReported
CHECK_DEADLOCK FALSE
