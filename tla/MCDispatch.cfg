SPECIFICATION Spec
CONSTANTS
    None = None
    opus = opus
    flash = flash
    tier = tier
    Keys <- MCKeys
    InitialDisks <- MCDisks
    Policies <- MCPolicies
    SlotChoices <- MCChoices
    Contexts <- MCContexts
    Calls = {c1, c2}
    MaxAttempts = 2
    MaxOthers = 2
SYMMETRY Symmetry
INVARIANTS
    TypeOK
    EventTellsTheRoute
    TelemetryMatchesBilling
PROPERTIES
    PreflightIsAPromise
CHECK_DEADLOCK FALSE
