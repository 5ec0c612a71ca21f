SPECIFICATION RunSpec
CONSTANTS
    None = None
    opus = opus
    flash = flash
    worker = worker
    tier = tier
    Policies <- MCPolicies
    SlotChoices <- MCChoices
    TaskContexts <- MCContexts
    Usages <- MCUsages
    MaxEvents = 2
INVARIANTS
    RunTypeOK
    LosersNeverRouted
    OnlyMissingDefaultThrows
    GreenfieldUnaffected
    ReplayRoutesAlike
CHECK_DEADLOCK FALSE
