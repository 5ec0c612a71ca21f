SPECIFICATION Spec
CONSTANTS
    None = None
    p1 = p1
    p2 = p2
    shipped = shipped
    opus = opus
    flash = flash
    tier = tier
    Projects = {p1}
    Terminals = {}
    Names = {shipped, mine, other}
    NamesOf <- MCNamesOf
    PHASES <- MCPHASES
    INTENTS <- MCINTENTS
    INTENT_SKIPPED_PHASES <- MCSkipped
    ModelIds = {opus, flash}
    NewModel = "config"
    ShippedPolicies <- MCShipped
    HandPolicies <- MCHand
    Contexts <- MCContexts
    ProjectFiles <- MCFiles
    MaxChoices = 1
    MaxWrites = 2
    MaxFlows = 2
PROPERTY UntouchedPhasesKeepTheirRoute
CHECK_DEADLOCK FALSE
